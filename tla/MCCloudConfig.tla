----------------------------- MODULE MCCloudConfig -----------------------------
(* Instances of CloudConfig for TLC: two devices, one the manager of a cluster  *)
(* with a puller of its own and a slicer on either device, the other the        *)
(* manager of a cluster with only a slicer.                                     *)
EXTENDS CloudConfig, TLC

CONSTANTS a, b

Cfg(puller, slicer, valid) ==
    [mod |-> "puller" :> puller @@ "slicer" :> slicer, valid |-> valid]

Both == Cfg(<<a, "s">>, <<b, "s">>, TRUE)
Moved == Cfg(<<a, "s">>, <<a, "s">>, TRUE)
Changes == Cfg(<<a, "t">>, <<b, "s">>, TRUE)
OnlyPuller == Cfg(<<a, "s">>, Absent, TRUE)
OtherSlicer == Cfg(Absent, <<b, "t">>, TRUE)
OtherBroken == Cfg(Absent, <<b, "t">>, FALSE)

Bodies ==
    {a :> v : v \in {Both, Moved, OnlyPuller}}
    \cup {a :> Changes @@ b :> OtherBroken, a :> Empty @@ b :> OtherSlicer}
===============================================================================
