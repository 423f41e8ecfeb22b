----------------------------- MODULE MCCloudStatus -----------------------------
(* Instance of CloudStatus for TLC: two devices with one module each.           *)
EXTENDS CloudStatus, TLC

CONSTANTS d1, d2, m1, m2

OnePerDevice == (m1 :> d1) @@ (m2 :> d2)
Both(a, b) == (m1 :> a) @@ (m2 :> b)

InitOn == Both("on", "on")
Changes == {Both("off", "none"), Both("none", "none")}
================================================================================
