------------------------------- MODULE MCEvDaemon -------------------------------
(* Instances of EvDaemon for TLC: evmgr and one or two other modules.           *)
EXTENDS EvDaemon, TLC

CONSTANTS evmgr, evpuller, evslicer

\* evmgr always on, evpuller as given.
Just(v) == (evmgr :> "s") @@ (evpuller :> v)

\* evmgr and two modules, all on.
AllOn == [x \in {evmgr, evpuller, evslicer} |-> "s"]

\* A device without a configuration.
Nothing == [x \in {evmgr, evpuller} |-> "absent"]

None == {}
OnOffGone == {Just("s"), Just("t"), Just("off"), Just("absent")}
OnOff == {Just("s"), Just("off")}
InitOn == Just("s")

\* One more configuration, in which evpuller is not got to.
OneBroken == OnOffGone \cup {Just("u")}

AllRead == [c \in Configs \cup {InitConfig, NoConfig} |-> Modules]
SomeRead == [AllRead EXCEPT ![Just("u")] = {evmgr}]
================================================================================
