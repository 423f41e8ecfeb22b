----------------------------- MODULE StreamRestart -----------------------------
(***************************************************************************)
(* The handshake for a stream together with the count evdaemon keeps of a  *)
(* module that restarts again and again.  A consumer exits whenever it     *)
(* waits in vain or gets a second format, evdaemon starts it again each    *)
(* time, and counts.  One consumer is watched.                             *)
(***************************************************************************)
EXTENDS StreamHandshake

CONSTANTS
    Watched,                             \* the consumer whose connections are followed
    Often, Quick, Stable, Now, MaxCount  \* see LoopRestart

VARIABLES silent, contConn, tsLastConn, loop, conns

loopVars == <<silent, contConn, tsLastConn, loop, conns>>
vars == <<streamVars, loopVars>>

Up == proc[Watched] # "down"

Loop == INSTANCE LoopRestart WITH up <- Up

ASSUME StreamRestartAssumption == Watched \in Consumers /\ Loop!LoopConstants

\* evdaemon sees the watched consumer come and go.
Watch ==
    \/ ~Up /\ Up' /\ Loop!Connected
    \/ Up /\ ~Up' /\ Loop!Disconnected
    \/ Up = Up' /\ UNCHANGED loopVars

Init == StreamInit /\ Loop!Init

Next ==
    \/ StreamNext /\ Watch
    \/ UNCHANGED streamVars /\ (Loop!Tick \/ Loop!Talks \/ Loop!Ping)

Spec == Init /\ [][Next]_vars

\* evdaemon starts what is down, the threads of the modules and of evmgr run, a camera
\* that is opened delivers packets until it fails, time passes, and the heartbeat runs.
FairSpec ==
    /\ Spec
    /\ WF_vars(PullerStarts /\ Watch)
    /\ WF_vars(PullerGoesLive /\ Watch)
    /\ WF_vars(PullerAnswers /\ Watch)
    /\ \A c \in Consumers :
          /\ WF_vars(ConsumerStarts(c) /\ Watch)
          /\ WF_vars(SendsHello(c) /\ Watch)
          /\ WF_vars(TakesFormat(c) /\ Watch)
          /\ WF_vars(SetsUpStream(c) /\ Watch)
          /\ WF_vars(GivesUp(c) /\ Watch)
    /\ \A x \in Peers : WF_vars(MgrReads(x) /\ Watch)
    /\ WF_vars(UNCHANGED streamVars /\ Loop!Tick)
    /\ WF_vars(UNCHANGED streamVars /\ Loop!Ping)

--------------------------------------------------------------------------------
(* Properties *)

\* evdaemon says that a consumer restarts frequently only when it connected more than
\* Often times since the count was last forgotten.
ReportEarned == Loop!ReportEarned

\* A consumer that the handshake or its own faults make exit again and again is not
\* overlooked.
LoopNoticed == Loop!LoopNoticed
================================================================================
