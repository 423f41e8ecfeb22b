------------------------------- MODULE LoopRestart -------------------------------
(***************************************************************************)
(* How evdaemon notices that a module restarts again and again: the router *)
(* thread counts its connections and reports it when it starts the module  *)
(* once more, the heartbeat thread forgets the count, and reports that,    *)
(* when the module was silent long enough (evdaemon.cpp).  One module that *)
(* stays enabled is followed; EvDaemon models everything else about it.    *)
(*                                                                         *)
(* Both reports carry the status "recover": evcloudsvc raises an alarm for *)
(* neither, so there is none here to raise or to withdraw.                 *)
(*                                                                         *)
(* Times are seconds since the epoch in the code.  Here the present is     *)
(* only known to be at least Now, and silence is counted up to one second  *)
(* more than it is compared with.                                          *)
(***************************************************************************)
EXTENDS Integers, FiniteSetsExt

CONSTANTS
    Often,      \* connections in a row the daemon accepts, 4 in the code
    Quick,      \* seconds between two of them, 3 in the code
    Stable,     \* seconds of silence after which the loop is over, 22 in the code
    Now,        \* a time that has passed
    MaxCount    \* bound: connections counted, more are as many

\* What the constants are; StreamRestart assumes it of its own.
LoopConstants ==
    /\ {Often, Quick, Stable, Now, MaxCount} \subseteq Nat
    /\ Now > Stable /\ Now > MaxCount
    /\ MaxCount > Often + 2

VARIABLES
    up,         \* status is a time, not 0
    silent,     \* seconds since that time
    contConn,   \* contConn, -1 when absent
    tsLastConn, \* whether it is present: its time is compared with nothing
    loop,       \* the last report of a restart loop, "restarts" or "over"
    conns       \* connections since the start or since the count was forgotten

vars == <<up, silent, contConn, tsLastConn, loop, conns>>

UpTo(n) == Min({n, MaxCount})

\* A second passes.
Tick ==
    /\ silent <= Stable
    /\ silent' = silent + 1
    /\ UNCHANGED <<up, contConn, tsLastConn, loop, conns>>

\* The count is compared with the time instead of the time of the last connection.
Delta == contConn - Now

\* Mutant of Counted: the counter starts at the first connection with its limit.
CountedAtOnce == IF ~tsLastConn THEN Often + 1 ELSE contConn + 1

\* Mutant of Counted: the counter goes on for slow connections and starts again for
\* quick ones.
CountedWhenSlow ==
    IF ~tsLastConn THEN contConn
    ELSE IF contConn = -1 THEN 0
    ELSE IF Delta >= Quick THEN UpTo(contConn + 1)
    ELSE 0

\* The counter after one more connection: the first is not counted, the second
\* creates the counter.
Counted ==
    IF ~tsLastConn THEN contConn
    ELSE IF contConn = -1 THEN 0
    ELSE IF Delta < Quick THEN UpTo(contConn + 1)
    ELSE 0

\* The module connects (the counting part of handleEdgeMsg).
Connected ==
    /\ ~up
    /\ up' = TRUE
    /\ silent' = 0
    /\ contConn' = Counted
    /\ tsLastConn' = TRUE
    /\ conns' = UpTo(conns + 1)
    /\ UNCHANGED loop

\* A message of the module, whatever it is, sets its status to the present.
Talks ==
    /\ up
    /\ silent # 0
    /\ silent' = 0
    /\ UNCHANGED <<up, contConn, tsLastConn, loop, conns>>

\* The module disconnects and is started again, with a report when the count is high.
\* The router thread calls startSubSystems for one module here and nowhere else.
Disconnected ==
    /\ up
    /\ up' = FALSE
    /\ silent' = Stable + 1
    /\ loop' = IF contConn > Often THEN "restarts" ELSE loop
    /\ UNCHANGED <<contConn, tsLastConn, conns>>

\* The heartbeat takes the loop for over: a module that is down has status 0, and
\* 0 is a very long time ago.
LoopOver == up => silent > Stable

\* The heartbeat forgets the count.
Ping ==
    /\ contConn > Often
    /\ LoopOver
    /\ contConn' = 0
    /\ loop' = "over"
    /\ conns' = 0
    /\ UNCHANGED <<up, silent, tsLastConn>>

Init ==
    /\ up = FALSE /\ silent = Stable + 1
    /\ contConn = -1 /\ tsLastConn = FALSE
    /\ loop = "none"
    /\ conns = 0

Next == Tick \/ Connected \/ Talks \/ Disconnected \/ Ping

Spec == Init /\ [][Next]_vars

--------------------------------------------------------------------------------
(* Properties *)

\* evdaemon says that a module restarts frequently only when it connected more than Often
\* times since the count was last forgotten.
ReportEarned == loop = "restarts" => conns > Often

\* A module that connects again and again is not overlooked: the first connection is not
\* counted and the second only creates the counter, but after two more than Often it is
\* reported whenever it is started again.
LoopNoticed == conns > Often + 2 => contConn > Often
================================================================================
