--------------------------------- MODULE Motion ---------------------------------
(***************************************************************************)
(* evmlmotion: the motion detector of a camera.  The main thread compares  *)
(* each processed frame with the one before it and runs a state machine    *)
(* that opens and closes events; a second thread takes the openings and    *)
(* closings from a queue without a lock, tells evdaemon each of them, and  *)
(* tells evslicer each event that is complete (evmlmotion.cpp).            *)
(*                                                                         *)
(* What the picture analysis finds in a frame is a choice: motion, none,   *)
(* or too little contrast to tell.  Frames that are skipped to save time   *)
(* are time that passes.                                                   *)
(***************************************************************************)
EXTENDS BoundedQueue, Integers

CONSTANTS
    Pre, Post,      \* detPara.pre and detPara.post, in seconds
    MaxDuration,    \* 60 * detPara.maxDuration, in seconds
    QueueCap,       \* MAX_EVENT_QUEUE_SIZE * 2
    MaxTime,        \* bound: the time
    MaxRestarts     \* bound: restarts of the process

ASSUME MotionAssumption ==
    /\ {Pre, Post, MaxDuration, MaxTime, MaxRestarts} \subseteq Nat
    /\ QueueCap \in Nat \ {0}

VARIABLES
    \* the main thread
    first,            \* no frame to compare with yet
    packetTm,         \* time of the frame, from evpuller
    evtState,
    evtStartTmLast,   \* time of the last motion, 0 for none
    evtStartTmOrig,   \* time the event began
    evtQueue,
    \* the event thread
    front,            \* the copy of the front it has made, as a sequence
    eventToSlicer,    \* the start of the event it puts together, as a sequence
    \* history
    sent,             \* what evslicer was sent, <<start, end>>
    told,             \* what evdaemon was told
    log,              \* the openings and closings, in order
    suspect,          \* a motion that has not become an event yet, as a set
    motions,          \* the other times of motion
    overflowed,       \* the queue has dropped something
    restarts

detector == <<first, evtState, evtStartTmLast, evtStartTmOrig>>
relay == <<front, eventToSlicer, sent, told>>
vars == <<first, packetTm, evtState, evtStartTmLast, evtStartTmOrig, evtQueue,
          front, eventToSlicer, sent, told, log, suspect, motions, overflowed, restarts>>

Opening(ts) == [event |-> "start", ts |-> ts]
Closing(ts) == [event |-> "end", ts |-> ts]

\* makeEvent, for one or two of them.
Made(events) ==
    LET once == PushDropOldest(evtQueue, events[1], QueueCap)
    IN  /\ evtQueue' = IF Len(events) = 1 THEN once
                       ELSE PushDropOldest(once, events[2], QueueCap)
        /\ log' = log \o events
        /\ overflowed' = (overflowed \/ Len(evtQueue) + Len(events) > QueueCap)

--------------------------------------------------------------------------------
(* detectMotion *)

TimePasses ==
    /\ packetTm < MaxTime
    /\ packetTm' = packetTm + 1
    /\ UNCHANGED <<detector, evtQueue, relay, log, suspect, motions, overflowed, restarts>>

\* The first frame is only kept.
FirstFrame ==
    /\ first
    /\ first' = FALSE
    /\ UNCHANGED <<packetTm, evtState, evtStartTmLast, evtStartTmOrig, evtQueue, relay,
                   log, suspect, motions, overflowed, restarts>>

\* Mutant of OpeningTime: an event opens when it is confirmed.
ConfirmedTime == packetTm

\* An event opens with the motion that aroused suspicion.
OpeningTime == evtStartTmOrig

\* A frame with motion; one without enough contrast changes nothing.
MotionFrame ==
    /\ ~first
    /\ evtStartTmLast' = packetTm
    /\ \/ /\ evtState = "NONE"
          /\ evtState' = "PRE"
          /\ evtStartTmOrig' = packetTm
          /\ suspect' = {packetTm}
          /\ UNCHANGED <<evtQueue, log, motions, overflowed>>
       \/ /\ evtState = "PRE"
          /\ evtState' = "IN"
          /\ Made(<<Opening(OpeningTime)>>)
          /\ motions' = motions \cup suspect \cup {packetTm}
          /\ suspect' = {}
          /\ UNCHANGED evtStartTmOrig
       \/ /\ evtState = "IN"
          /\ \/ /\ packetTm - evtStartTmOrig > MaxDuration
                /\ evtStartTmOrig' = packetTm
                /\ Made(<<Closing(packetTm), Opening(packetTm)>>)
             \/ /\ packetTm - evtStartTmOrig <= MaxDuration
                /\ UNCHANGED <<evtStartTmOrig, evtQueue, log, overflowed>>
          /\ motions' = motions \cup {packetTm}
          /\ UNCHANGED <<evtState, suspect>>
       \/ /\ evtState = "POST"
          /\ evtState' = "IN"
          /\ motions' = motions \cup {packetTm}
          /\ UNCHANGED <<evtStartTmOrig, evtQueue, log, suspect, overflowed>>
    /\ UNCHANGED <<first, packetTm, relay, restarts>>

Dura == IF evtStartTmLast = 0 THEN 0 ELSE packetTm - evtStartTmLast

\* Mutant of Over: an event ends with the time after which it may end.
OverAtHalf == Dura > Post \div 2

\* The event is over.
Over == Dura > Post

StillFrame ==
    /\ ~first
    /\ \/ /\ evtState = "PRE" /\ Dura > Pre
          /\ evtState' = "NONE"
          /\ suspect' = {}
          /\ UNCHANGED <<evtQueue, log, overflowed>>
       \/ /\ evtState = "IN" /\ Dura > Post \div 2
          /\ evtState' = "POST"
          /\ UNCHANGED <<evtQueue, log, suspect, overflowed>>
       \/ /\ evtState = "POST" /\ Over
          /\ evtState' = "NONE"
          /\ Made(<<Closing(packetTm)>>)
          /\ UNCHANGED suspect
    /\ UNCHANGED <<first, packetTm, evtStartTmLast, evtStartTmOrig, relay, motions, restarts>>

--------------------------------------------------------------------------------
(* The event thread *)

\* It copies the front of the queue ...
Looks ==
    /\ front = <<>>
    /\ evtQueue # <<>>
    /\ front' = <<Head(evtQueue)>>
    /\ UNCHANGED <<detector, packetTm, evtQueue, eventToSlicer, sent, told, log, suspect,
                   motions, overflowed, restarts>>

\* Mutant of Cleared: the event sent is kept for the next.
NotCleared == eventToSlicer

\* The event sent is forgotten, with its sender.
Cleared == <<>>

\* ... and then pops what is the front by now, handles the copy and tells evdaemon.
Relays ==
    /\ front # <<>>
    /\ evtQueue' = Tail(evtQueue)
    /\ \/ /\ front[1].event = "start"
          /\ eventToSlicer' = <<front[1].ts>>
          /\ UNCHANGED sent
       \/ /\ front[1].event = "end"
          /\ sent' = Append(sent, eventToSlicer \o <<front[1].ts>>)
          /\ eventToSlicer' = Cleared
    /\ told' = told \o front
    /\ front' = <<>>
    /\ UNCHANGED <<detector, packetTm, log, suspect, motions, overflowed, restarts>>

--------------------------------------------------------------------------------

\* The process ends, with a second stream format for instance, and is started again:
\* the event in progress and the queue are gone.
Restart ==
    /\ restarts < MaxRestarts
    /\ restarts' = restarts + 1
    /\ first' = TRUE
    /\ evtState' = "NONE"
    /\ evtStartTmLast' = 0 /\ evtStartTmOrig' = 0
    /\ evtQueue' = <<>>
    /\ front' = <<>> /\ eventToSlicer' = <<>>
    /\ sent' = <<>> /\ told' = <<>> /\ log' = <<>>
    /\ suspect' = {} /\ motions' = {}
    /\ overflowed' = FALSE
    /\ UNCHANGED packetTm

Init ==
    /\ first = TRUE
    /\ packetTm = 1
    /\ evtState = "NONE"
    /\ evtStartTmLast = 0 /\ evtStartTmOrig = 0
    /\ evtQueue = <<>>
    /\ front = <<>> /\ eventToSlicer = <<>>
    /\ sent = <<>> /\ told = <<>> /\ log = <<>>
    /\ suspect = {} /\ motions = {}
    /\ overflowed = FALSE
    /\ restarts = 0

Next ==
    \/ TimePasses
    \/ FirstFrame \/ MotionFrame \/ StillFrame
    \/ Looks \/ Relays
    \/ Restart

Spec == Init /\ [][Next]_vars

--------------------------------------------------------------------------------
(* Properties *)

Openings == {i \in DOMAIN log : i % 2 = 1}
Closings == DOMAIN log \ Openings

\* Every motion that became an event lies in one: openings and closings alternate in the
\* order of time, and no confirmed motion, with the one that aroused suspicion, is left out.
MotionCovered ==
    /\ \A i \in DOMAIN log : log[i].event = IF i \in Openings THEN "start" ELSE "end"
    /\ \A i, j \in DOMAIN log : i < j => log[i].ts <= log[j].ts
    /\ Len(log) \in Openings <=> evtState \in {"IN", "POST"}
    /\ \A t \in motions : \E i \in Openings :
          /\ log[i].ts <= t
          /\ i + 1 \in Closings => t <= log[i + 1].ts

\* An event ends only when nothing has moved for longer than Post, or goes on as a new
\* one after more than MaxDuration.
NotCutShort ==
    \A i \in Closings :
        \/ \A t \in motions : t >= log[i].ts \/ log[i].ts - t > Post
        \/ /\ i + 1 \in Openings
           /\ log[i + 1].ts = log[i].ts
           /\ log[i].ts - log[i - 1].ts > MaxDuration

\* evslicer gets each event that is complete, once, in order and with its own times, and
\* evdaemon each opening and closing.  When the queue has overflowed a start or an end is
\* missing, but no event ends before it starts or reaches back into one sent before.
SlicerTold ==
    /\ ~overflowed =>
          /\ told \o front \o (IF front = <<>> THEN evtQueue ELSE Tail(evtQueue)) = log
          /\ sent = [k \in 1..Len(told) \div 2 |-> <<told[2*k - 1].ts, told[2*k].ts>>]
    /\ \A k, l \in DOMAIN sent :
          k <= l /\ Len(sent[l]) = 2 =>
             sent[l][1] <= sent[l][2] /\ (k < l => sent[k][Len(sent[k])] <= sent[l][1])
================================================================================
