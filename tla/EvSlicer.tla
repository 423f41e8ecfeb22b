-------------------------------- MODULE EvSlicer --------------------------------
(***************************************************************************)
(* evslicer: cuts the stream of a camera into slices on the disk, keeps    *)
(* the newest of them in a ring, and uploads the slices of each event      *)
(* (evslicer.cpp).                                                         *)
(*                                                                         *)
(* Four kinds of threads meet here: the writer opens a new slice and goes  *)
(* on writing into it; the directory monitor tells fileMonHandler of every *)
(* change of a file - of every kind, because the filter for new files is   *)
(* never installed (dirmon.cpp) - and maintains the ring; the message      *)
(* threads queue events; the event thread takes an event, looks at the     *)
(* ring, chooses slices, looks at their files and uploads them, and puts   *)
(* the event back or to sleep when it cannot.  The model has a step for    *)
(* each of those, so that the ring can change between any two.             *)
(*                                                                         *)
(* A slice is named by the time it starts at; slices start at even times   *)
(* and events start and end at any time.                                   *)
(***************************************************************************)
EXTENDS BoundedQueue, Integers, FiniteSetsExt

CONSTANTS
    NumSlices,    \* numSlices: capacity of the ring
    Hours,        \* age at which a slice is old
    QueueCap,     \* MAX_EVENT_QUEUE_SIZE
    MaxSlices,    \* bound: slices written
    MaxHollow,    \* bound: slices that stay empty
    MaxEvents,    \* bound: events received
    MaxDebug,     \* bound: how many of them by debug:record
    Starts,       \* bound: when the events begin
    Spans,        \* bound: how long they last
    MaxNotices,   \* bound: notices unread when a write adds one
    MaxRestarts   \* bound: crashes

ASSUME EvSlicerAssumption ==
    /\ {NumSlices, QueueCap} \subseteq Nat \ {0}
    /\ {Hours, MaxSlices, MaxHollow, MaxEvents, MaxDebug, MaxNotices, MaxRestarts} \subseteq Nat
    /\ Starts \cup Spans \subseteq Nat

VARIABLES
    clock,       \* the time
    files,       \* slices on the disk
    hollow,      \* those of size 0
    open,        \* the slice being written, 0 for none
    ring,        \* sTsList
    notices,     \* what the directory monitor has to tell: paths that changed
    lastFile,    \* lastFile of fileMonHandler, 0 when empty
    eventQueue,  \* events to handle
    asleep,      \* events that wait to be queued again
    cur,         \* the event thread
    uploadFailed,\* bUploadFailed
    ended,       \* how each event ended: <<reason, id>>
    accepted,    \* number of events received
    written, debugs, restarts   \* bounds

disk  == <<clock, files, hollow, open>>
watch == <<notices, lastFile>>
work  == <<eventQueue, asleep, cur, uploadFailed, ended>>
vars  == <<clock, files, hollow, open, ring, notices, lastFile, eventQueue, asleep, cur,
           uploadFailed, ended, accepted, written, debugs, restarts>>

Event == [id : 1..MaxEvents, tss : Nat, tse : Nat, cnt : -1..2]   \* cnt -1: absent
NoEvent == [id |-> 0, tss |-> 0, tse |-> 0, cnt |-> -1]
Idle == [at |-> "idle", ev |-> NoEvent, slices |-> {}]

--------------------------------------------------------------------------------
(* The writer *)

\* A path changed.  Two notices of one path in a row tell nothing new.
Tell(q, f) == IF q # <<>> /\ q[Len(q)] = f THEN q ELSE Append(q, f)

\* The segment muxer opens the next slice; the one before may have stayed empty.
OpenSlice ==
    /\ written < MaxSlices
    /\ written' = written + 1
    /\ clock' = clock + 2
    /\ open' = clock'
    /\ files' = files \cup {clock'}
    /\ \/ UNCHANGED hollow
       \/ Cardinality(hollow) < MaxHollow /\ hollow' = hollow \cup {clock'}
    /\ notices' = Tell(notices, clock')
    /\ UNCHANGED <<ring, lastFile, work, accepted, debugs, restarts>>

\* Packets are written into it.
WriteSlice ==
    /\ open # 0
    /\ open \notin hollow
    /\ Len(notices) < MaxNotices
    /\ lastFile # open \/ notices # <<>>
    /\ Tell(notices, open) # notices
    /\ notices' = Tell(notices, open)
    /\ UNCHANGED <<disk, ring, lastFile, work, accepted, written, debugs, restarts>>

--------------------------------------------------------------------------------
(* The ring *)

\* Mutant of Inserted: a full ring forgets its oldest slice and keeps the file.
InsertedOnly(r, ts) ==
    LET all == r \cup {ts}
        old == IF r # {} /\ Cardinality(all) > NumSlices THEN {Min(all)} ELSE {}
    IN  [ring |-> all \ old, removed |-> {}]

\* Mutant of Inserted: a full ring removes the oldest file and keeps the slice.
InsertedAll(r, ts) ==
    LET all == r \cup {ts}
        old == IF r # {} /\ Cardinality(all) > NumSlices THEN {Min(all)} ELSE {}
    IN  [ring |-> all, removed |-> old]

\* insertTsList: a full ring drops its oldest slice and removes the file.
Inserted(r, ts) ==
    LET all == r \cup {ts}
        old == IF r # {} /\ Cardinality(all) > NumSlices THEN {Min(all)} ELSE {}
    IN  [ring |-> all \ old, removed |-> old]

\* One notice: a path other than the last one makes the last one a finished slice,
\* whatever happened to the path.  Removing a file is itself noticed.
FileMonHandler ==
    LET f == Head(notices)
        result == Inserted(ring, lastFile)
        gone == result.removed \cap files
    IN  /\ notices # <<>>
        /\ lastFile' = f
        /\ IF f # lastFile /\ lastFile # 0
           THEN /\ ring' = result.ring
                /\ files' = files \ gone
                /\ hollow' = hollow \ gone
                /\ notices' = IF gone = {} THEN Tail(notices)
                              ELSE Append(Tail(notices), CHOOSE g \in gone : TRUE)
           ELSE /\ notices' = Tail(notices)
                /\ UNCHANGED <<ring, files, hollow>>
        /\ UNCHANGED <<clock, open, work, accepted, written, debugs, restarts>>

--------------------------------------------------------------------------------
(* The message threads *)

Accept(e) == accepted' = accepted + 1 /\ e.id = accepted'

Evictions(q, e) == {<<"evicted", x.id>> : x \in Evicted(q, e, QueueCap)}

\* push and, beyond the limit, pop.
Enqueue(e) ==
    /\ eventQueue' = PushDropOldest(eventQueue, e, QueueCap)
    /\ ended' = ended \cup Evictions(eventQueue, e)

\* An event that some module detected.
HandleEdgeMsg(e) ==
    /\ accepted < MaxEvents
    /\ Accept(e)
    /\ Enqueue(e)
    /\ UNCHANGED <<disk, ring, watch, asleep, cur, uploadFailed, written, debugs,
                   restarts>>

\* An event the operator asked for: the limit is not enforced.
DebugRecord(e) ==
    /\ accepted < MaxEvents
    /\ debugs < MaxDebug
    /\ debugs' = debugs + 1
    /\ Accept(e)
    /\ eventQueue' = Append(eventQueue, e)
    /\ UNCHANGED <<disk, ring, watch, asleep, cur, uploadFailed, ended, written,
                   restarts>>

\* A detached thread queues an event that has slept long enough.
Wake(e) ==
    /\ e \in asleep
    /\ asleep' = asleep \ {e}
    /\ Enqueue(e)
    /\ UNCHANGED <<disk, ring, watch, cur, uploadFailed, accepted, written, debugs,
                   restarts>>

--------------------------------------------------------------------------------
(* The event thread *)

\* Mutant of Pop: the front is read and stays.
Peek == UNCHANGED eventQueue

Pop == eventQueue' = Tail(eventQueue)

\* The event at the head: too old, too new, or to be looked up.
TakeEvent ==
    LET e == Head(eventQueue)
        early == ring # {} /\ \A s \in ring : e.tse < s
        late  == \A s \in ring : e.tse > s
    IN  /\ cur = Idle
        /\ eventQueue # <<>>
        /\ Pop
        /\ \/ /\ early
              /\ ended' = ended \cup {<<"old", e.id>>}
              /\ UNCHANGED <<cur, asleep>>
           \/ /\ late
              /\ asleep' = asleep \cup {e}
              /\ UNCHANGED <<cur, ended>>
           \/ /\ ~early /\ ~late
              /\ cur' = [Idle EXCEPT !.at = "find", !.ev = e]
              /\ UNCHANGED <<asleep, ended>>
        /\ UNCHANGED <<disk, ring, watch, uploadFailed, accepted, written, debugs,
                       restarts>>

\* Mutant of FindSlicesByRange: the walk stops one slice too late when the event
\* starts with a slice.
FindSlicesOneMore(tss, tse) ==
    IF ring = {} \/ tse < Min(ring) \/ tss > Max(ring) THEN {}
    ELSE {s \in ring : s <= tse /\ \A t \in ring : (s < t /\ t <= tse) => ~(tss > t)}

\* From the newest slice down: those that start by the end of the event, up to
\* and with the first that starts by its beginning.
FindSlicesByRange(tss, tse) ==
    IF ring = {} \/ tse < Min(ring) \/ tss > Max(ring) THEN {}
    ELSE {s \in ring : s <= tse /\ \A t \in ring : (s < t /\ t <= tse) => ~(tss >= t)}

FindSlices ==
    LET v == FindSlicesByRange(cur.ev.tss, cur.ev.tse)
    IN  /\ cur.at = "find"
        /\ \/ /\ v = {}
              /\ cur' = Idle
              /\ ended' = ended \cup {<<"missing", cur.ev.id>>}
           \/ /\ v # {}
              /\ cur' = [cur EXCEPT !.at = "check", !.slices = v]
              /\ UNCHANGED ended
        /\ UNCHANGED <<disk, ring, watch, eventQueue, asleep, uploadFailed, accepted, written, debugs, restarts>>

\* Everything that was in memory is gone; the events that were go with it.
Pending == {x.id : x \in Elements(eventQueue) \cup asleep} \cup ({cur.ev.id} \ {0})

\* The constructor: the slices on the disk are loaded and the ring keeps the newest.
\* The old ones should be removed first, but an age is never positive the way it is
\* computed, so it does not matter how long evslicer was away.
TooOld(f) == f - clock > Hours
Newest(s) == {f \in s : Cardinality({g \in s : g > f}) < NumSlices}
Boot ==
    LET mp4s == files \ hollow
        kept == {f \in mp4s : ~TooOld(f)}
    IN  /\ ring' = Newest(kept)
        /\ files' = Newest(kept) \cup (files \cap hollow)
        /\ open' = 0
        /\ notices' = <<>>
        /\ lastFile' = 0
        /\ eventQueue' = <<>>
        /\ asleep' = {}
        /\ cur' = Idle
        /\ uploadFailed' = FALSE
        /\ ended' = ended \cup {<<"crash", i>> : i \in Pending}
        /\ UNCHANGED <<clock, hollow, accepted, written, debugs>>

\* evslicer crashes, or is stopped, and evdaemon starts it again.
Restart ==
    /\ restarts < MaxRestarts
    /\ restarts' = restarts + 1
    /\ Boot

\* The files of the slices: the size of a file that is gone is an exception that
\* nobody catches, and a file of size 0 ends the event.
CheckFiles ==
    /\ cur.at = "check"
    /\ \/ /\ ~(cur.slices \subseteq files)
          /\ Boot
       \/ /\ cur.slices \subseteq files
          /\ \/ /\ cur.slices \cap hollow # {}
                /\ cur' = Idle
                /\ ended' = ended \cup {<<"empty", cur.ev.id>>}
             \/ /\ cur.slices \cap hollow = {}
                /\ cur' = [cur EXCEPT !.at = "post"]
                /\ UNCHANGED ended
          /\ UNCHANGED <<disk, ring, watch, eventQueue, asleep, uploadFailed, accepted, written, debugs>>
    /\ UNCHANGED restarts

\* What postFiles and the answer of the video server can be: not reached and worth
\* a retry, not reached, no JSON, no code, code 0, code 4 or 7, any other code.
Outcomes == {"retry", "error", "garbled", "nocode", "ok", "busy", "refused"}

\* Mutant of Retried: the count is not written back.
RetriedForever(e, n) == e

\* The event with one try less.
Retried(e, n) == [e EXCEPT !.cnt = n - 1]

\* Tries left after a failed upload: the first failure sets the count.
CountAfter(e) == IF e.cnt = -1 THEN 2 ELSE e.cnt

End(reason) == ended' = ended \cup {<<reason, cur.ev.id>>} /\ UNCHANGED eventQueue

Post(outcome) ==
    LET e == cur.ev
    IN  /\ cur.at = "post"
        /\ cur' = Idle
        /\ uploadFailed' = CASE outcome = "ok" -> FALSE
                             [] outcome = "garbled" -> uploadFailed
                             [] OTHER -> TRUE
        /\ \/ outcome = "retry" /\ CountAfter(e) <= 0 /\ End("gaveup")
           \/ outcome = "retry" /\ CountAfter(e) > 0 /\ Enqueue(Retried(e, CountAfter(e)))
           \/ outcome = "busy" /\ e.cnt = -1 /\ End("busy")
           \/ outcome = "busy" /\ e.cnt = 0 /\ End("gaveup")
           \/ outcome = "busy" /\ e.cnt > 0 /\ Enqueue(Retried(e, e.cnt))
           \/ outcome = "ok" /\ End("uploaded")
           \/ outcome \in {"error", "garbled", "nocode", "refused"} /\ End("failed")
        /\ UNCHANGED <<disk, ring, watch, asleep, accepted, written, debugs, restarts>>

--------------------------------------------------------------------------------

Init ==
    /\ clock = 0
    /\ files = {} /\ hollow = {} /\ open = 0
    /\ ring = {}
    /\ notices = <<>> /\ lastFile = 0
    /\ eventQueue = <<>> /\ asleep = {}
    /\ cur = Idle
    /\ uploadFailed = FALSE
    /\ ended = {}
    /\ accepted = 0
    /\ written = 0 /\ debugs = 0 /\ restarts = 0

\* Events that begin before the next slice does; they may end later.
NewEvents ==
    {[id |-> accepted + 1, tss |-> s, tse |-> s + d, cnt |-> -1] :
        s \in {t \in Starts : t <= clock + 1}, d \in Spans}

EventThread == TakeEvent \/ FindSlices \/ CheckFiles \/ \E o \in Outcomes : Post(o)

Next ==
    \/ OpenSlice
    \/ WriteSlice
    \/ FileMonHandler
    \/ \E e \in NewEvents : HandleEdgeMsg(e) \/ DebugRecord(e)
    \/ \E e \in asleep : Wake(e)
    \/ EventThread
    \/ Restart

Spec == Init /\ [][Next]_vars

\* The event thread and the sleeping threads run; the monitor is served.
FairSpec ==
    /\ Spec
    /\ WF_vars(EventThread)
    /\ WF_vars(FileMonHandler)
    /\ \A i \in 1..MaxEvents : WF_vars(\E e \in asleep : e.id = i /\ Wake(e))

--------------------------------------------------------------------------------
(* Properties *)

\* Types; the ring keeps to its capacity and the queue exceeds its limit only by
\* the events of the operator.
TypeOK ==
    /\ clock \in Nat
    /\ hollow \subseteq files /\ open \in {0} \cup files
    /\ Cardinality(ring) <= NumSlices
    /\ eventQueue \in BoundedSeq(Event, QueueCap + debugs)
    /\ asleep \subseteq Event
    /\ cur.at \in {"idle", "find", "check", "post"} /\ cur.ev \in Event \cup {NoEvent}
    /\ uploadFailed \in BOOLEAN

\* Every event received is in exactly one place - queued, asleep, in the hands of the
\* event thread, or ended for one reason - however often it was put back.
EventInOnePlace ==
    LET queued == {x.id : x \in Elements(eventQueue)}
        resting == {x.id : x \in asleep}
        busy == {cur.ev.id} \ {0}
        done == {x[2] : x \in ended}
    IN  /\ queued \cup resting \cup busy \cup done = 1..accepted
        /\ \A i \in 1..accepted :
              Cardinality({x \in ended : x[2] = i})
                + Cardinality({k \in DOMAIN eventQueue : eventQueue[k].id = i})
                + Cardinality({x \in asleep : x.id = i})
                + (IF cur.ev.id = i THEN 1 ELSE 0) = 1

\* The slices chosen for an event are those of the ring in which some of it was
\* recorded: a slice lasts until the next one starts.
Overlaps(s, e) ==
    /\ s <= e.tse
    /\ \A t \in ring : t > s => t > e.tss

ChosenOverlap ==
    [][cur.at = "find" /\ cur'.at = "check" => cur'.slices = {s \in ring : Overlaps(s, cur.ev)}]_vars

\* No finished slice is forgotten on the disk, where nothing would ever remove it: it
\* is in the ring, or the monitor is still to tell of it.
NoSliceForgotten ==
    \A f \in files \ hollow :
        f \in ring \cup {open, lastFile} \cup Elements(notices)

\* Every slice of the ring is on the disk: what fileMonHandler takes for finished has
\* not been removed, even when the notice it acts on is that of a removal.
RingOnDisk == ring \subseteq files

\* Once the ring has slices up to the end of an event, the event ends: it is not
\* retried for ever, and no queue holds it for ever.
EventsEnd ==
    \A i \in 1..MaxEvents :
        (\E e \in Elements(eventQueue) : e.id = i /\ \E s \in ring : e.tse <= s)
            ~> (\E x \in ended : x[2] = i)
================================================================================
