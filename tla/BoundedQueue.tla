----------------------------- MODULE BoundedQueue -----------------------------
(***************************************************************************)
(* The bounded FIFO every router of the system keeps: push at the back,    *)
(* and when the queue has grown past its limit drop the oldest element.    *)
(* evmgr and evdaemon use it for the messages held for an offline peer     *)
(* and for the event queue, evslicer for the events it has to upload.      *)
(***************************************************************************)
EXTENDS Naturals, Sequences

\* Mutants of PushDropOldest: the limit never enforced; the newest in front.
PushUnbounded(q, e, cap) == Append(q, e)
PushInFront(q, e, cap) == IF Len(q) + 1 > cap THEN q ELSE <<e>> \o q

\* push(); if(size() > cap) pop();
PushDropOldest(q, e, cap) ==
    IF Len(q) + 1 > cap THEN Tail(Append(q, e)) ELSE Append(q, e)

\* The element PushDropOldest loses, as a set of at most one element.
Evicted(q, e, cap) == IF Len(q) + 1 > cap THEN {Head(Append(q, e))} ELSE {}

\* The sequences over S a bounded queue can hold.
BoundedSeq(S, cap) == {q \in Seq(S) : Len(q) <= cap}

\* The elements of a sequence.
Elements(q) == {q[i] : i \in DOMAIN q}
===============================================================================
