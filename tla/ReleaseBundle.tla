------------------------------ MODULE ReleaseBundle ------------------------------
(***************************************************************************)
(* The release bundles of evcloudsvc: software releases known to the cloud *)
(* and the index of the active one, kept in memory and saved as one value  *)
(* after every change (evcloudsvc.cpp, routes GET, POST and DELETE         *)
(* /release).                                                              *)
(*                                                                         *)
(* A request names a bundle by its releaseId or by its position counted    *)
(* from the newest one.  Indices are those of the code, from 0.            *)
(***************************************************************************)
EXTENDS Integers, Sequences

CONSTANTS
    Releases,      \* values of releaseId; none of them reads as a number
    Positions,     \* numbers a request can give as a position
    MaxBundles,    \* bound: bundles at a time
    MaxRestarts    \* bound: restarts of evcloudsvc

ASSUME ReleaseBundleAssumption ==
    /\ Positions \subseteq Int
    /\ MaxBundles \in Nat /\ MaxRestarts \in Nat

VARIABLES
    bundles,     \* releaseBundle["bundles"]
    activeIdx,   \* releaseBundle["activeIdx"], -1 for none
    saved,       \* the value in the local database
    activated,   \* the release last added as active, as a set
    savedActivated,  \* the same when the value was saved
    restarts

vars == <<bundles, activeIdx, saved, activated, savedActivated, restarts>>

AtPosition(k) == <<"position", k>>
WithId(r) == <<"releaseId", r>>
Bids == {AtPosition(k) : k \in Positions} \cup {WithId(r) : r \in Releases}

At(idx) == bundles[idx + 1]
Indices == 0..Len(bundles) - 1

\* The index a position stands for, counted from the newest.
FromNewest(k) == Len(bundles) - 1 - k

\* Mutant of Erased: the bundles behind the gap lost.
ErasedTail(q, idx) == SubSeq(q, 1, idx)

Erased(q, idx) == SubSeq(q, 1, idx) \o SubSeq(q, idx + 2, Len(q))

\* LVDB::setValue; when it fails the change stays in memory only.
Save ==
    \/ /\ saved' = [bundles |-> bundles', activeIdx |-> activeIdx']
       /\ savedActivated' = activated'
    \/ UNCHANGED <<saved, savedActivated>>

--------------------------------------------------------------------------------

\* getReleaseBundle: the bundles a request shows, at most one.
Shown(bid) ==
    IF bid[1] = "position"
    THEN {At(i) : i \in {FromNewest(bid[2])} \cap (IF bid[2] >= 0 THEN Indices ELSE {})}
    ELSE {bid[2]} \cap {At(i) : i \in Indices}

Add(r, active) ==
    /\ Len(bundles) < MaxBundles
    /\ \A i \in Indices : At(i) # r
    /\ bundles' = Append(bundles, r)
    /\ activeIdx' = IF active THEN Len(bundles) ELSE activeIdx
    /\ activated' = IF active THEN {r} ELSE activated
    /\ Save
    /\ UNCHANGED restarts

\* Mutant of ActiveAfter: the index of the active bundle stays when the bundles shift.
ActiveUnmoved(idx) == activeIdx

ActiveAfter(idx) == IF idx < activeIdx THEN activeIdx - 1 ELSE activeIdx

\* An index before the first is refused, one behind the last is an exception, and
\* the active bundle stays.
MayDelete(idx) == idx \in Indices /\ idx # activeIdx

DeleteAt(k) ==
    LET idx == FromNewest(k)
    IN  /\ MayDelete(idx)
        /\ bundles' = Erased(bundles, idx)
        /\ activeIdx' = ActiveAfter(idx)
        /\ UNCHANGED <<activated, restarts>>
        /\ Save

\* delReleaseBundle: the index at which a releaseId is found, counted from the
\* oldest, is passed on as a position, which is counted from the newest.
Delete(bid) ==
    \/ /\ bid[1] = "position"
       /\ DeleteAt(bid[2])
    \/ /\ bid[1] = "releaseId"
       /\ \E i \in Indices : At(i) = bid[2] /\ DeleteAt(i)

\* evcloudsvc starts again with what was saved.
Restart ==
    /\ restarts < MaxRestarts
    /\ restarts' = restarts + 1
    /\ bundles' = saved.bundles
    /\ activeIdx' = saved.activeIdx
    /\ activated' = savedActivated
    /\ UNCHANGED <<saved, savedActivated>>

--------------------------------------------------------------------------------

Init ==
    /\ bundles = <<>>
    /\ activeIdx = -1
    /\ saved = [bundles |-> <<>>, activeIdx |-> -1]
    /\ activated = {} /\ savedActivated = {}
    /\ restarts = 0

Next ==
    \/ \E r \in Releases, active \in BOOLEAN : Add(r, active)
    \/ \E bid \in Bids : Delete(bid)
    \/ Restart

Spec == Init /\ [][Next]_vars

--------------------------------------------------------------------------------
(* Properties *)

\* The index of the active bundle points at the release that was last made active,
\* in memory and in the database, whatever was deleted and whatever save failed.
ActiveIsRight ==
    /\ activated = {At(i) : i \in {activeIdx} \cap Indices}
    /\ savedActivated = {saved.bundles[i] : i \in {saved.activeIdx + 1} \cap DOMAIN saved.bundles}
    /\ activated = {} <=> activeIdx = -1

\* What DELETE takes away by position is what GET shows at that position, and nothing
\* else goes.
PositionDeletesShown ==
    [][\A k \in Positions :
          DeleteAt(k) => Shown(AtPosition(k)) = {At(i) : i \in Indices}
                            \ {bundles'[j] : j \in DOMAIN bundles'}]_vars
================================================================================
