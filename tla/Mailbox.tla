------------------------------- MODULE Mailbox -------------------------------
(***************************************************************************)
(* What a device's message router promises to the modules that talk through *)
(* it, without saying how: a message is handed over at most once, only to  *)
(* a module it is for, and to the modules named in Ordered never behind a  *)
(* younger message of the same sender.  A message may be lost while it     *)
(* waits.  EvMgr implements this; the modules rely on it.                  *)
(*                                                                         *)
(* Hand and Lose describe a step by the state it leads to: the module is a *)
(* property to check others against and is not run by itself.              *)
(***************************************************************************)
EXTENDS Naturals, Sequences

CONSTANTS
    Peers,      \* the modules
    Ordered     \* those to whom the order is promised

VARIABLES
    waiting,    \* messages posted and neither handed over nor lost
    given,      \* messages handed to each module
    posted      \* the youngest id so far

mailbox == <<waiting, given, posted>>

ToOne == {"msg", "event"}
ToAll == {"broadcast"}

\* Whether message m is for module p.
IsFor(m, p) == \/ m.kind \in ToOne /\ m.dst = p
               \/ m.kind \in ToAll /\ m.src # p

\* The positions of given'[p] that the step adds.
Added(p) == Len(given[p]) + 1 .. Len(given'[p])

Handed == UNION {{given'[p][i] : i \in Added(p)} : p \in Peers}

--------------------------------------------------------------------------------

\* A module posts a message, which gets an id of its own.
Post(m) ==
    /\ m.kind \in ToOne \cup ToAll
    /\ m.id > posted
    /\ posted' = m.id
    /\ waiting' = waiting \cup {m}
    /\ UNCHANGED given

\* A message for the router itself takes an id and waits for nobody.
Address ==
    /\ posted' > posted
    /\ UNCHANGED <<waiting, given>>

\* Some waiting messages are handed over.
Hand ==
    /\ \A p \in Peers :
          /\ Len(given[p]) <= Len(given'[p])
          /\ \A i \in DOMAIN given[p] : given'[p][i] = given[p][i]
          /\ \A i \in Added(p) :
                /\ given'[p][i] \in waiting
                /\ IsFor(given'[p][i], p)
                /\ \A j \in Added(p) : given'[p][i] = given'[p][j] => i = j
    /\ \A p \in Ordered : \A i \in Added(p) : \A j \in 1..i - 1 :
          given'[p][i].src = given'[p][j].src => given'[p][j].id < given'[p][i].id
    /\ waiting' = waiting \ Handed
    /\ UNCHANGED posted

\* Some waiting messages are lost.
Lose ==
    /\ waiting' \subseteq waiting
    /\ UNCHANGED <<given, posted>>

--------------------------------------------------------------------------------

Init ==
    /\ waiting = {}
    /\ given = [p \in Peers |-> <<>>]
    /\ posted = 0

Next ==
    \/ \E m \in waiting' \ waiting : Post(m)
    \/ Address
    \/ Hand
    \/ Lose

Spec == Init /\ [][Next]_mailbox
================================================================================
