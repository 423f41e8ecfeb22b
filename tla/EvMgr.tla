--------------------------------- MODULE EvMgr ---------------------------------
(***************************************************************************)
(* evmgr: the local message router of a device.  The processing modules    *)
(* (evpuller, evslicer, evpusher, evmlmotion) connect DEALER sockets to  *)
(* its ROUTER socket; one thread reads it and calls handleEdgeMsg for      *)
(* every message (evmgr.cpp).                                              *)
(*                                                                         *)
(* The ROUTER socket reports a connecting peer and a disconnecting peer    *)
(* with the same two-frame message [id][empty].  The code has no way to    *)
(* tell one from the other, and toggles its own status table instead.      *)
(* Here the transport labels the two notifications "connect" and           *)
(* "disconnect", and no guard of the router reads the label: that the      *)
(* toggle always agrees with it is a property, not an assumption.          *)
(*                                                                         *)
(* status is absent or 0 ("down") or a timestamp ("up") in the code; the   *)
(* timestamp itself is never read.                                         *)
(***************************************************************************)
EXTENDS BoundedQueue, Integers

CONSTANTS
    Peers,         \* identities of the modules that connect to the router
    Configured,    \* those the configuration of this device names
    CacheCap,      \* EV_NUM_CACHE_PERPEER
    EventCap,      \* MAX_EVENT_QUEUE_SIZE
    MaxMsgs,       \* bound: messages sent by the modules
    MaxConnects,   \* bound: connections the modules make
    MaxRestarts    \* bound: crashes of evmgr

ASSUME EvMgrAssumption ==
    /\ Configured \subseteq Peers
    /\ CacheCap \in Nat \ {0}
    /\ EventCap \in Nat \ {0}
    /\ MaxMsgs \in Nat /\ MaxConnects \in Nat /\ MaxRestarts \in Nat

VARIABLES
    \* the router's memory
    status,        \* peerData["status"]
    cachedMsg,     \* messages held for each peer
    eventQue,      \* copies of the events that passed through
    \* the transport
    connected,     \* peers with a live connection
    inbox,         \* what each peer's connection has queued for the router
    delivered,     \* what the router has handed to each peer's connection
    \* history and bounds
    ended,         \* messages used or lost: <<how, peer, message id>>
    sent,          \* number of messages the modules have sent
    connects,      \* connections made so far
    restarts       \* crashes of evmgr

router == <<status, cachedMsg, eventQue>>
bounds == <<sent, connects, restarts>>
vars   == <<status, cachedMsg, eventQue, connected, inbox, delivered, ended,
            sent, connects, restarts>>

--------------------------------------------------------------------------------
(* Messages *)

NotifyKinds == {"connect", "disconnect"}

\* Messages to another module, "event" those whose metadata type is "event".
PeerKinds == {"msg", "event"}

\* Messages to evmgr itself; "other" are those that change nothing but the
\* sender's status (pong, the stream format announcement, unparsable metadata).
MgrKinds == {"ping", "broadcast", "other"}

Message == [kind : PeerKinds \cup MgrKinds, src : Peers, dst : Peers, id : Nat]

Notify(k, p) == [kind |-> k, src |-> p, dst |-> p, id |-> 0]

Frame == [kind : NotifyKinds \cup PeerKinds \cup MgrKinds,
          src : Peers, dst : Peers, id : Nat]

Ids(q) == {m.id : m \in Elements(q)}

--------------------------------------------------------------------------------
(* Sending through the ROUTER socket: a message for an identity without a  *)
(* connection vanishes without an error.                                   *)

Deliver(p, q) == IF p \in connected THEN delivered[p] \o q ELSE delivered[p]

Gone(p, q) == IF p \in connected THEN {} ELSE {<<"gone", p, i>> : i \in Ids(q)}

--------------------------------------------------------------------------------
(* The transport *)

Connect(p) ==
    /\ p \notin connected
    /\ connects < MaxConnects
    /\ connected' = connected \cup {p}
    /\ connects' = connects + 1
    /\ inbox' = [inbox EXCEPT ![p] = Append(@, Notify("connect", p))]
    /\ UNCHANGED <<router, delivered, ended, sent, restarts>>

Disconnect(p) ==
    /\ p \in connected
    /\ connected' = connected \ {p}
    /\ inbox' = [inbox EXCEPT ![p] = Append(@, Notify("disconnect", p))]
    /\ UNCHANGED <<router, delivered, ended, bounds>>

\* A module sends a message to another module or to evmgr (then dst = src
\* stands for evmgr, and is not used).
Send(p) ==
    /\ p \in connected
    /\ sent < MaxMsgs
    /\ sent' = sent + 1
    /\ \E k \in PeerKinds \cup MgrKinds, d \in Peers :
          /\ k \in PeerKinds <=> d # p
          /\ inbox' = [inbox EXCEPT ![p] =
                 Append(@, [kind |-> k, src |-> p, dst |-> d, id |-> sent + 1])]
    /\ UNCHANGED <<router, connected, delivered, ended, connects, restarts>>

--------------------------------------------------------------------------------
(* handleEdgeMsg *)

Received(p, kinds) ==
    /\ inbox[p] # <<>>
    /\ Head(inbox[p]).kind \in kinds
    /\ inbox' = [inbox EXCEPT ![p] = Tail(@)]
    /\ UNCHANGED <<connected, bounds>>

\* Mutant of MarkUp: the roles of the two identities swapped.
MarkTargetUp(p) == status' = [status EXCEPT ![Head(inbox[p]).dst] = "up"]

\* Every four-frame message marks its sender up.
MarkUp(p) == status' = [status EXCEPT ![p] = "up"]

\* Mutant of FlushCached: one message handed over instead of all.
FlushFirst(p, use) ==
    LET first == SubSeq(cachedMsg[p], 1, IF cachedMsg[p] = <<>> THEN 0 ELSE 1)
    IN  /\ delivered' = [delivered EXCEPT ![p] = Deliver(p, first)]
        /\ ended' = ended \cup use \cup Gone(p, first)
        /\ cachedMsg' = [cachedMsg EXCEPT ![p] = SubSeq(@, Len(first) + 1, Len(@))]

\* Mutant of FlushCached: the messages handed over stay in the cache.
FlushKeep(p, use) ==
    /\ delivered' = [delivered EXCEPT ![p] = Deliver(p, cachedMsg[p])]
    /\ ended' = ended \cup use \cup Gone(p, cachedMsg[p])
    /\ UNCHANGED cachedMsg

\* Hand over everything held for p: on its coming up, and on its ping (use is
\* what becomes of the ping itself).
FlushCached(p, use) ==
    /\ delivered' = [delivered EXCEPT ![p] = Deliver(p, cachedMsg[p])]
    /\ ended' = ended \cup use \cup Gone(p, cachedMsg[p])
    /\ cachedMsg' = [cachedMsg EXCEPT ![p] = <<>>]

\* A two-frame message: the peer is not in the configuration, or it was down
\* and comes up, or it was up and goes down.
HandleNotify(p) ==
    /\ Received(p, NotifyKinds)
    /\ \/ /\ p \notin Configured
          /\ UNCHANGED <<router, delivered, ended>>
       \/ /\ p \in Configured
          /\ status[p] = "down"
          /\ status' = [status EXCEPT ![p] = "up"]
          /\ FlushCached(p, {})
          /\ UNCHANGED eventQue
       \/ /\ p \in Configured
          /\ status[p] = "up"
          /\ status' = [status EXCEPT ![p] = "down"]
          /\ UNCHANGED <<cachedMsg, eventQue, delivered, ended>>

\* A message to another module: route it, or hold it while the target is down.
HandlePeerMsg(p) ==
    LET m == Head(inbox[p])
        d == m.dst
    IN  /\ Received(p, PeerKinds)
        /\ MarkUp(p)
        /\ \/ /\ status'[d] = "up"
              /\ delivered' = [delivered EXCEPT ![d] = Deliver(d, <<m>>)]
              /\ ended' = ended \cup Gone(d, <<m>>)
              /\ UNCHANGED cachedMsg
           \/ /\ status'[d] = "down"
              /\ cachedMsg' = [cachedMsg EXCEPT ![d] = PushDropOldest(@, m, CacheCap)]
              /\ ended' = ended \cup
                    {<<"evicted", d, e.id>> : e \in Evicted(cachedMsg[d], m, CacheCap)}
              /\ UNCHANGED delivered
        /\ eventQue' = IF m.kind = "event"
                       THEN PushDropOldest(eventQue, m, EventCap)
                       ELSE eventQue

HandlePing(p) ==
    /\ Received(p, {"ping"})
    /\ MarkUp(p)
    /\ FlushCached(p, {<<"mgr", p, Head(inbox[p]).id>>})
    /\ UNCHANGED eventQue

\* Mutant of Targets: the sender gets its own broadcast.
TargetsAndSender(p) == {q \in Peers : status[q] = "up"}

\* A broadcast is sent to every other peer that is up.
Targets(p) == {q \in Peers \ {p} : status[q] = "up"}

HandleBroadcast(p) ==
    LET m == Head(inbox[p])
        targets == Targets(p)
    IN  /\ Received(p, {"broadcast"})
        /\ MarkUp(p)
        /\ delivered' = [q \in Peers |->
               IF q \in targets THEN Deliver(q, <<m>>) ELSE delivered[q]]
        /\ ended' = ended \cup {<<"mgr", p, m.id>>}
                           \cup UNION {Gone(q, <<m>>) : q \in targets}
        /\ UNCHANGED <<cachedMsg, eventQue>>

HandleOther(p) ==
    /\ Received(p, {"other"})
    /\ MarkUp(p)
    /\ ended' = ended \cup {<<"mgr", p, Head(inbox[p]).id>>}
    /\ UNCHANGED <<cachedMsg, eventQue, delivered>>

HandleEdgeMsg(p) ==
    \/ HandleNotify(p)
    \/ HandlePeerMsg(p)
    \/ HandlePing(p)
    \/ HandleBroadcast(p)
    \/ HandleOther(p)

--------------------------------------------------------------------------------
(* evmgr crashes, or evdaemon stops it, and evdaemon starts it again: the  *)
(* constructor begins with an empty table, and every connection is gone    *)
(* with what it had queued.                                                *)

Restart ==
    /\ restarts < MaxRestarts
    /\ restarts' = restarts + 1
    /\ status' = [p \in Peers |-> "down"]
    /\ cachedMsg' = [p \in Peers |-> <<>>]
    /\ eventQue' = <<>>
    /\ connected' = {}
    /\ inbox' = [p \in Peers |-> <<>>]
    /\ ended' = ended
          \cup {<<"restart", m.dst, m.id>> :
                  m \in {x \in UNION {Elements(inbox[p]) \cup Elements(cachedMsg[p]) :
                                        p \in Peers} : x.kind \notin NotifyKinds}}
    /\ UNCHANGED <<delivered, sent, connects>>

--------------------------------------------------------------------------------

Init ==
    /\ status = [p \in Peers |-> "down"]
    /\ cachedMsg = [p \in Peers |-> <<>>]
    /\ eventQue = <<>>
    /\ connected = {}
    /\ inbox = [p \in Peers |-> <<>>]
    /\ delivered = [p \in Peers |-> <<>>]
    /\ ended = {}
    /\ sent = 0
    /\ connects = 0
    /\ restarts = 0

Next ==
    \/ \E p \in Peers : Connect(p) \/ Disconnect(p) \/ Send(p) \/ HandleEdgeMsg(p)
    \/ Restart

Spec == Init /\ [][Next]_vars

\* The router thread never stops reading, and the socket reads its
\* connections in turn.
FairSpec == Spec /\ \A p \in Peers : WF_vars(HandleEdgeMsg(p))

--------------------------------------------------------------------------------
(* Properties *)

\* Types, and the limits the code keeps on the queues of evmgr.
TypeOK ==
    /\ status \in [Peers -> {"up", "down"}]
    /\ cachedMsg \in [Peers -> BoundedSeq(Message, CacheCap)]
    /\ eventQue \in BoundedSeq(Message, EventCap)
    /\ connected \in SUBSET Peers
    /\ inbox \in [Peers -> Seq(Frame)]
    /\ delivered \in [Peers -> Seq(Message)]
    /\ ended \in SUBSET ({"mgr", "gone", "evicted", "restart"} \X Peers \X Nat)
    /\ sent \in Nat
    /\ connects \in Nat
    /\ restarts \in Nat

\* The toggle is right: the status evmgr keeps for a configured peer is the
\* status the next unread notification or message of that peer presupposes.  A
\* connect is read only while the peer is down, a disconnect or a message only
\* while it is up; with nothing unread the status is the state of the connection.
ToggleAgrees ==
    \A p \in Configured :
        status[p] = IF inbox[p] = <<>>
                    THEN IF p \in connected THEN "up" ELSE "down"
                    ELSE IF Head(inbox[p]).kind = "connect" THEN "down" ELSE "up"

\* What makes the toggle right: along one connection's queue a disconnect is
\* followed by a connect and by nothing else, a connect follows nothing else, and
\* the last entry tells whether the peer is connected.
InboxAlternates ==
    \A p \in Peers :
        /\ \A i \in 1..Len(inbox[p]) - 1 :
              inbox[p][i].kind = "disconnect" <=> inbox[p][i + 1].kind = "connect"
        /\ inbox[p] # <<>> =>
              (inbox[p][Len(inbox[p])].kind = "disconnect" <=> p \notin connected)

\* Nothing is held for a configured peer that is up: what was held was handed
\* over before anything could be routed to it directly.
UpMeansFlushed ==
    \A p \in Configured : status[p] = "up" => cachedMsg[p] = <<>>

\* The inductive invariant behind ToggleAgrees and UpMeansFlushed.
RouterInv == TypeOK /\ InboxAlternates /\ ToggleAgrees /\ UpMeansFlushed

\* What a configured peer is given, followed by what is held for it, is in the
\* order each sender sent it, without a duplicate.
InOrder ==
    \A p \in Configured :
        LET s == delivered[p] \o cachedMsg[p]
        IN  \A i, j \in 1..Len(s) :
                (i < j /\ s[i].src = s[j].src) => s[i].id < s[j].id

\* Every message ever sent is in exactly one place: unread, held, handed to the
\* module it is for and to no other, or ended - used by evmgr itself, or lost for
\* one of the three reasons the code allows.
Unread == (UNION {Ids(inbox[p]) : p \in Peers}) \ {0}   \* 0: a notification
Held   == UNION {Ids(cachedMsg[p]) : p \in Peers}
Routed(p) == {m \in Elements(delivered[p]) : m.kind \in PeerKinds}
Given  == {m.id : m \in UNION {Routed(p) : p \in Peers}}
Ended  == {e[3] : e \in ended}

ExactlyOnePlace ==
    /\ Unread \cup Held \cup Given \cup Ended = 1..sent
    /\ Unread \cap (Held \cup Given \cup Ended) = {}
    /\ Held \cap (Given \cup Ended) = {}
    /\ Given \cap Ended = {}
    /\ \A p \in Peers : \A m \in Routed(p) : m.dst = p

\* A message for a configured peer is lost on the way out only while the peer's
\* disconnect notification is still unread: evmgr never knowingly routes to a
\* peer that is gone.
LostOnlyBeforeNotice ==
    [][\A p \in Configured :
          (\E i \in 1..sent : <<"gone", p, i>> \in ended' \ ended)
              => \E i \in DOMAIN inbox[p] : inbox[p][i].kind = "disconnect"]_vars

\* A configured peer that stays connected is given everything held for it.
HeldIsHandedOver ==
    \A p \in Configured : <>[](p \in connected) => <>[](cachedMsg[p] = <<>>)

\* evmgr is a mailbox: its connections, caches and broadcasts together hand every
\* message over at most once, to a module it is for, and to a configured one in the
\* order its sender sent it - whatever connects, disconnects and crashes meanwhile.
Waiting ==
    {m \in UNION {Elements(inbox[p]) \cup Elements(cachedMsg[p]) : p \in Peers} :
        m.kind \in PeerKinds \cup {"broadcast"}}

Mail == INSTANCE Mailbox WITH
    Ordered <- Configured, waiting <- Waiting, given <- delivered, posted <- sent

IsMailbox == Mail!Spec
================================================================================
