----------------------------- MODULE EvMgrProofs -----------------------------
(***************************************************************************)
(* The connection toggle of evmgr is right, messages reach a configured    *)
(* module in order and at most once, every message is in exactly one       *)
(* place, and evmgr implements Mailbox: for every number of peers, every   *)
(* cache size and every interleaving.                                      *)
(***************************************************************************)
EXTENDS EvMgr, SequenceTheorems, TLAPS

\* A push keeps a bounded queue a bounded queue: the limit of evmgr's and
\* evdaemon's caches and event queues is never passed.
LEMMA PushDropOldestBounded ==
    ASSUME NEW S, NEW cap \in Nat \ {0}, NEW q \in BoundedSeq(S, cap), NEW e \in S
    PROVE  PushDropOldest(q, e, cap) \in BoundedSeq(S, cap)
<1>1. /\ q \in Seq(S) /\ Len(q) \in Nat /\ Len(q) <= cap
      /\ Append(q, e) \in Seq(S) /\ Append(q, e) # <<>>
      /\ Len(Append(q, e)) = Len(q) + 1
  BY AppendProperties, LenProperties DEF BoundedSeq
<1>2. CASE Len(q) + 1 > cap
  <2>1. /\ Tail(Append(q, e)) \in Seq(S)
        /\ Len(Tail(Append(q, e))) = Len(q)
    BY <1>1, HeadTailProperties
  <2>2. QED
    BY <1>1, <1>2, <2>1 DEF PushDropOldest, BoundedSeq
<1>3. CASE ~(Len(q) + 1 > cap)
  BY <1>1, <1>3 DEF PushDropOldest, BoundedSeq
<1>4. QED
  BY <1>2, <1>3

\* The pushed element is the newest, and at most the oldest is lost.
LEMMA PushDropOldestKeepsNewest ==
    ASSUME NEW S, NEW cap \in Nat \ {0}, NEW q \in BoundedSeq(S, cap), NEW e \in S
    PROVE  LET r == PushDropOldest(q, e, cap)
           IN  /\ r # <<>>
               /\ r[Len(r)] = e
               /\ \/ r = Append(q, e)
                  \/ q # <<>> /\ r = Append(Tail(q), e)
<1> DEFINE r == PushDropOldest(q, e, cap)
<1>1. /\ q \in Seq(S) /\ Len(q) \in Nat /\ Len(q) <= cap
  BY LenProperties DEF BoundedSeq
<1>2. /\ Append(q, e) # <<>>
      /\ Len(Append(q, e)) = Len(q) + 1
      /\ Append(q, e)[Len(q) + 1] = e
  BY <1>1, AppendProperties
<1>3. CASE Len(q) + 1 > cap
  <2>1. q # <<>>
    BY <1>1, <1>3, EmptySeq
  <2>2. r = Append(Tail(q), e) /\ Tail(q) \in Seq(S)
    BY <1>1, <1>3, <2>1, HeadTailAppend, HeadTailProperties DEF PushDropOldest
  <2>3. r # <<>> /\ r[Len(r)] = e
    BY <2>2, AppendProperties, LenProperties
  <2>4. QED
    BY <2>1, <2>2, <2>3
<1>4. CASE ~(Len(q) + 1 > cap)
  BY <1>1, <1>2, <1>4 DEF PushDropOldest
<1>5. QED
  BY <1>3, <1>4

\* What the members of a queue are, from the type of the queue.
LEMMA ElementsOfSeq ==
    ASSUME NEW S, NEW q \in Seq(S)
    PROVE  Elements(q) \subseteq S
BY DEF Elements

\* Flushing a peer's held messages, on its coming up or its ping, keeps the
\* types: only the peer's own queues change and what was held is handed over.
LEMMA FlushTypes ==
    ASSUME TypeOK, NEW p \in Peers, NEW use \in SUBSET ({"mgr"} \X Peers \X Nat),
           FlushCached(p, use)
    PROVE  /\ cachedMsg' \in [Peers -> BoundedSeq(Message, CacheCap)]
           /\ delivered' \in [Peers -> Seq(Message)]
           /\ ended' \in SUBSET ({"mgr", "gone", "evicted", "restart"} \X Peers \X Nat)
<1>1. cachedMsg[p] \in Seq(Message) /\ delivered[p] \in Seq(Message)
  BY DEF TypeOK, BoundedSeq
<1>2. <<>> \in BoundedSeq(Message, CacheCap)
  BY EvMgrAssumption DEF BoundedSeq
<1>3. Deliver(p, cachedMsg[p]) \in Seq(Message)
  BY <1>1 DEF Deliver
<1>4. Gone(p, cachedMsg[p]) \in SUBSET ({"gone"} \X Peers \X Nat)
  <2>1. \A m \in Elements(cachedMsg[p]) : m.id \in Nat
    BY <1>1, ElementsOfSeq DEF Message
  <2>2. QED
    BY <2>1 DEF Gone, Ids
<1>5. QED
  BY <1>2, <1>3, <1>4 DEF FlushCached, TypeOK

\* Appending a frame to one inbox keeps the type of the inboxes.
LEMMA InboxAppendType ==
    ASSUME inbox \in [Peers -> Seq(Frame)], NEW p \in Peers, NEW f \in Frame,
           inbox' = [inbox EXCEPT ![p] = Append(@, f)]
    PROVE  inbox' \in [Peers -> Seq(Frame)]
<1>1. Append(inbox[p], f) \in Seq(Frame)
  BY AppendProperties
<1>2. QED
  BY <1>1

\* Every step of evmgr, its peers and its crashes keeps the types and the
\* limits on the held messages and the event queue.
LEMMA NextTypes == TypeOK /\ [Next]_vars => TypeOK'
<1> SUFFICES ASSUME TypeOK, [Next]_vars PROVE TypeOK'
  OBVIOUS
<1> USE EvMgrAssumption
<1>1. ASSUME NEW p \in Peers, Connect(p) PROVE TypeOK'
  <2>1. Notify("connect", p) \in Frame
    BY DEF Notify, Frame, NotifyKinds
  <2>2. inbox' \in [Peers -> Seq(Frame)]
    BY <1>1, <2>1, InboxAppendType DEF Connect, TypeOK
  <2>3. QED
    BY <1>1, <2>2 DEF Connect, TypeOK, router
<1>2. ASSUME NEW p \in Peers, Disconnect(p) PROVE TypeOK'
  <2>1. Notify("disconnect", p) \in Frame
    BY DEF Notify, Frame, NotifyKinds
  <2>2. inbox' \in [Peers -> Seq(Frame)]
    BY <1>2, <2>1, InboxAppendType DEF Disconnect, TypeOK
  <2>3. QED
    BY <1>2, <2>2 DEF Disconnect, TypeOK, router, bounds
<1>3. ASSUME NEW p \in Peers, Send(p) PROVE TypeOK'
  <2>1. PICK k \in PeerKinds \cup MgrKinds, d \in Peers :
           inbox' = [inbox EXCEPT ![p] =
               Append(@, [kind |-> k, src |-> p, dst |-> d, id |-> sent + 1])]
    BY <1>3 DEF Send
  <2>2. [kind |-> k, src |-> p, dst |-> d, id |-> sent + 1] \in Frame
    BY DEF Frame, TypeOK
  <2>3. inbox' \in [Peers -> Seq(Frame)]
    BY <2>1, <2>2, InboxAppendType DEF TypeOK
  <2>4. QED
    BY <1>3, <2>3 DEF Send, TypeOK, router
<1>4. ASSUME NEW p \in Peers, NEW kinds, Received(p, kinds)
      PROVE  /\ inbox' \in [Peers -> Seq(Frame)]
             /\ connected' = connected /\ sent' = sent
             /\ connects' = connects /\ restarts' = restarts
             /\ Head(inbox[p]) \in Frame
  BY <1>4, HeadTailProperties DEF Received, TypeOK, bounds
<1>5. ASSUME NEW p \in Peers, HandleNotify(p) PROVE TypeOK'
  <2>1. Received(p, NotifyKinds)
    BY <1>5 DEF HandleNotify
  <2>2. CASE status[p] = "down" /\ FlushCached(p, {}) /\ status' = [status EXCEPT ![p] = "up"]
             /\ UNCHANGED eventQue
    BY <1>4, <2>1, <2>2, FlushTypes DEF TypeOK
  <2>3. CASE UNCHANGED <<router, delivered, ended>>
    BY <1>4, <2>1, <2>3 DEF TypeOK, router
  <2>4. CASE status' = [status EXCEPT ![p] = "down"]
             /\ UNCHANGED <<cachedMsg, eventQue, delivered, ended>>
    BY <1>4, <2>1, <2>4 DEF TypeOK
  <2>5. QED
    BY <1>5, <2>2, <2>3, <2>4 DEF HandleNotify
<1>6. ASSUME NEW p \in Peers, HandlePeerMsg(p) PROVE TypeOK'
  <2> DEFINE m == Head(inbox[p])
             d == m.dst
  <2>1. Received(p, PeerKinds)
    BY <1>6 DEF HandlePeerMsg, MarkUp
  <2>2. m \in Message /\ d \in Peers /\ m.id \in Nat
    BY <1>4, <2>1 DEF Received, Frame, Message
  <2>3. eventQue' \in BoundedSeq(Message, EventCap)
    BY <1>6, <2>2, PushDropOldestBounded DEF HandlePeerMsg, MarkUp, TypeOK
  <2>4. status' \in [Peers -> {"up", "down"}]
    BY <1>6 DEF HandlePeerMsg, MarkUp, TypeOK
  <2>5. CASE /\ delivered' = [delivered EXCEPT ![d] = Deliver(d, <<m>>)]
             /\ ended' = ended \cup Gone(d, <<m>>)
             /\ UNCHANGED cachedMsg
    <3>1. Deliver(d, <<m>>) \in Seq(Message)
      BY <2>2 DEF Deliver, TypeOK
    <3>2. Gone(d, <<m>>) \in SUBSET ({"gone"} \X Peers \X Nat)
      BY <2>2 DEF Gone, Ids, Elements
    <3>3. QED
      BY <1>4, <2>1, <2>3, <2>4, <2>5, <3>1, <3>2 DEF TypeOK
  <2>6. CASE /\ cachedMsg' = [cachedMsg EXCEPT ![d] = PushDropOldest(@, m, CacheCap)]
             /\ ended' = ended \cup
                   {<<"evicted", d, e.id>> : e \in Evicted(cachedMsg[d], m, CacheCap)}
             /\ UNCHANGED delivered
    <3>1. cachedMsg[d] \in BoundedSeq(Message, CacheCap)
      BY <2>2 DEF TypeOK
    <3>2. PushDropOldest(cachedMsg[d], m, CacheCap) \in BoundedSeq(Message, CacheCap)
      BY <2>2, <3>1, PushDropOldestBounded
    <3>3. Append(cachedMsg[d], m) \in Seq(Message) /\ Append(cachedMsg[d], m) # <<>>
      BY <2>2, <3>1, AppendProperties DEF BoundedSeq
    <3>4. Evicted(cachedMsg[d], m, CacheCap) \in SUBSET Message
      BY <3>3, HeadTailProperties DEF Evicted
    <3>5. {<<"evicted", d, e.id>> : e \in Evicted(cachedMsg[d], m, CacheCap)}
             \in SUBSET ({"evicted"} \X Peers \X Nat)
      BY <2>2, <3>4 DEF Message
    <3>6. QED
      BY <1>4, <2>1, <2>2, <2>3, <2>4, <2>6, <3>2, <3>5 DEF TypeOK
  <2>7. QED
    BY <1>6, <2>5, <2>6 DEF HandlePeerMsg, MarkUp
<1>7. ASSUME NEW p \in Peers, HandlePing(p) PROVE TypeOK'
  <2>1. Received(p, {"ping"})
    BY <1>7 DEF HandlePing, MarkUp
  <2>2. {<<"mgr", p, Head(inbox[p]).id>>} \in SUBSET ({"mgr"} \X Peers \X Nat)
    BY <1>4, <2>1 DEF Frame
  <2>3. QED
    BY <1>4, <1>7, <2>1, <2>2, FlushTypes DEF HandlePing, MarkUp, TypeOK
<1>8. ASSUME NEW p \in Peers, HandleBroadcast(p) PROVE TypeOK'
  <2> DEFINE m == Head(inbox[p])
             targets == {q \in Peers \ {p} : status[q] = "up"}
  <2>1. Received(p, {"broadcast"})
    BY <1>8 DEF HandleBroadcast, Targets, MarkUp
  <2>2. m \in Message
    BY <1>4, <2>1 DEF Received, Frame, Message, MgrKinds
  <2>3. \A q \in Peers : Deliver(q, <<m>>) \in Seq(Message) /\ delivered[q] \in Seq(Message)
    BY <2>2 DEF Deliver, TypeOK
  <2>4. delivered' \in [Peers -> Seq(Message)]
    BY <1>8, <2>3 DEF HandleBroadcast, Targets, MarkUp
  <2>5. UNION {Gone(q, <<m>>) : q \in targets} \in SUBSET ({"gone"} \X Peers \X Nat)
    BY <2>2 DEF Gone, Ids, Elements, Message
  <2>6. {<<"mgr", p, m.id>>} \in SUBSET ({"mgr"} \X Peers \X Nat)
    BY <2>2 DEF Message
  <2>7. ended' \in SUBSET ({"mgr", "gone", "evicted", "restart"} \X Peers \X Nat)
    BY <1>8, <2>5, <2>6 DEF HandleBroadcast, Targets, MarkUp, TypeOK
  <2>8. QED
    BY <1>4, <1>8, <2>1, <2>4, <2>7 DEF HandleBroadcast, Targets, MarkUp, TypeOK
<1>9. ASSUME NEW p \in Peers, HandleOther(p) PROVE TypeOK'
  <2>1. Received(p, {"other"})
    BY <1>9 DEF HandleOther, MarkUp
  <2>2. {<<"mgr", p, Head(inbox[p]).id>>} \in SUBSET ({"mgr"} \X Peers \X Nat)
    BY <1>4, <2>1 DEF Frame
  <2>3. QED
    BY <1>4, <1>9, <2>1, <2>2 DEF HandleOther, MarkUp, TypeOK
<1>10. CASE Restart
  <2>1. \A p \in Peers : /\ \A m \in Elements(inbox[p]) : m.dst \in Peers /\ m.id \in Nat
                         /\ \A m \in Elements(cachedMsg[p]) : m.dst \in Peers /\ m.id \in Nat
    <3>1. \A p \in Peers : Elements(inbox[p]) \subseteq Frame
                         /\ Elements(cachedMsg[p]) \subseteq Message
      BY ElementsOfSeq DEF TypeOK, BoundedSeq
    <3>2. QED
      BY <3>1 DEF Frame, Message
  <2>2. ended' \in SUBSET ({"mgr", "gone", "evicted", "restart"} \X Peers \X Nat)
    BY <1>10, <2>1 DEF Restart, TypeOK
  <2>3. QED
    BY <1>10, <2>2 DEF Restart, TypeOK, BoundedSeq
<1>11. CASE UNCHANGED vars
  BY <1>11 DEF vars, TypeOK
<1>12. QED
  BY <1>1, <1>2, <1>3, <1>5, <1>6, <1>7, <1>8, <1>9, <1>10, <1>11 DEF Next, HandleEdgeMsg

\* evmgr starts with an empty table and empty queues.
LEMMA InitRouterInv == Init => RouterInv
<1> SUFFICES ASSUME Init PROVE RouterInv
  OBVIOUS
<1>1. \A S : <<>> \in Seq(S) /\ Len(<<>>) = 0
  BY EmptySeq
<1>2. TypeOK
  BY <1>1, EvMgrAssumption DEF Init, TypeOK, BoundedSeq
<1>3. InboxAlternates /\ ToggleAgrees /\ UpMeansFlushed
  BY <1>1, EvMgrAssumption DEF Init, InboxAlternates, ToggleAgrees, UpMeansFlushed
<1>4. QED
  BY <1>2, <1>3 DEF RouterInv

\* What one more entry at the back of a queue leaves of the queue.
LEMMA AppendFrame ==
    ASSUME NEW q \in Seq(Frame), NEW f \in Frame
    PROVE  /\ Len(q) \in Nat
           /\ Append(q, f) # <<>> /\ Len(Append(q, f)) = Len(q) + 1
           /\ Append(q, f)[Len(q) + 1] = f
           /\ \A i \in 1..Len(q) : Append(q, f)[i] = q[i]
           /\ Head(Append(q, f)) = IF q = <<>> THEN f ELSE Head(q)
           /\ q # <<>> => Len(q) > 0 /\ Head(q) = q[1]
BY AppendProperties, LenProperties, HeadTailAppend, EmptySeq

\* What taking the front of a queue leaves of the queue.
LEMMA TailFrame ==
    ASSUME NEW q \in Seq(Frame), q # <<>>
    PROVE  /\ Len(q) \in Nat \ {0} /\ Head(q) = q[1]
           /\ Tail(q) \in Seq(Frame) /\ Len(Tail(q)) = Len(q) - 1
           /\ \A i \in 1..Len(q) - 1 : Tail(q)[i] = q[i + 1]
           /\ Tail(q) # <<>> => Len(q) > 1 /\ Head(Tail(q)) = q[2]
           /\ Tail(q) = <<>> => Len(q) = 1
<1>1. /\ Len(q) \in Nat \ {0}
      /\ Tail(q) \in Seq(Frame) /\ Len(Tail(q)) = Len(q) - 1
      /\ \A i \in 1..Len(Tail(q)) : Tail(q)[i] = q[i + 1]
  BY HeadTailProperties, EmptySeq
<1>2. Head(q) = q[1]
  OBVIOUS
<1>3. ASSUME Tail(q) # <<>> PROVE Len(q) > 1 /\ Head(Tail(q)) = q[2]
  <2>1. Len(Tail(q)) \in Nat \ {0} /\ Head(Tail(q)) = Tail(q)[1]
    BY <1>1, <1>3, EmptySeq
  <2>2. QED
    BY <1>1, <2>1
<1>4. ASSUME Tail(q) = <<>> PROVE Len(q) = 1
  BY <1>1, <1>4, EmptySeq
<1>5. QED
  BY <1>1, <1>2, <1>3, <1>4

\* A connection's queue alternates, whatever the peers and evmgr do: a peer
\* connects only after it disconnected, and speaks only in between.
LEMMA NextAlternates ==
    ASSUME TypeOK, InboxAlternates, [Next]_vars
    PROVE  InboxAlternates'
<1> DEFINE Alt(q, p, C) ==
             /\ \A i \in 1..Len(q) - 1 :
                   q[i].kind = "disconnect" <=> q[i + 1].kind = "connect"
             /\ q # <<>> => (q[Len(q)].kind = "disconnect" <=> p \notin C)
<1>1. ASSUME NEW q \in Seq(Frame), NEW f \in Frame, NEW p, NEW C, NEW D,
             Alt(q, p, C), q # <<>> => (f.kind = "connect" <=> p \notin C),
             f.kind = "disconnect" <=> p \notin D
      PROVE  Alt(Append(q, f), p, D)
  BY <1>1, AppendFrame
<1>2. ASSUME NEW q \in Seq(Frame), NEW p, NEW C, Alt(q, p, C), q # <<>>
      PROVE  Alt(Tail(q), p, C)
  <2>1. \A i \in 1..Len(Tail(q)) : Tail(q)[i] = q[i + 1]
    BY <1>2, TailFrame
  <2>2. QED
    BY <1>2, <2>1, TailFrame
<1> HIDE DEF Alt
<1>3. ASSUME \A p \in Peers : Alt(inbox'[p], p, connected') PROVE InboxAlternates'
  BY <1>3 DEF InboxAlternates, Alt
<1>4. \A p \in Peers : Alt(inbox[p], p, connected)
  BY DEF InboxAlternates, Alt
<1>5. \A p \in Peers : inbox[p] \in Seq(Frame)
  BY DEF TypeOK
<1>6. ASSUME NEW p \in Peers, NEW f \in Frame,
             inbox' = [inbox EXCEPT ![p] = Append(@, f)],
             connected' \in {connected, connected \cup {p}, connected \ {p}},
             inbox[p] # <<>> => (f.kind = "connect" <=> p \notin connected),
             f.kind = "disconnect" <=> p \notin connected'
      PROVE  InboxAlternates'
  <2>1. Alt(inbox'[p], p, connected')
    <3>1. inbox'[p] = Append(inbox[p], f)
      BY <1>6 DEF TypeOK
    <3>2. QED
      BY <1>1, <1>4, <1>5, <1>6, <3>1
  <2>2. \A q \in Peers \ {p} : inbox'[q] = inbox[q] /\ (q \in connected' <=> q \in connected)
    BY <1>6 DEF TypeOK
  <2>3. \A q \in Peers \ {p} : Alt(inbox'[q], q, connected')
    BY <1>4, <2>2 DEF Alt
  <2>4. QED
    BY <1>3, <2>1, <2>3
<1>7. ASSUME NEW p \in Peers, Connect(p) PROVE InboxAlternates'
  BY <1>4, <1>5, <1>6, <1>7 DEF Connect, Notify, Frame, NotifyKinds, Alt
<1>8. ASSUME NEW p \in Peers, Disconnect(p) PROVE InboxAlternates'
  BY <1>4, <1>5, <1>6, <1>8 DEF Disconnect, Notify, Frame, NotifyKinds, Alt
<1>9. ASSUME NEW p \in Peers, Send(p) PROVE InboxAlternates'
  <2>1. PICK k \in PeerKinds \cup MgrKinds, d \in Peers :
           inbox' = [inbox EXCEPT ![p] =
               Append(@, [kind |-> k, src |-> p, dst |-> d, id |-> sent + 1])]
    BY <1>9 DEF Send
  <2>2. [kind |-> k, src |-> p, dst |-> d, id |-> sent + 1] \in Frame
    BY DEF Frame, TypeOK
  <2>3. k # "connect" /\ k # "disconnect"
    BY DEF PeerKinds, MgrKinds
  <2>4. QED
    BY <1>6, <1>9, <2>1, <2>2, <2>3 DEF Send
<1>10. ASSUME NEW p \in Peers, NEW kinds, Received(p, kinds) PROVE InboxAlternates'
  <2>1. Alt(inbox'[p], p, connected')
    <3>1. inbox'[p] = Tail(inbox[p]) /\ inbox[p] # <<>> /\ connected' = connected
      BY <1>10 DEF Received, TypeOK
    <3>2. QED
      BY <1>2, <1>4, <1>5, <3>1
  <2>2. \A q \in Peers \ {p} : inbox'[q] = inbox[q] /\ (q \in connected' <=> q \in connected)
    BY <1>10 DEF Received, TypeOK
  <2>3. \A q \in Peers \ {p} : Alt(inbox'[q], q, connected')
    BY <1>4, <2>2 DEF Alt
  <2>4. QED
    BY <1>3, <2>1, <2>3
<1>11. ASSUME NEW p \in Peers, HandleEdgeMsg(p) PROVE InboxAlternates'
  BY <1>10, <1>11 DEF HandleEdgeMsg, HandleNotify, HandlePeerMsg, MarkUp, HandlePing,
     HandleBroadcast, HandleOther
<1>12. CASE Restart
  <2>1. \A p \in Peers : inbox'[p] = <<>>
    BY <1>12 DEF Restart
  <2>2. Len(<<>>) = 0
    BY EmptySeq
  <2>3. QED
    BY <2>1, <2>2 DEF InboxAlternates
<1>13. CASE UNCHANGED vars
  BY <1>13 DEF vars, InboxAlternates
<1>14. QED
  BY <1>7, <1>8, <1>9, <1>11, <1>12, <1>13 DEF Next

\* A configured peer's status changes exactly when its next entry's meaning does.
LEMMA NextToggle ==
    ASSUME RouterInv, [Next]_vars
    PROVE  ToggleAgrees' /\ UpMeansFlushed'
<1> DEFINE Expected(q, c) ==
             IF q = <<>> THEN IF c THEN "up" ELSE "down"
             ELSE IF Head(q).kind = "connect" THEN "down" ELSE "up"
<1> USE EvMgrAssumption
<1>0. TypeOK /\ InboxAlternates /\ ToggleAgrees /\ UpMeansFlushed
  BY DEF RouterInv
<1>1. \A p \in Peers : inbox[p] \in Seq(Frame)
  BY <1>0 DEF TypeOK
<1>2. ASSUME NEW p \in Peers, NEW f \in Frame,
             inbox' = [inbox EXCEPT ![p] = Append(@, f)],
             connected' \in {connected, connected \cup {p}, connected \ {p}},
             f.kind = "connect" <=> p \notin connected,
             UNCHANGED router
      PROVE  ToggleAgrees' /\ UpMeansFlushed'
  <2>0. inbox'[p] = Append(inbox[p], f)
    BY <1>0, <1>2 DEF TypeOK
  <2>1. Head(inbox'[p]) = IF inbox[p] = <<>> THEN f ELSE Head(inbox[p])
    BY <1>1, <1>2, <2>0, AppendFrame
  <2>2. inbox'[p] # <<>>
    BY <1>1, <1>2, <2>0, AppendFrame
  <2>3. p \in Configured => status'[p] = Expected(inbox'[p], p \in connected')
    BY <1>0, <1>2, <2>1, <2>2 DEF ToggleAgrees, router
  <2>4. \A q \in Configured \ {p} : status'[q] = Expected(inbox'[q], q \in connected')
    BY <1>0, <1>2 DEF ToggleAgrees, router
  <2>5. QED
    BY <1>0, <1>2, <2>3, <2>4 DEF ToggleAgrees, UpMeansFlushed, router
<1>3. ASSUME NEW p \in Peers, Connect(p) PROVE ToggleAgrees' /\ UpMeansFlushed'
  BY <1>2, <1>3 DEF Connect, Notify, Frame, NotifyKinds
<1>4. ASSUME NEW p \in Peers, Disconnect(p) PROVE ToggleAgrees' /\ UpMeansFlushed'
  BY <1>2, <1>4 DEF Disconnect, Notify, Frame, NotifyKinds
<1>5. ASSUME NEW p \in Peers, Send(p) PROVE ToggleAgrees' /\ UpMeansFlushed'
  <2>1. PICK k \in PeerKinds \cup MgrKinds, d \in Peers :
           inbox' = [inbox EXCEPT ![p] =
               Append(@, [kind |-> k, src |-> p, dst |-> d, id |-> sent + 1])]
    BY <1>5 DEF Send
  <2>2. [kind |-> k, src |-> p, dst |-> d, id |-> sent + 1] \in Frame
    BY <1>0 DEF Frame, TypeOK
  <2>3. k # "connect"
    BY DEF PeerKinds, MgrKinds
  <2>4. QED
    BY <1>2, <1>5, <2>1, <2>2, <2>3 DEF Send
<1>6. ASSUME NEW p \in Peers, NEW kinds, Received(p, kinds)
      PROVE  /\ Expected(inbox'[p], p \in connected')
                   = IF Head(inbox[p]).kind = "disconnect" THEN "down" ELSE "up"
             /\ \A q \in Peers \ {p} :
                   inbox'[q] = inbox[q] /\ (q \in connected' <=> q \in connected)
             /\ p \in Configured =>
                   status[p] = IF Head(inbox[p]).kind = "connect" THEN "down" ELSE "up"
  <2> DEFINE q == inbox[p]
  <2>1. q # <<>> /\ inbox'[p] = Tail(q) /\ connected' = connected /\ q \in Seq(Frame)
    BY <1>0, <1>1, <1>6 DEF Received, TypeOK
  <2>a. /\ \A i \in 1..Len(q) - 1 : q[i].kind = "disconnect" <=> q[i + 1].kind = "connect"
        /\ q[Len(q)].kind = "disconnect" <=> p \notin connected
    BY <1>0, <2>1 DEF InboxAlternates
  <2>b. Head(q) = q[1] /\ Len(q) \in Nat \ {0}
    BY <2>1, TailFrame
  <2>2. ASSUME Tail(q) = <<>>
        PROVE  Expected(inbox'[p], p \in connected')
                  = IF Head(q).kind = "disconnect" THEN "down" ELSE "up"
    <3>1. Len(q) = 1
      BY <2>1, <2>2, TailFrame
    <3>2. QED
      BY <2>1, <2>a, <2>b, <2>2, <3>1
  <2>3. ASSUME Tail(q) # <<>>
        PROVE  Expected(inbox'[p], p \in connected')
                  = IF Head(q).kind = "disconnect" THEN "down" ELSE "up"
    <3>1. Len(q) > 1 /\ Head(Tail(q)) = q[2]
      BY <2>1, <2>3, TailFrame
    <3>2. Head(q).kind = "disconnect" <=> Head(Tail(q)).kind = "connect"
      BY <2>a, <2>b, <3>1
    <3>3. QED
      BY <2>1, <2>3, <3>2
  <2>4. p \in Configured =>
           status[p] = IF Head(inbox[p]).kind = "connect" THEN "down" ELSE "up"
    BY <1>0, <2>1 DEF ToggleAgrees
  <2>5. \A r \in Peers \ {p} :
           inbox'[r] = inbox[r] /\ (r \in connected' <=> r \in connected)
    BY <1>0, <1>6 DEF Received, TypeOK
  <2>6. Expected(inbox'[p], p \in connected')
           = IF Head(inbox[p]).kind = "disconnect" THEN "down" ELSE "up"
    BY <2>2, <2>3
  <2>7. QED
    BY <2>4, <2>5, <2>6
<1>7. ASSUME NEW p \in Peers, NEW kinds, Received(p, kinds),
             kinds \cap NotifyKinds = {},
             status' = [status EXCEPT ![p] = "up"],
             \A q \in Peers : cachedMsg'[q] \in {cachedMsg[q], <<>>} \/ status'[q] = "down"
      PROVE  ToggleAgrees' /\ UpMeansFlushed'
  <2>1. Head(inbox[p]).kind \notin {"connect", "disconnect"}
    BY <1>7 DEF Received, NotifyKinds
  <2>2. p \in Configured => status[p] = "up"
    BY <1>6, <1>7, <2>1
  <2>3. \A q \in Configured : status'[q] = status[q]
    BY <1>0, <1>7, <2>2 DEF TypeOK
  <2>4. \A q \in Configured : status'[q] = Expected(inbox'[q], q \in connected')
    BY <1>0, <1>6, <1>7, <2>1, <2>2, <2>3 DEF ToggleAgrees
  <2>5. QED
    BY <1>0, <1>7, <2>3, <2>4 DEF ToggleAgrees, UpMeansFlushed
<1>8. ASSUME NEW p \in Peers, HandleNotify(p) PROVE ToggleAgrees' /\ UpMeansFlushed'
  <2>1. Received(p, NotifyKinds) /\ Head(inbox[p]).kind \in {"connect", "disconnect"}
    BY <1>8 DEF HandleNotify, Received, NotifyKinds
  <2>2. \A q \in Configured \ {p} : status'[q] = status[q] /\ cachedMsg'[q] = cachedMsg[q]
    BY <1>0, <1>8 DEF HandleNotify, FlushCached, TypeOK, router
  <2>3. p \in Configured => status'[p] = Expected(inbox'[p], p \in connected')
    BY <1>0, <1>6, <1>8, <2>1 DEF HandleNotify, TypeOK
  <2>4. p \in Configured => (status'[p] = "up" => cachedMsg'[p] = <<>>)
    BY <1>0, <1>8 DEF HandleNotify, FlushCached, TypeOK
  <2>5. \A q \in Configured : status'[q] = Expected(inbox'[q], q \in connected')
    BY <1>0, <1>6, <2>1, <2>2, <2>3 DEF ToggleAgrees
  <2>6. QED
    BY <1>0, <2>2, <2>4, <2>5 DEF ToggleAgrees, UpMeansFlushed
<1>9. ASSUME NEW p \in Peers, HandlePeerMsg(p) PROVE ToggleAgrees' /\ UpMeansFlushed'
  <2>1. Received(p, PeerKinds) /\ PeerKinds \cap NotifyKinds = {}
    BY <1>9 DEF HandlePeerMsg, MarkUp, PeerKinds, NotifyKinds
  <2>2. \A q \in Peers : cachedMsg'[q] \in {cachedMsg[q], <<>>} \/ status'[q] = "down"
    BY <1>0, <1>9 DEF HandlePeerMsg, MarkUp, TypeOK
  <2>3. QED
    BY <1>7, <1>9, <2>1, <2>2 DEF HandlePeerMsg, MarkUp
<1>10. ASSUME NEW p \in Peers, HandlePing(p) \/ HandleBroadcast(p) \/ HandleOther(p)
       PROVE  ToggleAgrees' /\ UpMeansFlushed'
  <2>1. PICK kinds \in {{"ping"}, {"broadcast"}, {"other"}} : Received(p, kinds)
    BY <1>10 DEF HandlePing, MarkUp, HandleBroadcast, HandleOther
  <2>2. kinds \cap NotifyKinds = {}
    BY <2>1 DEF NotifyKinds
  <2>3. \A q \in Peers : cachedMsg'[q] \in {cachedMsg[q], <<>>}
    BY <1>0, <1>10 DEF HandlePing, MarkUp, FlushCached, HandleBroadcast, HandleOther, TypeOK
  <2>4. status' = [status EXCEPT ![p] = "up"]
    BY <1>10 DEF HandlePing, MarkUp, HandleBroadcast, HandleOther
  <2>5. QED
    BY <1>7, <2>1, <2>2, <2>3, <2>4
<1>11. CASE Restart
  BY <1>11 DEF Restart, ToggleAgrees, UpMeansFlushed
<1>12. CASE UNCHANGED vars
  BY <1>0, <1>12 DEF vars, ToggleAgrees, UpMeansFlushed
<1>13. QED
  BY <1>3, <1>4, <1>5, <1>8, <1>9, <1>10, <1>11, <1>12 DEF Next, HandleEdgeMsg

\* The invariant holds in every behaviour of evmgr.
LEMMA RouterInvariant == Spec => []RouterInv
<1>1. RouterInv /\ [Next]_vars => RouterInv'
  BY NextTypes, NextAlternates, NextToggle DEF RouterInv
<1>2. QED
  BY InitRouterInv, <1>1, PTL DEF Spec

\* The queues of evmgr never pass their limits, and every variable keeps its
\* type, for every number of peers, messages, connections and crashes.
THEOREM TypeCorrect == Spec => []TypeOK
<1>1. RouterInv => TypeOK
  BY DEF RouterInv
<1>2. QED
  BY RouterInvariant, <1>1, PTL

\* evmgr reads two identical notifications for a connect and a disconnect, and
\* never mistakes one for the other for a peer its configuration names.
THEOREM ToggleIsRight == Spec => []ToggleAgrees
<1>1. RouterInv => ToggleAgrees
  BY DEF RouterInv
<1>2. QED
  BY RouterInvariant, <1>1, PTL

\* Nothing is left behind in the cache of a configured peer that is up.
THEOREM UpIsFlushed == Spec => []UpMeansFlushed
<1>1. RouterInv => UpMeansFlushed
  BY DEF RouterInv
<1>2. QED
  BY RouterInvariant, <1>1, PTL

--------------------------------------------------------------------------------
(* Where messages get lost *)

\* A configured peer that is gone although evmgr takes it to be up, or has something
\* unread from it, has its disconnect among what is unread.
LEMMA GoneIsUnread ==
    ASSUME RouterInv, NEW p \in Configured, p \notin connected,
           status[p] = "up" \/ inbox[p] # <<>>
    PROVE  \E i \in DOMAIN inbox[p] : inbox[p][i].kind = "disconnect"
<1>1. p \in Peers
  BY EvMgrAssumption
<1>2. inbox[p] \in Seq(Frame)
  BY <1>1 DEF RouterInv, TypeOK
<1>3. inbox[p] # <<>>
  BY DEF RouterInv, ToggleAgrees
<1>4. Len(inbox[p]) \in DOMAIN inbox[p]
  BY <1>2, <1>3, EmptySeq
<1>5. inbox[p][Len(inbox[p])].kind = "disconnect"
  BY <1>1, <1>3 DEF RouterInv, InboxAlternates
<1>6. QED
  BY <1>4, <1>5

\* Only messages for a peer without a connection are gone.
LEMMA GoneTo ==
    ASSUME NEW p, NEW d, NEW i, NEW q, <<"gone", p, i>> \in Gone(d, q)
    PROVE  d = p /\ p \notin connected
BY DEF Gone

\* A step that loses a message for a configured peer finds it without a connection
\* and either marked up or with something unread.
LEMMA LosingStep ==
    ASSUME RouterInv, NEW p \in Configured, NEW i \in 1..sent, [Next]_vars,
           <<"gone", p, i>> \in ended' \ ended
    PROVE  p \notin connected /\ (status[p] = "up" \/ inbox[p] # <<>>)
<1> USE EvMgrAssumption
<1>1. ASSUME NEW q \in Peers, Connect(q) \/ Disconnect(q) \/ Send(q) PROVE FALSE
  BY <1>1 DEF Connect, Disconnect, Send
<1>2. ASSUME Restart PROVE FALSE
  BY <1>2 DEF Restart
<1>3. ASSUME NEW q \in Peers, HandleNotify(q)
      PROVE  p \notin connected /\ (status[p] = "up" \/ inbox[p] # <<>>)
  <2>1. <<"gone", p, i>> \in Gone(q, cachedMsg[q])
    BY <1>3 DEF HandleNotify, router, FlushCached
  <2>2. inbox[q] # <<>>
    BY <1>3 DEF HandleNotify, Received
  <2>3. QED
    BY <2>1, <2>2, GoneTo
<1>4. ASSUME NEW q \in Peers, HandlePeerMsg(q)
      PROVE  p \notin connected /\ (status[p] = "up" \/ inbox[p] # <<>>)
  <2> DEFINE m == Head(inbox[q])
  <2>1. PICK d : /\ d = m.dst
                 /\ \/ status'[d] = "up" /\ ended' = ended \cup Gone(d, <<m>>)
                    \/ ended' = ended \cup
                         {<<"evicted", d, e.id>> : e \in Evicted(cachedMsg[d], m, CacheCap)}
    BY <1>4 DEF HandlePeerMsg
  <2>2. status'[d] = "up" /\ <<"gone", p, i>> \in Gone(d, <<m>>)
    BY <2>1
  <2>3. d = p /\ p \notin connected
    BY <2>2, GoneTo
  <2>4. inbox[q] # <<>> /\ status' = [status EXCEPT ![q] = "up"]
    BY <1>4 DEF HandlePeerMsg, Received, MarkUp
  <2>5. CASE p = q
    BY <2>3, <2>4, <2>5
  <2>6. CASE p # q
    BY <2>2, <2>3, <2>4, <2>6 DEF RouterInv, TypeOK
  <2>7. QED
    BY <2>5, <2>6
<1>5. ASSUME NEW q \in Peers, HandlePing(q)
      PROVE  p \notin connected /\ (status[p] = "up" \/ inbox[p] # <<>>)
  <2>1. <<"gone", p, i>> \in Gone(q, cachedMsg[q])
    BY <1>5 DEF HandlePing, FlushCached
  <2>2. inbox[q] # <<>>
    BY <1>5 DEF HandlePing, Received
  <2>3. QED
    BY <2>1, <2>2, GoneTo
<1>6. ASSUME NEW q \in Peers, HandleBroadcast(q)
      PROVE  p \notin connected /\ (status[p] = "up" \/ inbox[p] # <<>>)
  <2>1. PICK d \in Peers \ {q} : /\ status[d] = "up"
                                 /\ <<"gone", p, i>> \in Gone(d, <<Head(inbox[q])>>)
    BY <1>6 DEF HandleBroadcast, Targets
  <2>2. QED
    BY <2>1, GoneTo
<1>7. ASSUME NEW q \in Peers, HandleOther(q) PROVE FALSE
  BY <1>7 DEF HandleOther
<1>8. ASSUME UNCHANGED vars PROVE FALSE
  BY <1>8 DEF vars
<1>9. QED
  BY <1>1, <1>2, <1>3, <1>4, <1>5, <1>6, <1>7, <1>8 DEF Next, HandleEdgeMsg

\* evmgr loses a message for a configured peer on the way out only while the
\* disconnect of that peer is still unread: it never routes to a peer that it knows
\* to be gone, whatever the modules and the router do.
THEOREM LossIsBeforeNotice == Spec => LostOnlyBeforeNotice
<1>1. RouterInv /\ [Next]_vars =>
        [\A p \in Configured :
          (\E i \in 1..sent : <<"gone", p, i>> \in ended' \ ended)
              => \E i \in DOMAIN inbox[p] : inbox[p][i].kind = "disconnect"]_vars
  BY LosingStep, GoneIsUnread
<1>2. QED
  BY RouterInvariant, <1>1, PTL DEF Spec, LostOnlyBeforeNotice

--------------------------------------------------------------------------------
(* Order, places and the mailbox.  *)

IsNotify(m) == m.kind \in NotifyKinds

\* Along a queue the messages of one sender have rising ids.
Rising(q) == \A i, j \in DOMAIN q : i < j /\ q[i].src = q[j].src => q[i].id < q[j].id

\* Every message of queue q is older than those of the same sender in queue r.
Before(q, r) == \A i \in DOMAIN q, j \in DOMAIN r : q[i].src = r[j].src => q[i].id < r[j].id

\* Every message of queue q is older than what the inboxes hold of its sender.
OlderThan(q, box) ==
    \A i \in DOMAIN q : \A j \in DOMAIN box[q[i].src] :
        ~IsNotify(box[q[i].src][j]) => q[i].id < box[q[i].src][j].id

\* What is unread of a peer is its own and in the order it was sent.
UnreadInOrder ==
    \A p \in Peers : \A j \in DOMAIN inbox[p] : ~IsNotify(inbox[p][j]) =>
        /\ inbox[p][j].src = p
        /\ inbox[p][j].id \in 1..sent
        /\ \A i \in 1..j - 1 : ~IsNotify(inbox[p][i]) => inbox[p][i].id < inbox[p][j].id

\* What is held for a peer is for it, rises, and is older than what is unread.
HeldInOrder ==
    \A p \in Peers :
        /\ \A i \in DOMAIN cachedMsg[p] :
              /\ cachedMsg[p][i].dst = p
              /\ cachedMsg[p][i].kind \in PeerKinds
              /\ cachedMsg[p][i].id \in 1..sent
        /\ Rising(cachedMsg[p])
        /\ OlderThan(cachedMsg[p], inbox)

\* What a configured peer was given rises and is older than what is held for it and
\* what is unread.
GivenInOrder ==
    \A p \in Configured :
        /\ \A i \in DOMAIN delivered[p] : delivered[p][i].id \in 1..sent
        /\ Rising(delivered[p])
        /\ Before(delivered[p], cachedMsg[p])
        /\ OlderThan(delivered[p], inbox)

OrderInv == RouterInv /\ UnreadInOrder /\ HeldInOrder /\ GivenInOrder

--------------------------------------------------------------------------------
(* Sequences *)

\* The entries of a queue with one more at the back.
LEMMA AppendIndex ==
    ASSUME NEW S, NEW q \in Seq(S), NEW e \in S
    PROVE  /\ Append(q, e) \in Seq(S)
           /\ DOMAIN Append(q, e) = 1..Len(q) + 1
           /\ DOMAIN q = 1..Len(q) /\ Len(q) \in Nat
           /\ \A i \in DOMAIN q : Append(q, e)[i] = q[i]
           /\ Append(q, e)[Len(q) + 1] = e
BY AppendProperties, LenProperties

\* The entries of a queue whose front was taken.
LEMMA TailIndex ==
    ASSUME NEW S, NEW q \in Seq(S), q # <<>>
    PROVE  /\ Tail(q) \in Seq(S)
           /\ Len(q) \in Nat \ {0} /\ DOMAIN q = 1..Len(q)
           /\ DOMAIN Tail(q) = 1..Len(q) - 1
           /\ \A i \in DOMAIN Tail(q) : Tail(q)[i] = q[i + 1]
           /\ Head(q) = q[1] /\ Head(q) \in S
<1>1. /\ Len(q) \in Nat \ {0} /\ DOMAIN q = 1..Len(q)
      /\ Tail(q) \in Seq(S) /\ Len(Tail(q)) = Len(q) - 1
      /\ \A i \in 1..Len(Tail(q)) : Tail(q)[i] = q[i + 1]
      /\ Head(q) \in S
  BY HeadTailProperties, EmptySeq, LenProperties
<1>2. DOMAIN Tail(q) = 1..Len(q) - 1
  BY <1>1, LenProperties
<1>3. Head(q) = q[1]
  OBVIOUS
<1>4. QED
  BY <1>1, <1>2, <1>3

\* The entries of two queues one behind the other.
LEMMA ConcatIndex ==
    ASSUME NEW S, NEW q \in Seq(S), NEW r \in Seq(S)
    PROVE  /\ q \o r \in Seq(S)
           /\ DOMAIN (q \o r) = 1..Len(q) + Len(r) /\ Len(q \o r) = Len(q) + Len(r)
           /\ DOMAIN q = 1..Len(q) /\ Len(q) \in Nat
           /\ DOMAIN r = 1..Len(r) /\ Len(r) \in Nat
           /\ \A i \in DOMAIN q : (q \o r)[i] = q[i]
           /\ \A i \in DOMAIN r : (q \o r)[Len(q) + i] = r[i]
           /\ \A i \in Len(q) + 1..Len(q) + Len(r) :
                 (q \o r)[i] = r[i - Len(q)] /\ i - Len(q) \in DOMAIN r
BY ConcatProperties, LenProperties

\* A queue of messages in order stays so when one is added that is younger than the
\* ones of its sender.
LEMMA AppendRising ==
    ASSUME NEW S, NEW q \in Seq(S), NEW e \in S, Rising(q), Before(q, <<e>>)
    PROVE  Rising(Append(q, e))
<1>1. \A i \in DOMAIN q : q[i].src = e.src => q[i].id < e.id
  BY DEF Before
<1>2. QED
  BY <1>1, AppendIndex DEF Rising

\* Two queues in order, the first older than the second, make one in order.
LEMMA ConcatRising ==
    ASSUME NEW S, NEW q \in Seq(S), NEW r \in Seq(S), Rising(q), Rising(r), Before(q, r)
    PROVE  Rising(q \o r)
<1> SUFFICES ASSUME NEW i \in DOMAIN (q \o r), NEW j \in DOMAIN (q \o r), i < j,
                    (q \o r)[i].src = (q \o r)[j].src
             PROVE  (q \o r)[i].id < (q \o r)[j].id
  BY DEF Rising
<1> DEFINE n == Len(q)
<1>0. /\ n \in Nat /\ Len(r) \in Nat /\ i \in 1..n + Len(r) /\ j \in 1..n + Len(r)
      /\ DOMAIN q = 1..n /\ DOMAIN r = 1..Len(r)
  BY ConcatIndex
<1>1. CASE j <= n
  <2>1. i \in DOMAIN q /\ j \in DOMAIN q /\ (q \o r)[i] = q[i] /\ (q \o r)[j] = q[j]
    BY <1>0, <1>1, ConcatIndex
  <2>2. QED
    BY <2>1 DEF Rising
<1>2. CASE i <= n /\ n < j
  <2>1. i \in DOMAIN q /\ j - n \in DOMAIN r /\ (q \o r)[i] = q[i] /\ (q \o r)[j] = r[j - n]
    BY <1>0, <1>2, ConcatIndex
  <2>2. QED
    BY <2>1 DEF Before
<1>3. CASE n < i
  <2>1. /\ i - n \in DOMAIN r /\ j - n \in DOMAIN r /\ i - n < j - n
        /\ (q \o r)[i] = r[i - n] /\ (q \o r)[j] = r[j - n]
    BY <1>0, <1>3, ConcatIndex
  <2>2. QED
    BY <2>1 DEF Rising
<1>4. QED
  BY <1>0, <1>1, <1>2, <1>3

\* Taking the front away keeps a queue in order and adds no entry.
LEMMA TailRising ==
    ASSUME NEW S, NEW q \in Seq(S), q # <<>>, Rising(q)
    PROVE  /\ Rising(Tail(q))
           /\ \A i \in DOMAIN Tail(q) : \E j \in DOMAIN q : Tail(q)[i] = q[j]
<1>1. \A i \in DOMAIN Tail(q) : i + 1 \in DOMAIN q /\ Tail(q)[i] = q[i + 1]
  BY TailIndex
<1>2. \A i, j \in DOMAIN Tail(q) : i < j => i + 1 < j + 1
  BY TailIndex
<1>3. QED
  BY <1>1, <1>2 DEF Rising

\* The same for a push to a bounded queue.
LEMMA PushRising ==
    ASSUME NEW q \in BoundedSeq(Message, CacheCap), NEW e \in Message,
           Rising(q), Before(q, <<e>>)
    PROVE  /\ Rising(PushDropOldest(q, e, CacheCap))
           /\ \A i \in DOMAIN PushDropOldest(q, e, CacheCap) :
                 \/ PushDropOldest(q, e, CacheCap)[i] = e
                 \/ \E j \in DOMAIN q : PushDropOldest(q, e, CacheCap)[i] = q[j]
           /\ \E i \in DOMAIN PushDropOldest(q, e, CacheCap) :
                 PushDropOldest(q, e, CacheCap)[i] = e
<1> DEFINE r == PushDropOldest(q, e, CacheCap)
<1>1. q \in Seq(Message)
  BY DEF BoundedSeq
<1>2. /\ r # <<>> /\ r[Len(r)] = e
      /\ r = Append(q, e) \/ (q # <<>> /\ r = Append(Tail(q), e))
  <2>1. CacheCap \in Nat \ {0}
    BY EvMgrAssumption
  <2> HIDE DEF r
  <2>2. LET r0 == PushDropOldest(q, e, CacheCap)
        IN  /\ r0 # <<>>
            /\ r0[Len(r0)] = e
            /\ \/ r0 = Append(q, e)
               \/ q # <<>> /\ r0 = Append(Tail(q), e)
    BY <2>1, PushDropOldestKeepsNewest
  <2>3. QED
    BY <2>2 DEF r
<1>3. r \in Seq(Message) /\ Len(r) \in DOMAIN r
  <2>1. r \in BoundedSeq(Message, CacheCap)
    BY EvMgrAssumption, PushDropOldestBounded
  <2>2. QED
    BY <1>2, <2>1, EmptySeq, LenProperties DEF BoundedSeq
<1>4. CASE r = Append(q, e)
  BY <1>1, <1>2, <1>3, <1>4, AppendRising, AppendIndex
<1>5. CASE q # <<>> /\ r = Append(Tail(q), e)
  <2>1. /\ Tail(q) \in Seq(Message) /\ Rising(Tail(q))
        /\ \A i \in DOMAIN Tail(q) : \E j \in DOMAIN q : Tail(q)[i] = q[j]
    BY <1>1, <1>5, TailRising, TailIndex
  <2>2. Before(Tail(q), <<e>>)
    BY <2>1 DEF Before
  <2>3. Rising(r)
    BY <1>5, <2>1, <2>2, AppendRising
  <2>4. \A i \in DOMAIN r : r[i] = e \/ \E j \in DOMAIN q : r[i] = q[j]
    BY <1>5, <2>1, AppendIndex
  <2>5. QED
    BY <1>2, <1>3, <2>3, <2>4
<1>6. QED
  BY <1>2, <1>4, <1>5

--------------------------------------------------------------------------------
(* The order of messages *)

\* What reading the front of an inbox leaves unread.
LEMMA ReceivedFrame ==
    ASSUME TypeOK, NEW p \in Peers, NEW kinds, Received(p, kinds)
    PROVE  /\ inbox[p] \in Seq(Frame) /\ inbox[p] # <<>>
           /\ inbox'[p] = Tail(inbox[p]) /\ Head(inbox[p]) = inbox[p][1]
           /\ Head(inbox[p]).kind \in kinds /\ Head(inbox[p]) \in Frame
           /\ 1 \in DOMAIN inbox[p]
           /\ \A q \in Peers \ {p} : inbox'[q] = inbox[q]
           /\ \A j \in DOMAIN inbox'[p] :
                 j \in Nat /\ j + 1 \in DOMAIN inbox[p] /\ inbox'[p][j] = inbox[p][j + 1]
           /\ sent' = sent /\ connected' = connected
<1>1. /\ inbox[p] \in Seq(Frame) /\ inbox[p] # <<>> /\ inbox'[p] = Tail(inbox[p])
      /\ Head(inbox[p]).kind \in kinds
      /\ \A q \in Peers \ {p} : inbox'[q] = inbox[q]
      /\ sent' = sent /\ connected' = connected
  BY DEF Received, TypeOK, bounds
<1>2. QED
  BY <1>1, TailIndex

\* Every entry but the front stays unread.
LEMMA ReceivedRest ==
    ASSUME TypeOK, NEW p \in Peers, NEW kinds, Received(p, kinds)
    PROVE  \A j \in DOMAIN inbox[p] :
              j = 1 \/ (j - 1 \in DOMAIN inbox'[p] /\ inbox[p][j] = inbox'[p][j - 1])
<1>1. inbox[p] \in Seq(Frame) /\ inbox[p] # <<>> /\ inbox'[p] = Tail(inbox[p])
  BY ReceivedFrame
<1>2. /\ Len(inbox[p]) \in Nat /\ DOMAIN inbox[p] = 1..Len(inbox[p])
      /\ DOMAIN inbox'[p] = 1..Len(inbox[p]) - 1
      /\ \A i \in DOMAIN inbox'[p] : inbox'[p][i] = inbox[p][i + 1]
  BY <1>1, TailIndex
<1>3. ASSUME NEW j \in DOMAIN inbox[p], j # 1
      PROVE  j - 1 \in DOMAIN inbox'[p] /\ inbox[p][j] = inbox'[p][j - 1]
  <2>1. j \in Int /\ j - 1 \in 1..Len(inbox[p]) - 1 /\ (j - 1) + 1 = j
    BY <1>2, <1>3
  <2>2. QED
    BY <1>2, <2>1
<1>4. QED
  BY <1>3

\* What is unread stays in order when the front is read, and what is older than the
\* unread stays so; the front itself is older than what is left.
LEMMA ReceivedOrder ==
    ASSUME TypeOK, UnreadInOrder, NEW p \in Peers, NEW kinds, Received(p, kinds)
    PROVE  /\ UnreadInOrder'
           /\ \A q \in Seq(Message) : OlderThan(q, inbox) => OlderThan(q, inbox')
           /\ ~IsNotify(Head(inbox[p])) =>
                 /\ Head(inbox[p]).src = p /\ Head(inbox[p]).id \in 1..sent
                 /\ OlderThan(<<Head(inbox[p])>>, inbox')
<1>1. UnreadInOrder'
  <2>1. ASSUME NEW q \in Peers, NEW j \in DOMAIN inbox'[q], ~IsNotify(inbox'[q][j])
        PROVE  /\ inbox'[q][j].src = q
               /\ inbox'[q][j].id \in 1..sent
               /\ \A i \in 1..j - 1 : ~IsNotify(inbox'[q][i]) => inbox'[q][i].id < inbox'[q][j].id
    <3>1. CASE q # p
      BY <2>1, <3>1, ReceivedFrame DEF UnreadInOrder
    <3>2. CASE q = p
      <4>1. /\ j \in Nat /\ j + 1 \in DOMAIN inbox[p] /\ inbox'[p][j] = inbox[p][j + 1]
            /\ ~IsNotify(inbox[p][j + 1])
        BY <2>1, <3>2, ReceivedFrame
      <4>2. ASSUME NEW i \in 1..j - 1, ~IsNotify(inbox'[p][i])
            PROVE  inbox'[p][i].id < inbox'[p][j].id
        <5>1. DOMAIN inbox'[p] = 1..Len(inbox[p]) - 1 /\ Len(inbox[p]) \in Nat
          BY ReceivedFrame, TailIndex
        <5>2. i \in DOMAIN inbox'[p]
          BY <2>1, <3>2, <4>1, <5>1
        <5>3. inbox'[p][i] = inbox[p][i + 1] /\ i + 1 \in 1..(j + 1) - 1
          BY <4>1, <5>2, ReceivedFrame
        <5>4. QED
          BY <4>1, <4>2, <5>3 DEF UnreadInOrder
      <4>3. QED
        BY <3>2, <4>1, <4>2 DEF UnreadInOrder
    <3>3. QED
      BY <3>1, <3>2
  <2>2. sent' = sent
    BY ReceivedFrame
  <2>3. QED
    BY <2>1, <2>2 DEF UnreadInOrder, IsNotify
<1>2. ASSUME NEW q \in Seq(Message), OlderThan(q, inbox) PROVE OlderThan(q, inbox')
  <2>0. \A i \in DOMAIN q : q[i] \in Message
    OBVIOUS
  <2>1. \A i \in DOMAIN q : q[i].src \in Peers
    BY <2>0 DEF Message
  <2>2. \A r \in Peers : \A j \in DOMAIN inbox'[r] :
           \E k \in DOMAIN inbox[r] : inbox'[r][j] = inbox[r][k]
    BY ReceivedFrame
  <2>3. QED
    BY <1>2, <2>1, <2>2 DEF OlderThan
<1>3. ASSUME ~IsNotify(Head(inbox[p]))
      PROVE  /\ Head(inbox[p]).src = p /\ Head(inbox[p]).id \in 1..sent
             /\ OlderThan(<<Head(inbox[p])>>, inbox')
  <2> DEFINE m == Head(inbox[p])
  <2>1. m = inbox[p][1] /\ 1 \in DOMAIN inbox[p] /\ m.src = p /\ m.id \in 1..sent
    BY <1>3, ReceivedFrame DEF UnreadInOrder
  <2>2. ASSUME NEW j \in DOMAIN inbox'[p], ~IsNotify(inbox'[p][j])
        PROVE  m.id < inbox'[p][j].id
    <3>1. /\ j \in Nat /\ j + 1 \in DOMAIN inbox[p] /\ inbox'[p][j] = inbox[p][j + 1]
          /\ DOMAIN inbox'[p] = 1..Len(inbox[p]) - 1 /\ Len(inbox[p]) \in Nat
      BY ReceivedFrame, TailIndex
    <3>2. 1 \in 1..(j + 1) - 1
      BY <3>1
    <3>3. QED
      BY <1>3, <2>1, <2>2, <3>1, <3>2 DEF UnreadInOrder
  <2>3. QED
    BY <2>1, <2>2 DEF OlderThan
<1>4. QED
  BY <1>1, <1>2, <1>3

\* An entry at the back of one inbox keeps the order when it is a notification, or a
\* message younger than all before it.
LEMMA AppendedOrder ==
    ASSUME OrderInv, NEW p \in Peers, NEW f \in Frame,
           inbox' = [inbox EXCEPT ![p] = Append(@, f)],
           UNCHANGED <<cachedMsg, delivered>>,
           \/ IsNotify(f) /\ sent' = sent
           \/ f.src = p /\ f.id = sent + 1 /\ sent' = sent + 1
    PROVE  UnreadInOrder' /\ HeldInOrder' /\ GivenInOrder'
<1>0. TypeOK /\ sent \in Nat /\ 1..sent \subseteq 1..sent' /\ inbox[p] \in Seq(Frame)
  BY DEF OrderInv, RouterInv, TypeOK
<1>1. /\ inbox'[p] = Append(inbox[p], f)
      /\ \A q \in Peers \ {p} : inbox'[q] = inbox[q]
  BY <1>0 DEF TypeOK
<1>2. /\ \A j \in DOMAIN inbox[p] : inbox'[p][j] = inbox[p][j]
      /\ inbox'[p][Len(inbox[p]) + 1] = f
      /\ DOMAIN inbox'[p] = 1..Len(inbox[p]) + 1
      /\ DOMAIN inbox[p] = 1..Len(inbox[p]) /\ Len(inbox[p]) \in Nat
  BY <1>0, <1>1, AppendIndex
<1>3. UnreadInOrder'
  <2>1. ASSUME NEW q \in Peers, NEW j \in DOMAIN inbox'[q], ~IsNotify(inbox'[q][j])
        PROVE  /\ inbox'[q][j].src = q
               /\ inbox'[q][j].id \in 1..sent'
               /\ \A i \in 1..j - 1 : ~IsNotify(inbox'[q][i]) => inbox'[q][i].id < inbox'[q][j].id
    <3>1. CASE q # p
      BY <1>0, <1>1, <2>1, <3>1 DEF OrderInv, UnreadInOrder
    <3>2. CASE q = p /\ j \in DOMAIN inbox[p]
      <4>1. \A i \in 1..j - 1 : inbox'[p][i] = inbox[p][i]
        BY <1>2, <3>2
      <4>2. QED
        BY <1>0, <1>2, <2>1, <3>2, <4>1 DEF OrderInv, UnreadInOrder
    <3>3. CASE q = p /\ j = Len(inbox[p]) + 1
      <4>1. f.src = p /\ f.id = sent + 1 /\ sent' = sent + 1 /\ inbox'[p][j] = f
        BY <1>2, <2>1, <3>3
      <4>2. \A i \in 1..j - 1 : i \in DOMAIN inbox[p] /\ inbox'[p][i] = inbox[p][i]
        BY <1>2, <3>3
      <4>3. \A i \in 1..j - 1 : ~IsNotify(inbox'[p][i]) => inbox'[p][i].id \in 1..sent
        BY <4>2 DEF OrderInv, UnreadInOrder
      <4>4. QED
        BY <1>0, <3>3, <4>1, <4>3
    <3>4. QED
      BY <1>2, <2>1, <3>1, <3>2, <3>3
  <2>2. QED
    BY <2>1 DEF UnreadInOrder, IsNotify
<1>4. ASSUME NEW q \in Seq(Message), OlderThan(q, inbox), \A i \in DOMAIN q : q[i].id \in 1..sent
      PROVE  OlderThan(q, inbox')
  <2>1. \A i \in DOMAIN q : q[i] \in Message
    OBVIOUS
  <2>2. ASSUME NEW i \in DOMAIN q, NEW j \in DOMAIN inbox'[q[i].src],
               ~IsNotify(inbox'[q[i].src][j])
        PROVE  q[i].id < inbox'[q[i].src][j].id
    <3>1. q[i].src \in Peers /\ q[i].id \in 1..sent
      BY <1>4, <2>1 DEF Message
    <3>2. CASE q[i].src # p \/ j \in DOMAIN inbox[p]
      BY <1>1, <1>2, <1>4, <2>2, <3>1, <3>2 DEF OlderThan
    <3>3. CASE q[i].src = p /\ j = Len(inbox[p]) + 1
      BY <1>0, <1>2, <2>2, <3>1, <3>3
    <3>4. QED
      BY <1>2, <3>2, <3>3
  <2>3. QED
    BY <2>2 DEF OlderThan
<1>5. HeldInOrder'
  <2>1. \A q \in Peers : cachedMsg[q] \in Seq(Message)
    BY <1>0 DEF TypeOK, BoundedSeq
  <2>2. QED
    BY <1>0, <1>4, <2>1 DEF OrderInv, HeldInOrder
<1>6. GivenInOrder'
  <2>1. \A q \in Configured : delivered[q] \in Seq(Message)
    BY <1>0, EvMgrAssumption DEF TypeOK
  <2>2. QED
    BY <1>0, <1>4, <2>1 DEF OrderInv, GivenInOrder
<1>7. QED
  BY <1>3, <1>5, <1>6

\* A message handed to a peer, or not because the peer is gone, leaves its queue in
\* order if it is younger than what the peer was given before.
LEMMA DeliverOrder ==
    ASSUME TypeOK, NEW p \in Peers, NEW s \in Seq(Message),
           Rising(delivered[p]), Rising(s), Before(delivered[p], s)
    PROVE  /\ Deliver(p, s) \in Seq(Message)
           /\ Rising(Deliver(p, s))
           /\ \A i \in DOMAIN Deliver(p, s) :
                 \/ \E j \in DOMAIN delivered[p] : Deliver(p, s)[i] = delivered[p][j]
                 \/ \E j \in DOMAIN s : Deliver(p, s)[i] = s[j]
<1>1. delivered[p] \in Seq(Message)
  BY DEF TypeOK
<1>2. CASE p \in connected
  <2>1. Deliver(p, s) = delivered[p] \o s
    BY <1>2 DEF Deliver
  <2>2. delivered[p] \o s \in Seq(Message) /\ Rising(delivered[p] \o s)
    BY <1>1, ConcatRising, ConcatIndex
  <2>3. \A i \in DOMAIN (delivered[p] \o s) :
           \/ i \in DOMAIN delivered[p] /\ (delivered[p] \o s)[i] = delivered[p][i]
           \/ \E j \in DOMAIN s : (delivered[p] \o s)[i] = s[j]
    <3>1. \A i \in 1..Len(delivered[p]) + Len(s) :
             i \in 1..Len(delivered[p]) \/ i \in Len(delivered[p]) + 1..Len(delivered[p]) + Len(s)
      BY <1>1, ConcatIndex
    <3>2. QED
      BY <1>1, <3>1, ConcatIndex
  <2>4. QED
    BY <2>1, <2>2, <2>3
<1>3. CASE p \notin connected
  BY <1>1, <1>3 DEF Deliver
<1>4. QED
  BY <1>2, <1>3

\* Reading a message whose handling leaves queues and deliveries alone keeps the
\* order of everything.
LEMMA QuietOrder ==
    ASSUME OrderInv, NEW p \in Peers, NEW kinds, Received(p, kinds),
           UNCHANGED <<cachedMsg, delivered>>
    PROVE  UnreadInOrder' /\ HeldInOrder' /\ GivenInOrder'
<1>0. TypeOK /\ UnreadInOrder /\ HeldInOrder /\ GivenInOrder /\ sent' = sent
  BY ReceivedFrame DEF OrderInv, RouterInv
<1>1. \A q \in Peers : cachedMsg[q] \in Seq(Message) /\ delivered[q] \in Seq(Message)
  BY <1>0 DEF TypeOK, BoundedSeq
<1>2. HeldInOrder'
  BY <1>0, <1>1, ReceivedOrder DEF HeldInOrder
<1>3. GivenInOrder'
  BY <1>0, <1>1, ReceivedOrder, EvMgrAssumption DEF GivenInOrder
<1>4. QED
  BY <1>0, <1>2, <1>3, ReceivedOrder

\* Handing over what is held keeps the order.
LEMMA FlushOrder ==
    ASSUME OrderInv, NEW p \in Peers, NEW kinds, Received(p, kinds),
           NEW use, FlushCached(p, use)
    PROVE  UnreadInOrder' /\ HeldInOrder' /\ GivenInOrder'
<1>0. TypeOK /\ UnreadInOrder /\ HeldInOrder /\ GivenInOrder /\ sent' = sent
  BY ReceivedFrame DEF OrderInv, RouterInv
<1>1. \A q \in Peers : cachedMsg[q] \in Seq(Message) /\ delivered[q] \in Seq(Message)
  BY <1>0 DEF TypeOK, BoundedSeq
<1>2. /\ delivered'[p] = Deliver(p, cachedMsg[p]) /\ cachedMsg'[p] = <<>>
      /\ \A q \in Peers \ {p} : delivered'[q] = delivered[q] /\ cachedMsg'[q] = cachedMsg[q]
  BY <1>0 DEF FlushCached, TypeOK
<1>3. \A q \in Peers : /\ OlderThan(cachedMsg[q], inbox')
                       /\ q \in Configured => OlderThan(delivered[q], inbox')
  BY <1>0, <1>1, ReceivedOrder DEF HeldInOrder, GivenInOrder
<1>4. HeldInOrder'
  <2>1. DOMAIN <<>> = {}
    OBVIOUS
  <2>2. Rising(<<>>) /\ OlderThan(<<>>, inbox')
    BY <2>1 DEF Rising, OlderThan
  <2>3. QED
    BY <1>0, <1>2, <1>3, <2>1, <2>2 DEF HeldInOrder
<1>5. GivenInOrder'
  <2>1. ASSUME p \in Configured
        PROVE  /\ \A i \in DOMAIN delivered'[p] : delivered'[p][i].id \in 1..sent
               /\ Rising(delivered'[p])
               /\ Before(delivered'[p], cachedMsg'[p])
               /\ OlderThan(delivered'[p], inbox')
    <3>1. Rising(delivered[p]) /\ Rising(cachedMsg[p]) /\ Before(delivered[p], cachedMsg[p])
      BY <1>0, <2>1 DEF GivenInOrder, HeldInOrder
    <3>2. /\ Rising(delivered'[p])
          /\ \A i \in DOMAIN delivered'[p] :
                \/ \E j \in DOMAIN delivered[p] : delivered'[p][i] = delivered[p][j]
                \/ \E j \in DOMAIN cachedMsg[p] : delivered'[p][i] = cachedMsg[p][j]
      BY <1>0, <1>1, <1>2, <3>1, DeliverOrder
    <3>3. OlderThan(delivered'[p], inbox')
      BY <1>3, <2>1, <3>2 DEF OlderThan
    <3>4. \A i \in DOMAIN delivered'[p] : delivered'[p][i].id \in 1..sent
      BY <1>0, <2>1, <3>2 DEF GivenInOrder, HeldInOrder
    <3>5. DOMAIN <<>> = {}
      OBVIOUS
    <3>6. QED
      BY <1>2, <3>2, <3>3, <3>4, <3>5 DEF Before
  <2>2. QED
    BY <1>0, <1>2, <1>3, <2>1, EvMgrAssumption DEF GivenInOrder
<1>6. QED
  BY <1>0, <1>4, <1>5, ReceivedOrder

\* Handing the message just read to peers that are up, for which therefore nothing is
\* held if they are configured, keeps the order.
LEMMA RouteOrder ==
    ASSUME OrderInv, RouterInv', NEW p \in Peers, NEW kinds, Received(p, kinds),
           ~IsNotify(Head(inbox[p])), NEW D \in SUBSET Peers,
           \A q \in D \cap Configured : cachedMsg[q] = <<>>,
           UNCHANGED cachedMsg,
           \A q \in Peers : delivered'[q] = IF q \in D THEN Deliver(q, <<Head(inbox[p])>>)
                                            ELSE delivered[q]
    PROVE  UnreadInOrder' /\ HeldInOrder' /\ GivenInOrder'
<1> DEFINE m == Head(inbox[p])
<1>0. TypeOK /\ UnreadInOrder /\ HeldInOrder /\ GivenInOrder /\ sent' = sent
  BY ReceivedFrame DEF OrderInv, RouterInv
<1>1. \A q \in Peers : cachedMsg[q] \in Seq(Message) /\ delivered[q] \in Seq(Message)
  BY <1>0 DEF TypeOK, BoundedSeq
<1>2. m \in Message /\ m.src = p /\ m.id \in 1..sent /\ OlderThan(<<m>>, inbox')
  BY <1>0, ReceivedFrame, ReceivedOrder DEF IsNotify, Frame, Message
<1>3. \A q \in Peers : /\ OlderThan(cachedMsg[q], inbox')
                       /\ q \in Configured => OlderThan(delivered[q], inbox')
  BY <1>0, <1>1, ReceivedOrder DEF HeldInOrder, GivenInOrder
<1>4. HeldInOrder'
  BY <1>0, <1>3 DEF HeldInOrder
<1>5. ASSUME NEW q \in Configured, q \in D
      PROVE  /\ \A i \in DOMAIN delivered'[q] : delivered'[q][i].id \in 1..sent
             /\ Rising(delivered'[q])
             /\ Before(delivered'[q], cachedMsg'[q])
             /\ OlderThan(delivered'[q], inbox')
  <2>0. q \in Peers /\ delivered'[q] = Deliver(q, <<m>>)
    BY <1>5, EvMgrAssumption
  <2>1. Rising(<<m>>) /\ <<m>> \in Seq(Message) /\ DOMAIN <<m>> = {1} /\ <<m>>[1] = m
    BY <1>2 DEF Rising
  <2>2. Before(delivered[q], <<m>>)
    <3>1. 1 \in DOMAIN inbox[p] /\ inbox[p][1] = m
      BY <1>0, ReceivedFrame
    <3>2. OlderThan(delivered[q], inbox)
      BY <1>0, <1>5 DEF GivenInOrder
    <3>3. \A i \in DOMAIN delivered[q] : delivered[q][i].src = p => delivered[q][i].id < m.id
      BY <3>1, <3>2 DEF OlderThan
    <3>4. QED
      BY <1>2, <2>1, <3>3 DEF Before
  <2>3. /\ Rising(delivered'[q])
        /\ \A i \in DOMAIN delivered'[q] :
              \/ \E j \in DOMAIN delivered[q] : delivered'[q][i] = delivered[q][j]
              \/ delivered'[q][i] = m
    <3>1. Rising(delivered[q])
      BY <1>0, <1>5 DEF GivenInOrder
    <3>2. /\ Rising(Deliver(q, <<m>>))
          /\ \A i \in DOMAIN Deliver(q, <<m>>) :
                \/ \E j \in DOMAIN delivered[q] : Deliver(q, <<m>>)[i] = delivered[q][j]
                \/ \E j \in DOMAIN <<m>> : Deliver(q, <<m>>)[i] = <<m>>[j]
      BY <1>0, <2>0, <2>1, <2>2, <3>1, DeliverOrder
    <3>3. QED
      BY <2>0, <2>1, <3>2
  <2>4. OlderThan(delivered'[q], inbox')
    BY <1>2, <1>3, <1>5, <2>0, <2>1, <2>3 DEF OlderThan
  <2>5. \A i \in DOMAIN delivered'[q] : delivered'[q][i].id \in 1..sent
    BY <1>0, <1>2, <1>5, <2>3 DEF GivenInOrder
  <2>6. cachedMsg'[q] = <<>> /\ DOMAIN <<>> = {}
    BY <1>5
  <2>7. QED
    BY <2>3, <2>4, <2>5, <2>6 DEF Before
<1>6. GivenInOrder'
  <2>1. ASSUME NEW q \in Configured, q \notin D
        PROVE  /\ delivered'[q] = delivered[q] /\ cachedMsg'[q] = cachedMsg[q]
               /\ OlderThan(delivered'[q], inbox')
    BY <1>3, <2>1, EvMgrAssumption
  <2>2. QED
    BY <1>0, <1>5, <2>1 DEF GivenInOrder
<1>7. QED
  BY <1>0, <1>4, <1>6, ReceivedOrder

\* Holding the message just read for its target keeps the order.
LEMMA HoldOrder ==
    ASSUME OrderInv, NEW p \in Peers, Received(p, PeerKinds), UNCHANGED delivered,
           cachedMsg' = [cachedMsg EXCEPT ![Head(inbox[p]).dst] =
                             PushDropOldest(@, Head(inbox[p]), CacheCap)]
    PROVE  UnreadInOrder' /\ HeldInOrder' /\ GivenInOrder'
<1> DEFINE m == Head(inbox[p])
           d == m.dst
           r == PushDropOldest(cachedMsg[d], m, CacheCap)
<1>0. TypeOK /\ UnreadInOrder /\ HeldInOrder /\ GivenInOrder /\ sent' = sent
  BY ReceivedFrame DEF OrderInv, RouterInv
<1>1. \A q \in Peers : cachedMsg[q] \in Seq(Message) /\ delivered[q] \in Seq(Message)
  BY <1>0 DEF TypeOK, BoundedSeq
<1>2. /\ m.kind \in PeerKinds /\ m \in Message /\ m.src = p /\ m.id \in 1..sent
      /\ d \in Peers /\ OlderThan(<<m>>, inbox') /\ ~IsNotify(m)
      /\ 1 \in DOMAIN inbox[p] /\ inbox[p][1] = m
  <2>1. m.kind \in PeerKinds /\ ~IsNotify(m) /\ m \in Frame
    BY <1>0, ReceivedFrame DEF IsNotify, PeerKinds, NotifyKinds
  <2>2. QED
    BY <1>0, <2>1, ReceivedFrame, ReceivedOrder DEF Frame, Message
<1>3. \A q \in Peers : /\ OlderThan(cachedMsg[q], inbox')
                       /\ q \in Configured => OlderThan(delivered[q], inbox')
  BY <1>0, <1>1, ReceivedOrder DEF HeldInOrder, GivenInOrder
<1>4. cachedMsg'[d] = r /\ \A q \in Peers \ {d} : cachedMsg'[q] = cachedMsg[q]
  BY <1>0, <1>2 DEF TypeOK
<1>5. /\ Rising(r)
      /\ \A i \in DOMAIN r : r[i] = m \/ \E j \in DOMAIN cachedMsg[d] : r[i] = cachedMsg[d][j]
  <2>1. cachedMsg[d] \in BoundedSeq(Message, CacheCap)
    BY <1>0, <1>2 DEF TypeOK
  <2>2. Rising(cachedMsg[d])
    BY <1>0, <1>2 DEF HeldInOrder
  <2>3. Before(cachedMsg[d], <<m>>)
    BY <1>0, <1>2 DEF HeldInOrder, OlderThan, Before
  <2>4. QED
    BY <1>2, <2>1, <2>2, <2>3, PushRising
<1> HIDE DEF r
<1>6. HeldInOrder'
  <2>1. /\ \A i \in DOMAIN r : r[i].dst = d /\ r[i].kind \in PeerKinds /\ r[i].id \in 1..sent
        /\ OlderThan(r, inbox')
    <3>1. \A i \in DOMAIN r : r[i].dst = d /\ r[i].kind \in PeerKinds /\ r[i].id \in 1..sent
      BY <1>0, <1>2, <1>5 DEF HeldInOrder
    <3>2. DOMAIN <<m>> = {1} /\ <<m>>[1] = m
      OBVIOUS
    <3>3. OlderThan(r, inbox')
      <4>1. OlderThan(cachedMsg[d], inbox')
        BY <1>2, <1>3
      <4>2. QED
        BY <1>2, <1>5, <3>2, <4>1 DEF OlderThan
    <3>4. QED
      BY <3>1, <3>3
  <2>2. QED
    BY <1>0, <1>3, <1>4, <1>5, <2>1 DEF HeldInOrder
<1>7. GivenInOrder'
  <2>1. ASSUME d \in Configured PROVE Before(delivered[d], r)
    <3>1. Before(delivered[d], cachedMsg[d]) /\ OlderThan(delivered[d], inbox)
      BY <1>0, <2>1 DEF GivenInOrder
    <3>2. \A i \in DOMAIN delivered[d] : delivered[d][i].src = p => delivered[d][i].id < m.id
      BY <1>2, <3>1 DEF OlderThan
    <3>3. QED
      BY <1>2, <1>5, <3>1, <3>2 DEF Before
  <2>2. QED
    BY <1>0, <1>3, <1>4, <2>1, EvMgrAssumption DEF GivenInOrder
<1>8. QED
  BY <1>0, <1>6, <1>7, ReceivedOrder

\* A step of evmgr, its peers and its crashes keeps the order.
LEMMA NextOrder ==
    ASSUME OrderInv, [Next]_vars PROVE OrderInv'
<1>0. TypeOK /\ RouterInv /\ RouterInv'
  BY NextTypes, NextAlternates, NextToggle DEF OrderInv, RouterInv
<1> SUFFICES UnreadInOrder' /\ HeldInOrder' /\ GivenInOrder'
  BY <1>0 DEF OrderInv
<1>1. ASSUME NEW p \in Peers, Connect(p) \/ Disconnect(p)
      PROVE  UnreadInOrder' /\ HeldInOrder' /\ GivenInOrder'
  <2>1. PICK k \in NotifyKinds : inbox' = [inbox EXCEPT ![p] = Append(@, Notify(k, p))]
    BY <1>1 DEF Connect, Disconnect, NotifyKinds
  <2>2. Notify(k, p) \in Frame /\ IsNotify(Notify(k, p))
    BY DEF Notify, Frame, IsNotify
  <2>3. UNCHANGED <<cachedMsg, delivered, sent>>
    BY <1>1 DEF Connect, Disconnect, router, bounds
  <2>4. QED
    BY <2>1, <2>2, <2>3, AppendedOrder
<1>2. ASSUME NEW p \in Peers, Send(p)
      PROVE  UnreadInOrder' /\ HeldInOrder' /\ GivenInOrder'
  <2>1. PICK k \in PeerKinds \cup MgrKinds, d \in Peers :
           inbox' = [inbox EXCEPT ![p] =
               Append(@, [kind |-> k, src |-> p, dst |-> d, id |-> sent + 1])]
    BY <1>2 DEF Send
  <2>2. [kind |-> k, src |-> p, dst |-> d, id |-> sent + 1] \in Frame
    BY <1>0 DEF Frame, TypeOK
  <2>3. UNCHANGED <<cachedMsg, delivered>> /\ sent' = sent + 1
    BY <1>2 DEF Send, router
  <2>4. QED
    BY <2>1, <2>2, <2>3, AppendedOrder
<1>3. ASSUME NEW p \in Peers, HandleNotify(p)
      PROVE  UnreadInOrder' /\ HeldInOrder' /\ GivenInOrder'
  <2>1. Received(p, NotifyKinds)
    BY <1>3 DEF HandleNotify
  <2>2. UNCHANGED <<cachedMsg, delivered>> \/ FlushCached(p, {})
    BY <1>3 DEF HandleNotify, router
  <2>3. QED
    BY <2>1, <2>2, QuietOrder, FlushOrder
<1>4. ASSUME NEW p \in Peers, HandlePeerMsg(p)
      PROVE  UnreadInOrder' /\ HeldInOrder' /\ GivenInOrder'
  <2> DEFINE m == Head(inbox[p])
             d == m.dst
  <2>1. Received(p, PeerKinds) /\ ~IsNotify(m) /\ d \in Peers
    <3>1. Received(p, PeerKinds)
      BY <1>4 DEF HandlePeerMsg
    <3>2. QED
      BY <1>0, <3>1, ReceivedFrame DEF IsNotify, PeerKinds, NotifyKinds, Frame
  <2>2. CASE /\ status'[d] = "up"
             /\ delivered' = [delivered EXCEPT ![d] = Deliver(d, <<m>>)]
             /\ UNCHANGED cachedMsg
    <3>1. \A q \in {d} \cap Configured : cachedMsg[q] = <<>>
      BY <1>0, <2>2 DEF RouterInv, UpMeansFlushed
    <3>2. \A q \in Peers : delivered'[q] = IF q \in {d} THEN Deliver(q, <<m>>) ELSE delivered[q]
      BY <1>0, <2>1, <2>2 DEF TypeOK
    <3>3. {d} \in SUBSET Peers
      BY <2>1
    <3>4. QED
      BY <1>0, <2>1, <2>2, <3>1, <3>2, <3>3, RouteOrder
  <2>3. CASE /\ cachedMsg' = [cachedMsg EXCEPT ![d] = PushDropOldest(@, m, CacheCap)]
             /\ UNCHANGED delivered
    BY <2>1, <2>3, HoldOrder
  <2>4. QED
    BY <1>4, <2>2, <2>3 DEF HandlePeerMsg
<1>5. ASSUME NEW p \in Peers, HandlePing(p)
      PROVE  UnreadInOrder' /\ HeldInOrder' /\ GivenInOrder'
  BY <1>5, FlushOrder DEF HandlePing
<1>6. ASSUME NEW p \in Peers, HandleBroadcast(p)
      PROVE  UnreadInOrder' /\ HeldInOrder' /\ GivenInOrder'
  <2> DEFINE m == Head(inbox[p])
  <2>1. Received(p, {"broadcast"}) /\ ~IsNotify(m) /\ UNCHANGED cachedMsg
    BY <1>6 DEF HandleBroadcast, Received, IsNotify, NotifyKinds
  <2>2. \A q \in Targets(p) \cap Configured : cachedMsg[q] = <<>>
    BY <1>0 DEF Targets, RouterInv, UpMeansFlushed
  <2>3. \A q \in Peers : delivered'[q] = IF q \in Targets(p) THEN Deliver(q, <<m>>)
                                                            ELSE delivered[q]
    BY <1>6 DEF HandleBroadcast
  <2>4. Targets(p) \in SUBSET Peers
    BY DEF Targets
  <2>5. QED
    BY <1>0, <2>1, <2>2, <2>3, <2>4, RouteOrder
<1>7. ASSUME NEW p \in Peers, HandleOther(p)
      PROVE  UnreadInOrder' /\ HeldInOrder' /\ GivenInOrder'
  BY <1>7, QuietOrder DEF HandleOther
<1>8. CASE Restart
  <2>1. /\ \A p \in Peers : inbox'[p] = <<>> /\ cachedMsg'[p] = <<>>
        /\ delivered' = delivered /\ sent' = sent /\ DOMAIN <<>> = {}
    BY <1>8 DEF Restart
  <2>2. \A q \in Seq(Message) : OlderThan(q, inbox')
    <3>1. \A q \in Seq(Message) : \A i \in DOMAIN q : q[i] \in Message
      OBVIOUS
    <3>2. QED
      BY <2>1, <3>1 DEF OlderThan, Message
  <2>3. UnreadInOrder'
    BY <2>1 DEF UnreadInOrder
  <2>4. HeldInOrder'
    BY <2>1 DEF HeldInOrder, Rising, OlderThan
  <2>5. \A q \in Configured : delivered[q] \in Seq(Message) /\ q \in Peers
    BY <1>0, EvMgrAssumption DEF TypeOK
  <2>6. GivenInOrder'
    BY <2>1, <2>2, <2>5 DEF OrderInv, GivenInOrder, Before
  <2>7. QED
    BY <2>3, <2>4, <2>6
<1>9. CASE UNCHANGED vars
  BY <1>9 DEF vars, OrderInv, UnreadInOrder, HeldInOrder, GivenInOrder
<1>10. QED
  BY <1>1, <1>2, <1>3, <1>4, <1>5, <1>6, <1>7, <1>8, <1>9 DEF Next, HandleEdgeMsg

\* The order holds in every behaviour of evmgr.
LEMMA OrderInvariant == Spec => []OrderInv
<1>1. Init => OrderInv
  <2> SUFFICES ASSUME Init PROVE OrderInv
    OBVIOUS
  <2>1. \A p \in Peers : inbox[p] = <<>> /\ cachedMsg[p] = <<>> /\ delivered[p] = <<>>
    BY DEF Init
  <2>2. DOMAIN <<>> = {}
    OBVIOUS
  <2>3. UnreadInOrder /\ HeldInOrder
    BY <2>1, <2>2 DEF UnreadInOrder, HeldInOrder, Rising, OlderThan
  <2>4. GivenInOrder
    BY <2>1, <2>2, EvMgrAssumption DEF GivenInOrder, Rising, OlderThan, Before
  <2>5. QED
    BY <2>3, <2>4, InitRouterInv DEF OrderInv
<1>2. QED
  BY <1>1, NextOrder, PTL DEF Spec

\* What a configured module is given, followed by what is held for it, is in the order
\* each sender sent it and without a duplicate: messages held while it was away are
\* never overtaken by those routed to it directly.
THEOREM OrderIsKept == Spec => []InOrder
<1>1. OrderInv => InOrder
  <2> SUFFICES ASSUME OrderInv, NEW p \in Configured
               PROVE  LET s == delivered[p] \o cachedMsg[p]
                      IN  \A i, j \in 1..Len(s) :
                             (i < j /\ s[i].src = s[j].src) => s[i].id < s[j].id
    BY DEF InOrder
  <2>1. /\ delivered[p] \in Seq(Message) /\ cachedMsg[p] \in Seq(Message)
        /\ Rising(delivered[p]) /\ Rising(cachedMsg[p]) /\ Before(delivered[p], cachedMsg[p])
    BY EvMgrAssumption DEF OrderInv, RouterInv, TypeOK, BoundedSeq, HeldInOrder, GivenInOrder
  <2>2. Rising(delivered[p] \o cachedMsg[p])
    BY <2>1, ConcatRising
  <2>3. DOMAIN (delivered[p] \o cachedMsg[p]) = 1..Len(delivered[p] \o cachedMsg[p])
    BY <2>1, ConcatIndex
  <2>4. QED
    BY <2>2, <2>3 DEF Rising
<1>2. QED
  BY OrderInvariant, <1>1, PTL

--------------------------------------------------------------------------------
(* evmgr implements the mailbox *)

Waits(m) == m.kind \in PeerKinds \cup {"broadcast"}

\* What waits is what is unread or held and not a notification.
LEMMA WaitingIs ==
    ASSUME NEW x
    PROVE  x \in Waiting <=>
             /\ Waits(x)
             /\ \E q \in Peers : \/ \E j \in DOMAIN inbox[q] : x = inbox[q][j]
                                 \/ \E j \in DOMAIN cachedMsg[q] : x = cachedMsg[q][j]
BY DEF Waiting, Waits, Elements

\* A step that adds to each module's messages some that wait for it, and takes just
\* these from what waits, is a step of the mailbox.
LEMMA HandStep ==
    ASSUME OrderInv, OrderInv', NEW S \in [Peers -> Seq(Message)],
           \A q \in Peers : delivered'[q] = delivered[q] \o S[q],
           \A q \in Peers : \A i, j \in DOMAIN S[q] : S[q][i] = S[q][j] => i = j,
           \A q \in Peers : \A i \in DOMAIN S[q] : S[q][i] \in Waiting /\ Mail!IsFor(S[q][i], q),
           \A x : x \in Waiting' <=>
               x \in Waiting /\ ~\E q \in Peers : \E i \in DOMAIN S[q] : x = S[q][i],
           sent' = sent
    PROVE  Mail!Hand
<1>1. \A q \in Peers : delivered[q] \in Seq(Message) /\ S[q] \in Seq(Message)
  BY DEF OrderInv, RouterInv, TypeOK
<1>2. ASSUME NEW q \in Peers
      PROVE  /\ Len(delivered[q]) <= Len(delivered'[q])
             /\ \A i \in DOMAIN delivered[q] : delivered'[q][i] = delivered[q][i]
             /\ \A i \in Mail!Added(q) : /\ i - Len(delivered[q]) \in DOMAIN S[q]
                                         /\ delivered'[q][i] = S[q][i - Len(delivered[q])]
             /\ \A i \in DOMAIN S[q] : /\ Len(delivered[q]) + i \in Mail!Added(q)
                                       /\ delivered'[q][Len(delivered[q]) + i] = S[q][i]
             /\ Mail!Added(q) \subseteq DOMAIN delivered'[q]
             /\ DOMAIN delivered'[q] = 1..Len(delivered'[q])
             /\ Len(delivered[q]) \in Nat /\ Len(delivered'[q]) \in Nat
  <2> DEFINE d == delivered[q]
             s == S[q]
  <2>1. d \in Seq(Message) /\ s \in Seq(Message) /\ delivered'[q] = d \o s
    BY <1>1
  <2>2. /\ DOMAIN (d \o s) = 1..Len(d) + Len(s) /\ Len(d \o s) = Len(d) + Len(s)
        /\ DOMAIN d = 1..Len(d) /\ Len(d) \in Nat
        /\ DOMAIN s = 1..Len(s) /\ Len(s) \in Nat
        /\ \A i \in DOMAIN d : (d \o s)[i] = d[i]
        /\ \A i \in DOMAIN s : (d \o s)[Len(d) + i] = s[i]
        /\ \A i \in Len(d) + 1..Len(d) + Len(s) :
              (d \o s)[i] = s[i - Len(d)] /\ i - Len(d) \in DOMAIN s
    BY <2>1, ConcatIndex
  <2>3. Mail!Added(q) = Len(d) + 1..Len(d) + Len(s)
    BY <2>1, <2>2 DEF Mail!Added
  <2> HIDE DEF d, s
  <2>4. /\ Len(d) <= Len(delivered'[q])
        /\ \A i \in DOMAIN d : delivered'[q][i] = d[i]
        /\ \A i \in Mail!Added(q) : i - Len(d) \in DOMAIN s /\ delivered'[q][i] = s[i - Len(d)]
        /\ \A i \in DOMAIN s : /\ Len(d) + i \in Mail!Added(q)
                               /\ delivered'[q][Len(d) + i] = s[i]
        /\ Mail!Added(q) \subseteq DOMAIN delivered'[q]
        /\ DOMAIN delivered'[q] = 1..Len(delivered'[q])
        /\ Len(d) \in Nat /\ Len(delivered'[q]) \in Nat
    BY <2>1, <2>2, <2>3
  <2>5. QED
    BY <2>4 DEF d, s
<1>3. ASSUME NEW q \in Peers, NEW i \in Mail!Added(q)
      PROVE  /\ delivered'[q][i] \in Waiting
             /\ Mail!IsFor(delivered'[q][i], q)
             /\ \A j \in Mail!Added(q) : delivered'[q][i] = delivered'[q][j] => i = j
  <2>1. /\ i - Len(delivered[q]) \in DOMAIN S[q]
        /\ delivered'[q][i] = S[q][i - Len(delivered[q])]
    BY <1>2, <1>3
  <2>2. ASSUME NEW j \in Mail!Added(q), delivered'[q][i] = delivered'[q][j] PROVE i = j
    <3>1. /\ j - Len(delivered[q]) \in DOMAIN S[q]
          /\ delivered'[q][j] = S[q][j - Len(delivered[q])]
      BY <1>2
    <3>2. i - Len(delivered[q]) = j - Len(delivered[q])
      BY <2>1, <2>2, <3>1
    <3>3. i \in Int /\ j \in Int /\ Len(delivered[q]) \in Nat
      BY <1>2, <1>3, <2>2 DEF Mail!Added
    <3>4. QED
      BY <3>2, <3>3
  <2>3. QED
    BY <2>1, <2>2
<1>4. ASSUME NEW p \in Configured, NEW i \in Mail!Added(p), NEW j \in 1..i - 1,
             delivered'[p][i].src = delivered'[p][j].src
      PROVE  delivered'[p][j].id < delivered'[p][i].id
  <2>1. p \in Peers /\ Rising(delivered'[p])
    BY EvMgrAssumption DEF OrderInv, GivenInOrder
  <2>2. i \in DOMAIN delivered'[p] /\ j \in DOMAIN delivered'[p] /\ j < i
    BY <1>2, <1>4, <2>1
  <2>3. QED
    BY <1>4, <2>1, <2>2 DEF Rising
<1>5. Waiting' = Waiting \ Mail!Handed
  <2>1. ASSUME NEW x
        PROVE  x \in Mail!Handed <=> \E q \in Peers : \E i \in DOMAIN S[q] : x = S[q][i]
    <3>1. x \in Mail!Handed <=> \E q \in Peers : \E i \in Mail!Added(q) : x = delivered'[q][i]
      BY DEF Mail!Handed
    <3>2. QED
      BY <1>2, <3>1
  <2>2. QED
    BY <2>1
<1>6. QED
  BY <1>2, <1>3, <1>4, <1>5 DEF Mail!Hand

\* Reading a message that does not wait, with queues and deliveries left alone, leaves
\* everything waiting.
LEMMA QuietWaiting ==
    ASSUME TypeOK, NEW p \in Peers, NEW kinds, Received(p, kinds),
           kinds \cap (PeerKinds \cup {"broadcast"}) = {}
    PROVE  \A x : (/\ Waits(x)
                   /\ \E q \in Peers : \E j \in DOMAIN inbox[q] : x = inbox[q][j])
               <=> (/\ Waits(x)
                    /\ \E q \in Peers : \E j \in DOMAIN inbox'[q] : x = inbox'[q][j])
<1>1. ~Waits(Head(inbox[p]))
  BY ReceivedFrame DEF Waits
<1>2. \A j \in DOMAIN inbox[p] : j = 1 \/ (j - 1 \in DOMAIN inbox'[p] /\ inbox[p][j] = inbox'[p][j - 1])
  BY ReceivedRest
<1>3. \A x : \A j \in DOMAIN inbox[p] :
         Waits(x) /\ x = inbox[p][j] => \E k \in DOMAIN inbox'[p] : x = inbox'[p][k]
  BY <1>1, <1>2, ReceivedFrame
<1>4. \A x : \A j \in DOMAIN inbox'[p] : x = inbox'[p][j] => \E k \in DOMAIN inbox[p] : x = inbox[p][k]
  BY ReceivedFrame
<1>5. \A q \in Peers \ {p} : inbox'[q] = inbox[q]
  BY ReceivedFrame
<1>6. QED
  BY <1>3, <1>4, <1>5

\* Reading the message that waits at the front takes this message and no other from
\* what is unread, and it waits nowhere else.
LEMMA TakeWaiting ==
    ASSUME OrderInv, NEW p \in Peers, NEW kinds, Received(p, kinds), Waits(Head(inbox[p]))
    PROVE  /\ Head(inbox[p]) \in Waiting
           /\ \A q \in Peers : \A j \in DOMAIN inbox'[q] :
                 Waits(inbox'[q][j]) => inbox'[q][j] # Head(inbox[p])
           /\ \A q \in Peers : \A j \in DOMAIN cachedMsg[q] : cachedMsg[q][j] # Head(inbox[p])
           /\ \A x : (\E q \in Peers : \E j \in DOMAIN inbox'[q] : x = inbox'[q][j])
                  => (\E q \in Peers : \E j \in DOMAIN inbox[q] : x = inbox[q][j])
           /\ \A x : (x # Head(inbox[p]) /\ \E q \in Peers : \E j \in DOMAIN inbox[q] : x = inbox[q][j])
                  => (\E q \in Peers : \E j \in DOMAIN inbox'[q] : x = inbox'[q][j])
<1> DEFINE m == Head(inbox[p])
<1>0. TypeOK /\ UnreadInOrder /\ HeldInOrder
  BY DEF OrderInv, RouterInv
<1>1. \A x : Waits(x) => ~IsNotify(x)
  BY DEF Waits, IsNotify, PeerKinds, NotifyKinds
<1>2. /\ 1 \in DOMAIN inbox[p] /\ inbox[p][1] = m /\ ~IsNotify(m) /\ m.src = p
      /\ m.id \in 1..sent /\ OlderThan(<<m>>, inbox')
  BY <1>0, <1>1, ReceivedFrame, ReceivedOrder
<1>3. m \in Waiting
  BY <1>2, WaitingIs
<1>4. ASSUME NEW q \in Peers, NEW j \in DOMAIN inbox'[q], Waits(inbox'[q][j]), inbox'[q][j] = m
      PROVE  FALSE
  <2>1. UnreadInOrder' /\ sent' = sent
    BY <1>0, ReceivedOrder, ReceivedFrame
  <2>2. q = p
    BY <1>1, <1>2, <1>4, <2>1 DEF UnreadInOrder, IsNotify
  <2>3. DOMAIN <<m>> = {1} /\ <<m>>[1] = m
    OBVIOUS
  <2>4. m.id < m.id
    BY <1>1, <1>2, <1>4, <2>2, <2>3 DEF OlderThan
  <2>5. QED
    BY <1>2, <2>4
<1>5. ASSUME NEW q \in Peers, NEW j \in DOMAIN cachedMsg[q], cachedMsg[q][j] = m PROVE FALSE
  <2>1. OlderThan(cachedMsg[q], inbox)
    BY <1>0 DEF HeldInOrder
  <2>2. m.id < m.id
    BY <1>2, <1>5, <2>1 DEF OlderThan
  <2>3. QED
    BY <1>2, <2>2
<1>6. \A q \in Peers : \A j \in DOMAIN inbox'[q] : \E k \in DOMAIN inbox[q] : inbox'[q][j] = inbox[q][k]
  BY <1>0, ReceivedFrame
<1>7. \A q \in Peers : \A j \in DOMAIN inbox[q] :
         inbox[q][j] = m \/ \E k \in DOMAIN inbox'[q] : inbox[q][j] = inbox'[q][k]
  <2>1. \A j \in DOMAIN inbox[p] :
           j = 1 \/ (j - 1 \in DOMAIN inbox'[p] /\ inbox[p][j] = inbox'[p][j - 1])
    BY <1>0, ReceivedRest
  <2>2. QED
    BY <1>0, <1>2, <2>1, ReceivedFrame
<1>8. QED
  BY <1>3, <1>4, <1>5, <1>6, <1>7

\* A connect, a disconnect or a message at the back of an inbox is a step of the
\* mailbox in which the message is posted.
LEMMA PostStep ==
    ASSUME OrderInv, NEW p \in Peers, NEW f \in Frame,
           inbox' = [inbox EXCEPT ![p] = Append(@, f)],
           UNCHANGED <<cachedMsg, delivered>>,
           \/ IsNotify(f) /\ sent' = sent
           \/ f.id = sent + 1 /\ sent' = sent + 1
    PROVE  [Mail!Next]_(Mail!mailbox)
<1>0. TypeOK /\ sent \in Nat /\ inbox[p] \in Seq(Frame)
  BY DEF OrderInv, RouterInv, TypeOK
<1>1. /\ inbox'[p] = Append(inbox[p], f)
      /\ \A q \in Peers \ {p} : inbox'[q] = inbox[q]
  BY <1>0 DEF TypeOK
<1>2. /\ \A j \in DOMAIN inbox[p] : inbox'[p][j] = inbox[p][j]
      /\ inbox'[p][Len(inbox[p]) + 1] = f
      /\ DOMAIN inbox'[p] = 1..Len(inbox[p]) + 1
      /\ DOMAIN inbox[p] = 1..Len(inbox[p]) /\ Len(inbox[p]) \in Nat
  BY <1>0, <1>1, AppendIndex
<1>3. ASSUME NEW x
      PROVE  (\E q \in Peers : \E j \in DOMAIN inbox'[q] : x = inbox'[q][j])
         <=> (x = f \/ \E q \in Peers : \E j \in DOMAIN inbox[q] : x = inbox[q][j])
  <2>1. (\E j \in DOMAIN inbox'[p] : x = inbox'[p][j])
           <=> (x = f \/ \E j \in DOMAIN inbox[p] : x = inbox[p][j])
    BY <1>2
  <2>2. QED
    BY <1>1, <2>1
<1>4. \A x : x \in Waiting' <=> (x \in Waiting \/ (x = f /\ Waits(f)))
  <2>1. \A x : x \in Waiting' <=>
             /\ Waits(x)
             /\ \/ \E q \in Peers : \E j \in DOMAIN inbox'[q] : x = inbox'[q][j]
                \/ \E q \in Peers : \E j \in DOMAIN cachedMsg[q] : x = cachedMsg[q][j]
    BY DEF Waiting, Waits, Elements
  <2>2. ASSUME NEW x
        PROVE  x \in Waiting' <=> (x \in Waiting \/ (x = f /\ Waits(f)))
    <3>1. x \in Waiting <=>
             /\ Waits(x)
             /\ \/ \E q \in Peers : \E j \in DOMAIN inbox[q] : x = inbox[q][j]
                \/ \E q \in Peers : \E j \in DOMAIN cachedMsg[q] : x = cachedMsg[q][j]
      BY WaitingIs
    <3>2. (\E q \in Peers : \E j \in DOMAIN inbox'[q] : x = inbox'[q][j])
             <=> (x = f \/ \E q \in Peers : \E j \in DOMAIN inbox[q] : x = inbox[q][j])
      BY <1>3
    <3>3. QED
      BY <2>1, <3>1, <3>2
  <2>3. QED
    BY <2>2
<1>5. CASE Waits(f)
  <2>1. f.id = sent + 1 /\ sent' = sent + 1
    BY <1>5 DEF Waits, IsNotify, PeerKinds, NotifyKinds
  <2>2. \A x \in Waiting : x.id \in 1..sent
    <3>1. \A x : Waits(x) => ~IsNotify(x)
      BY DEF Waits, IsNotify, PeerKinds, NotifyKinds
    <3>2. QED
      BY <3>1, WaitingIs DEF OrderInv, UnreadInOrder, HeldInOrder
  <2>3. f \notin Waiting
    BY <1>0, <2>1, <2>2
  <2>4. f \in Waiting' \ Waiting /\ Waiting' = Waiting \cup {f}
    BY <1>4, <1>5, <2>3
  <2>5. Mail!Post(f)
    BY <1>0, <1>5, <2>1, <2>4 DEF Mail!Post, Mail!ToOne, Mail!ToAll, Waits, PeerKinds
  <2>6. QED
    BY <2>4, <2>5 DEF Mail!Next
<1>6. CASE ~Waits(f)
  <2>1. Waiting' = Waiting
    BY <1>4, <1>6
  <2>2. CASE sent' = sent
    BY <2>1, <2>2 DEF Mail!mailbox
  <2>3. CASE sent' = sent + 1
    BY <1>0, <2>1, <2>3 DEF Mail!Next, Mail!Address
  <2>4. QED
    BY <2>2, <2>3
<1>7. QED
  BY <1>5, <1>6

\* Reading something that waits for no module, and leaving the rest alone, changes
\* nothing in the mailbox.
LEMMA QuietStep ==
    ASSUME OrderInv, NEW p \in Peers, NEW kinds, Received(p, kinds),
           kinds \cap (PeerKinds \cup {"broadcast"}) = {},
           UNCHANGED <<cachedMsg, delivered>>
    PROVE  [Mail!Next]_(Mail!mailbox)
<1>0. TypeOK
  BY DEF OrderInv, RouterInv
<1>1. \A x : x \in Waiting' <=>
             /\ Waits(x)
             /\ \/ \E q \in Peers : \E j \in DOMAIN inbox'[q] : x = inbox'[q][j]
                \/ \E q \in Peers : \E j \in DOMAIN cachedMsg[q] : x = cachedMsg[q][j]
  BY DEF Waiting, Waits, Elements
<1>2. \A x : x \in Waiting' <=> x \in Waiting
  BY <1>0, <1>1, QuietWaiting, WaitingIs
<1>3. sent' = sent
  BY <1>0, ReceivedFrame
<1>4. QED
  BY <1>2, <1>3 DEF Mail!mailbox

\* Handing over what is held, or losing it because the peer is gone, is a step of the
\* mailbox.
LEMMA FlushStep ==
    ASSUME OrderInv, OrderInv', NEW p \in Peers, NEW kinds, Received(p, kinds),
           kinds \cap (PeerKinds \cup {"broadcast"}) = {},
           NEW use, FlushCached(p, use)
    PROVE  [Mail!Next]_(Mail!mailbox)
<1>0. TypeOK /\ HeldInOrder /\ UnreadInOrder /\ sent' = sent
  BY ReceivedFrame DEF OrderInv, RouterInv
<1>1. /\ delivered'[p] = Deliver(p, cachedMsg[p]) /\ cachedMsg'[p] = <<>>
      /\ \A q \in Peers \ {p} : delivered'[q] = delivered[q] /\ cachedMsg'[q] = cachedMsg[q]
      /\ delivered' = [delivered EXCEPT ![p] = Deliver(p, cachedMsg[p])]
      /\ \A q \in Peers : cachedMsg[q] \in Seq(Message) /\ delivered[q] \in Seq(Message)
  BY <1>0 DEF FlushCached, TypeOK, BoundedSeq
<1>2. \A x : x \in Waiting' <=>
             /\ Waits(x)
             /\ \/ \E q \in Peers : \E j \in DOMAIN inbox'[q] : x = inbox'[q][j]
                \/ \E q \in Peers : \E j \in DOMAIN cachedMsg'[q] : x = cachedMsg'[q][j]
  BY DEF Waiting, Waits, Elements
<1>3. \A x : x \in Waiting' <=>
             /\ Waits(x)
             /\ \/ \E q \in Peers : \E j \in DOMAIN inbox[q] : x = inbox[q][j]
                \/ \E q \in Peers \ {p} : \E j \in DOMAIN cachedMsg[q] : x = cachedMsg[q][j]
  <2>1. DOMAIN <<>> = {}
    OBVIOUS
  <2>2. \A x : (\E q \in Peers : \E j \in DOMAIN cachedMsg'[q] : x = cachedMsg'[q][j])
           <=> (\E q \in Peers \ {p} : \E j \in DOMAIN cachedMsg[q] : x = cachedMsg[q][j])
    BY <1>1, <2>1
  <2>3. QED
    BY <1>0, <1>2, <2>2, QuietWaiting
<1>4. ASSUME NEW i \in DOMAIN cachedMsg[p]
      PROVE  LET x == cachedMsg[p][i]
             IN  x \in Waiting /\ Mail!IsFor(x, p) /\ x \notin Waiting'
  <2> DEFINE x == cachedMsg[p][i]
  <2>1. x.dst = p /\ x.kind \in PeerKinds /\ x.id \in 1..sent /\ OlderThan(cachedMsg[p], inbox)
    BY <1>0 DEF HeldInOrder
  <2>2. x \in Waiting
    BY <2>1, WaitingIs DEF Waits
  <2>3. Mail!IsFor(x, p)
    BY <2>1 DEF Mail!IsFor, Mail!ToOne, PeerKinds
  <2>4. ASSUME NEW q \in Peers, NEW j \in DOMAIN inbox[q], x = inbox[q][j] PROVE FALSE
    <3>1. ~IsNotify(x)
      BY <2>1 DEF IsNotify, PeerKinds, NotifyKinds
    <3>2. x.src = q
      BY <1>0, <2>4, <3>1 DEF UnreadInOrder
    <3>3. x.id < x.id
      BY <2>1, <2>4, <3>1, <3>2 DEF OlderThan
    <3>4. QED
      BY <2>1, <3>3
  <2>5. ASSUME NEW q \in Peers \ {p}, NEW j \in DOMAIN cachedMsg[q], x = cachedMsg[q][j]
        PROVE  FALSE
    BY <1>0, <2>1, <2>5 DEF HeldInOrder
  <2>6. QED
    BY <1>3, <2>2, <2>3, <2>4, <2>5
<1>5. CASE p \notin connected
  <2>1. delivered' = delivered
    BY <1>0, <1>1, <1>5 DEF Deliver, TypeOK
  <2>2. Waiting' \subseteq Waiting
    BY <1>3, WaitingIs
  <2>3. QED
    BY <1>0, <2>1, <2>2 DEF Mail!Next, Mail!Lose
<1>6. CASE p \in connected
  <2> DEFINE S == [q \in Peers |-> IF q = p THEN cachedMsg[p] ELSE <<>>]
  <2>1. /\ S \in [Peers -> Seq(Message)] /\ S[p] = cachedMsg[p]
        /\ \A q \in Peers \ {p} : S[q] = <<>> /\ DOMAIN S[q] = {}
    BY <1>1
  <2> HIDE DEF S
  <2>2. \A q \in Peers : delivered'[q] = delivered[q] \o S[q]
    <3>1. \A q \in Peers : delivered[q] \o <<>> = delivered[q]
      BY <1>1
    <3>2. delivered'[p] = delivered[p] \o cachedMsg[p]
      BY <1>1, <1>6 DEF Deliver
    <3>3. QED
      BY <1>1, <2>1, <3>1, <3>2
  <2>3. \A q \in Peers : \A i, j \in DOMAIN S[q] : S[q][i] = S[q][j] => i = j
    <3>1. ASSUME NEW i \in DOMAIN cachedMsg[p], NEW j \in DOMAIN cachedMsg[p],
                 cachedMsg[p][i] = cachedMsg[p][j]
          PROVE  i = j
      <4>1. /\ Rising(cachedMsg[p]) /\ cachedMsg[p][i].id \in Nat
            /\ i \in Nat /\ j \in Nat
        BY <1>0, <1>1 DEF HeldInOrder
      <4>2. ~(i < j) /\ ~(j < i)
        BY <3>1, <4>1 DEF Rising
      <4>3. QED
        BY <4>1, <4>2
    <3>2. QED
      BY <2>1, <3>1
  <2>4. \A q \in Peers : \A i \in DOMAIN S[q] : S[q][i] \in Waiting /\ Mail!IsFor(S[q][i], q)
    BY <1>4, <2>1
  <2>5. \A x : x \in Waiting' <=>
            x \in Waiting /\ ~\E q \in Peers : \E i \in DOMAIN S[q] : x = S[q][i]
    <3>1. \A x : (\E q \in Peers : \E i \in DOMAIN S[q] : x = S[q][i])
             <=> (\E i \in DOMAIN cachedMsg[p] : x = cachedMsg[p][i])
      BY <2>1
    <3>2. ASSUME NEW x
          PROVE  x \in Waiting' <=>
                    x \in Waiting /\ ~\E i \in DOMAIN cachedMsg[p] : x = cachedMsg[p][i]
      <4>1. x \in Waiting <=>
               /\ Waits(x)
               /\ \/ \E q \in Peers : \E j \in DOMAIN inbox[q] : x = inbox[q][j]
                  \/ \E q \in Peers : \E j \in DOMAIN cachedMsg[q] : x = cachedMsg[q][j]
        BY WaitingIs
      <4>2. x \in Waiting' => ~\E i \in DOMAIN cachedMsg[p] : x = cachedMsg[p][i]
        BY <1>4
      <4>3. QED
        BY <1>3, <4>1, <4>2
    <3>3. QED
      BY <3>1, <3>2
  <2>6. Mail!Hand
    BY <1>0, <2>1, <2>2, <2>3, <2>4, <2>5, HandStep
  <2>7. QED
    BY <2>6 DEF Mail!Next
<1>7. QED
  BY <1>5, <1>6

\* Handing the message just read to some peers, those of them that are gone losing it,
\* is a step of the mailbox.
LEMMA RouteStep ==
    ASSUME OrderInv, OrderInv', NEW p \in Peers, NEW kinds, Received(p, kinds),
           Waits(Head(inbox[p])), NEW D \in SUBSET Peers,
           \A q \in D : Mail!IsFor(Head(inbox[p]), q),
           UNCHANGED cachedMsg,
           delivered' = [q \in Peers |-> IF q \in D THEN Deliver(q, <<Head(inbox[p])>>)
                                                    ELSE delivered[q]]
    PROVE  [Mail!Next]_(Mail!mailbox)
<1> DEFINE m == Head(inbox[p])
<1>0. TypeOK /\ sent' = sent /\ m \in Message
  <2>1. TypeOK
    BY DEF OrderInv, RouterInv
  <2>2. m \in Frame /\ m.kind \notin NotifyKinds
    BY <2>1, ReceivedFrame DEF Waits, PeerKinds, NotifyKinds
  <2>3. QED
    BY <2>1, <2>2, ReceivedFrame DEF Frame, Message
<1>1. \A x : x \in Waiting' <=>
             /\ Waits(x)
             /\ \/ \E q \in Peers : \E j \in DOMAIN inbox'[q] : x = inbox'[q][j]
                \/ \E q \in Peers : \E j \in DOMAIN cachedMsg[q] : x = cachedMsg[q][j]
  BY DEF Waiting, Waits, Elements
<1>2. \A x : x \in Waiting' <=> x \in Waiting /\ x # m
  <2>1. /\ \A q \in Peers : \A j \in DOMAIN inbox'[q] :
              Waits(inbox'[q][j]) => inbox'[q][j] # m
        /\ \A q \in Peers : \A j \in DOMAIN cachedMsg[q] : cachedMsg[q][j] # m
        /\ \A x : (\E q \in Peers : \E j \in DOMAIN inbox'[q] : x = inbox'[q][j])
               => (\E q \in Peers : \E j \in DOMAIN inbox[q] : x = inbox[q][j])
        /\ \A x : (x # m /\ \E q \in Peers : \E j \in DOMAIN inbox[q] : x = inbox[q][j])
               => (\E q \in Peers : \E j \in DOMAIN inbox'[q] : x = inbox'[q][j])
    BY TakeWaiting
  <2>2. ASSUME NEW x PROVE x \in Waiting' <=> x \in Waiting /\ x # m
    <3>1. x \in Waiting <=>
             /\ Waits(x)
             /\ \/ \E q \in Peers : \E j \in DOMAIN inbox[q] : x = inbox[q][j]
                \/ \E q \in Peers : \E j \in DOMAIN cachedMsg[q] : x = cachedMsg[q][j]
      BY WaitingIs
    <3>2. x \in Waiting' => x # m
      BY <1>1, <2>1
    <3>3. x \in Waiting' => x \in Waiting
      BY <1>1, <2>1, <3>1
    <3>4. x \in Waiting /\ x # m => x \in Waiting'
      BY <1>1, <2>1, <3>1
    <3>5. QED
      BY <3>2, <3>3, <3>4
  <2>3. QED
    BY <2>2
<1>3. m \in Waiting
  BY TakeWaiting
<1>4. CASE D \cap connected = {}
  <2>1. \A q \in Peers : delivered'[q] = delivered[q]
    BY <1>4 DEF Deliver
  <2>2. delivered' = delivered
    BY <1>0, <2>1 DEF TypeOK
  <2>3. Waiting' \subseteq Waiting
    BY <1>2
  <2>4. QED
    BY <1>0, <2>2, <2>3 DEF Mail!Next, Mail!Lose
<1>5. CASE D \cap connected # {}
  <2> DEFINE S == [q \in Peers |-> IF q \in D \cap connected THEN <<m>> ELSE <<>>]
  <2>1. /\ S \in [Peers -> Seq(Message)]
        /\ \A q \in D \cap connected : S[q] = <<m>> /\ DOMAIN S[q] = {1} /\ S[q][1] = m
        /\ \A q \in Peers \ (D \cap connected) : S[q] = <<>> /\ DOMAIN S[q] = {}
    BY <1>0
  <2> HIDE DEF S
  <2>2. \A q \in Peers : delivered'[q] = delivered[q] \o S[q]
    <3>1. \A q \in Peers : delivered[q] \in Seq(Message) /\ delivered[q] \o <<>> = delivered[q]
      BY <1>0 DEF TypeOK
    <3>2. QED
      BY <2>1, <3>1 DEF Deliver
  <2>3. \A q \in Peers : \A i, j \in DOMAIN S[q] : S[q][i] = S[q][j] => i = j
    BY <2>1
  <2>4. \A q \in Peers : \A i \in DOMAIN S[q] : S[q][i] \in Waiting /\ Mail!IsFor(S[q][i], q)
    BY <1>3, <2>1
  <2>5. \A x : x \in Waiting' <=>
            x \in Waiting /\ ~\E q \in Peers : \E i \in DOMAIN S[q] : x = S[q][i]
    <3>1. \A x : (\E q \in Peers : \E i \in DOMAIN S[q] : x = S[q][i]) <=> x = m
      BY <1>5, <2>1
    <3>2. QED
      BY <1>2, <3>1
  <2>6. Mail!Hand
    BY <1>0, <2>1, <2>2, <2>3, <2>4, <2>5, HandStep
  <2>7. QED
    BY <2>6 DEF Mail!Next
<1>6. QED
  BY <1>4, <1>5

\* Holding the message just read leaves it waiting, but for the one the cache may drop.
LEMMA HoldStep ==
    ASSUME OrderInv, NEW p \in Peers, Received(p, PeerKinds), UNCHANGED delivered,
           cachedMsg' = [cachedMsg EXCEPT ![Head(inbox[p]).dst] =
                             PushDropOldest(@, Head(inbox[p]), CacheCap)]
    PROVE  [Mail!Next]_(Mail!mailbox)
<1> DEFINE m == Head(inbox[p])
           d == m.dst
           r == PushDropOldest(cachedMsg[d], m, CacheCap)
<1>0. TypeOK /\ UnreadInOrder /\ HeldInOrder /\ sent' = sent
  BY ReceivedFrame DEF OrderInv, RouterInv
<1>1. /\ Waits(m) /\ m \in Message /\ m.src = p /\ d \in Peers /\ ~IsNotify(m)
      /\ 1 \in DOMAIN inbox[p] /\ inbox[p][1] = m
  <2>1. m.kind \in PeerKinds /\ ~IsNotify(m) /\ m \in Frame
    BY <1>0, ReceivedFrame DEF IsNotify, PeerKinds, NotifyKinds
  <2>2. QED
    BY <1>0, <2>1, ReceivedFrame, ReceivedOrder DEF Frame, Message, Waits
<1>2. cachedMsg'[d] = r /\ \A q \in Peers \ {d} : cachedMsg'[q] = cachedMsg[q]
  BY <1>0, <1>1 DEF TypeOK
<1>3. \A i \in DOMAIN r : r[i] = m \/ \E j \in DOMAIN cachedMsg[d] : r[i] = cachedMsg[d][j]
  <2>1. cachedMsg[d] \in BoundedSeq(Message, CacheCap)
    BY <1>0, <1>1 DEF TypeOK
  <2>2. Rising(cachedMsg[d])
    BY <1>0, <1>1 DEF HeldInOrder
  <2>3. Before(cachedMsg[d], <<m>>)
    BY <1>0, <1>1 DEF HeldInOrder, OlderThan, Before
  <2>4. QED
    BY <1>1, <2>1, <2>2, <2>3, PushRising
<1> HIDE DEF r
<1>4. m \in Waiting
  BY <1>1, WaitingIs
<1>5. ASSUME NEW x, x \in Waiting' PROVE x \in Waiting
  <2>1. /\ Waits(x)
        /\ \/ \E q \in Peers : \E j \in DOMAIN inbox'[q] : x = inbox'[q][j]
           \/ \E q \in Peers : \E j \in DOMAIN cachedMsg'[q] : x = cachedMsg'[q][j]
    BY <1>5 DEF Waiting, Waits, Elements
  <2>2. \A q \in Peers : \A j \in DOMAIN inbox'[q] : \E k \in DOMAIN inbox[q] : inbox'[q][j] = inbox[q][k]
    BY <1>0, ReceivedFrame
  <2>3. \/ x = m
        \/ \E q \in Peers : \E j \in DOMAIN inbox[q] : x = inbox[q][j]
        \/ \E q \in Peers : \E j \in DOMAIN cachedMsg[q] : x = cachedMsg[q][j]
    BY <1>1, <1>2, <1>3, <2>1, <2>2
  <2>4. QED
    BY <1>4, <2>1, <2>3, WaitingIs
<1>6. Mail!Lose
  BY <1>0, <1>5 DEF Mail!Lose
<1>7. QED
  BY <1>6 DEF Mail!Next

\* Every step of evmgr is a step of the mailbox or changes nothing there.
LEMMA NextMailbox ==
    ASSUME OrderInv, OrderInv', [Next]_vars PROVE [Mail!Next]_(Mail!mailbox)
<1>0. TypeOK /\ UnreadInOrder
  BY DEF OrderInv, RouterInv
<1>1. ASSUME NEW p \in Peers, Connect(p) \/ Disconnect(p)
      PROVE  [Mail!Next]_(Mail!mailbox)
  <2>1. PICK k \in NotifyKinds : inbox' = [inbox EXCEPT ![p] = Append(@, Notify(k, p))]
    BY <1>1 DEF Connect, Disconnect, NotifyKinds
  <2>2. Notify(k, p) \in Frame /\ IsNotify(Notify(k, p))
    BY DEF Notify, Frame, IsNotify
  <2>3. UNCHANGED <<cachedMsg, delivered>> /\ sent' = sent
    BY <1>1 DEF Connect, Disconnect, router, bounds
  <2>4. QED
    BY <2>1, <2>2, <2>3, PostStep
<1>2. ASSUME NEW p \in Peers, Send(p)
      PROVE  [Mail!Next]_(Mail!mailbox)
  <2>1. PICK k \in PeerKinds \cup MgrKinds, d \in Peers :
           inbox' = [inbox EXCEPT ![p] =
               Append(@, [kind |-> k, src |-> p, dst |-> d, id |-> sent + 1])]
    BY <1>2 DEF Send
  <2>2. [kind |-> k, src |-> p, dst |-> d, id |-> sent + 1] \in Frame
    BY <1>0 DEF Frame, TypeOK
  <2>3. UNCHANGED <<cachedMsg, delivered>> /\ sent' = sent + 1
    BY <1>2 DEF Send, router
  <2>4. QED
    BY <2>1, <2>2, <2>3, PostStep
<1>3. ASSUME NEW p \in Peers, HandleNotify(p)
      PROVE  [Mail!Next]_(Mail!mailbox)
  <2>1. Received(p, NotifyKinds)
    BY <1>3 DEF HandleNotify
  <2>2. NotifyKinds \cap (PeerKinds \cup {"broadcast"}) = {}
    BY DEF NotifyKinds, PeerKinds
  <2>3. CASE UNCHANGED <<cachedMsg, delivered>>
    BY <2>1, <2>2, <2>3, QuietStep
  <2>4. CASE FlushCached(p, {})
    BY <2>1, <2>2, <2>4, FlushStep
  <2>5. QED
    BY <1>3, <2>3, <2>4 DEF HandleNotify, router
<1>4. ASSUME NEW p \in Peers, HandlePeerMsg(p)
      PROVE  [Mail!Next]_(Mail!mailbox)
  <2> DEFINE m == Head(inbox[p])
             d == m.dst
  <2>1. Received(p, PeerKinds) /\ Waits(m) /\ d \in Peers /\ m.kind \in PeerKinds
    <3>1. Received(p, PeerKinds)
      BY <1>4 DEF HandlePeerMsg
    <3>2. QED
      BY <1>0, <3>1, ReceivedFrame DEF Waits, Frame
  <2>2. CASE /\ delivered' = [delivered EXCEPT ![d] = Deliver(d, <<m>>)]
             /\ UNCHANGED cachedMsg
    <3>1. delivered' = [q \in Peers |-> IF q \in {d} THEN Deliver(q, <<m>>) ELSE delivered[q]]
      BY <1>0, <2>1, <2>2 DEF TypeOK
    <3>2. \A q \in {d} : Mail!IsFor(m, q)
      BY <2>1 DEF Mail!IsFor, Mail!ToOne, PeerKinds
    <3>3. {d} \in SUBSET Peers /\ UNCHANGED cachedMsg
      BY <2>1, <2>2
    <3>4. QED
      BY <2>1, <3>1, <3>2, <3>3, RouteStep
  <2>3. CASE /\ cachedMsg' = [cachedMsg EXCEPT ![d] = PushDropOldest(@, m, CacheCap)]
             /\ UNCHANGED delivered
    BY <2>1, <2>3, HoldStep
  <2>4. QED
    BY <1>4, <2>2, <2>3 DEF HandlePeerMsg
<1>5. ASSUME NEW p \in Peers, HandlePing(p)
      PROVE  [Mail!Next]_(Mail!mailbox)
  <2>1. Received(p, {"ping"}) /\ {"ping"} \cap (PeerKinds \cup {"broadcast"}) = {}
    BY <1>5 DEF HandlePing, PeerKinds
  <2>2. PICK use : FlushCached(p, use)
    BY <1>5 DEF HandlePing
  <2>3. QED
    BY <2>1, <2>2, FlushStep
<1>6. ASSUME NEW p \in Peers, HandleBroadcast(p)
      PROVE  [Mail!Next]_(Mail!mailbox)
  <2> DEFINE m == Head(inbox[p])
  <2>1. Received(p, {"broadcast"}) /\ UNCHANGED cachedMsg
    BY <1>6 DEF HandleBroadcast
  <2>2. m.kind = "broadcast" /\ Waits(m) /\ 1 \in DOMAIN inbox[p] /\ m = inbox[p][1]
    BY <1>0, <2>1, ReceivedFrame DEF Waits
  <2>3. m.src = p
    BY <1>0, <2>2 DEF UnreadInOrder, IsNotify, NotifyKinds
  <2>4. \A q \in Targets(p) : Mail!IsFor(m, q)
    BY <2>2, <2>3 DEF Mail!IsFor, Mail!ToAll, Targets
  <2>5. delivered' = [q \in Peers |-> IF q \in Targets(p) THEN Deliver(q, <<m>>)
                                                          ELSE delivered[q]]
    BY <1>6 DEF HandleBroadcast
  <2>6. Targets(p) \in SUBSET Peers
    BY DEF Targets
  <2>7. QED
    BY <2>1, <2>2, <2>4, <2>5, <2>6, RouteStep
<1>7. ASSUME NEW p \in Peers, HandleOther(p)
      PROVE  [Mail!Next]_(Mail!mailbox)
  <2>1. Received(p, {"other"}) /\ {"other"} \cap (PeerKinds \cup {"broadcast"}) = {}
    BY <1>7 DEF HandleOther, PeerKinds
  <2>2. QED
    BY <1>7, <2>1, QuietStep DEF HandleOther
<1>8. CASE Restart
  <2>1. /\ \A p \in Peers : inbox'[p] = <<>> /\ cachedMsg'[p] = <<>>
        /\ delivered' = delivered /\ sent' = sent /\ DOMAIN <<>> = {}
    BY <1>8 DEF Restart
  <2>2. Waiting' \subseteq Waiting
    BY <2>1 DEF Waiting, Elements
  <2>3. QED
    BY <2>1, <2>2 DEF Mail!Next, Mail!Lose
<1>9. CASE UNCHANGED vars
  BY <1>9 DEF vars, Mail!mailbox, Waiting
<1>10. QED
  BY <1>1, <1>2, <1>3, <1>4, <1>5, <1>6, <1>7, <1>8, <1>9 DEF Next, HandleEdgeMsg

\* evmgr implements the mailbox: every message is handed over at most once, to a module
\* it is for, and to a configured one in order, whatever connects and crashes meanwhile.
THEOREM Implements == Spec => IsMailbox
<1>1. Init => Mail!Init
  <2> SUFFICES ASSUME Init PROVE Mail!Init
    OBVIOUS
  <2>1. Waiting = {}
    BY DEF Init, Waiting, Elements
  <2>2. QED
    BY <2>1 DEF Init, Mail!Init
<1>2. OrderInv /\ OrderInv' /\ [Next]_vars => [Mail!Next]_(Mail!mailbox)
  BY NextMailbox
<1>3. QED
  BY <1>1, <1>2, OrderInvariant, PTL DEF Spec, IsMailbox, Mail!Spec

--------------------------------------------------------------------------------
(* The place of messages *)

\* No message is twice in what is unread, or twice in what is held.
Apart(box) ==
    \A p, q \in Peers : \A i \in DOMAIN box[p], j \in DOMAIN box[q] :
        /\ ~IsNotify(box[p][i]) /\ ~IsNotify(box[q][j])
        /\ box[p][i].id = box[q][j].id
        => p = q /\ i = j

\* Only a notification has no number.
Numbered == \A p \in Peers : \A i \in DOMAIN inbox[p] : IsNotify(inbox[p][i]) <=> inbox[p][i].id = 0

\* The messages that some entries of the record of ends are about.
Used(entries) == {e[3] : e \in entries}

PlaceInv == Numbered /\ Apart(inbox) /\ Apart(cachedMsg) /\ ExactlyOnePlace

\* The numbers of a queue, with one more at the back, without its front, and behind
\* another.
LEMMA IdsAppend ==
    ASSUME NEW S, NEW q \in Seq(S), NEW e \in S
    PROVE  Ids(Append(q, e)) = Ids(q) \cup {e.id}
<1>1. Elements(Append(q, e)) = Elements(q) \cup {e}
  <2>1. /\ DOMAIN q = 1..Len(q) /\ DOMAIN Append(q, e) = 1..Len(q) + 1 /\ Len(q) \in Nat
        /\ \A i \in DOMAIN q : Append(q, e)[i] = q[i]
        /\ Append(q, e)[Len(q) + 1] = e
    BY AppendIndex
  <2>2. DOMAIN Append(q, e) = DOMAIN q \cup {Len(q) + 1}
    BY <2>1
  <2>3. QED
    BY <2>1, <2>2 DEF Elements
<1>2. QED
  BY <1>1 DEF Ids

LEMMA ElementsTail ==
    ASSUME NEW S, NEW q \in Seq(S), q # <<>>
    PROVE  Elements(q) = Elements(Tail(q)) \cup {Head(q)}
<1>1. /\ Tail(q) \in Seq(S) /\ Len(q) \in Nat \ {0} /\ DOMAIN q = 1..Len(q)
      /\ DOMAIN Tail(q) = 1..Len(q) - 1
      /\ \A i \in DOMAIN Tail(q) : Tail(q)[i] = q[i + 1]
      /\ Head(q) = q[1]
  BY TailIndex
<1>2. \A i \in DOMAIN q : i = 1 \/ (i - 1 \in DOMAIN Tail(q) /\ q[i] = Tail(q)[i - 1])
  BY <1>1
<1>3. \A i \in DOMAIN Tail(q) : i + 1 \in DOMAIN q
  BY <1>1
<1>4. 1 \in DOMAIN q
  BY <1>1
<1>5. ASSUME NEW x \in Elements(q)
      PROVE  x \in Elements(Tail(q)) \cup {Head(q)}
  BY <1>1, <1>2 DEF Elements
<1>6. ASSUME NEW x \in Elements(Tail(q)) \cup {Head(q)}
      PROVE  x \in Elements(q)
  BY <1>1, <1>3, <1>4 DEF Elements
<1>7. QED
  BY <1>5, <1>6

LEMMA ElementsConcat ==
    ASSUME NEW S, NEW q \in Seq(S), NEW r \in Seq(S)
    PROVE  Elements(q \o r) = Elements(q) \cup Elements(r)
<1>1. /\ DOMAIN (q \o r) = 1..Len(q) + Len(r)
      /\ DOMAIN q = 1..Len(q) /\ Len(q) \in Nat
      /\ DOMAIN r = 1..Len(r) /\ Len(r) \in Nat
      /\ \A i \in DOMAIN q : (q \o r)[i] = q[i]
      /\ \A i \in DOMAIN r : (q \o r)[Len(q) + i] = r[i]
      /\ \A i \in Len(q) + 1..Len(q) + Len(r) :
            (q \o r)[i] = r[i - Len(q)] /\ i - Len(q) \in DOMAIN r
  BY ConcatIndex
<1>2. \A i \in DOMAIN (q \o r) : i \in DOMAIN q \/ i \in Len(q) + 1..Len(q) + Len(r)
  BY <1>1
<1>3. \A i \in DOMAIN q : i \in DOMAIN (q \o r)
  BY <1>1
<1>4. \A i \in DOMAIN r : Len(q) + i \in DOMAIN (q \o r)
  BY <1>1
<1>5. ASSUME NEW x \in Elements(q \o r)
      PROVE  x \in Elements(q) \cup Elements(r)
  BY <1>1, <1>2 DEF Elements
<1>6. Elements(q) \subseteq Elements(q \o r)
  BY <1>1, <1>3 DEF Elements
<1>7. Elements(r) \subseteq Elements(q \o r)
  BY <1>1, <1>4 DEF Elements
<1>8. QED
  BY <1>5, <1>6, <1>7

\* What is in each place.
LEMMA IdsIs ==
    ASSUME NEW q, NEW x
    PROVE  x \in Ids(q) <=> \E i \in DOMAIN q : x = q[i].id
BY DEF Ids, Elements

LEMMA PlacesNow ==
    ASSUME NEW x
    PROVE  /\ x \in Unread <=> x # 0 /\ \E q \in Peers : x \in Ids(inbox[q])
           /\ x \in Held <=> \E q \in Peers : x \in Ids(cachedMsg[q])
           /\ x \in Given <=> \E q \in Peers : \E m \in Routed(q) : x = m.id
<1>1. x \in Unread <=> x # 0 /\ \E q \in Peers : x \in Ids(inbox[q])
  BY DEF Unread
<1>2. x \in Held <=> \E q \in Peers : x \in Ids(cachedMsg[q])
  BY DEF Held
<1>3. x \in Given <=> \E q \in Peers : \E m \in Routed(q) : x = m.id
  <2> DEFINE R == UNION {Routed(q) : q \in Peers}
  <2>1. \A m : m \in R <=> \E q \in Peers : m \in Routed(q)
    OBVIOUS
  <2>2. x \in Given <=> \E m \in R : x = m.id
    BY DEF Given
  <2> HIDE DEF R
  <2>3. QED
    BY <2>1, <2>2
<1>4. QED
  BY <1>1, <1>2, <1>3

LEMMA PlacesNext ==
    ASSUME NEW x
    PROVE  /\ x \in Unread' <=> x # 0 /\ \E q \in Peers : x \in Ids(inbox'[q])
           /\ x \in Held' <=> \E q \in Peers : x \in Ids(cachedMsg'[q])
           /\ x \in Given' <=> \E q \in Peers : \E m \in Routed(q)' : x = m.id
<1>1. x \in Unread' <=> x # 0 /\ \E q \in Peers : x \in Ids(inbox'[q])
  BY DEF Unread, Ids
<1>2. x \in Held' <=> \E q \in Peers : x \in Ids(cachedMsg'[q])
  BY DEF Held, Ids
<1>3. x \in Given' <=> \E q \in Peers : \E m \in Routed(q)' : x = m.id
  <2> DEFINE R == UNION {Routed(q)' : q \in Peers}
  <2>1. \A m : m \in R <=> \E q \in Peers : m \in Routed(q)'
    OBVIOUS
  <2>2. x \in Given' <=> \E m \in R : x = m.id
    BY DEF Given
  <2> HIDE DEF R
  <2>3. QED
    BY <2>1, <2>2
<1>4. QED
  BY <1>1, <1>2, <1>3

\* What is read leaves the unread.
LEMMA ReadOut ==
    ASSUME OrderInv, PlaceInv, NEW p \in Peers, NEW kinds, Received(p, kinds)
    PROVE  /\ Numbered' /\ Apart(inbox)'
           /\ IsNotify(Head(inbox[p])) => Unread' = Unread
           /\ ~IsNotify(Head(inbox[p])) =>
                 Head(inbox[p]).id \in Unread /\ Unread' = Unread \ {Head(inbox[p]).id}
<1> DEFINE h == Head(inbox[p])
<1>1. TypeOK /\ Numbered /\ Apart(inbox)
  BY DEF OrderInv, RouterInv, PlaceInv
<1>2. /\ inbox[p] \in Seq(Frame) /\ inbox[p] # <<>> /\ inbox'[p] = Tail(inbox[p])
      /\ h = inbox[p][1] /\ 1 \in DOMAIN inbox[p]
      /\ \A q \in Peers \ {p} : inbox'[q] = inbox[q]
      /\ \A j \in DOMAIN inbox'[p] :
            j \in Nat /\ j + 1 \in DOMAIN inbox[p] /\ inbox'[p][j] = inbox[p][j + 1]
  BY <1>1, ReceivedFrame
<1>3. \A j \in DOMAIN inbox[p] :
          j = 1 \/ (j - 1 \in DOMAIN inbox'[p] /\ inbox[p][j] = inbox'[p][j - 1])
  BY <1>1, ReceivedRest
<1>4. Numbered'
  <2>1. \A q \in Peers : \A i \in DOMAIN inbox'[q] : \E j \in DOMAIN inbox[q] :
           inbox'[q][i] = inbox[q][j]
    BY <1>2
  <2>2. QED
    BY <1>1, <2>1 DEF Numbered
<1>5. Apart(inbox)'
  <2> SUFFICES ASSUME NEW q \in Peers, NEW r \in Peers,
                      NEW i \in DOMAIN inbox'[q], NEW j \in DOMAIN inbox'[r],
                      ~IsNotify(inbox'[q][i]), ~IsNotify(inbox'[r][j]),
                      inbox'[q][i].id = inbox'[r][j].id
               PROVE  q = r /\ i = j
    BY DEF Apart
  <2> DEFINE Old(s, k) == IF s = p THEN k + 1 ELSE k
  <2>1. /\ Old(q, i) \in DOMAIN inbox[q] /\ inbox'[q][i] = inbox[q][Old(q, i)]
        /\ Old(r, j) \in DOMAIN inbox[r] /\ inbox'[r][j] = inbox[r][Old(r, j)]
    BY <1>2
  <2>2. q = r /\ Old(q, i) = Old(r, j)
    BY <1>1, <2>1 DEF Apart
  <2>3. q = p => i \in Nat /\ j \in Nat
    BY <1>2, <2>2
  <2>4. QED
    BY <2>2, <2>3
<1>6. \A x : x \in Ids(inbox[p]) <=> x \in Ids(inbox'[p]) \/ x = h.id
  <2>1. \A x : x \in Ids(inbox[p]) <=> \E i \in DOMAIN inbox[p] : x = inbox[p][i].id
    BY IdsIs
  <2>2. \A x : x \in Ids(inbox'[p]) <=> \E i \in DOMAIN inbox'[p] : x = inbox'[p][i].id
    BY IdsIs
  <2>3. ASSUME NEW x \in Ids(inbox[p]) PROVE x \in Ids(inbox'[p]) \/ x = h.id
    <3>1. PICK i \in DOMAIN inbox[p] : x = inbox[p][i].id
      BY <2>1
    <3>2. CASE i = 1
      BY <3>1, <3>2, <1>2
    <3>3. CASE i - 1 \in DOMAIN inbox'[p] /\ inbox[p][i] = inbox'[p][i - 1]
      BY <3>1, <3>3, <2>2
    <3>4. QED
      BY <1>3, <3>2, <3>3
  <2>4. ASSUME NEW x \in Ids(inbox'[p]) PROVE x \in Ids(inbox[p])
    <3>1. PICK i \in DOMAIN inbox'[p] : x = inbox'[p][i].id
      BY <2>2
    <3>2. i + 1 \in DOMAIN inbox[p] /\ x = inbox[p][i + 1].id
      BY <3>1, <1>2
    <3>3. QED
      BY <3>2, <2>1
  <2>5. h.id \in Ids(inbox[p])
    BY <1>2, <2>1
  <2>6. QED
    BY <2>3, <2>4, <2>5
<1>7. \A x : x \in Unread <=> x \in Unread' \/ (x # 0 /\ x = h.id)
  <2>1. \A x : x \in Unread <=> x # 0 /\ \E q \in Peers : x \in Ids(inbox[q])
    BY PlacesNow
  <2>2. \A x : x \in Unread' <=> x # 0 /\ \E q \in Peers : x \in Ids(inbox'[q])
    BY PlacesNext
  <2>3. QED
    BY <1>2, <1>6, <2>1, <2>2
<1>8. ASSUME IsNotify(h) PROVE Unread' = Unread
  <2>1. h.id = 0
    BY <1>1, <1>2, <1>8 DEF Numbered
  <2>2. QED
    BY <1>7, <2>1
<1>9. ASSUME ~IsNotify(h) PROVE h.id \in Unread /\ Unread' = Unread \ {h.id}
  <2>1. h.id # 0
    BY <1>1, <1>2, <1>9 DEF Numbered
  <2>2. ASSUME NEW q \in Peers, NEW i \in DOMAIN inbox'[q], inbox'[q][i].id = h.id
        PROVE  FALSE
    <3>1. ~IsNotify(inbox'[q][i])
      BY <1>4, <2>1, <2>2 DEF Numbered
    <3>2. CASE q = p
      <4>1. i \in Nat /\ i + 1 \in DOMAIN inbox[p] /\ inbox'[p][i] = inbox[p][i + 1]
        BY <1>2, <3>2
      <4> DEFINE k == i + 1
      <4>2. k \in DOMAIN inbox[p] /\ inbox[p][k].id = inbox[p][1].id /\ ~IsNotify(inbox[p][k])
        BY <1>2, <2>2, <3>1, <3>2, <4>1
      <4> HIDE DEF k
      <4>3. k = 1
        BY <1>1, <1>2, <1>9, <4>2 DEF Apart
      <4>4. i # 0
        BY <1>2, <3>2, HeadTailProperties, LenProperties
      <4>5. QED
        BY <4>1, <4>3, <4>4 DEF k
    <3>3. CASE q # p
      BY <1>1, <1>2, <1>9, <2>2, <3>1, <3>3 DEF Apart
    <3>4. QED
      BY <3>2, <3>3
  <2>3. h.id \notin Unread'
    BY <2>2, IdsIs, PlacesNext
  <2>4. QED
    BY <1>7, <2>1, <2>3
<1>10. QED
  BY <1>4, <1>5, <1>8, <1>9

\* The record of ends grows, by nothing or by one entry.
LEMMA UsedGrows ==
    ASSUME NEW more, ended' = ended \cup more
    PROVE  Ended' = Ended \cup Used(more)
BY DEF Used, Ended

LEMMA UsedNone == Used({}) = {}
BY DEF Used

LEMMA UsedOne ==
    ASSUME NEW r, NEW p, NEW i
    PROVE  Used({<<r, p, i>>}) = {i}
<1> DEFINE e == <<r, p, i>>
<1>1. e[3] = i
  OBVIOUS
<1> HIDE DEF e
<1>2. Used({e}) = {i}
  BY <1>1 DEF Used
<1>3. QED
  BY <1>2 DEF e

\* What a peer is handed, or loses for lack of a connection.
LEMMA HandedOut ==
    ASSUME TypeOK, NEW p \in Peers, NEW s \in Seq(Message),
           \A m \in Elements(s) : m.kind \in PeerKinds /\ m.dst = p,
           \A q \in Peers : \A m \in Routed(q) : m.dst = q,
           delivered' = [delivered EXCEPT ![p] = Deliver(p, s)]
    PROVE  /\ \A q \in Peers : \A m \in Routed(q)' : m.dst = q
           /\ p \in connected => Given' = Given \cup Ids(s) /\ Used(Gone(p, s)) = {}
           /\ p \notin connected => Given' = Given /\ Used(Gone(p, s)) = Ids(s)
<1>1. delivered[p] \in Seq(Message) /\ delivered \in [Peers -> Seq(Message)]
  BY DEF TypeOK
<1>2. Elements(delivered'[p]) = Elements(delivered[p]) \cup (IF p \in connected THEN Elements(s) ELSE {})
  <2>1. delivered'[p] = Deliver(p, s)
    BY <1>1
  <2>2. Elements(delivered[p] \o s) = Elements(delivered[p]) \cup Elements(s)
    BY <1>1, ElementsConcat
  <2>3. QED
    BY <2>1, <2>2 DEF Deliver
<1>3. \A q \in Peers \ {p} : Elements(delivered'[q]) = Elements(delivered[q])
  BY <1>1
<1>4. Routed(p)' = Routed(p) \cup (IF p \in connected THEN Elements(s) ELSE {})
  BY <1>2 DEF Routed
<1>5. \A q \in Peers \ {p} : Routed(q)' = Routed(q)
  BY <1>3 DEF Routed
<1>6. \A q \in Peers : \A m \in Routed(q)' : m.dst = q
  BY <1>4, <1>5
<1>7. Given' = Given \cup (IF p \in connected THEN Ids(s) ELSE {})
  <2>1. \A x : x \in Given <=> \E q \in Peers : \E m \in Routed(q) : x = m.id
    BY PlacesNow
  <2>2. \A x : x \in Given' <=> \E q \in Peers : \E m \in Routed(q)' : x = m.id
    BY PlacesNext
  <2>3. \A x : x \in Ids(s) <=> \E m \in Elements(s) : x = m.id
    BY DEF Ids
  <2>4. ASSUME NEW x
        PROVE  x \in Given' <=> x \in Given \/ (p \in connected /\ x \in Ids(s))
    BY <1>4, <1>5, <2>1, <2>2, <2>3
  <2>5. QED
    BY <2>4
<1>8. p \in connected => Used(Gone(p, s)) = {}
  BY UsedNone DEF Gone
<1>9. p \notin connected => Used(Gone(p, s)) = Ids(s)
  <2>1. \A i : <<"gone", p, i>>[3] = i
    OBVIOUS
  <2> DEFINE G == {<<"gone", p, i>> : i \in Ids(s)}
  <2>2. \A x : (\E e \in G : x = e[3]) <=> x \in Ids(s)
    BY <2>1
  <2>3. p \notin connected => Gone(p, s) = G
    BY DEF Gone
  <2> HIDE DEF G
  <2>4. QED
    BY <2>2, <2>3 DEF Used
<1>10. QED
  BY <1>6, <1>7, <1>8, <1>9

\* What is held for a peer is handed over at once.
LEMMA FlushOut ==
    ASSUME OrderInv, PlaceInv, NEW p \in Peers, NEW use, FlushCached(p, use)
    PROVE  \E X \in SUBSET Held :
              /\ Apart(cachedMsg)' /\ Held' = Held \ X
              /\ \A q \in Peers : \A m \in Routed(q)' : m.dst = q
              /\ \/ Given' = Given \cup X /\ Ended' = Ended \cup Used(use)
                 \/ Given' = Given /\ Ended' = Ended \cup X \cup Used(use)
<1> DEFINE X == Ids(cachedMsg[p])
<1>1. /\ TypeOK /\ HeldInOrder /\ Apart(cachedMsg)
      /\ \A q \in Peers : \A m \in Routed(q) : m.dst = q
  BY DEF OrderInv, RouterInv, PlaceInv, ExactlyOnePlace
<1>2. /\ cachedMsg \in [Peers -> BoundedSeq(Message, CacheCap)] /\ cachedMsg[p] \in Seq(Message)
      /\ cachedMsg' = [cachedMsg EXCEPT ![p] = <<>>]
      /\ delivered' = [delivered EXCEPT ![p] = Deliver(p, cachedMsg[p])]
      /\ ended' = ended \cup use \cup Gone(p, cachedMsg[p])
  BY <1>1 DEF TypeOK, BoundedSeq, FlushCached
<1>3. /\ cachedMsg'[p] = <<>> /\ DOMAIN cachedMsg'[p] = {} /\ Ids(cachedMsg'[p]) = {}
      /\ \A q \in Peers \ {p} : cachedMsg'[q] = cachedMsg[q]
  BY <1>2 DEF Ids, Elements
<1>4. Apart(cachedMsg)'
  BY <1>1, <1>3 DEF Apart
<1>5. ASSUME NEW q \in Peers \ {p}, NEW i \in Ids(cachedMsg[q])
      PROVE  i \notin X
  <2>1. PICK j \in DOMAIN cachedMsg[q] : i = cachedMsg[q][j].id
    BY DEF Ids, Elements
  <2>2. \A r \in Peers : \A k \in DOMAIN cachedMsg[r] : ~IsNotify(cachedMsg[r][k])
    BY <1>1 DEF HeldInOrder, IsNotify, PeerKinds, NotifyKinds
  <2>3. \A k \in DOMAIN cachedMsg[p] : cachedMsg[p][k].id # i
    BY <1>1, <2>1, <2>2 DEF Apart
  <2>4. QED
    BY <2>3 DEF Ids, Elements
<1>6. Held' = Held \ X /\ X \in SUBSET Held
  BY <1>3, <1>5 DEF Held
<1>7. \A m \in Elements(cachedMsg[p]) : m.kind \in PeerKinds /\ m.dst = p
  BY <1>1 DEF HeldInOrder, Elements
<1>8. /\ \A q \in Peers : \A m \in Routed(q)' : m.dst = q
      /\ p \in connected => Given' = Given \cup X /\ Used(Gone(p, cachedMsg[p])) = {}
      /\ p \notin connected => Given' = Given /\ Used(Gone(p, cachedMsg[p])) = X
  BY <1>1, <1>2, <1>7, HandedOut
<1>9. Ended' = Ended \cup Used(use) \cup Used(Gone(p, cachedMsg[p]))
  <2>1. ended' = ended \cup (use \cup Gone(p, cachedMsg[p]))
    BY <1>2
  <2>2. Ended' = Ended \cup Used(use \cup Gone(p, cachedMsg[p]))
    BY <2>1, UsedGrows
  <2>3. Used(use \cup Gone(p, cachedMsg[p])) = Used(use) \cup Used(Gone(p, cachedMsg[p]))
    BY DEF Used
  <2>4. QED
    BY <2>2, <2>3
<1> HIDE DEF X
<1>10. QED
  BY <1>4, <1>6, <1>8, <1>9

\* A message is held; one that the limit pushes out ends.
LEMMA HoldIn ==
    ASSUME OrderInv, PlaceInv, NEW d \in Peers, NEW m \in Message, m.id \notin Held,
           m.kind \in PeerKinds,
           cachedMsg' = [cachedMsg EXCEPT ![d] = PushDropOldest(@, m, CacheCap)],
           ended' = ended \cup {<<"evicted", d, e.id>> : e \in Evicted(cachedMsg[d], m, CacheCap)}
    PROVE  \E X \in SUBSET Held :
              /\ Apart(cachedMsg)' /\ Held' = (Held \ X) \cup {m.id}
              /\ Ended' = Ended \cup X
<1> DEFINE q == cachedMsg[d]
           X == {e.id : e \in Evicted(q, m, CacheCap)}
<1>1. /\ TypeOK /\ HeldInOrder /\ Apart(cachedMsg)
  BY DEF OrderInv, RouterInv, PlaceInv
<1>2. /\ cachedMsg \in [Peers -> BoundedSeq(Message, CacheCap)] /\ q \in Seq(Message)
      /\ cachedMsg'[d] = PushDropOldest(q, m, CacheCap)
      /\ \A r \in Peers \ {d} : cachedMsg'[r] = cachedMsg[r]
      /\ CacheCap \in Nat \ {0} /\ Len(q) \in Nat
  BY <1>1, EvMgrAssumption DEF TypeOK, BoundedSeq
<1>3. \A r \in Peers : \A k \in DOMAIN cachedMsg[r] : ~IsNotify(cachedMsg[r][k])
  BY <1>1 DEF HeldInOrder, IsNotify, PeerKinds, NotifyKinds
<1>4. ~IsNotify(m) /\ \A r \in Peers : \A k \in DOMAIN cachedMsg[r] : cachedMsg[r][k].id # m.id
  BY DEF IsNotify, PeerKinds, NotifyKinds, Held, Ids, Elements
<1>5. Ended' = Ended \cup X
  <2> DEFINE G == {<<"evicted", d, e.id>> : e \in Evicted(q, m, CacheCap)}
  <2>1. \A e : <<"evicted", d, e.id>>[3] = e.id
    OBVIOUS
  <2>2. {g[3] : g \in G} = X
    BY <2>1
  <2>3. ended' = ended \cup G
    OBVIOUS
  <2> HIDE DEF G, X
  <2>4. QED
    BY <2>2, <2>3 DEF Ended
\* The base is what the push leaves of the queue.
<1>6. \E base \in Seq(Message) :
         /\ cachedMsg'[d] = Append(base, m)
         /\ \/ base = q /\ X = {}
            \/ q # <<>> /\ base = Tail(q) /\ X = {Head(q).id}
  <2>1. CASE Len(q) + 1 > CacheCap
    <3>1. q # <<>>
      BY <1>2, <2>1, EmptySeq
    <3>2. cachedMsg'[d] = Append(Tail(q), m) /\ Evicted(q, m, CacheCap) = {Head(q)} /\ Tail(q) \in Seq(Message)
      BY <1>2, <2>1, <3>1, HeadTailAppend, HeadTailProperties DEF PushDropOldest, Evicted
    <3>3. QED
      BY <3>1, <3>2
  <2>2. CASE ~(Len(q) + 1 > CacheCap)
    BY <1>2, <2>2 DEF PushDropOldest, Evicted
  <2>3. QED
    BY <2>1, <2>2
<1>7. PICK base \in Seq(Message) :
         /\ cachedMsg'[d] = Append(base, m)
         /\ \/ base = q /\ X = {}
            \/ q # <<>> /\ base = Tail(q) /\ X = {Head(q).id}
  BY <1>6
<1> DEFINE off == IF base = q THEN 0 ELSE 1
<1>8. /\ DOMAIN base = 1..Len(base) /\ Len(base) \in Nat
      /\ DOMAIN cachedMsg'[d] = 1..Len(base) + 1
      /\ \A k \in DOMAIN base : cachedMsg'[d][k] = base[k]
      /\ cachedMsg'[d][Len(base) + 1] = m
  BY <1>7, AppendIndex
<1>9. off \in Nat /\ \A k \in DOMAIN base : k + off \in DOMAIN q /\ base[k] = q[k + off]
  BY <1>2, <1>7, <1>8, TailIndex
<1> HIDE DEF off
<1>10. \A k \in DOMAIN cachedMsg'[d] : k \in DOMAIN base \/ (k = Len(base) + 1 /\ cachedMsg'[d][k] = m)
  BY <1>8
<1>11. Apart(cachedMsg)'
  <2> SUFFICES ASSUME NEW r \in Peers, NEW s \in Peers,
                      NEW i \in DOMAIN cachedMsg'[r], NEW j \in DOMAIN cachedMsg'[s],
                      cachedMsg'[r][i].id = cachedMsg'[s][j].id
               PROVE  r = s /\ i = j
    BY DEF Apart
  <2> DEFINE New(t, k) == t = d /\ k = Len(base) + 1
             Old(t, k) == IF t = d THEN k + off ELSE k
  <2>1. \A t \in Peers : \A k \in DOMAIN cachedMsg'[t] :
           \/ New(t, k) /\ cachedMsg'[t][k] = m
           \/ Old(t, k) \in DOMAIN cachedMsg[t] /\ cachedMsg'[t][k] = cachedMsg[t][Old(t, k)]
    BY <1>2, <1>8, <1>9, <1>10
  <2>2. \A t \in Peers : \A k \in DOMAIN cachedMsg'[t] :
           New(t, k) <=> cachedMsg'[t][k].id = m.id
    BY <1>4, <2>1, <1>8
  <2> HIDE DEF New
  <2>3. New(r, i) <=> New(s, j)
    BY <2>2
  <2> USE DEF New
  <2>4. CASE New(r, i)
    BY <2>3, <2>4
  <2>5. CASE ~New(r, i)
    <3>1. r = s /\ Old(r, i) = Old(s, j)
      BY <1>1, <1>3, <2>1, <2>3, <2>5 DEF Apart
    <3>2. r = d => i \in Nat /\ j \in Nat
      BY <1>8, <3>1
    <3>3. QED
      BY <1>9, <3>1, <3>2
  <2>6. QED
    BY <2>4, <2>5
<1>12. \A x : x \in Ids(cachedMsg'[d]) <=> x \in Ids(base) \/ x = m.id
  <2>1. Ids(Append(base, m)) = Ids(base) \cup {m.id}
    BY IdsAppend
  <2>2. QED
    BY <1>7, <2>1
<1>13. Ids(q) = Ids(base) \cup X /\ Ids(base) \cap X = {}
  <2>1. CASE base = q /\ X = {}
    BY <2>1
  <2>2. CASE q # <<>> /\ base = Tail(q) /\ X = {Head(q).id}
    <3>1. Ids(q) = Ids(base) \cup X
      BY <1>2, <2>2, ElementsTail DEF Ids
    <3>2. \A k \in DOMAIN base : base[k] = q[k + 1] /\ k + 1 \in DOMAIN q /\ k + 1 # 1
      BY <1>2, <1>8, <2>2, TailIndex
    <3>3. Head(q) = q[1] /\ 1 \in DOMAIN q
      BY <1>2, <2>2, TailIndex
    <3>4. \A k \in DOMAIN base : base[k].id # Head(q).id
      BY <1>1, <1>3, <3>2, <3>3 DEF Apart
    <3>5. Head(q).id \notin Ids(base)
      BY <3>4, IdsIs
    <3> HIDE DEF X
    <3>6. QED
      BY <2>2, <3>1, <3>5
  <2>3. QED
    BY <1>7, <2>1, <2>2
<1>14. ASSUME NEW r \in Peers \ {d}, NEW i \in Ids(cachedMsg[r])
       PROVE  i \notin Ids(q)
  <2>1. PICK j \in DOMAIN cachedMsg[r] : i = cachedMsg[r][j].id
    BY DEF Ids, Elements
  <2>2. \A k \in DOMAIN q : q[k].id # i
    BY <1>1, <1>3, <2>1 DEF Apart
  <2>3. QED
    BY <2>2 DEF Ids, Elements
<1> HIDE DEF X
<1>15. Held' = (Held \ X) \cup {m.id} /\ X \in SUBSET Held
  <2>1. \A x : x \in Held' <=> \/ \E r \in Peers \ {d} : x \in Ids(cachedMsg[r])
                            \/ x \in Ids(base) \/ x = m.id
    BY <1>2, <1>12, PlacesNext
  <2>2. \A x : x \in Held <=> \/ \E r \in Peers \ {d} : x \in Ids(cachedMsg[r])
                           \/ x \in Ids(base) \/ x \in X
    BY <1>13, PlacesNow
  <2>3. \A x \in X : x \notin Ids(base) /\ \A r \in Peers \ {d} : x \notin Ids(cachedMsg[r])
    BY <1>13, <1>14
  <2>4. m.id \notin X
    BY <2>2
  <2>5. QED
    BY <2>1, <2>2, <2>3, <2>4
<1>16. QED
  BY <1>5, <1>11, <1>15

\* The steps that leave every message where it is, but for one that is read and used.
LEMMA UsedKeeps ==
    ASSUME OrderInv, PlaceInv, NEW p \in Peers, NEW kinds, Received(p, kinds),
           UNCHANGED cachedMsg, Given' = Given,
           \A q \in Peers : \A m \in Routed(q)' : m.dst = q,
           ~IsNotify(Head(inbox[p])), Ended' = Ended \cup {Head(inbox[p]).id}
    PROVE  PlaceInv'
<1>1. /\ Numbered' /\ Apart(inbox)'
      /\ Head(inbox[p]).id \in Unread /\ Unread' = Unread \ {Head(inbox[p]).id}
  BY ReadOut
<1>2. Held' = Held /\ sent' = sent /\ Apart(cachedMsg)'
  BY DEF Held, Received, bounds, PlaceInv, Apart
<1>3. ExactlyOnePlace'
  BY <1>1, <1>2 DEF PlaceInv, ExactlyOnePlace
<1>4. QED
  BY <1>1, <1>2, <1>3 DEF PlaceInv

LEMMA NotifyKeeps ==
    ASSUME OrderInv, PlaceInv, NEW p \in Peers, HandleNotify(p)
    PROVE  PlaceInv'
<1>1. Received(p, NotifyKinds) /\ IsNotify(Head(inbox[p]))
  BY DEF HandleNotify, Received, IsNotify
<1>2. Numbered' /\ Apart(inbox)' /\ Unread' = Unread /\ sent' = sent
  BY <1>1, ReadOut DEF Received, bounds
<1>3. CASE UNCHANGED <<cachedMsg, delivered, ended>>
  <2>1. Held' = Held /\ Ended' = Ended /\ Apart(cachedMsg)' /\ Given' = Given
        /\ \A q \in Peers : Routed(q)' = Routed(q)
    BY <1>3 DEF Held, Ended, Given, Routed, Apart, PlaceInv
  <2>2. ExactlyOnePlace'
    BY <1>2, <2>1 DEF PlaceInv, ExactlyOnePlace
  <2>3. QED
    BY <1>2, <2>1, <2>2 DEF PlaceInv
<1>4. CASE FlushCached(p, {})
  <2>1. Used({}) = {}
    BY UsedNone
  <2>2. PICK X \in SUBSET Held :
              /\ Apart(cachedMsg)' /\ Held' = Held \ X
              /\ \A q \in Peers : \A m \in Routed(q)' : m.dst = q
              /\ \/ Given' = Given \cup X /\ Ended' = Ended \cup Used({})
                 \/ Given' = Given /\ Ended' = Ended \cup X \cup Used({})
    BY <1>4, FlushOut
  <2>3. \/ Given' = Given \cup X /\ Ended' = Ended
        \/ Given' = Given /\ Ended' = Ended \cup X
    BY <2>1, <2>2
  <2>4. ExactlyOnePlace'
    BY <1>2, <2>2, <2>3 DEF PlaceInv, ExactlyOnePlace
  <2>5. QED
    BY <1>2, <2>2, <2>4 DEF PlaceInv
<1>5. QED
  BY <1>3, <1>4 DEF HandleNotify, router

LEMMA PingKeeps ==
    ASSUME OrderInv, PlaceInv, NEW p \in Peers, HandlePing(p)
    PROVE  PlaceInv'
<1> DEFINE h == Head(inbox[p])
           use == {<<"mgr", p, h.id>>}
<1>1. Received(p, {"ping"}) /\ ~IsNotify(h) /\ FlushCached(p, use)
  BY DEF HandlePing, Received, IsNotify, NotifyKinds
<1>2. /\ Numbered' /\ Apart(inbox)' /\ h.id \in Unread /\ Unread' = Unread \ {h.id}
      /\ sent' = sent
  BY <1>1, ReadOut DEF Received, bounds
<1>3. Used(use) = {h.id}
  BY UsedOne
<1> HIDE DEF use, h
<1>4. PICK X \in SUBSET Held :
            /\ Apart(cachedMsg)' /\ Held' = Held \ X
            /\ \A q \in Peers : \A m \in Routed(q)' : m.dst = q
            /\ \/ Given' = Given \cup X /\ Ended' = Ended \cup Used(use)
               \/ Given' = Given /\ Ended' = Ended \cup X \cup Used(use)
  BY <1>1, FlushOut
<1>5. \/ Given' = Given \cup X /\ Ended' = Ended \cup {h.id}
      \/ Given' = Given /\ Ended' = Ended \cup X \cup {h.id}
  BY <1>3, <1>4
<1>6. ExactlyOnePlace'
  BY <1>2, <1>4, <1>5 DEF PlaceInv, ExactlyOnePlace
<1>7. QED
  BY <1>2, <1>4, <1>6 DEF PlaceInv

LEMMA OtherKeeps ==
    ASSUME OrderInv, PlaceInv, NEW p \in Peers, HandleOther(p)
    PROVE  PlaceInv'
<1> DEFINE h == Head(inbox[p])
<1>1. /\ Received(p, {"other"}) /\ ~IsNotify(h) /\ UNCHANGED <<cachedMsg, delivered>>
      /\ ended' = ended \cup {<<"mgr", p, h.id>>}
  BY DEF HandleOther, Received, IsNotify, NotifyKinds
<1>2. Ended' = Ended \cup {h.id}
  <2>1. Used({<<"mgr", p, h.id>>}) = {h.id}
    BY UsedOne
  <2>2. Ended' = Ended \cup Used({<<"mgr", p, h.id>>})
    BY <1>1, UsedGrows
  <2>3. QED
    BY <2>1, <2>2
<1>3. Given' = Given /\ \A q \in Peers : \A m \in Routed(q)' : m.dst = q
  BY <1>1 DEF Given, Routed, PlaceInv, ExactlyOnePlace
<1>4. QED
  BY <1>1, <1>2, <1>3, UsedKeeps

\* A broadcast is used by evmgr, whoever gets a copy of it.
LEMMA BroadcastKeeps ==
    ASSUME OrderInv, PlaceInv, NEW p \in Peers, HandleBroadcast(p)
    PROVE  PlaceInv'
<1> DEFINE m == Head(inbox[p])
<1>1. /\ Received(p, {"broadcast"}) /\ ~IsNotify(m) /\ m.kind \notin PeerKinds
      /\ UNCHANGED cachedMsg
      /\ delivered' = [q \in Peers |->
             IF q \in Targets(p) THEN Deliver(q, <<m>>) ELSE delivered[q]]
      /\ ended' = ended \cup {<<"mgr", p, m.id>>} \cup UNION {Gone(q, <<m>>) : q \in Targets(p)}
  BY DEF HandleBroadcast, Received, IsNotify, NotifyKinds, PeerKinds
<1>2. m \in Message
  <2>1. m \in Frame /\ m.kind = "broadcast"
    BY <1>1, ReceivedFrame DEF OrderInv, RouterInv
  <2>2. QED
    BY <2>1 DEF Frame, Message, MgrKinds, PeerKinds
<1> HIDE DEF m
<1>3. \A q \in Peers : delivered[q] \in Seq(Message)
  BY DEF OrderInv, RouterInv, TypeOK
<1>4. <<m>> \in Seq(Message) /\ Elements(<<m>>) = {m}
  BY <1>2 DEF Elements
<1>5. \A q \in Peers : \/ delivered'[q] = delivered[q]
                       \/ delivered'[q] = delivered[q] \o <<m>>
  BY <1>1 DEF Deliver
<1>6. ASSUME NEW q \in Peers
      PROVE  Elements(delivered[q] \o <<m>>) = Elements(delivered[q]) \cup {m}
  <2>1. \A q1, q2 \in Seq(Message) : Elements(q1 \o q2) = Elements(q1) \cup Elements(q2)
    BY ElementsConcat
  <2>2. QED
    BY <1>3, <1>4, <2>1
<1>7. \A q \in Peers : Routed(q)' = Routed(q)
  BY <1>1, <1>5, <1>6 DEF Routed
<1>8. Given' = Given
  <2>1. \A x : x \in Given <=> \E q \in Peers : \E y \in Routed(q) : x = y.id
    BY PlacesNow
  <2>2. \A x : x \in Given' <=> \E q \in Peers : \E y \in Routed(q)' : x = y.id
    BY PlacesNext
  <2>3. ASSUME NEW x PROVE x \in Given' <=> x \in Given
    BY <1>7, <2>1, <2>2
  <2>4. QED
    BY <2>3
<1>9. \A q : \A e \in Gone(q, <<m>>) : e[3] = m.id
  BY <1>4 DEF Gone, Ids
<1>10. Ended' = Ended \cup {m.id}
  <2> DEFINE G == {<<"mgr", p, m.id>>} \cup UNION {Gone(q, <<m>>) : q \in Targets(p)}
  <2>1. \A e \in G : e[3] = m.id
    BY <1>9
  <2>2. <<"mgr", p, m.id>> \in G /\ ended' = ended \cup G
    BY <1>1
  <2> HIDE DEF G
  <2>3. \E e \in G : e[3] = m.id
    BY <2>1, <2>2
  <2>4. QED
    BY <2>1, <2>2, <2>3 DEF Ended
<1>11. \A q \in Peers : \A x \in Routed(q)' : x.dst = q
  BY <1>7 DEF PlaceInv, ExactlyOnePlace
<1>12. QED
  BY <1>1, <1>8, <1>10, <1>11, UsedKeeps DEF m

\* A message to a module is handed over, lost or held.
LEMMA PeerMsgKeeps ==
    ASSUME OrderInv, PlaceInv, NEW p \in Peers, HandlePeerMsg(p)
    PROVE  PlaceInv'
<1> DEFINE m == Head(inbox[p])
           d == m.dst
<1>1. /\ Received(p, PeerKinds) /\ ~IsNotify(m) /\ m.kind \in PeerKinds
      /\ \/ /\ delivered' = [delivered EXCEPT ![d] = Deliver(d, <<m>>)]
            /\ ended' = ended \cup Gone(d, <<m>>)
            /\ UNCHANGED cachedMsg
         \/ /\ cachedMsg' = [cachedMsg EXCEPT ![d] = PushDropOldest(@, m, CacheCap)]
            /\ ended' = ended \cup
                  {<<"evicted", d, e.id>> : e \in Evicted(cachedMsg[d], m, CacheCap)}
            /\ UNCHANGED delivered
  BY DEF HandlePeerMsg, Received, IsNotify, NotifyKinds, PeerKinds
<1>2. m \in Message /\ d \in Peers
  <2>1. m \in Frame
    BY <1>1, ReceivedFrame DEF OrderInv, RouterInv
  <2>2. QED
    BY <1>1, <2>1 DEF Frame, Message, MgrKinds, PeerKinds
<1>3. /\ Numbered' /\ Apart(inbox)' /\ m.id \in Unread /\ Unread' = Unread \ {m.id}
      /\ sent' = sent
  BY <1>1, ReadOut DEF Received, bounds
<1>4. /\ TypeOK /\ \A q \in Peers : \A x \in Routed(q) : x.dst = q
      /\ m.id \notin Held /\ Apart(cachedMsg)
  BY <1>3 DEF OrderInv, RouterInv, PlaceInv, ExactlyOnePlace
<1> HIDE DEF m
<1>5. CASE /\ delivered' = [delivered EXCEPT ![d] = Deliver(d, <<m>>)]
           /\ ended' = ended \cup Gone(d, <<m>>)
           /\ UNCHANGED cachedMsg
  <2>1. <<m>> \in Seq(Message) /\ Elements(<<m>>) = {m} /\ Ids(<<m>>) = {m.id}
    BY <1>2 DEF Elements, Ids
  <2>2. /\ \A q \in Peers : \A x \in Routed(q)' : x.dst = q
        /\ d \in connected => Given' = Given \cup Ids(<<m>>) /\ Used(Gone(d, <<m>>)) = {}
        /\ d \notin connected => Given' = Given /\ Used(Gone(d, <<m>>)) = Ids(<<m>>)
    BY <1>1, <1>2, <1>4, <1>5, <2>1, HandedOut
  <2>3. Ended' = Ended \cup Used(Gone(d, <<m>>))
    BY <1>5, UsedGrows
  <2>4. \/ Given' = Given \cup {m.id} /\ Ended' = Ended
        \/ Given' = Given /\ Ended' = Ended \cup {m.id}
    BY <2>1, <2>2, <2>3
  <2>5. Held' = Held /\ Apart(cachedMsg)'
    BY <1>4, <1>5 DEF Held, Apart
  <2>6. ExactlyOnePlace'
    BY <1>3, <2>2, <2>4, <2>5 DEF PlaceInv, ExactlyOnePlace
  <2>7. QED
    BY <1>3, <2>5, <2>6 DEF PlaceInv
<1>6. CASE /\ cachedMsg' = [cachedMsg EXCEPT ![d] = PushDropOldest(@, m, CacheCap)]
           /\ ended' = ended \cup
                 {<<"evicted", d, e.id>> : e \in Evicted(cachedMsg[d], m, CacheCap)}
           /\ UNCHANGED delivered
  <2>1. PICK X \in SUBSET Held :
              /\ Apart(cachedMsg)' /\ Held' = (Held \ X) \cup {m.id}
              /\ Ended' = Ended \cup X
    BY <1>1, <1>2, <1>4, <1>6, HoldIn
  <2>2. Given' = Given /\ \A q \in Peers : \A x \in Routed(q)' : x.dst = q
    BY <1>4, <1>6 DEF Given, Routed
  <2>3. ExactlyOnePlace'
    BY <1>3, <2>1, <2>2 DEF PlaceInv, ExactlyOnePlace
  <2>4. QED
    BY <1>3, <2>1, <2>3 DEF PlaceInv
<1>7. QED
  BY <1>1, <1>5, <1>6

\* A notification or a message enters an inbox.
LEMMA EnterKeeps ==
    ASSUME OrderInv, PlaceInv, NEW p \in Peers, NEW f \in Frame,
           inbox' = [inbox EXCEPT ![p] = Append(@, f)],
           UNCHANGED <<cachedMsg, delivered, ended>>,
           \/ IsNotify(f) /\ f.id = 0 /\ sent' = sent
           \/ ~IsNotify(f) /\ f.id = sent + 1 /\ sent' = sent + 1
    PROVE  PlaceInv'
<1>1. /\ TypeOK /\ Numbered /\ Apart(inbox) /\ Apart(cachedMsg) /\ ExactlyOnePlace
      /\ sent \in Nat
  BY DEF OrderInv, RouterInv, TypeOK, PlaceInv
<1>2. /\ inbox[p] \in Seq(Frame) /\ inbox'[p] = Append(inbox[p], f)
      /\ \A q \in Peers \ {p} : inbox'[q] = inbox[q]
  BY <1>1 DEF TypeOK
<1>3. /\ Len(inbox[p]) \in Nat /\ DOMAIN inbox[p] = 1..Len(inbox[p])
      /\ DOMAIN inbox'[p] = 1..Len(inbox[p]) + 1
      /\ \A i \in DOMAIN inbox[p] : inbox'[p][i] = inbox[p][i]
      /\ inbox'[p][Len(inbox[p]) + 1] = f
  BY <1>2, AppendIndex
<1> DEFINE New(q, i) == q = p /\ i = Len(inbox[p]) + 1
<1>4. \A q \in Peers : \A i \in DOMAIN inbox'[q] :
         \/ New(q, i) /\ inbox'[q][i] = f
         \/ ~New(q, i) /\ i \in DOMAIN inbox[q] /\ inbox'[q][i] = inbox[q][i]
  BY <1>2, <1>3
<1> HIDE DEF New
<1>5. f.id \in Nat /\ (IsNotify(f) <=> f.id = 0)
  BY <1>1
<1>6. Numbered'
  BY <1>1, <1>4, <1>5 DEF Numbered
<1>7. Ids(inbox'[p]) = Ids(inbox[p]) \cup {f.id}
  <2>1. Ids(Append(inbox[p], f)) = Ids(inbox[p]) \cup {f.id}
    BY <1>2, IdsAppend
  <2>2. QED
    BY <1>2, <2>1
<1>8. Unread' = Unread \cup ({f.id} \ {0})
  <2>1. \A x : x \in Unread <=> x # 0 /\ \E q \in Peers : x \in Ids(inbox[q])
    BY PlacesNow
  <2>2. \A x : x \in Unread' <=> x # 0 /\ \E q \in Peers : x \in Ids(inbox'[q])
    BY PlacesNext
  <2>3. ASSUME NEW x
        PROVE  x \in Unread' <=> x \in Unread \/ (x # 0 /\ x = f.id)
    BY <1>2, <1>7, <2>1, <2>2
  <2>4. QED
    BY <2>3
<1>9. \A q \in Peers : \A i \in DOMAIN inbox[q] : ~IsNotify(inbox[q][i]) => inbox[q][i].id \in 1..sent
  BY DEF OrderInv, UnreadInOrder
<1>10. ~IsNotify(f) => \A q \in Peers : \A i \in DOMAIN inbox[q] :
                          ~IsNotify(inbox[q][i]) => inbox[q][i].id # f.id
  BY <1>1, <1>9
<1>11. Apart(inbox)'
  <2> SUFFICES ASSUME NEW q \in Peers, NEW r \in Peers,
                      NEW i \in DOMAIN inbox'[q], NEW j \in DOMAIN inbox'[r],
                      ~IsNotify(inbox'[q][i]), ~IsNotify(inbox'[r][j]),
                      inbox'[q][i].id = inbox'[r][j].id
               PROVE  q = r /\ i = j
    BY DEF Apart
  <2>1. CASE New(q, i) \/ New(r, j)
    <3>1. New(q, i) /\ New(r, j)
      BY <1>4, <1>10, <2>1
    <3>2. QED
      BY <3>1 DEF New
  <2>2. CASE ~New(q, i) /\ ~New(r, j)
    BY <1>1, <1>4, <2>2 DEF Apart
  <2>3. QED
    BY <2>1, <2>2
<1>12. /\ Held' = Held /\ Given' = Given /\ Ended' = Ended /\ Apart(cachedMsg)'
       /\ \A q \in Peers : Routed(q)' = Routed(q)
  BY <1>1 DEF Held, Given, Ended, Routed, Apart
<1>13. ExactlyOnePlace'
  <2>1. CASE IsNotify(f) /\ f.id = 0 /\ sent' = sent
    BY <1>1, <1>8, <1>12, <2>1 DEF ExactlyOnePlace
  <2>2. CASE ~IsNotify(f) /\ f.id = sent + 1 /\ sent' = sent + 1
    <3>1. /\ 1..sent' = 1..sent \cup {f.id} /\ f.id \notin 1..sent /\ f.id # 0
      BY <1>1, <2>2
    <3>2. QED
      BY <1>1, <1>8, <1>12, <3>1 DEF ExactlyOnePlace
  <2>3. QED
    BY <2>1, <2>2
<1>14. QED
  BY <1>6, <1>11, <1>12, <1>13 DEF PlaceInv

\* A restart ends what was unread and what was held.
LEMMA RestartKeeps ==
    ASSUME OrderInv, PlaceInv, Restart
    PROVE  PlaceInv'
<1> DEFINE M == {x \in UNION {Elements(inbox[p]) \cup Elements(cachedMsg[p]) : p \in Peers} :
                    x.kind \notin NotifyKinds}
           G == {<<"restart", m.dst, m.id>> : m \in M}
<1>1. /\ inbox' = [p \in Peers |-> <<>>] /\ cachedMsg' = [p \in Peers |-> <<>>]
      /\ ended' = ended \cup G /\ delivered' = delivered /\ sent' = sent
  BY DEF Restart
<1>2. \A p \in Peers : /\ DOMAIN inbox'[p] = {} /\ DOMAIN cachedMsg'[p] = {}
                       /\ Ids(inbox'[p]) = {} /\ Ids(cachedMsg'[p]) = {}
  BY <1>1 DEF Ids, Elements
<1>3. Numbered' /\ Apart(inbox)' /\ Apart(cachedMsg)'
  BY <1>2 DEF Numbered, Apart
<1>4. Unread' = {} /\ Held' = {}
  BY <1>2, PlacesNext
<1>5. \A x : x \in M <=> /\ x.kind \notin NotifyKinds
                         /\ \E p \in Peers : x \in Elements(inbox[p]) \/ x \in Elements(cachedMsg[p])
  <2> DEFINE U == UNION {Elements(inbox[p]) \cup Elements(cachedMsg[p]) : p \in Peers}
  <2>1. \A x : x \in U <=> \E p \in Peers : x \in Elements(inbox[p]) \/ x \in Elements(cachedMsg[p])
    OBVIOUS
  <2>2. M = {x \in U : x.kind \notin NotifyKinds}
    OBVIOUS
  <2> HIDE DEF U, M
  <2>3. QED
    BY <2>1, <2>2
<1> HIDE DEF M
<1>6. ASSUME NEW x
      PROVE  (\E m \in M : x = m.id) <=> x \in Unread \cup Held
  <2>1. \A p \in Peers : \A m \in Elements(inbox[p]) : m.kind \notin NotifyKinds <=> m.id # 0
    BY DEF PlaceInv, Numbered, IsNotify, Elements
  <2>2. \A p \in Peers : \A m \in Elements(cachedMsg[p]) : m.kind \notin NotifyKinds
    BY DEF OrderInv, HeldInOrder, Elements, NotifyKinds, PeerKinds
  <2>3. x \in Unread <=> x # 0 /\ \E q \in Peers : \E m \in Elements(inbox[q]) : x = m.id
    BY PlacesNow DEF Ids
  <2>4. x \in Held <=> \E q \in Peers : \E m \in Elements(cachedMsg[q]) : x = m.id
    BY PlacesNow DEF Ids
  <2>5. QED
    BY <1>5, <2>1, <2>2, <2>3, <2>4
<1>7. \A m : <<"restart", m.dst, m.id>>[3] = m.id
  OBVIOUS
<1>8. /\ \A e \in G : \E m \in M : e[3] = m.id
      /\ \A m \in M : \E e \in G : e[3] = m.id
  BY <1>7
<1> HIDE DEF G
<1>9. Ended' = Ended \cup Unread \cup Held
  <2>1. ASSUME NEW x PROVE x \in Ended' <=> x \in Ended \/ \E e \in G : x = e[3]
    BY <1>1 DEF Ended
  <2>2. ASSUME NEW x PROVE (\E e \in G : x = e[3]) <=> x \in Unread \cup Held
    BY <1>6, <1>8
  <2>3. QED
    BY <2>1, <2>2
<1>10. Given' = Given /\ \A q \in Peers : Routed(q)' = Routed(q)
  BY <1>1 DEF Given, Routed
<1>11. ExactlyOnePlace'
  BY <1>1, <1>4, <1>9, <1>10 DEF PlaceInv, ExactlyOnePlace
<1>12. QED
  BY <1>3, <1>11 DEF PlaceInv

LEMMA NextPlace == OrderInv /\ PlaceInv /\ [Next]_vars => PlaceInv'
<1> SUFFICES ASSUME OrderInv, PlaceInv, [Next]_vars PROVE PlaceInv'
  OBVIOUS
<1>1. ASSUME NEW p \in Peers, Connect(p) \/ Disconnect(p)
      PROVE  PlaceInv'
  <2>1. PICK k \in NotifyKinds : inbox' = [inbox EXCEPT ![p] = Append(@, Notify(k, p))]
    BY <1>1 DEF Connect, Disconnect, NotifyKinds
  <2>2. /\ Notify(k, p) \in Frame /\ IsNotify(Notify(k, p)) /\ Notify(k, p).id = 0
    BY DEF Notify, Frame, IsNotify
  <2>3. UNCHANGED <<cachedMsg, delivered, ended>> /\ sent' = sent
    BY <1>1 DEF Connect, Disconnect, router, bounds
  <2>4. QED
    BY <2>1, <2>2, <2>3, EnterKeeps
<1>2. ASSUME NEW p \in Peers, Send(p)
      PROVE  PlaceInv'
  <2>1. PICK k \in PeerKinds \cup MgrKinds, d \in Peers :
           inbox' = [inbox EXCEPT ![p] =
                        Append(@, [kind |-> k, src |-> p, dst |-> d, id |-> sent + 1])]
    BY <1>2 DEF Send
  <2> DEFINE f == [kind |-> k, src |-> p, dst |-> d, id |-> sent + 1]
  <2>2. sent \in Nat
    BY DEF OrderInv, RouterInv, TypeOK
  <2>3. f \in Frame /\ ~IsNotify(f) /\ f.id = sent + 1
    BY <2>2 DEF Frame, IsNotify, NotifyKinds, PeerKinds, MgrKinds
  <2>4. UNCHANGED <<cachedMsg, delivered, ended>> /\ sent' = sent + 1
    BY <1>2 DEF Send, router
  <2> HIDE DEF f
  <2>5. inbox' = [inbox EXCEPT ![p] = Append(@, f)]
    BY <2>1 DEF f
  <2>6. QED
    BY <2>3, <2>4, <2>5, EnterKeeps
<1>3. ASSUME NEW p \in Peers, HandleEdgeMsg(p)
      PROVE  PlaceInv'
  BY <1>3, NotifyKeeps, PeerMsgKeeps, PingKeeps, BroadcastKeeps, OtherKeeps DEF HandleEdgeMsg
<1>4. CASE Restart
  BY <1>4, RestartKeeps
<1>5. CASE UNCHANGED vars
  <2>1. UNCHANGED <<inbox, cachedMsg, delivered, ended, sent>>
    BY <1>5 DEF vars
  <2>2. /\ Unread' = Unread /\ Held' = Held /\ Given' = Given /\ Ended' = Ended
        /\ \A q \in Peers : Routed(q)' = Routed(q)
    BY <2>1 DEF Unread, Held, Given, Ended, Routed
  <2>3. ExactlyOnePlace'
    BY <2>1, <2>2 DEF PlaceInv, ExactlyOnePlace
  <2>4. QED
    BY <2>1, <2>3 DEF PlaceInv, Numbered, Apart
<1>6. QED
  BY <1>1, <1>2, <1>3, <1>4, <1>5 DEF Next

\* Every message ever sent is in exactly one place: unread, held, handed to the module
\* it is for, or ended - used by evmgr, or lost for a reason the code has - whatever
\* connects, disconnects and crashes, and whatever the limits push out.
THEOREM InOnePlace == Spec => []ExactlyOnePlace
<1>1. Init => PlaceInv
  <2> SUFFICES ASSUME Init PROVE PlaceInv
    OBVIOUS
  <2>1. \A p \in Peers : /\ inbox[p] = <<>> /\ cachedMsg[p] = <<>> /\ delivered[p] = <<>>
    BY DEF Init
  <2>2. DOMAIN <<>> = {} /\ Elements(<<>>) = {} /\ Ids(<<>>) = {}
    BY DEF Elements, Ids
  <2>3. Numbered /\ Apart(inbox) /\ Apart(cachedMsg)
    BY <2>1, <2>2 DEF Numbered, Apart
  <2>4. \A p \in Peers : Routed(p) = {}
    BY <2>1, <2>2 DEF Routed
  <2>5. Unread = {} /\ Held = {} /\ Given = {}
    BY <2>1, <2>2, <2>4, PlacesNow
  <2>6. Ended = {} /\ 1..sent = {}
    BY DEF Init, Ended
  <2>7. QED
    BY <2>3, <2>4, <2>5, <2>6 DEF PlaceInv, ExactlyOnePlace
<1>2. PlaceInv => ExactlyOnePlace
  BY DEF PlaceInv
<1>3. QED
  BY <1>1, <1>2, NextPlace, OrderInvariant, PTL DEF Spec
===============================================================================
