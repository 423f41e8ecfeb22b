-------------------------- MODULE StreamRestartProofs --------------------------
(***************************************************************************)
(* What evdaemon says of a restart loop is earned, and no loop is          *)
(* overlooked, for all limits and however the watched consumer, evpuller   *)
(* and evmgr come and go; and every consumer that streams ends up with the *)
(* format of the evpuller that runs, for any number of consumers, faults   *)
(* and crashes of evmgr, as long as its connection and that of evpuller    *)
(* are not lost.                                                           *)
(***************************************************************************)
EXTENDS StreamRestart, SequenceTheorems, TLAPS

\* The counter never runs ahead of the connections since it was last reset, and is behind
\* by two at most; the router thread reports by the counter.
CountBehind ==
    /\ conns \in Nat
    /\ contConn <= conns /\ conns - 2 <= contConn /\ contConn \in -1..MaxCount
    /\ ~tsLastConn => conns = 0
    /\ loop = "restarts" => conns > Often

\* The capped count of one more connection.
LEMMA Capped ==
    ASSUME NEW n \in Int
    PROVE  /\ n < MaxCount => Loop!UpTo(n) = n
           /\ n >= MaxCount => Loop!UpTo(n) = MaxCount
           /\ Loop!UpTo(n) \in Int
<1>1. MaxCount \in Nat
  BY StreamRestartAssumption DEF Loop!LoopConstants
<1>2. \E x \in {n, MaxCount} : \A y \in {n, MaxCount} : x <= y
  BY <1>1
<1>3. /\ Loop!UpTo(n) \in {n, MaxCount}
      /\ \A y \in {n, MaxCount} : Loop!UpTo(n) <= y
  BY <1>2 DEF Loop!UpTo, Loop!Min
<1>4. QED
  BY <1>1, <1>3

\* One more connection keeps the counter behind.
LEMMA CountedBehind ==
    ASSUME CountBehind
    PROVE  /\ Loop!Counted \in -1..MaxCount
           /\ Loop!Counted <= Loop!UpTo(conns + 1)
           /\ Loop!UpTo(conns + 1) - 2 <= Loop!Counted
           /\ Loop!UpTo(conns + 1) \in Nat
           /\ conns > Often => Loop!UpTo(conns + 1) > Often
<1>1. /\ {MaxCount, Often, Now, Quick} \subseteq Nat /\ MaxCount > Often + 2
      /\ Now > MaxCount
  BY StreamRestartAssumption DEF Loop!LoopConstants
<1>2. /\ contConn \in Int /\ conns \in Nat
      /\ contConn <= conns /\ conns - 2 <= contConn /\ contConn \in -1..MaxCount
      /\ ~tsLastConn => conns = 0
  BY DEF CountBehind
<1>3. /\ Loop!UpTo(conns + 1) \in Int
      /\ conns + 1 < MaxCount => Loop!UpTo(conns + 1) = conns + 1
      /\ conns + 1 >= MaxCount => Loop!UpTo(conns + 1) = MaxCount
  BY <1>2, Capped
<1>4. /\ Loop!UpTo(contConn + 1) \in Int
      /\ contConn + 1 < MaxCount => Loop!UpTo(contConn + 1) = contConn + 1
      /\ contConn + 1 >= MaxCount => Loop!UpTo(contConn + 1) = MaxCount
  BY <1>2, Capped
<1>5. Loop!Delta < Quick
  BY <1>1, <1>2 DEF Loop!Delta
<1>6. /\ ~tsLastConn => Loop!Counted = contConn
      /\ tsLastConn /\ contConn = -1 => Loop!Counted = 0
      /\ tsLastConn /\ contConn # -1 => Loop!Counted = Loop!UpTo(contConn + 1)
  BY <1>5 DEF Loop!Counted
<1>7. CASE ~tsLastConn
  <2>1. Loop!Counted = contConn
    BY <1>7 DEF Loop!Counted
  <2>2. conns = 0
    BY <1>7 DEF CountBehind
  <2>3. QED
    BY <2>1, <2>2, <1>1, <1>2, <1>3
<1>8. CASE tsLastConn /\ contConn = -1
  BY <1>1, <1>2, <1>3, <1>6, <1>8
<1>9. CASE tsLastConn /\ contConn # -1
  BY <1>1, <1>2, <1>3, <1>4, <1>6, <1>9
<1>10. QED
  BY <1>7, <1>8, <1>9

\* Every step, of the stream or of the clock and the heartbeat, keeps the counter behind.
LEMMA CountStaysBehind == CountBehind /\ [Next]_vars => CountBehind'
<1> SUFFICES ASSUME CountBehind, [Next]_vars PROVE CountBehind'
  OBVIOUS
<1>1. CASE Loop!Connected
  BY <1>1, CountedBehind DEF Loop!Connected, CountBehind
<1>2. CASE Loop!Disconnected
  BY <1>2, StreamRestartAssumption DEF Loop!Disconnected, Loop!LoopConstants, CountBehind
<1>3. CASE UNCHANGED loopVars
  BY <1>3 DEF loopVars, CountBehind
<1>4. CASE Loop!Tick
  BY <1>4 DEF Loop!Tick, CountBehind
<1>5. CASE Loop!Ping
  BY <1>5, StreamRestartAssumption DEF Loop!Ping, Loop!LoopConstants, CountBehind
<1>6. CASE Loop!Talks
  BY <1>6 DEF Loop!Talks, CountBehind
<1>7. QED
  BY <1>1, <1>2, <1>3, <1>4, <1>5, <1>6 DEF Next, Watch, vars

\* Before anything connects.
LEMMA InitBehind == Init => CountBehind
<1> SUFFICES ASSUME Init PROVE CountBehind
  OBVIOUS
<1>1. /\ contConn = -1 /\ conns = 0 /\ tsLastConn = FALSE /\ loop = "none"
  BY DEF Init, Loop!Init
<1>2. MaxCount \in Nat
  BY StreamRestartAssumption DEF Loop!LoopConstants
<1>3. /\ contConn \in Int /\ conns \in Nat
      /\ contConn <= conns /\ conns - 2 <= contConn /\ contConn \in -1..MaxCount
  BY <1>1, <1>2
<1>4. QED
  BY <1>1, <1>3, Zenon DEF CountBehind

\* evdaemon says that a consumer restarts frequently only when it connected more than
\* Often times since the count was last forgotten, however it is stopped, crashed and
\* started again.
THEOREM ReportIsEarned == Spec => []ReportEarned
<1>1. Init => CountBehind
  BY InitBehind
<1>2. CountBehind => ReportEarned
  BY DEF CountBehind, ReportEarned, Loop!ReportEarned
<1>3. QED
  BY <1>1, <1>2, CountStaysBehind, PTL DEF Spec

\* A consumer that connects again and again is not overlooked, although its first
\* connection is not counted and the age of the last is not looked at.
THEOREM LoopIsNoticed == Spec => []LoopNoticed
<1>1. Init => CountBehind
  BY InitBehind
<1>2. CountBehind => LoopNoticed
  BY StreamRestartAssumption
  DEF CountBehind, LoopNoticed, Loop!LoopNoticed, Loop!LoopConstants
<1>3. QED
  BY <1>1, <1>2, CountStaysBehind, PTL DEF Spec

--------------------------------------------------------------------------------
(* Queues.  The lemmas of this part are about sequences only.  *)

\* One more message at the back of a queue.
LEMMA AtTheBack ==
    ASSUME NEW S, NEW q \in Seq(S), NEW m \in S
    PROVE  /\ Append(q, m) \in Seq(S) /\ Append(q, m) # <<>>
           /\ Len(q) \in Nat /\ Len(Append(q, m)) = Len(q) + 1
           /\ \A i \in 1..Len(q) : Append(q, m)[i] = q[i]
           /\ Append(q, m)[Len(q) + 1] = m
           /\ Elements(Append(q, m)) = Elements(q) \cup {m}
<1>1. /\ Append(q, m) \in Seq(S) /\ Append(q, m) # <<>>
      /\ Len(q) \in Nat /\ Len(Append(q, m)) = Len(q) + 1
      /\ \A i \in 1..Len(q) : Append(q, m)[i] = q[i]
      /\ Append(q, m)[Len(q) + 1] = m
  BY AppendProperties, LenProperties
<1>2. DOMAIN q = 1..Len(q) /\ DOMAIN Append(q, m) = 1..Len(q) + 1
  BY <1>1, LenProperties
<1>3. Elements(Append(q, m)) = Elements(q) \cup {m}
  BY <1>1, <1>2 DEF Elements
<1>4. QED
  BY <1>1, <1>3

\* One message less at the front.
LEMMA AtTheFront ==
    ASSUME NEW S, NEW q \in Seq(S), q # <<>>
    PROVE  /\ Tail(q) \in Seq(S) /\ Head(q) \in S /\ Head(q) = q[1]
           /\ Len(q) \in Nat \ {0} /\ Len(Tail(q)) = Len(q) - 1
           /\ \A i \in 1..Len(q) - 1 : Tail(q)[i] = q[i + 1]
           /\ Elements(q) = Elements(Tail(q)) \cup {Head(q)}
<1>1. /\ Tail(q) \in Seq(S) /\ Head(q) \in S /\ Head(q) = q[1]
      /\ Len(q) \in Nat \ {0} /\ Len(Tail(q)) = Len(q) - 1
      /\ \A i \in 1..Len(q) - 1 : Tail(q)[i] = q[i + 1]
  BY HeadTailProperties, LenProperties, EmptySeq
<1>2. DOMAIN q = 1..Len(q) /\ DOMAIN Tail(q) = 1..Len(q) - 1
  BY <1>1, LenProperties
<1>3. ASSUME NEW m \in Elements(q) PROVE m \in Elements(Tail(q)) \cup {Head(q)}
  <2>1. PICK i \in 1..Len(q) : m = q[i]
    BY <1>2 DEF Elements
  <2>2. CASE i = 1
    BY <2>1, <2>2, <1>1
  <2>3. CASE i # 1
    <3>1. i - 1 \in 1..Len(q) - 1 /\ m = Tail(q)[i - 1]
      BY <2>1, <2>3, <1>1
    <3>2. QED
      BY <3>1, <1>2 DEF Elements
  <2>4. QED
    BY <2>2, <2>3
<1>4. ASSUME NEW m \in Elements(Tail(q)) PROVE m \in Elements(q)
  <2>1. PICK i \in 1..Len(q) - 1 : m = Tail(q)[i]
    BY <1>2 DEF Elements
  <2>2. i + 1 \in 1..Len(q) /\ m = q[i + 1]
    BY <2>1, <1>1
  <2>3. QED
    BY <2>2, <1>2 DEF Elements
<1>5. Head(q) \in Elements(q)
  BY <1>1, <1>2 DEF Elements
<1>6. Elements(q) = Elements(Tail(q)) \cup {Head(q)}
  BY <1>3, <1>4, <1>5
<1>7. QED
  BY <1>1, <1>6

\* Two queues, one after the other.
LEMMA OneAfterTheOther ==
    ASSUME NEW S, NEW q \in Seq(S), NEW r \in Seq(S)
    PROVE  q \o r \in Seq(S) /\ Elements(q) \subseteq Elements(q \o r)
<1>1. /\ q \o r \in Seq(S) /\ Len(q) \in Nat /\ Len(r) \in Nat
      /\ Len(q \o r) = Len(q) + Len(r)
      /\ \A i \in 1..Len(q) : (q \o r)[i] = q[i]
  BY ConcatProperties, LenProperties
<1>2. DOMAIN q = 1..Len(q) /\ DOMAIN (q \o r) = 1..Len(q) + Len(r)
  BY <1>1, LenProperties
<1>3. QED
  BY <1>1, <1>2 DEF Elements

\* A bounded queue holds what was put in it.
LEMMA PushTypes ==
    ASSUME NEW S, NEW q \in Seq(S), NEW m \in S, NEW cap \in Nat
    PROVE  PushDropOldest(q, m, cap) \in Seq(S)
<1>1. Append(q, m) \in Seq(S) /\ Append(q, m) # <<>>
  BY AtTheBack
<1>2. Tail(Append(q, m)) \in Seq(S)
  BY <1>1, AtTheFront
<1>3. QED
  BY <1>1, <1>2 DEF PushDropOldest

--------------------------------------------------------------------------------
(* What evmgr takes a peer for, against what the peer is.  *)

Bit(b) == IF b THEN 1 ELSE 0

\* Reading all of queue q, evmgr goes from taking the peer for up as u says to taking it
\* for up as a says: a toggle flips, and who sends a message is up and stays up.
Turns(q, u, a) ==
    \E f \in [1..Len(q) + 1 -> {0, 1}] :
        /\ f[1] = u /\ f[Len(q) + 1] = a
        /\ \A i \in 1..Len(q) :
              /\ q[i] = Toggle => f[i + 1] = 1 - f[i]
              /\ q[i] # Toggle => f[i] = 1 /\ f[i + 1] = 1

\* The peer queues a toggle when it starts and when it ends, and a message while it is up.
LEMMA TurnsAtTheBack ==
    ASSUME NEW S, NEW q \in Seq(S), NEW m \in S, NEW u, NEW a, NEW b \in {0, 1},
           Turns(q, u, a),
           m = Toggle => b = 1 - a,
           m # Toggle => a = 1 /\ b = 1
    PROVE  Turns(Append(q, m), u, b)
<1> DEFINE r == Append(q, m)
           n == Len(q)
<1>1. PICK f \in [1..n + 1 -> {0, 1}] :
        /\ f[1] = u /\ f[n + 1] = a
        /\ \A i \in 1..n : /\ q[i] = Toggle => f[i + 1] = 1 - f[i]
                           /\ q[i] # Toggle => f[i] = 1 /\ f[i + 1] = 1
  BY DEF Turns
<1>2. n \in Nat /\ Len(r) = n + 1 /\ r[n + 1] = m /\ \A i \in 1..n : r[i] = q[i]
  BY AtTheBack
<1> DEFINE g == [i \in 1..n + 1 + 1 |-> IF i \in 1..n + 1 THEN f[i] ELSE b]
<1>3. g \in [1..n + 1 + 1 -> {0, 1}]
  BY <1>1, <1>2
<1>4. g[1] = u /\ g[n + 1 + 1] = b
  BY <1>1, <1>2
<1>5. \A i \in 1..n : g[i] = f[i] /\ g[i + 1] = f[i + 1]
  BY <1>2
<1>6. g[n + 1] = a
  BY <1>1, <1>2
<1> HIDE DEF g
<1>7. ASSUME NEW i \in 1..n + 1
      PROVE  /\ r[i] = Toggle => g[i + 1] = 1 - g[i]
             /\ r[i] # Toggle => g[i] = 1 /\ g[i + 1] = 1
  <2>1. CASE i \in 1..n
    BY <2>1, <1>1, <1>2, <1>5
  <2>2. CASE i = n + 1
    BY <2>2, <1>2, <1>4, <1>6
  <2>3. QED
    BY <2>1, <2>2, <1>2
<1>8. QED
  BY <1>2, <1>3, <1>4, <1>7 DEF Turns

\* evmgr reads the first message.
LEMMA TurnsAtTheFront ==
    ASSUME NEW S, NEW q \in Seq(S), q # <<>>, NEW u, NEW a, Turns(q, u, a)
    PROVE  /\ Head(q) = Toggle => Turns(Tail(q), 1 - u, a)
           /\ Head(q) # Toggle => u = 1 /\ Turns(Tail(q), 1, a)
<1> DEFINE n == Len(q)
<1>1. PICK f \in [1..n + 1 -> {0, 1}] :
        /\ f[1] = u /\ f[n + 1] = a
        /\ \A i \in 1..n : /\ q[i] = Toggle => f[i + 1] = 1 - f[i]
                           /\ q[i] # Toggle => f[i] = 1 /\ f[i + 1] = 1
  BY DEF Turns
<1>2. /\ n \in Nat \ {0} /\ Len(Tail(q)) = n - 1 /\ Head(q) = q[1]
      /\ \A i \in 1..n - 1 : Tail(q)[i] = q[i + 1]
  BY AtTheFront
<1> DEFINE g == [i \in 1..n - 1 + 1 |-> f[i + 1]]
<1>3. \A i \in 1..n - 1 + 1 : i + 1 \in 1..n + 1
  BY <1>2
<1>4. g \in [1..n - 1 + 1 -> {0, 1}]
  BY <1>1, <1>3
<1>5. g[1] = f[2] /\ g[n - 1 + 1] = a
  BY <1>1, <1>2
<1>6. \A i \in 1..n - 1 : g[i] = f[i + 1] /\ g[i + 1] = f[i + 1 + 1] /\ i + 1 \in 1..n
  BY <1>2
<1> HIDE DEF g
<1>7. ASSUME NEW i \in 1..n - 1
      PROVE  /\ Tail(q)[i] = Toggle => g[i + 1] = 1 - g[i]
             /\ Tail(q)[i] # Toggle => g[i] = 1 /\ g[i + 1] = 1
  BY <1>1, <1>2, <1>6
<1>8. Turns(Tail(q), f[2], a)
  BY <1>2, <1>4, <1>5, <1>7 DEF Turns
<1>9. /\ q[1] = Toggle => f[2] = 1 - u
      /\ q[1] # Toggle => u = 1 /\ f[2] = 1
  BY <1>1, <1>2
<1>10. QED
  BY <1>2, <1>8, <1>9

\* When no toggle is queued and the peer is up, evmgr takes it for up.
LEMMA TurnsToUp ==
    ASSUME NEW S, NEW q \in Seq(S), NEW u, Turns(q, u, 1), Toggle \notin Elements(q)
    PROVE  u = 1
<1>1. PICK f \in [1..Len(q) + 1 -> {0, 1}] :
        /\ f[1] = u /\ f[Len(q) + 1] = 1
        /\ \A i \in 1..Len(q) : q[i] # Toggle => f[i] = 1
  BY DEF Turns
<1>2. Len(q) \in Nat /\ DOMAIN q = 1..Len(q)
  BY LenProperties
<1>3. CASE Len(q) = 0
  BY <1>1, <1>3
<1>4. CASE Len(q) # 0
  <2>1. 1 \in 1..Len(q)
    BY <1>2, <1>4
  <2>2. q[1] # Toggle
    BY <2>1, <1>2 DEF Elements
  <2>3. QED
    BY <1>1, <2>1, <2>2
<1>5. QED
  BY <1>3, <1>4

--------------------------------------------------------------------------------
(* What the queues hold.  *)

Formats(c) == {FormatFor(c, g) : g \in Nat}
Announcements == {Announcement(g) : g \in Nat}

\* What a peer queues for evmgr, and what is queued for a peer.
FromPeer(x) ==
    {Toggle} \cup
    IF x = Puller THEN (UNION {Formats(c) : c \in Consumers}) \cup Announcements
                  ELSE {HelloFrom(x)}

ToPeer(x) ==
    IF x = Puller THEN {HelloFrom(c) : c \in Consumers} ELSE Formats(x) \cup Announcements

ProcessTypes ==
    /\ pstate \in {"down", "opening", "live"} /\ pgen \in Nat
    /\ pstate # "down" => pgen # 0
    /\ proc \in [Consumers -> {"down", "free", "waiting", "streaming"}]
    /\ fmt \in [Consumers -> Nat]
    /\ status \in SUBSET Peers
    /\ mgrCrashes \in Nat

QueueTypes ==
    /\ toRouter = [x \in Peers |-> toRouter[x]]
    /\ toPeer = [x \in Peers |-> toPeer[x]]
    /\ cachedMsg = [x \in Peers |-> cachedMsg[x]]
    /\ \A x \in Peers : /\ toRouter[x] \in Seq(FromPeer(x))
                        /\ toPeer[x] \in Seq(ToPeer(x))
                        /\ cachedMsg[x] \in Seq(ToPeer(x))

StreamTypes == ProcessTypes /\ QueueTypes

\* evpuller is no consumer, and a message tells what it is.
LEMMA Kinds ==
    /\ Puller \in Peers /\ Puller \notin Consumers /\ Consumers \subseteq Peers
    /\ \A c \in Consumers : FromPeer(c) = {Toggle, HelloFrom(c)}
    /\ \A c \in Consumers : ToPeer(c) = Formats(c) \cup Announcements
    /\ ToPeer(Puller) = {HelloFrom(c) : c \in Consumers}
    /\ FromPeer(Puller)
         = {Toggle} \cup (UNION {Formats(c) : c \in Consumers}) \cup Announcements
    /\ \A c : HelloFrom(c) # Toggle
    /\ \A c, g : FormatFor(c, g) # Toggle
    /\ \A g : Announcement(g) # Toggle
    /\ \A g, h : Announcement(g) = Announcement(h) => g = h
    /\ \A c, d : HelloFrom(c) = HelloFrom(d) => c = d
<1>1. Puller \notin Consumers
  BY StreamHandshakeAssumption
<1>2. \A c \in Consumers : c # Puller
  BY <1>1
<1>3. /\ \A c : HelloFrom(c).kind = "hello" /\ HelloFrom(c).src = c
      /\ \A c, g : FormatFor(c, g).kind = "format"
      /\ \A g : Announcement(g).kind = "announce" /\ Announcement(g).gen = g
      /\ Toggle.kind = "toggle"
  BY DEF HelloFrom, FormatFor, Announcement, Toggle
<1>4. /\ \A c : HelloFrom(c) # Toggle
      /\ \A c, g : FormatFor(c, g) # Toggle
      /\ \A g : Announcement(g) # Toggle
  BY <1>3
<1>5. /\ \A g, h : Announcement(g) = Announcement(h) => g = h
      /\ \A c, d : HelloFrom(c) = HelloFrom(d) => c = d
  BY <1>3
<1>6. /\ \A c \in Consumers : FromPeer(c) = {Toggle, HelloFrom(c)}
      /\ \A c \in Consumers : ToPeer(c) = Formats(c) \cup Announcements
      /\ ToPeer(Puller) = {HelloFrom(c) : c \in Consumers}
      /\ FromPeer(Puller)
           = {Toggle} \cup (UNION {Formats(c) : c \in Consumers}) \cup Announcements
  BY <1>2 DEF FromPeer, ToPeer
<1>7. Puller \in Peers /\ Consumers \subseteq Peers
  BY DEF Peers
<1>8. QED
  BY <1>1, <1>4, <1>5, <1>6, <1>7

\* A peer queues one more message.
LEMMA QueuedTypes ==
    ASSUME QueueTypes, NEW x \in Peers, NEW m \in FromPeer(x), Queued(x, m)
    PROVE  /\ toRouter' = [y \in Peers |-> toRouter'[y]]
           /\ \A y \in Peers : toRouter'[y] \in Seq(FromPeer(y))
           /\ toRouter'[x] = Append(toRouter[x], m)
           /\ \A y \in Peers : y # x => toRouter'[y] = toRouter[y]
<1>1. toRouter[x] \in Seq(FromPeer(x))
  BY DEF QueueTypes
<1>2. Append(toRouter[x], m) \in Seq(FromPeer(x))
  BY <1>1, AtTheBack
<1>3. QED
  BY <1>2 DEF Queued, QueueTypes

\* A peer reads, or loses, what is queued for it.
LEMMA ConsumedTypes ==
    ASSUME QueueTypes, NEW x \in Peers, NEW q \in {<<>>, Tail(toPeer[x])},
           q # <<>> => toPeer[x] # <<>>,
           toPeer' = [toPeer EXCEPT ![x] = q]
    PROVE  /\ toPeer' = [y \in Peers |-> toPeer'[y]]
           /\ \A y \in Peers : toPeer'[y] \in Seq(ToPeer(y))
           /\ toPeer'[x] = q
           /\ \A y \in Peers : y # x => toPeer'[y] = toPeer[y]
<1>1. toPeer[x] \in Seq(ToPeer(x))
  BY DEF QueueTypes
<1>2. q \in Seq(ToPeer(x))
  <2>1. CASE q = <<>>
    BY <2>1
  <2>2. CASE q # <<>>
    BY <2>2, <1>1, AtTheFront
  <2>3. QED
    BY <2>1, <2>2
<1>3. QED
  BY <1>2 DEF QueueTypes

\* evmgr hands a message for y to its connection, or holds it.
LEMMA RoutedTypes ==
    ASSUME QueueTypes, NEW y \in Peers, NEW m \in ToPeer(y), NEW seen, Routed(y, m, seen)
    PROVE  /\ toPeer' = [z \in Peers |-> toPeer'[z]]
           /\ cachedMsg' = [z \in Peers |-> cachedMsg'[z]]
           /\ \A z \in Peers : /\ toPeer'[z] \in Seq(ToPeer(z))
                               /\ cachedMsg'[z] \in Seq(ToPeer(z))
                               /\ Elements(toPeer[z]) \subseteq Elements(toPeer'[z])
           /\ y \in seen /\ Alive(y) => m \in Elements(toPeer'[y])
<1>1. toPeer[y] \in Seq(ToPeer(y)) /\ cachedMsg[y] \in Seq(ToPeer(y))
  BY DEF QueueTypes
<1>2. /\ Append(toPeer[y], m) \in Seq(ToPeer(y))
      /\ Elements(Append(toPeer[y], m)) = Elements(toPeer[y]) \cup {m}
  BY <1>1, AtTheBack
<1>3. PushDropOldest(cachedMsg[y], m, CacheCap) \in Seq(ToPeer(y))
  BY <1>1, PushTypes, StreamHandshakeAssumption
<1>4. CASE y \in seen /\ Alive(y)
  <2>1. toPeer' = [toPeer EXCEPT ![y] = Append(toPeer[y], m)] /\ cachedMsg' = cachedMsg
    BY <1>4 DEF Routed
  <2>2. QED
    BY <2>1, <1>2 DEF QueueTypes
<1>5. CASE y \in seen /\ ~Alive(y)
  BY <1>5 DEF Routed, QueueTypes
<1>6. CASE y \notin seen
  <2>1. /\ cachedMsg' = [cachedMsg EXCEPT ![y] = PushDropOldest(cachedMsg[y], m, CacheCap)]
        /\ toPeer' = toPeer
    BY <1>6 DEF Routed
  <2>2. QED
    BY <1>6, <2>1, <1>3 DEF QueueTypes
<1>7. QED
  BY <1>4, <1>5, <1>6

\* evmgr takes a message from the connection of x.
LEMMA ReadTypes ==
    ASSUME QueueTypes, NEW x \in Peers, MgrReads(x)
    PROVE  /\ toRouter' = [y \in Peers |-> toRouter'[y]]
           /\ \A y \in Peers : toRouter'[y] \in Seq(FromPeer(y))
           /\ toRouter'[x] = Tail(toRouter[x])
           /\ \A y \in Peers : y # x => toRouter'[y] = toRouter[y]
           /\ Head(toRouter[x]) \in FromPeer(x)
           /\ toRouter[x] # <<>>
<1>1. toRouter[x] \in Seq(FromPeer(x)) /\ toRouter[x] # <<>>
  BY DEF QueueTypes, MgrReads
<1>2. Tail(toRouter[x]) \in Seq(FromPeer(x)) /\ Head(toRouter[x]) \in FromPeer(x)
  BY <1>1, AtTheFront
<1>3. toRouter' = [toRouter EXCEPT ![x] = Tail(toRouter[x])]
  BY DEF MgrReads
<1>4. QED
  BY <1>1, <1>2, <1>3 DEF QueueTypes

\* What evmgr does with a toggle: what is queued for the peers only grows.
LEMMA ToggleTypes ==
    ASSUME QueueTypes, NEW x \in Peers, ReadsToggle(x)
    PROVE  /\ toPeer' = [z \in Peers |-> toPeer'[z]]
           /\ cachedMsg' = [z \in Peers |-> cachedMsg'[z]]
           /\ \A z \in Peers : /\ toPeer'[z] \in Seq(ToPeer(z))
                               /\ cachedMsg'[z] \in Seq(ToPeer(z))
                               /\ Elements(toPeer[z]) \subseteq Elements(toPeer'[z])
<1>1. toPeer[x] \in Seq(ToPeer(x)) /\ cachedMsg[x] \in Seq(ToPeer(x))
  BY DEF QueueTypes
<1>2. /\ toPeer[x] \o cachedMsg[x] \in Seq(ToPeer(x))
      /\ Elements(toPeer[x]) \subseteq Elements(toPeer[x] \o cachedMsg[x])
  BY <1>1, OneAfterTheOther
<1>3. <<>> \in Seq(ToPeer(x))
  OBVIOUS
<1>4. CASE x \notin status
  <2>1. /\ \/ toPeer' = [toPeer EXCEPT ![x] = toPeer[x] \o cachedMsg[x]]
           \/ toPeer' = toPeer
        /\ cachedMsg' = [cachedMsg EXCEPT ![x] = <<>>]
    BY <1>4 DEF ReadsToggle
  <2>2. QED
    BY <2>1, <1>2, <1>3 DEF QueueTypes
<1>5. CASE x \in status
  BY <1>5 DEF ReadsToggle, QueueTypes
<1>6. QED
  BY <1>4, <1>5

\* An announcement goes to every consumer evmgr takes for up.
LEMMA AnnouncedTypes ==
    ASSUME QueueTypes, NEW g \in Nat, ReadsMessage(Puller, Announcement(g))
    PROVE  /\ toPeer' = [z \in Peers |-> toPeer'[z]]
           /\ cachedMsg' = cachedMsg
           /\ \A z \in Peers : /\ toPeer'[z] \in Seq(ToPeer(z))
                               /\ Elements(toPeer[z]) \subseteq Elements(toPeer'[z])
           /\ \A c \in Consumers : c \in status /\ Alive(c) =>
                  Announcement(g) \in Elements(toPeer'[c])
<1> DEFINE m == Announcement(g)
<1>1. m.kind = "announce"
  BY DEF Announcement
<1>2. /\ cachedMsg' = cachedMsg
      /\ toPeer' = [c \in Peers |->
            IF c \in status \ {Puller} /\ Alive(c) THEN Append(toPeer[c], m) ELSE toPeer[c]]
  BY <1>1 DEF ReadsMessage
<1>3. ASSUME NEW c \in Consumers
      PROVE  /\ Append(toPeer[c], m) \in Seq(ToPeer(c))
             /\ Elements(Append(toPeer[c], m)) = Elements(toPeer[c]) \cup {m}
  <2>1. toPeer[c] \in Seq(ToPeer(c)) /\ m \in ToPeer(c)
    BY Kinds DEF QueueTypes, Announcements
  <2>2. QED
    BY <2>1, AtTheBack
<1> HIDE DEF m
<1>4. toPeer' = [z \in Peers |-> toPeer'[z]]
  BY <1>2
<1>5. ASSUME NEW z \in Peers
      PROVE  /\ toPeer'[z] \in Seq(ToPeer(z))
             /\ Elements(toPeer[z]) \subseteq Elements(toPeer'[z])
  <2>1. CASE z \in status \ {Puller} /\ Alive(z)
    <3>1. z \in Consumers /\ toPeer'[z] = Append(toPeer[z], m)
      BY <2>1, <1>2 DEF Peers
    <3>2. QED
      BY <3>1, <1>3
  <2>2. CASE ~(z \in status \ {Puller} /\ Alive(z))
    BY <2>2, <1>2 DEF QueueTypes
  <2>3. QED
    BY <2>1, <2>2
<1>6. ASSUME NEW c \in Consumers, c \in status, Alive(c)
      PROVE  m \in Elements(toPeer'[c])
  <2>1. toPeer'[c] = Append(toPeer[c], m)
    BY <1>2, <1>6, Kinds
  <2>2. QED
    BY <2>1, <1>3
<1>7. QED
  BY <1>2, <1>4, <1>5, <1>6 DEF m

\* evmgr reads a message of x: what it queues for the peers only grows, and a message for
\* one consumer, or for all, reaches the consumers that are up.
LEMMA ReadEffect ==
    ASSUME StreamTypes, NEW x \in Peers, MgrReads(x)
    PROVE  /\ StreamTypes' /\ UNCHANGED gap
           /\ \A z \in Peers : Elements(toPeer[z]) \subseteq Elements(toPeer'[z])
           /\ Head(toRouter[x]) = Toggle =>
                  /\ x \in status => status' = status \ {x}
                  /\ x \notin status => status' = status \cup {x}
           /\ Head(toRouter[x]) # Toggle => status' = status \cup {x}
           /\ \A c \in Consumers :
                  \A m \in {FormatFor(c, pgen), Announcement(pgen)} :
                     Head(toRouter[x]) = m /\ c \in status /\ Alive(c) =>
                         m \in Elements(toPeer'[c])
           /\ x \in Consumers /\ Head(toRouter[x]) # Toggle /\ Puller \in status
                /\ Alive(Puller) => HelloFrom(x) \in Elements(toPeer'[Puller])
<1> DEFINE m == Head(toRouter[x])
<1>1. /\ QueueTypes /\ pgen \in Nat /\ m \in FromPeer(x) /\ status \in SUBSET Peers
      /\ pgen' = pgen /\ pstate' = pstate /\ proc' = proc /\ fmt' = fmt
      /\ mgrCrashes' = mgrCrashes /\ gap' = gap
  BY ReadTypes DEF StreamTypes, ProcessTypes, MgrReads, pullerVars, consumerVars
<1>2. /\ Toggle.kind = "toggle"
      /\ \A c : HelloFrom(c).kind = "hello" /\ HelloFrom(c).dst = Puller
      /\ \A c, g : /\ FormatFor(c, g).kind = "format"
                   /\ FormatFor(c, g).dst = c
                   /\ FormatFor(c, g).gen = g
      /\ \A g : Announcement(g).kind = "announce" /\ Announcement(g).gen = g
  BY DEF Toggle, HelloFrom, FormatFor, Announcement
<1>3. /\ toRouter' = [y \in Peers |-> toRouter'[y]]
      /\ \A y \in Peers : toRouter'[y] \in Seq(FromPeer(y))
  BY <1>1, ReadTypes
<1>4. IF m.kind = "toggle" THEN ReadsToggle(x) ELSE ReadsMessage(x, m)
  BY DEF MgrReads
<1>5. \A S \in {status \cup {x}, status \ {x}} : S \in SUBSET Peers
  BY <1>1
<1> HIDE DEF m
<1>6. CASE m = Toggle
  <2>1. ReadsToggle(x)
    BY <1>6, <1>2, <1>4
  <2>2. QueueTypes' /\ \A z \in Peers : Elements(toPeer[z]) \subseteq Elements(toPeer'[z])
    BY <2>1, <1>1, <1>3, ToggleTypes DEF QueueTypes
  <2>3. /\ x \in status => status' = status \ {x}
        /\ x \notin status => status' = status \cup {x}
    BY <2>1 DEF ReadsToggle
  <2>4. ProcessTypes'
    BY <2>3, <1>1, <1>5 DEF StreamTypes, ProcessTypes
  <2>5. QED
    BY <2>2, <2>3, <2>4, <1>1, <1>6, Kinds DEF StreamTypes, m
<1>7. ASSUME m # Toggle, m.kind # "toggle"
      PROVE  status' = status \cup {x} /\ ReadsMessage(x, m) /\ ProcessTypes'
  <2>1. ReadsMessage(x, m)
    BY <1>7, <1>4
  <2>2. QED
    BY <2>1, <1>1, <1>5 DEF ReadsMessage, StreamTypes, ProcessTypes
<1>8. CASE x \in Consumers /\ m = HelloFrom(x)
  <2>1. status' = status \cup {x} /\ ReadsMessage(x, m) /\ ProcessTypes'
    BY <1>7, <1>8, <1>2, Kinds
  <2>2. Routed(Puller, m, status') /\ m \in ToPeer(Puller)
    BY <2>1, <1>8, <1>2, Kinds DEF ReadsMessage
  <2>3. /\ QueueTypes'
        /\ \A z \in Peers : Elements(toPeer[z]) \subseteq Elements(toPeer'[z])
        /\ Puller \in status' /\ Alive(Puller) => m \in Elements(toPeer'[Puller])
    BY <2>2, <1>1, <1>3, RoutedTypes, Kinds DEF QueueTypes
  <2>4. \A c, g : m # FormatFor(c, g) /\ m # Announcement(g)
    BY <1>8, <1>2
  <2>5. QED
    BY <2>1, <2>3, <2>4, <1>1, <1>8, Kinds DEF StreamTypes, m
<1>9. ASSUME NEW d \in Consumers, NEW g \in Nat, x = Puller, m = FormatFor(d, g)
      PROVE  /\ StreamTypes' /\ status' = status \cup {x} /\ m # Toggle
             /\ \A z \in Peers : Elements(toPeer[z]) \subseteq Elements(toPeer'[z])
             /\ d \in status' /\ Alive(d) => m \in Elements(toPeer'[d])
  <2>1. status' = status \cup {x} /\ ReadsMessage(x, m) /\ ProcessTypes' /\ m # Toggle
    BY <1>7, <1>9, <1>2, Kinds
  <2>2. Routed(d, m, status') /\ m \in ToPeer(d) /\ d \in Peers
    BY <2>1, <1>9, <1>2, Kinds DEF ReadsMessage, Formats
  <2>3. /\ QueueTypes'
        /\ \A z \in Peers : Elements(toPeer[z]) \subseteq Elements(toPeer'[z])
        /\ d \in status' /\ Alive(d) => m \in Elements(toPeer'[d])
    BY <2>2, <1>1, <1>3, RoutedTypes DEF QueueTypes
  <2>4. QED
    BY <2>1, <2>3 DEF StreamTypes
<1>10. CASE \E d \in Consumers : \E g \in Nat : x = Puller /\ m = FormatFor(d, g)
  <2>1. PICK d \in Consumers, g \in Nat : x = Puller /\ m = FormatFor(d, g)
    BY <1>10
  <2>2. ASSUME NEW c \in Consumers, m = FormatFor(c, pgen) PROVE c = d
    <3>1. FormatFor(c, pgen).dst = c /\ FormatFor(d, g).dst = d
      BY <1>2
    <3>2. QED
      BY <3>1, <2>1, <2>2
  <2>3. m # Announcement(pgen)
    BY <2>1, <1>2
  <2>4. /\ StreamTypes' /\ status' = status \cup {x} /\ m # Toggle
        /\ \A z \in Peers : Elements(toPeer[z]) \subseteq Elements(toPeer'[z])
        /\ d \in status' /\ Alive(d) => m \in Elements(toPeer'[d])
    BY <2>1, <1>9
  <2>5. QED
    BY <2>1, <2>2, <2>3, <2>4, <1>1, Kinds DEF m
<1>11. CASE \E g \in Nat : x = Puller /\ m = Announcement(g)
  <2>1. PICK g \in Nat : x = Puller /\ m = Announcement(g)
    BY <1>11
  <2>2. /\ status' = status \cup {x} /\ ReadsMessage(x, m) /\ ProcessTypes' /\ m # Toggle
        /\ \A c \in Consumers : m # FormatFor(c, pgen)
    BY <2>1, <1>7, <1>2, Kinds
  <2>3. /\ QueueTypes'
        /\ \A z \in Peers : Elements(toPeer[z]) \subseteq Elements(toPeer'[z])
        /\ \A c \in Consumers : c \in status /\ Alive(c) => m \in Elements(toPeer'[c])
    BY <2>1, <2>2, <1>1, <1>3, AnnouncedTypes DEF QueueTypes
  <2>4. QED
    BY <2>1, <2>2, <2>3, <1>1, Kinds DEF StreamTypes, m
<1>12. QED
  <2>1. CASE x \in Consumers
    BY <2>1, <1>1, <1>6, <1>8, Kinds
  <2>2. CASE x = Puller
    BY <2>2, <1>1, <1>6, <1>10, <1>11, Kinds DEF Formats, Announcements
  <2>3. QED
    BY <2>1, <2>2 DEF Peers

\* A process that ends loses what is queued for it.
LEMMA ExitTypes ==
    ASSUME StreamTypes, NEW c \in Consumers, Exits(c)
    PROVE  /\ StreamTypes'
           /\ proc' = [proc EXCEPT ![c] = "down"]
           /\ Queued(c, Toggle) /\ toPeer' = [toPeer EXCEPT ![c] = <<>>]
           /\ UNCHANGED <<pullerVars, fmt, routerVars, gap, mgrCrashes>>
<1>1. Toggle \in FromPeer(c) /\ c \in Peers
  BY Kinds
<1>2. Queued(c, Toggle) /\ toPeer' = [toPeer EXCEPT ![c] = <<>>]
  BY DEF Exits
<1>3. /\ toRouter' = [y \in Peers |-> toRouter'[y]]
      /\ \A y \in Peers : toRouter'[y] \in Seq(FromPeer(y))
  BY <1>1, <1>2, QueuedTypes DEF StreamTypes
<1>4. /\ toPeer' = [y \in Peers |-> toPeer'[y]]
      /\ \A y \in Peers : toPeer'[y] \in Seq(ToPeer(y))
  <2>1. \A q : q = <<>> =>
            ((toPeer' = [toPeer EXCEPT ![c] = q]) =>
                /\ toPeer' = [y \in Peers |-> toPeer'[y]]
                /\ \A y \in Peers : toPeer'[y] \in Seq(ToPeer(y)))
    BY <1>1, ConsumedTypes DEF StreamTypes
  <2>2. QED
    BY <1>2, <2>1
<1>5. QED
  BY <1>2, <1>3, <1>4 DEF Exits, StreamTypes, ProcessTypes, QueueTypes, pullerVars, routerVars

\* What every step of a consumer does to its own queues and to nobody else's.
LEMMA ConsumerEffect ==
    ASSUME StreamTypes, NEW c \in Consumers, ConsumerWorks(c) \/ Resets(c) \/ Crashes(c)
    PROVE  /\ StreamTypes'
           /\ UNCHANGED <<pstate, pgen, status, cachedMsg, mgrCrashes>>
           /\ \A x : x # c => (x \in gap' <=> x \in gap)
           /\ \A x \in Peers : x # c => toRouter'[x] = toRouter[x] /\ toPeer'[x] = toPeer[x]
           /\ \A d \in Consumers : d # c => proc'[d] = proc[d] /\ fmt'[d] = fmt[d]
           /\ \/ /\ toRouter'[c] = Append(toRouter[c], Toggle)
                 /\ proc[c] = "down" <=> proc'[c] # "down"
                 /\ proc'[c] \in {"down", "free"} /\ gap' = gap
              \/ /\ toRouter'[c] = Append(toRouter[c], HelloFrom(c))
                 /\ proc[c] # "down" /\ proc'[c] = "waiting"
              \/ /\ toRouter'[c] = toRouter[c] /\ gap' = gap
                 /\ proc[c] # "down" /\ proc'[c] # "down"
                 /\ \/ proc'[c] = "free" /\ toPeer'[c] = toPeer[c]
                    \/ /\ proc'[c] = proc[c] /\ toPeer[c] # <<>>
                       /\ fmt[c] = 0 /\ fmt'[c] = Head(toPeer[c]).gen
                       /\ toPeer'[c] = Tail(toPeer[c])
                    \/ /\ proc[c] = "waiting" /\ proc'[c] = "streaming"
                       /\ fmt'[c] = fmt[c] /\ toPeer'[c] = toPeer[c]
<1>1. /\ Toggle \in FromPeer(c) /\ HelloFrom(c) \in FromPeer(c) /\ c \in Peers
      /\ toRouter[c] \in Seq(FromPeer(c))
  BY Kinds DEF StreamTypes, QueueTypes
<1>2. QueueTypes /\ ProcessTypes
  BY DEF StreamTypes
<1>3. CASE ConsumerStarts(c)
  <2>1. Queued(c, Toggle)
    BY <1>3 DEF ConsumerStarts
  <2>2. QED
    BY <2>1, <1>1, <1>2, <1>3, QueuedTypes
    DEF ConsumerStarts, StreamTypes, QueueTypes, ProcessTypes, pullerVars, routerVars
<1>4. CASE SendsHello(c)
  <2>1. Queued(c, HelloFrom(c))
    BY <1>4 DEF SendsHello
  <2>2. QED
    BY <2>1, <1>1, <1>2, <1>4, QueuedTypes
    DEF SendsHello, StreamTypes, QueueTypes, ProcessTypes, pullerVars, routerVars
<1>5. CASE proc[c] # "down" /\ Exits(c)
  <2>1. /\ StreamTypes'
        /\ proc' = [proc EXCEPT ![c] = "down"]
        /\ Queued(c, Toggle) /\ toPeer' = [toPeer EXCEPT ![c] = <<>>]
        /\ UNCHANGED <<pullerVars, fmt, routerVars, gap, mgrCrashes>>
    BY <1>5, ExitTypes
  <2>2. QED
    BY <2>1, <1>1, <1>2, <1>5, QueuedTypes
    DEF QueueTypes, ProcessTypes, pullerVars, routerVars
<1>6. CASE TakesFormat(c) /\ fmt[c] = 0
  <2>1. /\ proc[c] # "down" /\ toPeer[c] # <<>>
        /\ fmt' = [fmt EXCEPT ![c] = Head(toPeer[c]).gen]
        /\ toPeer' = [toPeer EXCEPT ![c] = Tail(toPeer[c])]
        /\ UNCHANGED <<pstate, pgen, proc, status, cachedMsg, toRouter, gap, mgrCrashes>>
    BY <1>6 DEF TakesFormat, pullerVars, routerVars
  <2>2. Head(toPeer[c]).gen \in Nat
    <3>1. Head(toPeer[c]) \in ToPeer(c)
      BY <1>1, <1>2, <2>1, AtTheFront DEF QueueTypes
    <3>2. QED
      BY <3>1, Kinds DEF Formats, Announcements, FormatFor, Announcement
  <2>3. /\ toPeer' = [y \in Peers |-> toPeer'[y]]
        /\ \A y \in Peers : toPeer'[y] \in Seq(ToPeer(y))
        /\ toPeer'[c] = Tail(toPeer[c])
        /\ \A y \in Peers : y # c => toPeer'[y] = toPeer[y]
    BY <2>1, <1>1, <1>2, ConsumedTypes
  <2>4. QED
    BY <2>1, <2>2, <2>3, <1>2, <1>6 DEF StreamTypes, ProcessTypes, QueueTypes
<1>7. CASE SetsUpStream(c)
  BY <1>1, <1>2, <1>7
  DEF SetsUpStream, StreamTypes, ProcessTypes, QueueTypes, pullerVars, routerVars
<1>8. CASE Resets(c)
  BY <1>1, <1>2, <1>8
  DEF Resets, Fault, StreamTypes, ProcessTypes, QueueTypes, pullerVars, routerVars
<1>9. QED
  BY <1>3, <1>4, <1>5, <1>6, <1>7, <1>8
  DEF ConsumerWorks, TakesFormat, SecondFormat, GivesUp, Crashes

\* What every step of evpuller does.
LEMMA PullerEffect ==
    ASSUME StreamTypes, PullerWorks \/ PullerDies
    PROVE  /\ StreamTypes'
           /\ UNCHANGED <<proc, fmt, status, mgrCrashes>>
           /\ \A c \in Consumers : toRouter'[c] = toRouter[c] /\ toPeer'[c] = toPeer[c]
           /\ \/ /\ toRouter'[Puller] = Append(toRouter[Puller], Toggle)
                 /\ pstate = "down" <=> pstate' # "down"
                 /\ pstate' \in {"down", "opening"} /\ gap' = gap
              \/ /\ toRouter'[Puller] = Append(toRouter[Puller], Announcement(pgen'))
                 /\ pstate = "opening" /\ pstate' = "live"
                 /\ \A c \in Consumers : c \in gap' <=> c \in gap
              \/ /\ pstate = "live" /\ pstate' = "live" /\ pgen' = pgen /\ gap' = gap
                 /\ toPeer[Puller] # <<>> /\ toPeer'[Puller] = Tail(toPeer[Puller])
                 /\ \E c \in Consumers :
                       /\ Head(toPeer[Puller]) = HelloFrom(c)
                       /\ toRouter'[Puller] = Append(toRouter[Puller], FormatFor(c, pgen))
<1>1. /\ Toggle \in FromPeer(Puller) /\ \A g \in Nat : Announcement(g) \in FromPeer(Puller)
      /\ \A c \in Consumers : \A g \in Nat : FormatFor(c, g) \in FromPeer(Puller)
      /\ Puller \in Peers /\ Consumers \subseteq Peers /\ \A c \in Consumers : c # Puller
  BY Kinds DEF Formats, Announcements
<1>2. QueueTypes /\ ProcessTypes
  BY DEF StreamTypes
<1>3. CASE PullerStarts
  <2>1. Queued(Puller, Toggle)
    BY <1>3 DEF PullerStarts
  <2>2. QED
    BY <2>1, <1>1, <1>2, <1>3, QueuedTypes
    DEF PullerStarts, StreamTypes, QueueTypes, ProcessTypes, consumerVars, routerVars
<1>4. CASE PullerGoesLive
  <2>1. Queued(Puller, Announcement(pgen)) /\ Announcement(pgen) \in FromPeer(Puller)
    BY <1>1, <1>2, <1>4 DEF PullerGoesLive, ProcessTypes
  <2>2. QED
    BY <2>1, <1>1, <1>2, <1>4, QueuedTypes
    DEF PullerGoesLive, StreamTypes, QueueTypes, ProcessTypes, consumerVars, routerVars
<1>5. CASE PullerAnswers
  <2>1. /\ pstate = "live" /\ toPeer[Puller] # <<>>
        /\ toPeer' = [toPeer EXCEPT ![Puller] = Tail(toPeer[Puller])]
        /\ Queued(Puller, FormatFor(Head(toPeer[Puller]).src, pgen))
        /\ UNCHANGED <<pstate, pgen, proc, fmt, status, cachedMsg, gap, mgrCrashes>>
    BY <1>5 DEF PullerAnswers, pullerVars, consumerVars, routerVars
  <2>2. PICK c \in Consumers : Head(toPeer[Puller]) = HelloFrom(c)
    <3>1. Head(toPeer[Puller]) \in ToPeer(Puller)
      BY <1>1, <1>2, <2>1, AtTheFront DEF QueueTypes
    <3>2. QED
      BY <3>1, Kinds
  <2>3. Head(toPeer[Puller]).src = c
    BY <2>2 DEF HelloFrom
  <2>4. /\ toRouter' = [y \in Peers |-> toRouter'[y]]
        /\ \A y \in Peers : toRouter'[y] \in Seq(FromPeer(y))
        /\ toRouter'[Puller] = Append(toRouter[Puller], FormatFor(c, pgen))
        /\ \A y \in Peers : y # Puller => toRouter'[y] = toRouter[y]
    <3>1. Queued(Puller, FormatFor(c, pgen)) /\ FormatFor(c, pgen) \in FromPeer(Puller)
      BY <1>1, <1>2, <2>1, <2>3 DEF ProcessTypes
    <3>2. QED
      BY <3>1, <1>1, <1>2, QueuedTypes
  <2>5. /\ toPeer' = [y \in Peers |-> toPeer'[y]]
        /\ \A y \in Peers : toPeer'[y] \in Seq(ToPeer(y))
        /\ toPeer'[Puller] = Tail(toPeer[Puller])
        /\ \A y \in Peers : y # Puller => toPeer'[y] = toPeer[y]
    BY <2>1, <1>1, <1>2, ConsumedTypes
  <2>6. QED
    BY <2>1, <2>2, <2>4, <2>5, <1>1, <1>2 DEF StreamTypes, QueueTypes, ProcessTypes
<1>6. CASE PullerDies
  <2>1. /\ pstate # "down" /\ pstate' = "down"
        /\ toPeer' = [toPeer EXCEPT ![Puller] = <<>>]
        /\ Queued(Puller, Toggle)
        /\ UNCHANGED <<pgen, proc, fmt, status, cachedMsg, gap, mgrCrashes>>
    BY <1>6 DEF PullerDies, consumerVars, routerVars
  <2>2. /\ toPeer' = [y \in Peers |-> toPeer'[y]]
        /\ \A y \in Peers : toPeer'[y] \in Seq(ToPeer(y))
        /\ \A y \in Peers : y # Puller => toPeer'[y] = toPeer[y]
    <3>1. \A q : q = <<>> =>
              ((toPeer' = [toPeer EXCEPT ![Puller] = q]) =>
                  /\ toPeer' = [y \in Peers |-> toPeer'[y]]
                  /\ \A y \in Peers : toPeer'[y] \in Seq(ToPeer(y))
                  /\ \A y \in Peers : y # Puller => toPeer'[y] = toPeer[y])
      BY <1>1, <1>2, ConsumedTypes
    <3>2. QED
      BY <2>1, <3>1
  <2>3. QED
    BY <2>1, <2>2, <1>1, <1>2, QueuedTypes DEF StreamTypes, QueueTypes, ProcessTypes
<1>7. QED
  BY <1>3, <1>4, <1>5, <1>6 DEF PullerWorks

--------------------------------------------------------------------------------
(* Who is live is told, as long as its connection is not lost.  *)

\* Every step that does not end a connection.
Ordinary ==
    \/ PullerWorks
    \/ PullerDies
    \/ \E c \in Consumers : ConsumerWorks(c) \/ Resets(c) \/ Crashes(c)
    \/ \E x \in Peers : MgrReads(x)

\* What is queued for evmgr takes it from what it believes of each peer to the truth.
TurnsRight == \A x \in Peers : Turns(toRouter[x], Bit(x \in status), Bit(Alive(x)))

\* The last message of a consumer that asked is its question.
HelloLast ==
    \A c \in Consumers \ gap : proc[c] \in {"waiting", "streaming"} /\ toRouter[c] # <<>> =>
        toRouter[c][Len(toRouter[c])] = HelloFrom(c)

\* evpuller announces itself after it connects.
AnnounceLast ==
    \A i \in 1..Len(toRouter[Puller]) : toRouter[Puller][i] = Toggle =>
        \E j \in i + 1..Len(toRouter[Puller]) : toRouter[Puller][j] = Announcement(pgen)

\* Consumer c has the format of the running evpuller, or its question, the answer or the
\* announcement is under way.
Informed(c) ==
    \/ fmt[c] = pgen
    \/ toRouter[c] # <<>>
    \/ HelloFrom(c) \in Elements(toPeer[Puller])
    \/ \E m \in {FormatFor(c, pgen), Announcement(pgen)} :
          m \in Elements(toRouter[Puller]) \cup Elements(toPeer[c])

AllInformed == \A c \in Consumers \ gap : proc[c] \in {"waiting", "streaming"} => Informed(c)

\* evpuller is live and did not lose its connection.
Announced == pstate = "live" /\ Puller \notin gap

\* The inductive invariant.
FormatInv ==
    /\ StreamTypes
    /\ TurnsRight /\ HelloLast
    /\ Announced => AnnounceLast /\ AllInformed

\* What evmgr will believe of a peer stays the truth, whoever moves.
LEMMA TurnsStay ==
    ASSUME StreamTypes, TurnsRight, Ordinary
    PROVE  TurnsRight'
<1>1. \A x \in Peers : Toggle \in FromPeer(x)
  BY DEF FromPeer
<1>2. /\ \A x \in Peers : toRouter[x] \in Seq(FromPeer(x))
      /\ \A c \in Consumers : HelloFrom(c) \in FromPeer(c) /\ c # Puller /\ c \in Peers
      /\ Puller \in Peers
  BY Kinds DEF StreamTypes, QueueTypes
<1>3. ASSUME NEW c \in Consumers, ConsumerWorks(c) \/ Resets(c) \/ Crashes(c)
      PROVE  TurnsRight'
  <2>1. /\ UNCHANGED <<pstate, status>>
        /\ \A x \in Peers : x # c => toRouter'[x] = toRouter[x]
        /\ \A d \in Consumers : d # c => proc'[d] = proc[d]
        /\ \/ /\ toRouter'[c] = Append(toRouter[c], Toggle)
              /\ proc[c] = "down" <=> proc'[c] # "down"
           \/ /\ toRouter'[c] = Append(toRouter[c], HelloFrom(c))
              /\ proc[c] # "down" /\ proc'[c] = "waiting"
           \/ /\ toRouter'[c] = toRouter[c]
              /\ proc[c] # "down" /\ proc'[c] # "down"
    BY <1>3, ConsumerEffect
  <2>2. ASSUME NEW x \in Peers, x # c
        PROVE  Turns(toRouter'[x], Bit(x \in status'), Bit(Alive(x)'))
    <3>1. Alive(x)' = Alive(x)
      BY <2>1, <2>2 DEF Alive, Peers
    <3>2. QED
      BY <3>1, <2>1, <2>2 DEF TurnsRight
  <2>3. Turns(toRouter'[c], Bit(c \in status'), Bit(Alive(c)'))
    <3>1. Turns(toRouter[c], Bit(c \in status), Bit(Alive(c)))
      BY <1>1, <1>2 DEF TurnsRight
    <3>2. (Alive(c) <=> proc[c] # "down") /\ (Alive(c)' <=> proc'[c] # "down")
      BY <1>1, <1>2 DEF Alive
    <3>3. CASE /\ toRouter'[c] = Append(toRouter[c], Toggle)
               /\ proc[c] = "down" <=> proc'[c] # "down"
      <4>1. Bit(Alive(c)') = 1 - Bit(Alive(c)) /\ Bit(Alive(c)') \in {0, 1}
        BY <3>2, <3>3 DEF Bit
      <4>2. Turns(Append(toRouter[c], Toggle), Bit(c \in status), Bit(Alive(c)'))
        BY <3>1, <4>1, <1>1, <1>2, TurnsAtTheBack
      <4>3. QED
        BY <4>2, <3>3, <2>1
    <3>4. CASE /\ toRouter'[c] = Append(toRouter[c], HelloFrom(c))
               /\ proc[c] # "down" /\ proc'[c] = "waiting"
      <4>1. Bit(Alive(c)') = 1 /\ Bit(Alive(c)) = 1
        BY <3>2, <3>4 DEF Bit
      <4>2. Turns(Append(toRouter[c], HelloFrom(c)), Bit(c \in status), Bit(Alive(c)'))
        BY <3>1, <4>1, <1>1, <1>2, Kinds, TurnsAtTheBack
      <4>3. QED
        BY <4>2, <3>4, <2>1
    <3>5. CASE toRouter'[c] = toRouter[c] /\ proc[c] # "down" /\ proc'[c] # "down"
      BY <3>1, <3>2, <3>5, <2>1
    <3>6. QED
      BY <2>1, <3>3, <3>4, <3>5
  <2>4. QED
    BY <2>2, <2>3 DEF TurnsRight
<1>4. CASE PullerWorks \/ PullerDies
  <2>1. /\ UNCHANGED <<proc, status>>
        /\ \A c \in Consumers : toRouter'[c] = toRouter[c]
        /\ pstate \in {"down", "opening", "live"}
        /\ \/ /\ toRouter'[Puller] = Append(toRouter[Puller], Toggle)
              /\ pstate = "down" <=> pstate' # "down"
           \/ /\ pstate # "down" /\ pstate' # "down"
              /\ \E m \in FromPeer(Puller) \ {Toggle} :
                    toRouter'[Puller] = Append(toRouter[Puller], m)
    <3>1. StreamTypes'
      BY <1>4, PullerEffect
    <3>2. /\ Announcement(pgen') \in FromPeer(Puller) \ {Toggle}
          /\ \A c \in Consumers : FormatFor(c, pgen) \in FromPeer(Puller) \ {Toggle}
      BY <3>1, Kinds DEF StreamTypes, ProcessTypes, Formats, Announcements
    <3>3. QED
      BY <1>4, <3>2, PullerEffect DEF StreamTypes, ProcessTypes
  <2>2. ASSUME NEW c \in Consumers
        PROVE  Turns(toRouter'[c], Bit(c \in status'), Bit(Alive(c)'))
    <3>1. Alive(c)' = Alive(c)
      BY <2>1, <1>1, <1>2 DEF Alive
    <3>2. QED
      BY <3>1, <2>1, <1>1, <1>2 DEF TurnsRight
  <2>3. Turns(toRouter'[Puller], Bit(Puller \in status'), Bit(Alive(Puller)'))
    <3>1. Turns(toRouter[Puller], Bit(Puller \in status), Bit(Alive(Puller)))
      BY <1>1, <1>2 DEF TurnsRight
    <3>2. (Alive(Puller) <=> pstate # "down") /\ (Alive(Puller)' <=> pstate' # "down")
      BY DEF Alive
    <3>3. CASE /\ toRouter'[Puller] = Append(toRouter[Puller], Toggle)
               /\ pstate = "down" <=> pstate' # "down"
      <4>1. Bit(Alive(Puller)') = 1 - Bit(Alive(Puller)) /\ Bit(Alive(Puller)') \in {0, 1}
        BY <3>2, <3>3 DEF Bit
      <4>2. Turns(Append(toRouter[Puller], Toggle), Bit(Puller \in status),
                  Bit(Alive(Puller)'))
        BY <3>1, <4>1, <1>1, <1>2, TurnsAtTheBack
      <4>3. QED
        BY <4>2, <3>3, <2>1
    <3>4. ASSUME NEW m \in FromPeer(Puller) \ {Toggle},
                 pstate # "down", pstate' # "down",
                 toRouter'[Puller] = Append(toRouter[Puller], m)
          PROVE  Turns(toRouter'[Puller], Bit(Puller \in status'), Bit(Alive(Puller)'))
      <4>1. Bit(Alive(Puller)') = 1 /\ Bit(Alive(Puller)) = 1
        BY <3>2, <3>4 DEF Bit
      <4>2. Turns(Append(toRouter[Puller], m), Bit(Puller \in status), Bit(Alive(Puller)'))
        BY <3>1, <4>1, <1>1, <1>2, TurnsAtTheBack
      <4>3. QED
        BY <4>2, <3>4, <2>1
    <3>5. QED
      BY <2>1, <3>3, <3>4
  <2>4. QED
    BY <2>2, <2>3 DEF TurnsRight, Peers
<1>5. ASSUME NEW x \in Peers, MgrReads(x) PROVE TurnsRight'
  <2>1. /\ toRouter[x] # <<>> /\ toRouter'[x] = Tail(toRouter[x])
        /\ \A y \in Peers : y # x => toRouter'[y] = toRouter[y]
        /\ UNCHANGED <<pstate, proc>>
    BY <1>5, ReadTypes DEF StreamTypes, MgrReads, pullerVars, consumerVars
  <2>2. /\ \A y \in Peers : y # x => (y \in status' <=> y \in status)
        /\ Head(toRouter[x]) = Toggle => Bit(x \in status') = 1 - Bit(x \in status)
        /\ Head(toRouter[x]) # Toggle => Bit(x \in status') = 1
    BY <1>5, ReadEffect DEF Bit
  <2>3. ASSUME NEW y \in Peers PROVE Alive(y)' = Alive(y)
    BY <2>1 DEF Alive
  <2>4. ASSUME NEW y \in Peers, y # x
        PROVE  Turns(toRouter'[y], Bit(y \in status'), Bit(Alive(y)'))
    <3>1. Bit(y \in status') = Bit(y \in status) /\ Bit(Alive(y)') = Bit(Alive(y))
      BY <2>2, <2>3, <2>4 DEF Bit
    <3>2. QED
      BY <3>1, <2>1, <2>4 DEF TurnsRight
  <2>5. Turns(toRouter'[x], Bit(x \in status'), Bit(Alive(x)'))
    <3>1. Turns(toRouter[x], Bit(x \in status), Bit(Alive(x)))
      BY DEF TurnsRight
    <3>2. /\ Head(toRouter[x]) = Toggle =>
                 Turns(Tail(toRouter[x]), 1 - Bit(x \in status), Bit(Alive(x)))
          /\ Head(toRouter[x]) # Toggle => Turns(Tail(toRouter[x]), 1, Bit(Alive(x)))
      BY <3>1, <2>1, <1>1, <1>2, TurnsAtTheFront
    <3>3. Bit(Alive(x)') = Bit(Alive(x))
      BY <2>3
    <3>4. QED
      BY <3>2, <3>3, <2>1, <2>2
  <2>6. QED
    BY <2>4, <2>5 DEF TurnsRight
<1>6. QED
  BY <1>3, <1>4, <1>5 DEF Ordinary

\* A consumer that asked sends nothing after its question until it ends or asks again.
LEMMA HelloLastStays ==
    ASSUME StreamTypes, HelloLast, Ordinary
    PROVE  HelloLast'
<1> SUFFICES ASSUME NEW d \in Consumers, d \notin gap',
                    proc'[d] \in {"waiting", "streaming"}, toRouter'[d] # <<>>
             PROVE  toRouter'[d][Len(toRouter'[d])] = HelloFrom(d)
  BY DEF HelloLast
<1>1. /\ toRouter[d] \in Seq(FromPeer(d)) /\ HelloFrom(d) \in FromPeer(d)
      /\ d \in Peers /\ d # Puller
  BY Kinds DEF StreamTypes, QueueTypes
<1>2. ASSUME NEW c \in Consumers, ConsumerWorks(c) \/ Resets(c) \/ Crashes(c)
      PROVE  toRouter'[d][Len(toRouter'[d])] = HelloFrom(d)
  <2>1. CASE /\ toRouter'[d] = toRouter[d] /\ d \notin gap
             /\ proc[d] \in {"waiting", "streaming"}
    BY <2>1 DEF HelloLast
  <2>2. CASE toRouter'[d] = Append(toRouter[d], HelloFrom(d))
    BY <2>2, <1>1, AtTheBack
  <2>3. QED
    BY <2>1, <2>2, <1>1, <1>2, ConsumerEffect
<1>3. CASE PullerWorks \/ PullerDies
  BY <1>3, PullerEffect DEF HelloLast
<1>4. ASSUME NEW x \in Peers, MgrReads(x)
      PROVE  toRouter'[d][Len(toRouter'[d])] = HelloFrom(d)
  <2>1. proc[d] \in {"waiting", "streaming"} /\ d \notin gap
    BY <1>4 DEF MgrReads, consumerVars
  <2>2. CASE x = d
    <3>1. toRouter[d] # <<>> /\ toRouter'[d] = Tail(toRouter[d])
      BY <2>2, <1>4, ReadTypes DEF StreamTypes
    <3>2. /\ Len(toRouter[d]) \in Nat \ {0} /\ Len(Tail(toRouter[d])) = Len(toRouter[d]) - 1
          /\ \A i \in 1..Len(toRouter[d]) - 1 : Tail(toRouter[d])[i] = toRouter[d][i + 1]
          /\ Tail(toRouter[d]) \in Seq(FromPeer(d))
      BY <3>1, <1>1, AtTheFront
    <3>3. Len(toRouter[d]) - 1 # 0
      BY <3>1, <3>2, EmptySeq
    <3>4. Tail(toRouter[d])[Len(toRouter[d]) - 1] = toRouter[d][Len(toRouter[d])]
      <4>1. \A n \in Nat \ {0} : n - 1 # 0 => n - 1 \in 1..n - 1 /\ n - 1 + 1 = n
        OBVIOUS
      <4>2. QED
        BY <4>1, <3>2, <3>3
    <3>5. QED
      BY <3>1, <3>2, <3>4, <2>1 DEF HelloLast
  <2>3. CASE x # d
    BY <2>1, <2>3, <1>1, <1>4, ReadTypes DEF StreamTypes, HelloLast
  <2>4. QED
    BY <2>2, <2>3
<1>5. QED
  BY <1>2, <1>3, <1>4 DEF Ordinary

\* While evpuller is live no toggle of its connection follows its announcement.
LEMMA AnnounceLastStays ==
    ASSUME StreamTypes, Announced => AnnounceLast, Ordinary, Announced'
    PROVE  AnnounceLast'
<1> DEFINE q == toRouter[Puller]
           r == toRouter'[Puller]
<1> SUFFICES ASSUME NEW i \in 1..Len(r), r[i] = Toggle
             PROVE  \E j \in i + 1..Len(r) : r[j] = Announcement(pgen')
  BY DEF AnnounceLast
<1>1. q \in Seq(FromPeer(Puller)) /\ Puller \in Peers /\ \A c \in Consumers : c # Puller
  BY Kinds DEF StreamTypes, QueueTypes
<1>2. CASE r = q /\ Announced /\ pgen' = pgen
  <2>1. \E j \in i + 1..Len(q) : q[j] = Announcement(pgen)
    BY <1>2 DEF AnnounceLast
  <2>2. QED
    BY <1>2, <2>1
<1>3. CASE PullerWorks \/ PullerDies
  <2>1. CASE r = Append(q, Announcement(pgen'))
    <3>1. Announcement(pgen') \in FromPeer(Puller)
      <4>1. StreamTypes'
        BY <1>3, PullerEffect
      <4>2. pgen' \in Nat
        BY <4>1 DEF StreamTypes, ProcessTypes
      <4>3. Announcement(pgen') \in Announcements
        BY <4>2 DEF Announcements
      <4>4. QED
        BY <4>3, Kinds
    <3>2. /\ Len(q) \in Nat /\ Len(r) = Len(q) + 1 /\ r[Len(q) + 1] = Announcement(pgen')
      BY <2>1, <3>1, <1>1, AtTheBack
    <3>3. i # Len(q) + 1
      BY <3>2, Kinds
    <3>4. QED
      BY <3>2, <3>3
  <2>2. ASSUME NEW c \in Consumers, r = Append(q, FormatFor(c, pgen)),
               Announced, pgen' = pgen
        PROVE  \E j \in i + 1..Len(r) : r[j] = Announcement(pgen')
    <3>1. FormatFor(c, pgen) \in FromPeer(Puller)
      BY Kinds DEF Formats, StreamTypes, ProcessTypes
    <3>2. /\ Len(q) \in Nat /\ Len(r) = Len(q) + 1 /\ r[Len(q) + 1] = FormatFor(c, pgen)
          /\ \A j \in 1..Len(q) : r[j] = q[j]
      BY <2>2, <3>1, <1>1, AtTheBack
    <3>3. i \in 1..Len(q) /\ q[i] = Toggle
      BY <3>2, Kinds
    <3>4. PICK j \in i + 1..Len(q) : q[j] = Announcement(pgen)
      BY <2>2, <3>3 DEF AnnounceLast
    <3>5. QED
      BY <2>2, <3>2, <3>3, <3>4
  <2>3. QED
    BY <1>3, <2>1, <2>2, PullerEffect DEF Announced
<1>4. ASSUME NEW c \in Consumers, ConsumerWorks(c) \/ Resets(c) \/ Crashes(c)
      PROVE  r = q /\ Announced /\ pgen' = pgen
  BY <1>1, <1>4, ConsumerEffect DEF Announced
<1>5. ASSUME NEW x \in Peers, MgrReads(x)
      PROVE  \E j \in i + 1..Len(r) : r[j] = Announcement(pgen')
  <2>1. pgen' = pgen /\ Announced
    BY <1>5 DEF MgrReads, pullerVars, Announced
  <2>2. CASE x = Puller
    <3>1. q # <<>> /\ r = Tail(q)
      BY <2>2, <1>5, ReadTypes DEF StreamTypes
    <3>2. /\ Len(q) \in Nat \ {0} /\ Len(r) = Len(q) - 1
          /\ \A j \in 1..Len(q) - 1 : r[j] = q[j + 1]
      BY <3>1, <1>1, AtTheFront
    <3>3. i + 1 \in 1..Len(q) /\ q[i + 1] = Toggle
      BY <3>2
    <3>4. PICK j \in i + 1 + 1..Len(q) : q[j] = Announcement(pgen)
      BY <2>1, <3>3 DEF AnnounceLast
    <3>5. j - 1 \in i + 1..Len(r) /\ r[j - 1] = Announcement(pgen')
      <4>1. j - 1 \in i + 1..Len(r) /\ j - 1 \in 1..Len(q) - 1 /\ j - 1 + 1 = j
        BY <3>2, <3>3
      <4>2. QED
        BY <4>1, <3>2, <3>4, <2>1
    <3>6. QED
      BY <3>5
  <2>3. CASE x # Puller
    BY <1>2, <2>1, <2>3, <1>1, <1>5, ReadTypes DEF StreamTypes
  <2>4. QED
    BY <2>2, <2>3
<1>6. QED
  BY <1>2, <1>3, <1>4, <1>5 DEF Ordinary

\* When a consumer's question reaches evmgr while no announcement is under way, evmgr
\* takes evpuller for up and does not hold the question.
LEMMA PullerIsUp ==
    ASSUME StreamTypes, TurnsRight, AnnounceLast, pstate = "live",
           Announcement(pgen) \notin Elements(toRouter[Puller])
    PROVE  Puller \in status
<1> DEFINE q == toRouter[Puller]
<1>1. q \in Seq(FromPeer(Puller)) /\ Puller \in Peers
  BY Kinds DEF StreamTypes, QueueTypes
<1>2. DOMAIN q = 1..Len(q) /\ Len(q) \in Nat
  BY <1>1, LenProperties
<1>3. Toggle \notin Elements(q)
  <2> SUFFICES ASSUME NEW i \in 1..Len(q), q[i] = Toggle PROVE FALSE
    BY <1>2 DEF Elements
  <2>1. PICK j \in i + 1..Len(q) : q[j] = Announcement(pgen)
    BY DEF AnnounceLast
  <2>2. j \in 1..Len(q)
    BY <1>2
  <2>3. QED
    BY <2>1, <2>2, <1>2 DEF Elements
<1>4. Turns(q, Bit(Puller \in status), Bit(Alive(Puller))) /\ Bit(Alive(Puller)) = 1
  BY <1>1 DEF TurnsRight, Alive, Bit
<1>5. Bit(Puller \in status) = 1
  BY <1>1, <1>3, <1>4, TurnsToUp
<1>6. QED
  BY <1>5 DEF Bit

\* evmgr takes a consumer for up when it has read all the consumer sent.
LEMMA ConsumerIsUp ==
    ASSUME StreamTypes, TurnsRight, NEW c \in Consumers, proc[c] # "down",
           toRouter[c] = <<>>
    PROVE  c \in status /\ Alive(c)
<1>1. c \in Peers /\ c # Puller /\ toRouter[c] \in Seq(FromPeer(c))
  BY Kinds DEF StreamTypes, QueueTypes
<1>2. Alive(c)
  BY <1>1 DEF Alive
<1>3. Turns(toRouter[c], Bit(c \in status), 1)
  BY <1>1, <1>2 DEF TurnsRight, Bit
<1>4. Toggle \notin Elements(toRouter[c])
  BY DEF Elements
<1>5. Bit(c \in status) = 1
  BY <1>1, <1>3, <1>4, TurnsToUp
<1>6. QED
  BY <1>2, <1>5 DEF Bit

\* The format of the running evpuller, its announcement or the question for it does not
\* get lost between evpuller, evmgr and a consumer.
LEMMA AllInformedStays ==
    ASSUME StreamTypes, TurnsRight, HelloLast,
           Announced => AnnounceLast /\ AllInformed,
           Ordinary, Announced'
    PROVE  AllInformed'
<1> SUFFICES ASSUME NEW d \in Consumers, d \notin gap', proc'[d] \in {"waiting", "streaming"}
             PROVE  Informed(d)'
  BY DEF AllInformed
<1>1. /\ d \in Peers /\ d # Puller /\ Puller \in Peers
      /\ \A x \in Peers : /\ toRouter[x] \in Seq(FromPeer(x))
                          /\ toPeer[x] \in Seq(ToPeer(x))
  BY Kinds DEF StreamTypes, QueueTypes
<1>2. ASSUME /\ pgen' = pgen /\ Informed(d)
             /\ fmt'[d] = fmt[d] /\ toRouter'[d] = toRouter[d]
             /\ toPeer'[Puller] = toPeer[Puller] /\ toRouter'[Puller] = toRouter[Puller]
             /\ toPeer'[d] = toPeer[d]
      PROVE  Informed(d)'
  BY <1>2 DEF Informed
<1>3. ASSUME NEW c \in Consumers, ConsumerWorks(c) \/ Resets(c) \/ Crashes(c)
      PROVE  Informed(d)'
  <2>1. pgen' = pgen /\ toPeer'[Puller] = toPeer[Puller] /\ toRouter'[Puller] = toRouter[Puller]
    BY <1>1, <1>3, Kinds, ConsumerEffect
  <2>2. Announced /\ AllInformed
    BY <1>1, <1>3, Kinds, ConsumerEffect DEF Announced
  <2>3. CASE c # d
    BY <2>1, <2>2, <2>3, <1>1, <1>2, <1>3, ConsumerEffect DEF AllInformed
  <2>4. CASE c = d
    <3>1. CASE toRouter'[d] = Append(toRouter[d], HelloFrom(d))
      <4>1. HelloFrom(d) \in FromPeer(d)
        BY Kinds
      <4>2. toRouter'[d] # <<>>
        BY <3>1, <4>1, <1>1, AtTheBack
      <4>3. QED
        BY <4>2 DEF Informed
    <3>2. CASE /\ toRouter'[d] = toRouter[d] /\ fmt'[d] = fmt[d] /\ toPeer'[d] = toPeer[d]
               /\ proc[d] = "waiting" /\ gap' = gap
      BY <3>2, <2>1, <2>2, <1>2 DEF AllInformed
    <3>3. CASE /\ toRouter'[d] = toRouter[d] /\ proc'[d] = proc[d] /\ toPeer[d] # <<>>
               /\ gap' = gap
               /\ fmt[d] = 0 /\ fmt'[d] = Head(toPeer[d]).gen
               /\ toPeer'[d] = Tail(toPeer[d])
      <4>1. Informed(d) /\ fmt[d] # pgen
        BY <3>3, <2>2 DEF AllInformed, Announced, StreamTypes, ProcessTypes
      <4>2. Elements(toPeer[d]) = Elements(toPeer'[d]) \cup {Head(toPeer[d])}
        BY <3>3, <1>1, AtTheFront
      <4>3. FormatFor(d, pgen).gen = pgen /\ Announcement(pgen).gen = pgen
        BY DEF FormatFor, Announcement
      <4>4. CASE Head(toPeer[d]) \in {FormatFor(d, pgen), Announcement(pgen)}
        BY <4>3, <4>4, <3>3, <2>1 DEF Informed
      <4>5. CASE Head(toPeer[d]) \notin {FormatFor(d, pgen), Announcement(pgen)}
        BY <4>1, <4>2, <4>5, <3>3, <2>1 DEF Informed
      <4>6. QED
        BY <4>4, <4>5
    <3>4. QED
      BY <2>4, <3>1, <3>2, <3>3, <1>3, ConsumerEffect
  <2>5. QED
    BY <2>3, <2>4
<1>4. CASE PullerWorks \/ PullerDies
  <2>1. /\ proc' = proc /\ fmt' = fmt
        /\ toRouter'[d] = toRouter[d] /\ toPeer'[d] = toPeer[d]
    BY <1>4, PullerEffect
  <2>2. CASE toRouter'[Puller] = Append(toRouter[Puller], Announcement(pgen'))
    <3>1. StreamTypes'
      BY <1>4, PullerEffect
    <3>2. pgen' \in Nat
      BY <3>1 DEF StreamTypes, ProcessTypes
    <3>3. Announcement(pgen') \in FromPeer(Puller)
      BY <3>2, Kinds DEF Announcements
    <3>4. Announcement(pgen') \in Elements(toRouter'[Puller])
      BY <2>2, <3>3, <1>1, AtTheBack
    <3>5. QED
      BY <3>4 DEF Informed
  <2>3. ASSUME NEW c \in Consumers, pstate = "live", pgen' = pgen, gap' = gap,
               toPeer[Puller] # <<>>, toPeer'[Puller] = Tail(toPeer[Puller]),
               Head(toPeer[Puller]) = HelloFrom(c),
               toRouter'[Puller] = Append(toRouter[Puller], FormatFor(c, pgen))
        PROVE  Informed(d)'
    <3>1. Informed(d)
      BY <2>1, <2>3 DEF AllInformed, Announced
    <3>2. FormatFor(c, pgen) \in FromPeer(Puller)
      BY Kinds DEF Formats, StreamTypes, ProcessTypes
    <3>3. Elements(toRouter'[Puller]) = Elements(toRouter[Puller]) \cup {FormatFor(c, pgen)}
      BY <2>3, <3>2, <1>1, AtTheBack
    <3>4. Elements(toPeer[Puller]) = Elements(toPeer'[Puller]) \cup {HelloFrom(c)}
      BY <2>3, <1>1, AtTheFront
    <3>5. HelloFrom(d) = HelloFrom(c) => c = d
      BY Kinds
    <3>6. QED
      BY <2>1, <2>3, <3>1, <3>3, <3>4, <3>5 DEF Informed
  <2>4. QED
    BY <1>4, <2>2, <2>3, PullerEffect DEF Announced
<1>5. ASSUME NEW x \in Peers, MgrReads(x) PROVE Informed(d)'
  <2>1. /\ pgen' = pgen /\ proc' = proc /\ fmt' = fmt /\ pstate = "live"
        /\ d \notin gap /\ Informed(d) /\ AnnounceLast
    BY <1>5 DEF MgrReads, pullerVars, consumerVars, AllInformed, Announced
  <2>2. /\ toRouter[x] # <<>> /\ toRouter'[x] = Tail(toRouter[x])
        /\ \A y \in Peers : y # x => toRouter'[y] = toRouter[y]
        /\ Elements(toRouter[x]) = Elements(toRouter'[x]) \cup {Head(toRouter[x])}
        /\ Head(toRouter[x]) \in FromPeer(x)
    BY <1>1, <1>5, ReadTypes, AtTheFront DEF StreamTypes
  <2>3. \A z \in Peers : Elements(toPeer[z]) \subseteq Elements(toPeer'[z])
    BY <1>5, ReadEffect
  <2>4. CASE x = d /\ Head(toRouter[d]) = Toggle
    <3>1. toRouter[d][Len(toRouter[d])] = HelloFrom(d)
      BY <2>1, <2>2, <2>4 DEF HelloLast
    <3>2. /\ Len(toRouter[d]) \in Nat \ {0} /\ Head(toRouter[d]) = toRouter[d][1]
          /\ Len(Tail(toRouter[d])) = Len(toRouter[d]) - 1
      BY <2>2, <2>4, <1>1, AtTheFront
    <3>3. Len(toRouter[d]) # 1
      BY <3>1, <3>2, <2>4, Kinds
    <3>4. Len(toRouter'[d]) # 0
      <4>1. toRouter'[d] = Tail(toRouter[d])
        BY <2>2, <2>4
      <4>2. \A n \in Nat \ {0} : n # 1 => n - 1 # 0
        OBVIOUS
      <4>3. Len(Tail(toRouter[d])) # 0
        BY <4>2, <3>2, <3>3
      <4>4. QED
        BY <4>1, <4>3
    <3>5. toRouter'[d] # <<>>
      BY <3>4
    <3>6. QED
      BY <3>5 DEF Informed
  <2>5. CASE x = d /\ Head(toRouter[d]) # Toggle
    <3>1. CASE Announcement(pgen) \in Elements(toRouter[Puller])
      BY <3>1, <2>1, <2>2, <2>5, <1>1 DEF Informed
    <3>2. CASE Announcement(pgen) \notin Elements(toRouter[Puller])
      <4>1. Puller \in status
        BY <3>2, <2>1, PullerIsUp
      <4>2. Alive(Puller)
        BY <2>1 DEF Alive
      <4>3. HelloFrom(d) \in Elements(toPeer'[Puller])
        BY <4>1, <4>2, <2>5, <1>5, ReadEffect
      <4>4. QED
        BY <4>3 DEF Informed
    <3>3. QED
      BY <3>1, <3>2
  <2>6. CASE x = Puller
    <3>1. toRouter'[d] = toRouter[d]
      BY <2>2, <2>6, <1>1
    <3>2. CASE fmt[d] = pgen \/ toRouter[d] # <<>>
      BY <3>1, <3>2, <2>1 DEF Informed
    <3>3. CASE HelloFrom(d) \in Elements(toPeer[Puller])
      BY <3>3, <2>3, <1>1 DEF Informed
    <3>4. ASSUME NEW m \in {FormatFor(d, pgen), Announcement(pgen)},
                 m \in Elements(toRouter[Puller]) \cup Elements(toPeer[d]),
                 toRouter[d] = <<>>
          PROVE  Informed(d)'
      <4>1. CASE m \in Elements(toRouter'[Puller]) \cup Elements(toPeer'[d])
        BY <4>1, <2>1 DEF Informed
      <4>2. CASE m \notin Elements(toRouter'[Puller]) \cup Elements(toPeer'[d])
        <5>1. m = Head(toRouter[Puller])
          BY <4>2, <3>4, <2>2, <2>3, <2>6, <1>1
        <5>2. d \in status /\ Alive(d)
          BY <3>4, <2>1, ConsumerIsUp
        <5>3. m \in Elements(toPeer'[d])
          BY <5>1, <5>2, <2>6, <1>5, ReadEffect
        <5>4. QED
          BY <4>2, <5>3
      <4>3. QED
        BY <4>1, <4>2
    <3>5. QED
      BY <3>2, <3>3, <3>4, <2>1 DEF Informed
  <2>7. CASE x # d /\ x # Puller
    BY <2>1, <2>2, <2>3, <2>7, <1>1 DEF Informed
  <2>8. QED
    BY <2>4, <2>5, <2>6, <2>7
<1>6. QED
  BY <1>3, <1>4, <1>5 DEF Ordinary

\* Nothing is queued for a peer that is down.
LEMMA NoTurns == Turns(<<>>, 0, 0)
<1>1. Len(<<>>) + 1 = 1 /\ 1..Len(<<>>) = {}
  OBVIOUS
<1>2. \E f \in [1..1 -> {0, 1}] : f[1] = 0
  <2>1. [i \in 1..1 |-> 0] \in [1..1 -> {0, 1}] /\ [i \in 1..1 |-> 0][1] = 0
    OBVIOUS
  <2>2. QED
    BY <2>1
<1>3. QED
  BY <1>1, <1>2 DEF Turns

\* Before anything runs.
LEMMA InitFormatInv == Init => FormatInv
<1> SUFFICES ASSUME StreamInit PROVE FormatInv
  BY DEF Init
<1>1. \A x \in Peers : toRouter[x] = <<>> /\ toPeer[x] = <<>> /\ cachedMsg[x] = <<>>
  BY DEF StreamInit
<1>2. \A x \in Peers : ~Alive(x) /\ x \notin status
  BY DEF StreamInit, Alive, Peers
<1>3. StreamTypes
  <2>1. ProcessTypes
    BY DEF StreamInit, ProcessTypes
  <2>2. QueueTypes
    <3>1. \A S : <<>> \in Seq(S)
      OBVIOUS
    <3>2. QED
      BY <1>1, <3>1 DEF StreamInit, QueueTypes
  <2>3. QED
    BY <2>1, <2>2 DEF StreamTypes
<1>4. TurnsRight
  BY <1>1, <1>2, NoTurns DEF TurnsRight, Bit
<1>5. HelloLast /\ ~Announced
  BY DEF StreamInit, HelloLast, Announced
<1>6. QED
  BY <1>3, <1>4, <1>5 DEF FormatInv

\* Unread messages are lost at the end of a queue of a peer that is up, and evmgr is
\* notified twice.
LEMMA TurnsWhenCut ==
    ASSUME NEW S, NEW q \in Seq(S), Toggle \in S, NEW u, Turns(q, u, 1), NEW kept \in Kept(q)
    PROVE  /\ Append(Append(kept, Toggle), Toggle) \in Seq(S)
           /\ Turns(Append(Append(kept, Toggle), Toggle), u, 1)
<1>1. PICK n \in 0..Len(q) : /\ \A i \in n + 1..Len(q) : q[i] # Toggle
                             /\ kept = SubSeq(q, 1, n)
  BY DEF Kept
<1>2. Len(q) \in Nat /\ n \in Nat /\ 1 \in Nat
  BY <1>1, LenProperties
<1>3. /\ kept \in Seq(S) /\ Len(kept) = n
      /\ \A i \in 1..n : kept[i] = q[i]
  <2>1. \A i \in 1..n : q[i] \in S
    BY <1>1, <1>2, ElementOfSeq
  <2>2. QED
    BY <2>1, <1>1, <1>2, SubSeqProperties
<1>4. Turns(kept, u, 1)
  <2>1. PICK f \in [1..Len(q) + 1 -> {0, 1}] :
          /\ f[1] = u /\ f[Len(q) + 1] = 1
          /\ \A i \in 1..Len(q) : /\ q[i] = Toggle => f[i + 1] = 1 - f[i]
                                  /\ q[i] # Toggle => f[i] = 1 /\ f[i + 1] = 1
    BY DEF Turns
  <2> DEFINE g == [i \in 1..n + 1 |-> f[i]]
  <2>2. g \in [1..n + 1 -> {0, 1}] /\ g[1] = u
    BY <2>1, <1>1, <1>2
  <2>3. f[n + 1] = 1
    <3>1. CASE n = Len(q)
      BY <3>1, <2>1
    <3>2. CASE n # Len(q)
      <4>1. n + 1 \in 1..Len(q) /\ n + 1 \in n + 1..Len(q)
        BY <3>2, <1>1, <1>2
      <4>2. QED
        BY <4>1, <1>1, <2>1
    <3>3. QED
      BY <3>1, <3>2
  <2>4. g[n + 1] = 1 /\ \A i \in 1..n : g[i] = f[i] /\ g[i + 1] = f[i + 1] /\ i \in 1..Len(q)
    BY <2>3, <1>1, <1>2
  <2> HIDE DEF g
  <2>5. \A i \in 1..n : /\ kept[i] = Toggle => g[i + 1] = 1 - g[i]
                        /\ kept[i] # Toggle => g[i] = 1 /\ g[i + 1] = 1
    BY <2>1, <2>4, <1>3
  <2>6. QED
    BY <2>2, <2>4, <2>5, <1>3 DEF Turns
<1>5. Append(kept, Toggle) \in Seq(S) /\ Turns(Append(kept, Toggle), u, 0)
  <2>1. 0 \in {0, 1} /\ 0 = 1 - 1
    OBVIOUS
  <2>2. QED
    BY <2>1, <1>3, <1>4, TurnsAtTheBack, AtTheBack
<1>6. QED
  <2>1. 1 \in {0, 1} /\ 1 = 1 - 0
    OBVIOUS
  <2>2. QED
    BY <2>1, <1>5, TurnsAtTheBack, AtTheBack

\* A crash of evmgr ends every connection: nothing more is claimed of those who were told.
LEMMA MgrCrashInv == FormatInv /\ MgrCrashes => FormatInv'
<1> SUFFICES ASSUME FormatInv, MgrCrashes PROVE FormatInv'
  OBVIOUS
<1>1. ProcessTypes'
  BY DEF FormatInv, MgrCrashes, StreamTypes, ProcessTypes, pullerVars, consumerVars
<1>2. QueueTypes'
  <2>1. \A x \in Peers : <<Toggle>> \in Seq(FromPeer(x))
    BY DEF FromPeer
  <2>2. \A S : <<>> \in Seq(S)
    OBVIOUS
  <2>3. QED
    BY <2>1, <2>2 DEF FormatInv, MgrCrashes, StreamTypes, QueueTypes
<1>3. UNCHANGED <<pstate, pgen, proc, fmt>> /\ gap' = gap \cup {x \in Peers : Told(x)}
  BY DEF MgrCrashes, pullerVars, consumerVars
<1>4. TurnsRight'
  <2> SUFFICES ASSUME NEW x \in Peers
               PROVE  Turns(toRouter'[x], Bit(x \in status'), Bit(Alive(x)'))
    BY DEF TurnsRight
  <2>1. /\ toRouter'[x] = IF Alive(x) THEN <<Toggle>> ELSE <<>>
        /\ Bit(x \in status') = 0
        /\ Alive(x)' = Alive(x)
    BY <1>3 DEF MgrCrashes, Bit, Alive
  <2>2. CASE Alive(x)
    <3> DEFINE f == [i \in 1..1 + 1 |-> IF i = 1 THEN 0 ELSE 1]
    <3>1. /\ f \in [1..1 + 1 -> {0, 1}] /\ f[1] = 0 /\ f[1 + 1] = 1
          /\ \A i \in 1..1 : i = 1 /\ f[i + 1] = 1 - f[i]
      OBVIOUS
    <3> HIDE DEF f
    <3>2. Len(<<Toggle>>) = 1 /\ <<Toggle>>[1] = Toggle
      OBVIOUS
    <3>3. Turns(<<Toggle>>, 0, 1)
      BY <3>1, <3>2 DEF Turns
    <3>4. QED
      BY <2>1, <2>2, <3>3 DEF Bit
  <2>3. CASE ~Alive(x)
    BY <2>1, <2>3, NoTurns DEF Bit
  <2>4. QED
    BY <2>2, <2>3
<1>5. \A x \in Peers : Told(x) => x \in gap'
  BY <1>3
<1>6. HelloLast' /\ ~Announced'
  BY <1>3, <1>5, Kinds DEF HelloLast, Announced, Told
<1>7. QED
  BY <1>1, <1>2, <1>4, <1>6 DEF FormatInv, StreamTypes

\* A lost connection ends what is claimed of its peer and changes nothing for the others.
LEMMA ReconnectInv ==
    ASSUME FormatInv, NEW x \in Peers, Reconnects(x)
    PROVE  FormatInv'
<1> DEFINE q == toRouter'[x]
<1>1. PICK kept \in Kept(toRouter[x]) :
        toRouter' = [toRouter EXCEPT ![x] = Append(Append(kept, Toggle), Toggle)]
  BY DEF Reconnects
<1>2. /\ UNCHANGED <<pstate, pgen, proc, fmt, status, cachedMsg, mgrCrashes>>
      /\ toPeer' = [toPeer EXCEPT ![x] = <<>>]
      /\ gap' = IF Told(x) THEN gap \cup {x} ELSE gap
      /\ Alive(x)
  BY DEF Reconnects, pullerVars, consumerVars, routerVars
<1>3. /\ StreamTypes /\ TurnsRight /\ HelloLast
      /\ toRouter[x] \in Seq(FromPeer(x)) /\ Toggle \in FromPeer(x)
      /\ Turns(toRouter[x], Bit(x \in status), 1)
  BY <1>2 DEF FormatInv, TurnsRight, Bit, StreamTypes, QueueTypes, FromPeer
<1>4. /\ q = Append(Append(kept, Toggle), Toggle)
      /\ toRouter' = [y \in Peers |-> toRouter'[y]]
      /\ \A y \in Peers : y # x => toRouter'[y] = toRouter[y]
  BY <1>1, <1>3 DEF StreamTypes, QueueTypes
<1>5. q \in Seq(FromPeer(x)) /\ Turns(q, Bit(x \in status), 1)
  BY <1>3, <1>4, TurnsWhenCut
<1>6. StreamTypes'
  <2>1. ProcessTypes'
    BY <1>2, <1>3 DEF StreamTypes, ProcessTypes
  <2>2. <<>> \in Seq(ToPeer(x))
    OBVIOUS
  <2>3. QueueTypes'
    BY <1>2, <1>3, <1>4, <1>5, <2>2 DEF StreamTypes, QueueTypes
  <2>4. QED
    BY <2>1, <2>3 DEF StreamTypes
<1>7. TurnsRight'
  <2> SUFFICES ASSUME NEW y \in Peers
               PROVE  Turns(toRouter'[y], Bit(y \in status'), Bit(Alive(y)'))
    BY DEF TurnsRight
  <2>1. Alive(y)' = Alive(y) /\ status' = status
    BY <1>2 DEF Alive
  <2>2. CASE y = x
    BY <2>1, <2>2, <1>2, <1>5 DEF Bit
  <2>3. CASE y # x
    BY <2>1, <2>3, <1>3, <1>4 DEF TurnsRight
  <2>4. QED
    BY <2>2, <2>3
<1>8. \A y \in Peers : y \notin gap' => y \notin gap /\ (y = x => ~Told(x))
  BY <1>2
<1>9. HelloLast'
  <2> SUFFICES ASSUME NEW d \in Consumers, d \notin gap',
                      proc'[d] \in {"waiting", "streaming"}, toRouter'[d] # <<>>
               PROVE  toRouter'[d][Len(toRouter'[d])] = HelloFrom(d)
    BY DEF HelloLast
  <2>1. d # x /\ d \notin gap /\ d \in Peers
    BY <1>2, <1>8, Kinds DEF Told
  <2>2. QED
    BY <2>1, <1>2, <1>3, <1>4 DEF HelloLast
<1>10. ASSUME Announced' PROVE AnnounceLast' /\ AllInformed'
  <2>1. x # Puller /\ Announced
    BY <1>2, <1>8, <1>10, Kinds DEF Announced, Told
  <2>2. /\ toRouter'[Puller] = toRouter[Puller] /\ toPeer'[Puller] = toPeer[Puller]
        /\ AnnounceLast /\ AllInformed
    BY <2>1, <1>2, <1>3, <1>4, Kinds DEF FormatInv, StreamTypes, QueueTypes
  <2>3. AnnounceLast'
    BY <2>2, <1>2 DEF AnnounceLast
  <2>4. ASSUME NEW d \in Consumers, d \notin gap', proc'[d] \in {"waiting", "streaming"}
        PROVE  Informed(d)'
    <3>1. d # x /\ d \notin gap /\ d \in Peers
      BY <2>4, <1>2, <1>8, Kinds DEF Told
    <3>2. toRouter'[d] = toRouter[d] /\ toPeer'[d] = toPeer[d]
      BY <3>1, <1>2, <1>3, <1>4 DEF StreamTypes, QueueTypes
    <3>3. QED
      BY <2>2, <2>4, <3>1, <3>2, <1>2 DEF AllInformed, Informed
  <2>5. QED
    BY <2>3, <2>4 DEF AllInformed
<1>11. QED
  BY <1>6, <1>7, <1>9, <1>10 DEF FormatInv

\* Every step of the handshake, and every step of the clock, keeps the invariant.
LEMMA NextFormatInv == FormatInv /\ [Next]_vars => FormatInv'
<1>1. ASSUME FormatInv, Ordinary PROVE FormatInv'
  <2>1. StreamTypes'
    BY <1>1, ConsumerEffect, PullerEffect, ReadEffect DEF FormatInv, Ordinary
  <2>2. TurnsRight' /\ HelloLast'
    BY <1>1, TurnsStay, HelloLastStays DEF FormatInv
  <2>3. Announced' => AnnounceLast' /\ AllInformed'
    BY <1>1, AnnounceLastStays, AllInformedStays DEF FormatInv
  <2>4. QED
    BY <2>1, <2>2, <2>3 DEF FormatInv
<1>2. ASSUME FormatInv, UNCHANGED streamVars PROVE FormatInv'
  BY <1>2 DEF FormatInv, streamVars, StreamTypes, ProcessTypes, QueueTypes, TurnsRight,
              HelloLast, Announced, AnnounceLast, AllInformed, Informed, Alive
<1>3. FormatInv /\ StreamNext => FormatInv'
  BY <1>1, MgrCrashInv, ReconnectInv DEF StreamNext, Ordinary
<1>4. QED
  BY <1>2, <1>3 DEF Next, vars

\* Whenever nothing is under way, every consumer that streams uses the format of the
\* evpuller that runs, however many consumers, crashes, late answers and dropped questions
\* there were, and whatever they were told before: unless its connection was lost since it
\* asked, or evpuller's since it announced itself.
THEOREM FormatIsRight == Spec => []FormatAgrees
<1>1. FormatInv => FormatAgrees
  <2> SUFFICES ASSUME FormatInv, Settled, Puller \notin gap,
                      NEW c \in Consumers \ gap, proc[c] = "streaming"
               PROVE  fmt[c] = pgen
    BY DEF FormatAgrees
  <2>1. Informed(c)
    BY DEF FormatInv, Settled, Announced, AllInformed
  <2>2. \A x \in Peers : toRouter[x] = <<>> /\ Elements(toPeer[x]) = {}
                         /\ Elements(toRouter[x]) = {}
    BY DEF Settled, Elements
  <2>3. QED
    BY <2>1, <2>2, Kinds DEF Informed
<1>2. QED
  BY <1>1, InitFormatInv, NextFormatInv, PTL DEF Spec
================================================================================
