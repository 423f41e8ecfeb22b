--------------------------- MODULE CloudStatusProofs ---------------------------
(***************************************************************************)
(* What the cloud believes of the devices and of the camera, for all       *)
(* devices, modules, configurations and bounds.                            *)
(***************************************************************************)
EXTENDS CloudStatus, SequenceTheorems, TLAPS

\* The modules that run on a device, and the messages it may send.
Hosted(d) == {m \in Modules : Host[m] = d}

FrameOf(d) == NoteFrame \cup {f \in ReportFrame : Host[f.mod] = d}
                        \cup {f \in PingFrame : f.mods \subseteq Hosted(d)}

--------------------------------------------------------------------------------
(* The notifications of a device *)

\* Connects and disconnects alternate, and nothing comes between a disconnect and the
\* connect that follows it.
Follows(q) ==
    /\ \A i \in 1..Len(q) - 1 : q[i].kind = "disconnect" => q[i + 1].kind = "connect"
    /\ \A i \in 2..Len(q) : q[i].kind = "connect" => q[i - 1].kind = "disconnect"

\* What is unread ends as the connection is and begins as the table says.
Ends(q, down) == q # <<>> => (q[Len(q)].kind = "disconnect" <=> down = 1)
Begins(q, off) == q # <<>> => (q[1].kind = "connect" <=> off = 1)

\* The connection and the table, as numbers.
Down(d) == IF d \in connected THEN 0 ELSE 1
Off(d) == IF d \in online THEN 0 ELSE 1

\* A report arrives on a connection that is up.
LEMMA ReportArrives ==
    ASSUME NEW F \in SUBSET Frame, NoteFrame \subseteq F,
           NEW q \in Seq(F), NEW f \in F \ NoteFrame, Follows(q), Ends(q, 0)
    PROVE  /\ Append(q, f) \in Seq(F)
           /\ Append(q, f) # <<>>
           /\ Follows(Append(q, f))
           /\ Ends(Append(q, f), 0)
           /\ \A off \in {0, 1} : Begins(q, off) /\ (q = <<>> => off = 0) => Begins(Append(q, f), off)
<1> DEFINE r == Append(q, f)
<1>1. /\ f \in F /\ f.kind # "connect" /\ f.kind # "disconnect"
  BY DEF Frame, NoteFrame, ReportFrame, PingFrame
<1>2. /\ r \in Seq(F) /\ Len(q) \in Nat /\ Len(r) = Len(q) + 1
      /\ \A i \in 1..Len(q) : r[i] = q[i]
      /\ r[Len(q) + 1] = f
      /\ r # <<>>
  BY <1>1, AppendProperties, LenProperties
<1>3. q # <<>> => Len(q) \in 1..Len(q) /\ q[Len(q)].kind # "disconnect"
  BY <1>2, EmptySeq DEF Ends
<1> HIDE DEF r
<1>4. ASSUME NEW i \in 1..Len(r) - 1, r[i].kind = "disconnect" PROVE r[i + 1].kind = "connect"
  <2>1. i \in 1..Len(q) /\ r[i] = q[i]
    BY <1>2
  <2>2. i # Len(q)
    BY <1>3, <1>4, <2>1, EmptySeq
  <2>3. i \in 1..Len(q) - 1 /\ i + 1 \in 1..Len(q)
    BY <1>2, <2>1, <2>2
  <2>4. QED
    BY <1>2, <1>4, <2>1, <2>3 DEF Follows
<1>5. ASSUME NEW i \in 2..Len(r), r[i].kind = "connect" PROVE r[i - 1].kind = "disconnect"
  <2>1. i # Len(q) + 1
    BY <1>1, <1>2, <1>5
  <2>2. i \in 2..Len(q) /\ i \in 1..Len(q) /\ i - 1 \in 1..Len(q)
    BY <1>2, <2>1
  <2>3. QED
    BY <1>2, <1>5, <2>2 DEF Follows
<1>6. Follows(r)
  BY <1>4, <1>5 DEF Follows
<1>7. Ends(r, 0)
  BY <1>1, <1>2 DEF Ends
<1>8. ASSUME NEW off \in {0, 1}, Begins(q, off), q = <<>> => off = 0 PROVE Begins(r, off)
  <2>1. CASE q = <<>>
    <3>1. Len(q) = 0 /\ r[1] = f
      BY <1>2, <2>1, EmptySeq
    <3>2. QED
      BY <1>1, <1>8, <2>1, <3>1 DEF Begins
  <2>2. CASE q # <<>>
    <3>1. 1 \in 1..Len(q)
      BY <1>2, <1>3, <2>2
    <3>2. QED
      BY <1>2, <1>8, <2>2, <3>1 DEF Begins
  <2>3. QED
    BY <2>1, <2>2
<1>9. QED
  BY <1>2, <1>6, <1>7, <1>8 DEF r

\* A device connects, with the reports its socket has kept.
LEMMA ConnectArrives ==
    ASSUME NEW F \in SUBSET Frame, NoteFrame \subseteq F,
           NEW q \in Seq(F), NEW p \in Seq(F \ NoteFrame), Follows(q), Ends(q, 1)
    PROVE  /\ Append(q, Note("connect")) \o p \in Seq(F)
           /\ Append(q, Note("connect")) \o p # <<>>
           /\ Follows(Append(q, Note("connect")) \o p)
           /\ Ends(Append(q, Note("connect")) \o p, 0)
           /\ \A off \in {0, 1} : Begins(q, off) /\ (q = <<>> => off = 1)
                                     => Begins(Append(q, Note("connect")) \o p, off)
<1> DEFINE a == Append(q, Note("connect"))
           r == a \o p
<1>1. /\ Note("connect") \in F /\ Note("connect").kind = "connect"
      /\ F \ NoteFrame \subseteq F
      /\ \A f \in F \ NoteFrame : f.kind # "connect" /\ f.kind # "disconnect"
  BY DEF Frame, NoteFrame, ReportFrame, PingFrame, Note
<1>2. /\ a \in Seq(F) /\ Len(q) \in Nat /\ Len(a) = Len(q) + 1
      /\ \A i \in 1..Len(q) : a[i] = q[i]
      /\ a[Len(q) + 1] = Note("connect")
  BY <1>1, AppendProperties, LenProperties
<1>3. /\ p \in Seq(F) /\ Len(p) \in Nat
      /\ \A i \in 1..Len(p) : p[i] \in F \ NoteFrame
  <2>1. Len(p) \in Nat /\ \A i \in 1..Len(p) : p[i] \in F \ NoteFrame
    BY LenProperties, ElementOfSeq
  <2>2. QED
    BY <1>1, <2>1
<1> HIDE DEF a
<1>4. /\ r \in Seq(F) /\ Len(r) = Len(a) + Len(p)
      /\ \A i \in 1..Len(a) + Len(p) : r[i] = IF i <= Len(a) THEN a[i] ELSE p[i - Len(a)]
  BY <1>2, <1>3, ConcatProperties
<1> HIDE DEF r
<1>5. /\ Len(r) = Len(q) + 1 + Len(p)
      /\ \A i \in 1..Len(q) : r[i] = q[i]
      /\ r[Len(q) + 1].kind = "connect"
      /\ \A i \in Len(q) + 2..Len(r) : r[i].kind # "connect" /\ r[i].kind # "disconnect"
  <2>1. Len(r) = Len(q) + 1 + Len(p)
    BY <1>2, <1>3, <1>4
  <2>2. ASSUME NEW i \in 1..Len(q) PROVE r[i] = q[i]
    <3>1. i \in 1..Len(a) + Len(p) /\ i <= Len(a)
      BY <1>2, <1>3
    <3>2. QED
      BY <1>2, <1>4, <3>1
  <2>3. r[Len(q) + 1].kind = "connect"
    <3>1. Len(q) + 1 \in 1..Len(a) + Len(p) /\ Len(q) + 1 <= Len(a)
      BY <1>2, <1>3
    <3>2. QED
      BY <1>1, <1>2, <1>4, <3>1
  <2>4. ASSUME NEW i \in Len(q) + 2..Len(r)
        PROVE  r[i].kind # "connect" /\ r[i].kind # "disconnect"
    <3>1. i \in 1..Len(a) + Len(p) /\ ~(i <= Len(a)) /\ i - Len(a) \in 1..Len(p)
      BY <1>2, <1>3, <2>1
    <3>2. r[i] \in F \ NoteFrame
      BY <1>3, <1>4, <3>1
    <3>3. QED
      BY <1>1, <3>2
  <2>5. QED
    BY <2>1, <2>2, <2>3, <2>4
<1>6. q # <<>> => Len(q) \in 1..Len(q) /\ q[Len(q)].kind = "disconnect"
  BY <1>2, EmptySeq DEF Ends
<1>7. ASSUME NEW i \in 1..Len(r) - 1, r[i].kind = "disconnect" PROVE r[i + 1].kind = "connect"
  <2>1. i \in 1..Len(q)
    <3>1. i # Len(q) + 1
      BY <1>5, <1>7
    <3>2. ~(i \in Len(q) + 2..Len(r))
      BY <1>5, <1>7
    <3>3. Len(r) \in Int /\ i \in Int /\ i >= 1 /\ i <= Len(r)
      BY <1>2, <1>3, <1>5
    <3>4. QED
      BY <1>2, <3>1, <3>2, <3>3
  <2>2. CASE i = Len(q)
    BY <1>5, <2>2
  <2>3. CASE i # Len(q)
    <3>1. i \in 1..Len(q) - 1 /\ i + 1 \in 1..Len(q)
      BY <1>2, <2>1, <2>3
    <3>2. QED
      BY <1>5, <1>7, <2>1, <3>1 DEF Follows
  <2>4. QED
    BY <2>2, <2>3
<1>8. ASSUME NEW i \in 2..Len(r), r[i].kind = "connect" PROVE r[i - 1].kind = "disconnect"
  <2>1. i \in 2..Len(q) + 1
    <3>1. ~(i \in Len(q) + 2..Len(r))
      BY <1>5, <1>8
    <3>2. Len(r) \in Int /\ i \in Int /\ i >= 2 /\ i <= Len(r)
      BY <1>2, <1>3, <1>5
    <3>3. QED
      BY <1>2, <3>1, <3>2
  <2>2. CASE i = Len(q) + 1
    <3>1. Len(q) \in 1..Len(q) /\ i - 1 = Len(q)
      BY <1>2, <2>1, <2>2
    <3>2. q # <<>>
      BY <3>1, EmptySeq
    <3>3. QED
      BY <1>5, <1>6, <3>1, <3>2
  <2>3. CASE i # Len(q) + 1
    <3>1. i \in 2..Len(q) /\ i \in 1..Len(q) /\ i - 1 \in 1..Len(q)
      BY <1>2, <2>1, <2>3
    <3>2. QED
      BY <1>5, <1>8, <3>1 DEF Follows
  <2>4. QED
    BY <2>2, <2>3
<1>9. Follows(r)
  BY <1>7, <1>8 DEF Follows
<1>10. Ends(r, 0)
  <2>1. r[Len(r)].kind # "disconnect"
    <3>1. CASE Len(p) = 0
      <4>1. Len(r) = Len(q) + 1
        BY <1>2, <1>5, <3>1
      <4>2. QED
        BY <1>5, <4>1
    <3>2. CASE Len(p) # 0
      <4>1. Len(r) \in Len(q) + 2..Len(r)
        BY <1>2, <1>3, <1>5, <3>2
      <4>2. QED
        BY <1>5, <4>1
    <3>3. QED
      BY <3>1, <3>2
  <2>2. QED
    BY <2>1 DEF Ends
<1>11. ASSUME NEW off \in {0, 1}, Begins(q, off), q = <<>> => off = 1 PROVE Begins(r, off)
  <2>1. CASE q = <<>>
    <3>1. Len(q) + 1 = 1
      BY <2>1, EmptySeq
    <3>2. r[1].kind = "connect"
      BY <1>5, <3>1
    <3>3. QED
      BY <1>11, <2>1, <3>2 DEF Begins
  <2>2. CASE q # <<>>
    <3>1. 1 \in 1..Len(q)
      BY <1>2, <1>6, <2>2
    <3>2. QED
      BY <1>5, <1>11, <2>2, <3>1 DEF Begins
  <2>3. QED
    BY <2>1, <2>2
<1>12. r # <<>>
  BY <1>2, <1>3, <1>4, <1>5, EmptySeq
<1>13. QED
  BY <1>4, <1>9, <1>10, <1>11, <1>12 DEF r, a

\* A connection that was up is lost, with messages that are no notifications.
LEMMA LossArrives ==
    ASSUME NEW F \in SUBSET Frame, NoteFrame \subseteq F,
           NEW q \in Seq(F), Follows(q), Ends(q, 0), NEW n \in 0..Len(q),
           \A i \in n+1..Len(q) : ~IsNote(q[i])
    PROVE  /\ Append(SubSeq(q, 1, n), Note("disconnect")) \in Seq(F)
           /\ Append(SubSeq(q, 1, n), Note("disconnect")) # <<>>
           /\ Follows(Append(SubSeq(q, 1, n), Note("disconnect")))
           /\ Ends(Append(SubSeq(q, 1, n), Note("disconnect")), 1)
           /\ \A off \in {0, 1} : Begins(q, off) /\ (q = <<>> => off = 0)
                                     => Begins(Append(SubSeq(q, 1, n), Note("disconnect")), off)
<1> DEFINE s == SubSeq(q, 1, n)
           r == Append(s, Note("disconnect"))
<1>1. /\ Note("disconnect") \in F /\ Note("disconnect").kind = "disconnect"
      /\ Len(q) \in Nat /\ n \in Nat /\ n <= Len(q)
      /\ \A i \in 1..Len(q) : q[i] \in F
  BY LenProperties, ElementOfSeq DEF Frame, NoteFrame, Note
<1>2. /\ s \in Seq(F) /\ Len(s) = n
      /\ \A i \in 1..n : s[i] = q[i]
  BY <1>1, SubSeqProperties
<1> HIDE DEF s
<1>3. /\ r \in Seq(F) /\ Len(r) = n + 1
      /\ \A i \in 1..n : r[i] = q[i]
      /\ r[n + 1].kind = "disconnect"
      /\ r # <<>>
  BY <1>1, <1>2, AppendProperties
<1> HIDE DEF r
<1>4. ASSUME NEW i \in 1..n PROVE i < Len(q) => ~(q[i].kind = "disconnect" /\ i = n)
  BY <1>1 DEF Follows, IsNote
<1>5. n # 0 => q[n].kind # "disconnect"
  <2> SUFFICES ASSUME n # 0 PROVE q[n].kind # "disconnect"
    OBVIOUS
  <2>1. CASE n = Len(q)
    BY <1>1, <2>1, EmptySeq DEF Ends
  <2>2. CASE n # Len(q)
    BY <1>1, <1>4, <2>2
  <2>3. QED
    BY <2>1, <2>2
<1>6. ASSUME NEW i \in 1..Len(r) - 1, r[i].kind = "disconnect" PROVE r[i + 1].kind = "connect"
  <2>1. i \in 1..n /\ i # n
    BY <1>1, <1>3, <1>5, <1>6
  <2>2. i \in 1..Len(q) - 1 /\ i + 1 \in 1..n
    BY <1>1, <2>1
  <2>3. QED
    BY <1>3, <1>6, <2>1, <2>2 DEF Follows
<1>7. ASSUME NEW i \in 2..Len(r), r[i].kind = "connect" PROVE r[i - 1].kind = "disconnect"
  <2>1. i # n + 1
    BY <1>3, <1>7
  <2>2. i \in 1..n /\ i - 1 \in 1..n /\ i \in 2..Len(q)
    BY <1>1, <1>3, <2>1
  <2>3. QED
    BY <1>3, <1>7, <2>2 DEF Follows
<1>8. Follows(r)
  BY <1>6, <1>7 DEF Follows
<1>9. Ends(r, 1)
  BY <1>3 DEF Ends
<1>10. ASSUME NEW off \in {0, 1}, Begins(q, off), q = <<>> => off = 0 PROVE Begins(r, off)
  <2>1. CASE n = 0
    <3>1. r[1].kind = "disconnect"
      BY <1>3, <2>1
    <3>2. off = 0
      <4>1. CASE q = <<>>
        BY <1>10, <4>1
      <4>2. CASE q # <<>>
        <5>1. 1 \in n+1..Len(q)
          BY <1>1, <2>1, <4>2, EmptySeq
        <5>2. QED
          BY <1>10, <4>2, <5>1 DEF Begins, IsNote
      <4>3. QED
        BY <4>1, <4>2
    <3>3. QED
      BY <3>1, <3>2 DEF Begins
  <2>2. CASE n # 0
    <3>1. 1 \in 1..n /\ q # <<>>
      BY <1>1, <2>2, EmptySeq
    <3>2. QED
      BY <1>3, <1>10, <3>1 DEF Begins
  <2>3. QED
    BY <2>1, <2>2
<1>11. QED
  BY <1>3, <1>8, <1>9, <1>10 DEF r, s

\* The cloud reads the first message; what is left begins with a connect only after a
\* disconnect.
LEMMA FirstIsRead ==
    ASSUME NEW F \in SUBSET Frame, NoteFrame \subseteq F,
           NEW q \in Seq(F), q # <<>>, Follows(q), NEW down \in {0, 1}, Ends(q, down)
    PROVE  /\ Tail(q) \in Seq(F)
           /\ Follows(Tail(q))
           /\ Ends(Tail(q), down)
           /\ Head(q) = q[1] /\ Head(q) \in F
           /\ Head(q).kind = "disconnect" => Begins(Tail(q), 1)
           /\ Head(q).kind # "disconnect" => Begins(Tail(q), 0)
           /\ Tail(q) = <<>> => (Head(q).kind = "disconnect" <=> down = 1)
           /\ \A i \in 1..Len(Tail(q)) : Tail(q)[i] = q[i + 1] /\ i + 1 \in 1..Len(q)
<1> DEFINE t == Tail(q)
<1>1. /\ Len(q) \in Nat /\ Len(q) >= 1 /\ 1 \in 1..Len(q)
      /\ \A i \in 1..Len(q) : q[i] \in F
  BY LenProperties, ElementOfSeq, EmptySeq
<1>2. /\ t \in Seq(F) /\ Len(t) = Len(q) - 1
      /\ \A i \in 1..Len(q) - 1 : t[i] = q[i + 1]
      /\ Head(q) = q[1]
  BY <1>1, HeadTailProperties
<1> HIDE DEF t
<1>3. ASSUME NEW i \in 1..Len(t) - 1, t[i].kind = "disconnect" PROVE t[i + 1].kind = "connect"
  <2>1. i \in 1..Len(q) - 1 /\ i + 1 \in 1..Len(q) - 1
    BY <1>1, <1>2
  <2>2. t[i] = q[i + 1] /\ t[i + 1] = q[i + 1 + 1]
    BY <1>2, <2>1
  <2>3. QED
    BY <1>3, <2>1, <2>2 DEF Follows
<1>4. ASSUME NEW i \in 2..Len(t), t[i].kind = "connect" PROVE t[i - 1].kind = "disconnect"
  <2>1. i \in 1..Len(q) - 1 /\ i - 1 \in 1..Len(q) - 1 /\ i + 1 \in 2..Len(q)
        /\ (i - 1) + 1 = i /\ (i + 1) - 1 = i
    BY <1>1, <1>2
  <2>2. t[i] = q[i + 1] /\ t[i - 1] = q[i]
    BY <1>2, <2>1
  <2>3. QED
    BY <1>4, <2>1, <2>2 DEF Follows
<1>5. Follows(t)
  BY <1>3, <1>4 DEF Follows
<1>6. Ends(t, down) /\ (t = <<>> => (Head(q).kind = "disconnect" <=> down = 1))
  <2>1. CASE t = <<>>
    <3>1. Len(q) = 1
      BY <1>1, <1>2, <2>1, EmptySeq
    <3>2. QED
      BY <1>2, <2>1, <3>1 DEF Ends
  <2>2. CASE t # <<>>
    <3>1. Len(t) \in 1..Len(q) - 1 /\ Len(t) + 1 = Len(q)
      BY <1>1, <1>2, <2>2, EmptySeq
    <3>2. QED
      BY <1>2, <2>2, <3>1 DEF Ends
  <2>3. QED
    BY <2>1, <2>2
<1>7. /\ Head(q).kind = "disconnect" => Begins(t, 1)
      /\ Head(q).kind # "disconnect" => Begins(t, 0)
  <2>1. CASE t = <<>>
    BY <2>1 DEF Begins
  <2>2. CASE t # <<>>
    <3>1. 1 \in 1..Len(q) - 1 /\ 2 \in 2..Len(q) /\ 1 + 1 = 2 /\ 2 - 1 = 1
      BY <1>1, <1>2, <2>2, EmptySeq
    <3>2. t[1] = q[2]
      BY <1>2, <3>1
    <3>3. q[2].kind = "connect" <=> q[1].kind = "disconnect"
      BY <3>1 DEF Follows
    <3>4. QED
      BY <1>2, <3>2, <3>3 DEF Begins
  <2>3. QED
    BY <2>1, <2>2
<1>8. QED
  BY <1>1, <1>2, <1>5, <1>6, <1>7 DEF t

--------------------------------------------------------------------------------
(* The invariant *)

\* What is on its way from a device is its own, and the notifications in it fit the
\* connection and, unless a copy put back has spoilt it, the table.
Channel(d) ==
    /\ inbox[d] \in Seq(FrameOf(d))
    /\ pending[d] \in Seq(FrameOf(d) \ NoteFrame)
    /\ Follows(inbox[d])
    /\ Ends(inbox[d], Down(d))
    /\ ~undone => Begins(inbox[d], Off(d)) /\ (inbox[d] = <<>> => Off(d) = Down(d))

BeatOwn(d) == \A ms \in SUBSET Modules : beat[d] = <<ms>> => ms \subseteq Hosted(d)

\* The camera has a status; module m is in the status, or was kept out of it by an
\* exception.
Has(t) == \E m \in Modules : t.expected[m] # "none"
Fits(t, m) == t.expected[m] \in {"on", "off"} \/ m \in t.stray

\* What the tables, or a copy of them, say of the camera.
Sound(t) ==
    /\ t.online \subseteq Devices /\ t.listed \subseteq Modules /\ t.current \subseteq t.listed
    /\ t.expected \in [Modules -> Wanted \cup {"null"}]
    /\ t.slot \in [Modules -> {"none", "null", "bool"}] /\ t.stray \subseteq Modules
    /\ t.issues \subseteq (Modules \X Categories) \cup {MgrOffline}
    /\ \A m \in t.listed : Fits(t, m)
    /\ \A x \in t.issues : x[1] \in Modules => Fits(t, x[1])
    /\ \A m \in Modules : t.expected[m] \in {"on", "off"} => t.slot[m] # "none"
    /\ Mgr \notin t.online => \A m \in t.current : Host[m] # Mgr
    /\ MgrOffline \in t.issues \/ t.current # {} => Has(t)

\* The copy that config() may put back.
CopySound ==
    job # "idle" =>
        /\ Sound(copy)
        /\ copy.mgrTerminal \in BOOLEAN
        /\ ~undone => (MgrOffline \in copy.issues => Mgr \notin copy.online)

CloudInv ==
    /\ TypeOK
    /\ \A d \in Devices : Channel(d) /\ BeatOwn(d)
    /\ Sound(Tables)
    /\ MgrIssueAgrees
    /\ CopySound

\* A message of a device is a message.
LEMMA OwnFrames ==
    ASSUME NEW d
    PROVE  /\ FrameOf(d) \in SUBSET Frame /\ NoteFrame \subseteq FrameOf(d)
           /\ FrameOf(d) \ NoteFrame \subseteq Frame \ NoteFrame
BY DEF FrameOf, Frame

\* The messages that a lost connection may leave in the socket.
LEMMA KeptAreReports ==
    ASSUME NEW d \in Devices, inbox[d] \in Seq(FrameOf(d)), NEW j \in Cuts(d)
    PROVE  After(d, j) \in Seq(FrameOf(d) \ NoteFrame)
<1> DEFINE q == inbox[d]
<1>1. /\ Len(q) \in Nat /\ j \in 0..Len(q)
      /\ \A i \in 1..Len(q) : q[i] \in FrameOf(d)
      /\ \A i \in j+1..Len(q) : ~IsNote(q[i])
  BY LenProperties, ElementOfSeq DEF Cuts
<1>2. ASSUME NEW i \in j+1..Len(q) PROVE q[i] \in FrameOf(d) \ NoteFrame
  <2>1. i \in 1..Len(q)
    BY <1>1
  <2>2. q[i] \in FrameOf(d) /\ ~IsNote(q[i])
    BY <1>1, <2>1
  <2>3. QED
    BY <2>2 DEF IsNote, NoteFrame
<1>3. QED
  BY <1>1, <1>2, SubSeqProperties DEF After

--------------------------------------------------------------------------------
(* The steps of the devices and their connections *)

\* What a device sends keeps its channel.
LEMMA SendKeeps ==
    ASSUME CloudInv, NEW d \in Devices, NEW f \in FrameOf(d) \ NoteFrame, SendToCloud(d, f),
           UNCHANGED <<connected, online, undone>>
    PROVE  /\ \A e \in Devices : Channel(e)'
           /\ inbox' \in [Devices -> Seq(Frame)]
           /\ pending' \in [Devices -> Seq(Frame \ NoteFrame)]
<1>1. /\ inbox \in [Devices -> Seq(Frame)] /\ pending \in [Devices -> Seq(Frame \ NoteFrame)]
      /\ \A e \in Devices : Channel(e)
  BY DEF CloudInv, TypeOK
<1>2. \A e \in Devices : Down(e)' = Down(e) /\ Off(e)' = Off(e)
  BY DEF Down, Off
<1>3. Off(d) \in {0, 1}
  BY DEF Off
<1>4. f \in Frame \ NoteFrame
  BY OwnFrames
<1>5. CASE d \in connected
  <2>1. inbox' = [inbox EXCEPT ![d] = Append(@, f)] /\ UNCHANGED pending /\ Down(d) = 0
    BY <1>5 DEF SendToCloud, Down
  <2>2. /\ Append(inbox[d], f) \in Seq(FrameOf(d))
        /\ Append(inbox[d], f) # <<>>
        /\ Follows(Append(inbox[d], f))
        /\ Ends(Append(inbox[d], f), 0)
        /\ \A off \in {0, 1} : Begins(inbox[d], off) /\ (inbox[d] = <<>> => off = 0)
                                 => Begins(Append(inbox[d], f), off)
    BY <1>1, <2>1, OwnFrames, ReportArrives DEF Channel
  <2>3. Channel(d)'
    BY <1>1, <1>2, <1>3, <2>1, <2>2 DEF Channel
  <2>4. ASSUME NEW e \in Devices, e # d PROVE Channel(e)'
    BY <1>1, <1>2, <2>1, <2>4 DEF Channel
  <2>5. Append(inbox[d], f) \in Seq(Frame)
    BY <1>1, <1>4, AppendProperties
  <2>6. QED
    BY <1>1, <2>1, <2>3, <2>4, <2>5
<1>6. CASE d \notin connected
  <2>1. pending' = [pending EXCEPT ![d] = Append(@, f)] /\ UNCHANGED inbox
    BY <1>6 DEF SendToCloud
  <2>2. Append(pending[d], f) \in Seq(FrameOf(d) \ NoteFrame)
    BY <1>1, AppendProperties DEF Channel
  <2>3. Channel(d)'
    BY <1>1, <1>2, <2>1, <2>2 DEF Channel
  <2>4. ASSUME NEW e \in Devices, e # d PROVE Channel(e)'
    BY <1>1, <1>2, <2>1, <2>4 DEF Channel
  <2>5. Append(pending[d], f) \in Seq(Frame \ NoteFrame)
    BY <1>1, <1>4, AppendProperties
  <2>6. QED
    BY <1>1, <2>1, <2>3, <2>4, <2>5
<1>7. QED
  BY <1>5, <1>6

\* Losing the connection, or what is kept for it, keeps the channel.
LEMMA CutKeeps ==
    ASSUME CloudInv, NEW d \in Devices, UNCHANGED <<online, undone>>,
           \/ /\ d \in connected
              /\ \E i \in Cuts(d) :
                    \/ Cut(d, i, <<>>)
                    \/ \E j \in Cuts(d) : Cut(d, i, After(d, j))
           \/ /\ pending' = [pending EXCEPT ![d] = <<>>]
              /\ UNCHANGED <<connected, inbox>>
    PROVE  /\ \A e \in Devices : Channel(e)'
           /\ connected' \subseteq Devices
           /\ inbox' \in [Devices -> Seq(Frame)]
           /\ pending' \in [Devices -> Seq(Frame \ NoteFrame)]
<1>1. /\ inbox \in [Devices -> Seq(Frame)] /\ pending \in [Devices -> Seq(Frame \ NoteFrame)]
      /\ connected \subseteq Devices
      /\ \A e \in Devices : Channel(e)
  BY DEF CloudInv, TypeOK
<1>2. \A e \in Devices : Off(e)' = Off(e) /\ Off(e) \in {0, 1}
  BY DEF Off
<1>3. <<>> \in Seq(FrameOf(d) \ NoteFrame)
  BY EmptySeq
<1>4. ASSUME d \in connected, NEW i \in Cuts(d), NEW keep \in Seq(FrameOf(d) \ NoteFrame),
             Cut(d, i, keep)
      PROVE  /\ \A e \in Devices : Channel(e)'
             /\ connected' \subseteq Devices
             /\ inbox' \in [Devices -> Seq(Frame)]
             /\ pending' \in [Devices -> Seq(Frame \ NoteFrame)]
  <2> DEFINE r == Append(SubSeq(inbox[d], 1, i), Note("disconnect"))
  <2>1. /\ inbox' = [inbox EXCEPT ![d] = r]
        /\ pending' = [pending EXCEPT ![d] = keep]
        /\ connected' = connected \ {d}
    BY <1>4 DEF Cut
  <2>2. Down(d) = 0 /\ Down(d)' = 1 /\ \A e \in Devices \ {d} : Down(e)' = Down(e)
    BY <1>4, <2>1 DEF Down
  <2>3. i \in 0..Len(inbox[d]) /\ \A n \in i+1..Len(inbox[d]) : ~IsNote(inbox[d][n])
    BY <1>4 DEF Cuts
  <2>4. /\ r \in Seq(FrameOf(d)) /\ r # <<>> /\ Follows(r) /\ Ends(r, 1)
        /\ \A off \in {0, 1} : Begins(inbox[d], off) /\ (inbox[d] = <<>> => off = 0)
                                 => Begins(r, off)
    <3>1. inbox[d] \in Seq(FrameOf(d)) /\ Follows(inbox[d]) /\ Ends(inbox[d], 0)
      BY <1>1, <2>2 DEF Channel
    <3>2. FrameOf(d) \in SUBSET Frame /\ NoteFrame \subseteq FrameOf(d)
      BY OwnFrames
    <3>3. QED
      BY <2>3, <3>1, <3>2, LossArrives
  <2>5. r \in Seq(Frame) /\ keep \in Seq(Frame \ NoteFrame)
    BY <1>4, <2>4, OwnFrames, SeqMonotonic
  <2> HIDE DEF r
  <2>6. Channel(d)'
    BY <1>1, <1>2, <1>4, <2>1, <2>2, <2>4 DEF Channel
  <2>7. ASSUME NEW e \in Devices, e # d PROVE Channel(e)'
    BY <1>1, <1>2, <2>1, <2>2, <2>7 DEF Channel
  <2>8. QED
    BY <1>1, <2>1, <2>5, <2>6, <2>7
<1>5. CASE pending' = [pending EXCEPT ![d] = <<>>] /\ UNCHANGED <<connected, inbox>>
  <2>1. \A e \in Devices : Down(e)' = Down(e)
    BY <1>5 DEF Down
  <2>2. ASSUME NEW e \in Devices PROVE Channel(e)'
    BY <1>1, <1>2, <1>3, <1>5, <2>1 DEF Channel
  <2>3. <<>> \in Seq(Frame \ NoteFrame)
    BY EmptySeq
  <2>4. QED
    BY <1>1, <1>5, <2>2, <2>3
<1>6. \A j \in Cuts(d) : After(d, j) \in Seq(FrameOf(d) \ NoteFrame)
  BY <1>1, KeptAreReports DEF Channel
<1>7. CASE d \in connected /\ \E i \in Cuts(d) :
              \/ Cut(d, i, <<>>)
              \/ \E j \in Cuts(d) : Cut(d, i, After(d, j))
  <2>1. PICK i \in Cuts(d), keep \in Seq(FrameOf(d) \ NoteFrame) : Cut(d, i, keep)
    BY <1>3, <1>6, <1>7
  <2>2. QED
    BY <1>4, <1>7, <2>1
<1>8. QED
  BY <1>5, <1>7

\* A connection that is made keeps the channels.
LEMMA ConnectKeeps ==
    ASSUME CloudInv, NEW d \in Devices, Connect(d)
    PROVE  /\ \A e \in Devices : Channel(e)'
           /\ connected' \subseteq Devices
           /\ inbox' \in [Devices -> Seq(Frame)]
           /\ pending' \in [Devices -> Seq(Frame \ NoteFrame)]
<1> DEFINE r == Append(inbox[d], Note("connect")) \o pending[d]
<1>1. /\ inbox \in [Devices -> Seq(Frame)] /\ pending \in [Devices -> Seq(Frame \ NoteFrame)]
      /\ connected \subseteq Devices
      /\ \A e \in Devices : Channel(e)
  BY DEF CloudInv, TypeOK
<1>2. /\ d \notin connected /\ connected' = connected \cup {d}
      /\ inbox' = [inbox EXCEPT ![d] = r]
      /\ pending' = [pending EXCEPT ![d] = <<>>]
      /\ online' = online /\ undone' = undone
  BY DEF Connect, tables
<1>3. /\ \A e \in Devices : Off(e)' = Off(e) /\ Off(e) \in {0, 1}
      /\ Down(d) = 1 /\ Down(d)' = 0
      /\ \A e \in Devices \ {d} : Down(e)' = Down(e)
  BY <1>2 DEF Off, Down
<1>4. /\ r \in Seq(FrameOf(d)) /\ r # <<>> /\ Follows(r) /\ Ends(r, 0)
      /\ \A off \in {0, 1} : Begins(inbox[d], off) /\ (inbox[d] = <<>> => off = 1)
                               => Begins(r, off)
  <2>1. /\ inbox[d] \in Seq(FrameOf(d)) /\ pending[d] \in Seq(FrameOf(d) \ NoteFrame)
        /\ Follows(inbox[d]) /\ Ends(inbox[d], 1)
    BY <1>1, <1>3 DEF Channel
  <2>2. FrameOf(d) \in SUBSET Frame /\ NoteFrame \subseteq FrameOf(d)
    BY OwnFrames
  <2>3. QED
    BY <2>1, <2>2, ConnectArrives
<1>5. r \in Seq(Frame) /\ <<>> \in Seq(Frame \ NoteFrame) /\ <<>> \in Seq(FrameOf(d) \ NoteFrame)
  BY <1>4, OwnFrames, SeqMonotonic, EmptySeq
<1> HIDE DEF r
<1>6. Channel(d)'
  BY <1>1, <1>2, <1>3, <1>4, <1>5 DEF Channel
<1>7. ASSUME NEW e \in Devices, e # d PROVE Channel(e)'
  BY <1>1, <1>2, <1>3, <1>7 DEF Channel
<1>8. QED
  BY <1>1, <1>2, <1>5, <1>6, <1>7

\* Reading a message keeps the channels, when the table follows it.
LEMMA ReadKeeps ==
    ASSUME CloudInv, NEW d \in Devices, inbox[d] # <<>>,
           inbox' = [inbox EXCEPT ![d] = Tail(@)], UNCHANGED <<connected, pending, undone>>,
           \A e \in Devices \ {d} : e \in online' <=> e \in online,
           ~undone => (d \in online' <=> Head(inbox[d]).kind # "disconnect")
    PROVE  /\ \A e \in Devices : Channel(e)'
           /\ inbox' \in [Devices -> Seq(Frame)]
<1> DEFINE t == Tail(inbox[d])
<1>1. /\ inbox \in [Devices -> Seq(Frame)]
      /\ \A e \in Devices : Channel(e)
  BY DEF CloudInv, TypeOK
<1>2. \A e \in Devices : Down(e)' = Down(e) /\ Down(e) \in {0, 1}
  BY DEF Down
<1>3. /\ t \in Seq(FrameOf(d)) /\ Follows(t) /\ Ends(t, Down(d))
      /\ Head(inbox[d]).kind = "disconnect" => Begins(t, 1)
      /\ Head(inbox[d]).kind # "disconnect" => Begins(t, 0)
      /\ t = <<>> => (Head(inbox[d]).kind = "disconnect" <=> Down(d) = 1)
  <2>1. /\ inbox[d] \in Seq(FrameOf(d)) /\ Follows(inbox[d]) /\ Ends(inbox[d], Down(d))
        /\ Down(d) \in {0, 1}
    BY <1>1, <1>2 DEF Channel
  <2>2. FrameOf(d) \in SUBSET Frame /\ NoteFrame \subseteq FrameOf(d)
    BY OwnFrames
  <2>3. QED
    BY <2>1, <2>2, FirstIsRead
<1>4. t \in Seq(Frame)
  BY <1>3, OwnFrames, SeqMonotonic
<1> HIDE DEF t
<1>5. inbox' = [inbox EXCEPT ![d] = t]
  BY DEF t
<1>6. Channel(d)'
  <2>1. inbox'[d] = t /\ pending'[d] = pending[d] /\ Down(d)' = Down(d) /\ (undone' <=> undone)
    BY <1>1, <1>2, <1>5
  <2>2. ~undone => Off(d)' = IF Head(inbox[d]).kind = "disconnect" THEN 1 ELSE 0
    BY DEF Off
  <2>3. ~undone => Begins(t, Off(d)') /\ (t = <<>> => Off(d)' = Down(d))
    <3>1. CASE Head(inbox[d]).kind = "disconnect"
      BY <1>3, <2>2, <3>1
    <3>2. CASE Head(inbox[d]).kind # "disconnect"
      <4>1. t = <<>> => Down(d) = 0
        BY <1>2, <1>3, <3>2
      <4>2. ~undone => Off(d)' = 0
        BY <2>2, <3>2
      <4>3. QED
        BY <1>3, <3>2, <4>1, <4>2
    <3>3. QED
      BY <3>1, <3>2
  <2>4. (~undone)' => Begins(inbox[d], Off(d))' /\ (inbox[d] = <<>> => Off(d) = Down(d))'
    BY <2>1, <2>3
  <2>5. inbox[d]' \in Seq(FrameOf(d)) /\ pending[d]' \in Seq(FrameOf(d) \ NoteFrame)
    BY <1>1, <1>3, <2>1 DEF Channel
  <2>6. Follows(inbox[d])' /\ Ends(inbox[d], Down(d))'
    BY <1>3, <2>1
  <2>7. QED
    BY <2>4, <2>5, <2>6 DEF Channel
<1>7. ASSUME NEW e \in Devices, e # d PROVE Channel(e)'
  <2>1. Off(e)' = Off(e)
    BY <1>7 DEF Off
  <2>2. QED
    BY <1>1, <1>2, <1>5, <1>7, <2>1 DEF Channel
<1>8. QED
  BY <1>1, <1>4, <1>5, <1>6, <1>7

\* A step that leaves the channels alone keeps them.
LEMMA SameKeeps ==
    ASSUME CloudInv, UNCHANGED <<inbox, pending, connected>>, undone => undone',
           ~undone' => online' = online
    PROVE  \A e \in Devices : Channel(e)'
<1> SUFFICES ASSUME NEW e \in Devices PROVE Channel(e)'
  OBVIOUS
<1>1. Channel(e) /\ Down(e)' = Down(e)
  BY DEF CloudInv, Down
<1>2. ~undone' => Off(e)' = Off(e) /\ ~undone
  BY DEF Off
<1>3. QED
  BY <1>1, <1>2 DEF Channel

--------------------------------------------------------------------------------
(* The steps of the cloud *)

\* The first message of a device is its own, and a notification says what the table does
\* not: a connect that the device is online, a disconnect that it is not.
LEMMA HeadFits ==
    ASSUME CloudInv, NEW d \in Devices, inbox[d] # <<>>
    PROVE  /\ Head(inbox[d]) \in FrameOf(d)
           /\ ~undone => (d \in online <=> Head(inbox[d]).kind # "connect")
<1>1. Channel(d)
  BY DEF CloudInv
<1>2. /\ FrameOf(d) \in SUBSET Frame /\ NoteFrame \subseteq FrameOf(d)
      /\ inbox[d] \in Seq(FrameOf(d)) /\ Follows(inbox[d]) /\ Ends(inbox[d], Down(d))
      /\ Down(d) \in {0, 1}
  BY <1>1, OwnFrames DEF Channel, Down
<1>3. Head(inbox[d]) \in FrameOf(d) /\ Head(inbox[d]) = inbox[d][1]
  BY <1>2, FirstIsRead
<1>4. ~undone => (inbox[d][1].kind = "connect" <=> Off(d) = 1)
  BY <1>1 DEF Channel, Begins
<1>5. Off(d) = 1 <=> d \notin online
  BY DEF Off
<1>6. QED
  BY <1>3, <1>4, <1>5

\* The issue of the manager is no issue of a module.
LEMMA MgrIssue ==
    /\ \A m \in Modules : \A c : MgrOffline # <<m, c>>
    /\ Mgr \notin Modules /\ MgrOffline[1] = Mgr /\ Mgr \in Devices
BY CloudStatusAssumption DEF MgrOffline

\* A notification leaves the tables sound.
LEMMA NoteSound ==
    ASSUME CloudInv, NEW d \in Devices, HandleConnection(d)
    PROVE  /\ Sound(Tables)'
           /\ MgrIssueAgrees'
           /\ mgrTerminal' \in BOOLEAN
           /\ \A e \in Devices \ {d} : e \in online' <=> e \in online
           /\ ~undone => (d \in online' <=> Head(inbox[d]).kind # "disconnect")
<1>1. /\ Sound(Tables) /\ MgrIssueAgrees
      /\ mgrTerminal \in BOOLEAN
      /\ inbox[d] # <<>> /\ IsNote(Head(inbox[d]))
      /\ UNCHANGED <<listed, expected, slot, stray, undone>>
  BY DEF CloudInv, TypeOK, HandleConnection, ReadFrom
<1>2. /\ IsNote(Head(inbox[d])) => Head(inbox[d]).kind \in {"connect", "disconnect"}
      /\ ~undone => (d \in online <=> Head(inbox[d]).kind # "connect")
  BY <1>1, HeadFits DEF IsNote
<1>3. CASE d \in online /\ PeerGone(d)
  <2>1. /\ online' = online \ {d}
        /\ current' = IF Managed(d) THEN {} ELSE current
        /\ issues' = IF Managed(d) THEN issues \cup {MgrOffline} ELSE issues
        /\ mgrTerminal' = mgrTerminal
    BY <1>3 DEF PeerGone
  <2>2. CASE Managed(d)
    <3>1. d = Mgr /\ \E m \in Modules : expected[m] # "none"
      BY <2>2 DEF Managed, HasStatus
    <3>2. Sound(Tables)'
      BY <1>1, <2>1, <2>2, <3>1, MgrIssue DEF Sound, Tables, Has, Fits
    <3>3. MgrIssueAgrees'
      BY <2>1, <3>1 DEF MgrIssueAgrees
    <3>4. QED
      BY <1>1, <1>2, <1>3, <2>1, <3>2, <3>3
  <2>3. CASE ~Managed(d)
    <3>1. d # Mgr \/ current = {}
      BY <1>1, <2>3 DEF Managed, HasStatus, Sound, Tables, Has, Fits
    <3>2. Sound(Tables)'
      BY <1>1, <2>1, <2>3, <3>1 DEF Sound, Tables, Has, Fits
    <3>3. MgrIssueAgrees'
      BY <1>1, <2>1, <2>3 DEF MgrIssueAgrees
    <3>4. QED
      BY <1>1, <1>2, <1>3, <2>1, <3>2, <3>3
  <2>4. QED
    BY <2>2, <2>3
<1>4. CASE d \notin online /\ PeerCame(d)
  <2>1. /\ online' = online \cup {d}
        /\ current' = current
        /\ issues' = IF Managed(d) THEN {x \in issues : x[1] # d} ELSE issues
        /\ mgrTerminal' = (mgrTerminal \/ Managed(d))
    BY <1>4 DEF PeerCame
  <2>2. issues' \subseteq issues
    BY <2>1
  <2>3. Sound(Tables)'
    BY <1>1, <2>1, <2>2 DEF Sound, Tables, Has, Fits
  <2>4. MgrIssueAgrees'
    <3>1. CASE d # Mgr
      BY <1>1, <2>1, <2>2, <3>1 DEF MgrIssueAgrees
    <3>2. CASE d = Mgr
      <4>1. MgrOffline \notin issues'
        BY <1>1, <2>1, <3>2, MgrIssue DEF Managed, HasStatus, Sound, Tables, Has, Fits
      <4>2. QED
        BY <4>1 DEF MgrIssueAgrees
    <3>3. QED
      BY <3>1, <3>2
  <2>5. mgrTerminal' \in BOOLEAN
    BY <1>1, <2>1
  <2>6. QED
    BY <1>1, <1>2, <1>4, <2>1, <2>3, <2>4, <2>5
<1>5. QED
  BY <1>3, <1>4 DEF HandleConnection

\* A report may add modules of its sender that are known, issues of known modules and
\* entries that are not there, and removes no entry.
Adds(d) ==
    /\ expected' \in [Modules -> Wanted \cup {"null"}]
    /\ slot' \in [Modules -> {"none", "null", "bool"}]
    /\ \A m \in Modules : \/ expected'[m] = expected[m]
                          \/ expected[m] = "none" /\ expected'[m] = "null"
    /\ \A m \in Modules : slot[m] # "none" => slot'[m] # "none"
    /\ current' \subseteq current \cup {m \in Hosted(d) : Known(m)}
    /\ issues' \subseteq issues \cup ({m \in Modules : Known(m)} \X Categories)

\* What a report does leaves the tables sound.
LEMMA TablesSound ==
    ASSUME CloudInv, NEW d \in Devices, inbox[d] # <<>>, ~IsNote(Head(inbox[d])),
           UNCHANGED <<listed, stray, undone>>, online' = online \cup {d}, Adds(d)
    PROVE  /\ Sound(Tables)'
           /\ MgrIssueAgrees'
           /\ ~undone => d \in online
<1>1. /\ Sound(Tables) /\ MgrIssueAgrees
  BY DEF CloudInv
<1>2. ~undone => d \in online
  BY HeadFits DEF IsNote
<1>3. \A m \in Modules : Known(m) => m \in listed /\ \E n \in Modules : expected[n] # "none"
  BY DEF Known, HasStatus
<1>4. \A x \in issues' \ issues : x \in Modules \X Categories /\ Known(x[1])
  BY DEF Adds
<1>5. \A m \in current' \ current : m \in Modules /\ Host[m] = d /\ Known(m)
  BY DEF Adds, Hosted
<1>6. MgrOffline \in issues' => MgrOffline \in issues
  BY <1>4, MgrIssue
<1>7. \A m \in Modules : Fits(Tables, m) => Fits(Tables, m)'
  BY DEF Fits, Tables, Adds
<1>8. Has(Tables) => Has(Tables)'
  BY DEF Has, Tables, Adds
<1>9. Sound(Tables)'
  <2>1. online' \subseteq Devices /\ current' \subseteq listed'
    BY <1>1, <1>3, <1>5 DEF Sound, Tables
  <2>2. \A m \in listed' : Fits(Tables, m)'
    BY <1>1, <1>3, <1>5, <1>7 DEF Sound, Tables
  <2>3. Mgr \notin online' => \A m \in current' : Host[m] # Mgr
    BY <1>1, <1>5 DEF Sound, Tables
  <2>4. issues' \subseteq (Modules \X Categories) \cup {MgrOffline}
    BY <1>1, <1>4 DEF Sound, Tables
  <2>5. \A x \in issues' : x[1] \in Modules => Fits(Tables, x[1])'
    BY <1>1, <1>3, <1>4, <1>7 DEF Sound, Tables
  <2>6. MgrOffline \in issues' \/ current' # {} => Has(Tables)'
    <3>1. MgrOffline \in issues' \/ current' # {} => Has(Tables)
      BY <1>1, <1>3, <1>5, <1>6 DEF Sound, Tables, Has
    <3>2. QED
      BY <1>8, <3>1
  <2>7. \A m \in Modules : expected'[m] \in {"on", "off"} => slot'[m] # "none"
    BY <1>1 DEF Sound, Tables, Adds
  <2>8. listed' \subseteq Modules /\ stray' \subseteq Modules
    BY <1>1 DEF Sound, Tables
  <2>9. MgrOffline' = MgrOffline
    BY DEF MgrOffline
  <2>10. QED
    BY <2>1, <2>2, <2>3, <2>4, <2>5, <2>6, <2>7, <2>8, <2>9 DEF Sound, Tables, Adds
<1>10. MgrIssueAgrees'
  BY <1>1, <1>2, <1>6 DEF MgrIssueAgrees
<1>11. QED
  BY <1>2, <1>9, <1>10

\* A recovery adds only modules of its sender that are known, and no issue.
LEMMA RecoverAdds ==
    ASSUME CloudInv, NEW d \in Devices, NEW ms \in SUBSET Hosted(d), NEW c, Recover(ms, c)
    PROVE  Adds(d)
<1>1. /\ expected' = expected /\ issues' \subseteq issues
      /\ Revived({m \in ms : Known(m)}, c)
  BY DEF Recover
<1>2. /\ expected \in [Modules -> Wanted \cup {"null"}]
      /\ slot \in [Modules -> {"none", "null", "bool"}]
  BY DEF CloudInv, TypeOK
<1>3. /\ current' \subseteq current \cup {m \in ms : Known(m)}
      /\ slot' \in [Modules -> {"none", "null", "bool"}]
      /\ \A m \in Modules : slot[m] # "none" => slot'[m] # "none"
  BY <1>1, <1>2 DEF Revived
<1>4. QED
  BY <1>1, <1>2, <1>3 DEF Adds

\* An active report adds an issue of its module, and entries that are null.
LEMMA ActivateAdds ==
    ASSUME CloudInv, NEW m \in Modules, NEW c \in Categories, Activate(m, c)
    PROVE  Adds(Host[m]) /\ current' \subseteq current
<1>1. /\ expected \in [Modules -> Wanted \cup {"null"}]
      /\ slot \in [Modules -> {"none", "null", "bool"}]
  BY DEF CloudInv, TypeOK
<1>2. CASE ~Known(m)
  BY <1>1, <1>2 DEF Activate, Adds
<1>3. CASE Known(m)
  <2>1. /\ current' \subseteq current
        /\ slot' = [slot EXCEPT ![m] = IF Level(c, TRUE) = "error" THEN "bool"
                                       ELSE IF @ = "none" THEN "null" ELSE @]
        /\ expected' = [expected EXCEPT ![m] = IF @ = "none" THEN "null" ELSE @]
        /\ issues' \subseteq issues \cup {<<m, c>>}
    BY <1>3 DEF Activate
  <2>2. issues' \subseteq issues \cup ({n \in Modules : Known(n)} \X Categories)
    BY <1>3, <2>1
  <2>3. /\ slot' \in [Modules -> {"none", "null", "bool"}]
        /\ \A n \in Modules : slot[n] # "none" => slot'[n] # "none"
    BY <1>1, <2>1
  <2>4. /\ expected' \in [Modules -> Wanted \cup {"null"}]
        /\ \A n \in Modules : \/ expected'[n] = expected[n]
                              \/ expected[n] = "none" /\ expected'[n] = "null"
    BY <1>1, <2>1
  <2>5. QED
    BY <2>1, <2>2, <2>3, <2>4 DEF Adds
<1>4. QED
  BY <1>2, <1>3

\* A report or a heartbeat leaves the tables sound.
LEMMA ReportSound ==
    ASSUME CloudInv, NEW d \in Devices, HandleReport(d) \/ HandlePing(d)
    PROVE  /\ Sound(Tables)'
           /\ MgrIssueAgrees'
           /\ inbox[d] # <<>> /\ ~IsNote(Head(inbox[d]))
           /\ ~undone => d \in online
<1>1. /\ inbox[d] # <<>> /\ Head(inbox[d]) \in FrameOf(d)
      /\ online' = online \cup {d} /\ UNCHANGED <<listed, stray, undone>>
  BY HeadFits DEF HandleReport, HandlePing, ReadFrom, Seen
<1>2. CASE HandleReport(d)
  <2> DEFINE f == Head(inbox[d])
  <2>1. f.kind = "report" /\ ~IsNote(f)
    BY <1>2 DEF HandleReport, IsNote
  <2>2. f.mod \in Modules /\ Host[f.mod] = d /\ f.cat \in Categories
    BY <1>1, <2>1 DEF FrameOf, NoteFrame, PingFrame, ReportFrame
  <2>3. CASE f.active
    <3>1. Activate(f.mod, f.cat)
      BY <1>2, <2>3 DEF HandleReport
    <3>2. Adds(d)
      BY <2>2, <3>1, ActivateAdds
    <3>3. QED
      BY <1>1, <2>1, <3>2, TablesSound
  <2>4. CASE ~f.active
    <3>1. Recover({f.mod}, f.cat)
      BY <1>2, <2>4 DEF HandleReport
    <3>2. {f.mod} \in SUBSET Hosted(d)
      BY <2>2 DEF Hosted
    <3>3. Adds(d)
      BY <3>1, <3>2, RecoverAdds
    <3>4. QED
      BY <1>1, <2>1, <3>3, TablesSound
  <2>5. QED
    BY <2>3, <2>4
<1>3. CASE HandlePing(d)
  <2> DEFINE f == Head(inbox[d])
  <2>1. f.kind = "ping" /\ ~IsNote(f) /\ Recover(f.mods, "AV_MODOFFLINE")
    BY <1>3 DEF HandlePing, IsNote
  <2>2. f.mods \in SUBSET Hosted(d)
    BY <1>1, <2>1 DEF FrameOf, NoteFrame, PingFrame, ReportFrame
  <2>3. Adds(d)
    BY <2>1, <2>2, RecoverAdds
  <2>4. QED
    BY <1>1, <2>1, <2>3, TablesSound
<1>4. QED
  BY <1>2, <1>3

\* A configuration merged into sound tables leaves them sound, and so does one that an
\* exception kept from being merged.
LEMMA BuildSound ==
    ASSUME CloudInv, NEW cfg \in [Modules -> Wanted],
           \/ \E f \in Flaws : BuildIpcStatus(cfg, f)
           \/ \E written \in SUBSET Named(cfg) : NotBuilt(written),
           UNCHANGED <<online, undone>>
    PROVE  Sound(Tables)' /\ MgrIssueAgrees'
<1>1. Sound(Tables) /\ MgrIssueAgrees /\ MgrOffline' = MgrOffline
  BY DEF CloudInv, MgrOffline
<1>2. /\ listed \subseteq Modules /\ stray \subseteq Modules /\ current \subseteq Modules
      /\ expected \in [Modules -> Wanted \cup {"null"}]
      /\ slot \in [Modules -> {"none", "null", "bool"}]
  BY <1>1 DEF Sound, Tables
<1>3. \/ UNCHANGED status
      \/ Named(cfg) # {} /\ Built(cfg)
      \/ \E written \in SUBSET Named(cfg) : NotBuilt(written)
  BY DEF BuildIpcStatus, Written, Flaws, Named
<1>4. CASE UNCHANGED status
  BY <1>1, <1>4 DEF Sound, MgrIssueAgrees, Tables, Has, Fits, status
<1>5. CASE Named(cfg) # {} /\ Built(cfg)
  <2>1. /\ listed' = (listed \cup Named(cfg)) \ Removed(cfg)
        /\ expected' = cfg
        /\ slot' = [m \in Modules |-> IF cfg[m] = "none" THEN "none"
                                      ELSE IF slot[m] = "none" THEN "bool" ELSE slot[m]]
        /\ current' = {m \in current : cfg[m] = "on"}
        /\ issues' = {x \in issues : x[1] \notin Removed(cfg)}
        /\ stray' = stray \ (Named(cfg) \cup Removed(cfg))
    BY <1>5 DEF Built
  <2>2. \A m \in Modules : cfg[m] \in {"on", "off"} <=> m \in Named(cfg)
    BY DEF Named, Wanted
  <2>3. ASSUME NEW m \in Modules \ Removed(cfg), Fits(Tables, m) PROVE Fits(Tables, m)'
    <3>1. CASE m \in Named(cfg)
      BY <2>1, <2>2, <3>1 DEF Fits, Tables
    <3>2. CASE m \notin Named(cfg)
      <4>1. slot[m] = "none" /\ expected[m] \notin {"on", "off"}
        BY <1>1, <2>3, <3>2 DEF Removed, Named, Sound, Tables
      <4>2. m \in stray
        BY <2>3, <4>1 DEF Fits, Tables
      <4>3. QED
        BY <2>1, <2>3, <3>2, <4>2 DEF Fits, Tables
    <3>3. QED
      BY <3>1, <3>2
  <2>4. ASSUME NEW m \in listed' PROVE Fits(Tables, m)'
    <3>1. CASE m \in Named(cfg)
      BY <2>1, <2>2, <3>1 DEF Fits, Tables, Named
    <3>2. CASE m \notin Named(cfg)
      <4>1. m \in listed \ Removed(cfg)
        BY <1>2, <2>1, <2>4, <3>2 DEF Named
      <4>2. QED
        BY <1>1, <1>2, <2>3, <4>1 DEF Sound, Tables
    <3>3. QED
      BY <3>1, <3>2
  <2>5. ASSUME NEW x \in issues', x[1] \in Modules PROVE Fits(Tables, x[1])'
    <3>1. x \in issues /\ x[1] \notin Removed(cfg)
      BY <2>1, <2>5
    <3>2. Fits(Tables, x[1])
      BY <1>1, <2>5, <3>1 DEF Sound, Tables
    <3>3. QED
      BY <2>3, <2>5, <3>1, <3>2
  <2>6. Has(Tables)'
    BY <1>5, <2>1 DEF Has, Tables, Named
  <2>7. /\ listed' \subseteq Modules /\ stray' \subseteq Modules /\ current' \subseteq current
        /\ issues' \subseteq issues
        /\ expected' \in [Modules -> Wanted \cup {"null"}]
        /\ slot' \in [Modules -> {"none", "null", "bool"}]
    BY <1>2, <2>1 DEF Named
  <2>8. /\ \A m \in Modules : expected'[m] \in {"on", "off"} => slot'[m] # "none"
        /\ current' \subseteq listed'
    <3>1. current \subseteq listed
      BY <1>1 DEF Sound, Tables
    <3>2. QED
      BY <1>2, <2>1, <3>1 DEF Named, Removed
  <2>9. Sound(Tables)'
    <3>1. /\ online' \subseteq Devices
          /\ issues' \subseteq (Modules \X Categories) \cup {MgrOffline}
          /\ Mgr \notin online' => \A m \in current' : Host[m] # Mgr
      BY <1>1, <2>7 DEF Sound, Tables
    <3>2. QED
      BY <1>1, <2>4, <2>5, <2>6, <2>7, <2>8, <3>1 DEF Sound, Tables
  <2>10. MgrIssueAgrees'
    BY <1>1, <2>7 DEF MgrIssueAgrees
  <2>11. QED
    BY <2>9, <2>10
<1>6. ASSUME NEW written \in SUBSET Named(cfg), NotBuilt(written)
      PROVE  Sound(Tables)' /\ MgrIssueAgrees'
  <2>1. /\ listed' = listed \cup written
        /\ stray' = stray \cup {m \in written : expected[m] \notin {"on", "off"}}
        /\ UNCHANGED <<expected, slot, current, issues>>
    BY <1>6 DEF NotBuilt
  <2>2. written \subseteq Modules
    BY DEF Named
  <2>3. /\ \A m \in Modules : Fits(Tables, m) => Fits(Tables, m)'
        /\ \A m \in written : Fits(Tables, m)'
    BY <2>1 DEF Fits, Tables
  <2>4. /\ listed' \subseteq Modules /\ stray' \subseteq Modules
    BY <1>2, <2>1, <2>2
  <2>5. /\ current' \subseteq listed' /\ \A m \in listed' : Fits(Tables, m)'
        /\ \A x \in issues' : x[1] \in Modules => Fits(Tables, x[1])'
    BY <1>1, <1>2, <2>1, <2>3 DEF Sound, Tables
  <2>6. Has(Tables)' <=> Has(Tables)
    BY <2>1 DEF Has, Tables
  <2>7. Sound(Tables)'
    BY <1>1, <2>1, <2>4, <2>5, <2>6 DEF Sound, Tables
  <2>8. QED
    BY <1>1, <2>1, <2>7 DEF MgrIssueAgrees
<1>7. QED
  BY <1>3, <1>4, <1>5, <1>6

--------------------------------------------------------------------------------
(* Every step keeps the invariant *)

\* The copy is sound while config() does nothing.
LEMMA CopySame ==
    ASSUME CloudInv, UNCHANGED <<posting, undone>>
    PROVE  CopySound' /\ saved' \in [Modules -> Wanted] /\ flaw' \in Flaws /\ undone' \in BOOLEAN
           /\ job' \in {"idle", "applied", "failed"}
<1>1. MgrOffline' = MgrOffline
  BY DEF MgrOffline
<1>2. QED
  BY <1>1 DEF CloudInv, TypeOK, CopySound, Sound, posting, Tables, Has, Fits

\* The tables are sound while the cloud does nothing.
LEMMA TablesSame ==
    ASSUME CloudInv, UNCHANGED <<tables, undone>>
    PROVE  Sound(Tables)' /\ MgrIssueAgrees' /\ mgrTerminal' \in BOOLEAN
<1>1. MgrOffline' = MgrOffline
  BY DEF MgrOffline
<1>2. QED
  BY <1>1 DEF CloudInv, TypeOK, Sound, MgrIssueAgrees, tables, status, Tables, Has, Fits

\* The parts of the invariant after a step together are the invariant.
LEMMA Together ==
    ASSUME up' \subseteq Modules, connected' \subseteq Devices,
           beat' \in [Devices -> {<<>>} \cup {<<ms>> : ms \in SUBSET Modules}],
           inbox' \in [Devices -> Seq(Frame)], pending' \in [Devices -> Seq(Frame \ NoteFrame)],
           outrun' \subseteq Modules, mgrTerminal' \in BOOLEAN, undone' \in BOOLEAN,
           saved' \in [Modules -> Wanted] /\ flaw' \in Flaws, job' \in {"idle", "applied", "failed"},
           \A d \in Devices : Channel(d)', \A d \in Devices : BeatOwn(d)',
           Sound(Tables)', MgrIssueAgrees', CopySound'
    PROVE  CloudInv'
<1>1. /\ online' \subseteq Devices /\ current' \subseteq Modules /\ listed' \subseteq Modules
      /\ expected' \in [Modules -> Wanted \cup {"null"}]
      /\ slot' \in [Modules -> {"none", "null", "bool"}] /\ stray' \subseteq Modules
      /\ issues' \subseteq (Modules \X Categories) \cup {MgrOffline}
  BY DEF Sound, MgrOffline, Tables, Has, Fits
<1>2. TypeOK'
  BY <1>1 DEF TypeOK, MgrOffline
<1>3. QED
  BY <1>2 DEF CloudInv

\* What a module or a heartbeat sends is its device's own.
LEMMA ReportIsOwn ==
    ASSUME NEW m \in Modules, NEW c \in Categories, NEW a \in BOOLEAN
    PROVE  Report(m, c, a) \in FrameOf(Host[m]) \ NoteFrame
BY DEF Report, FrameOf, NoteFrame, ReportFrame

LEMMA BeatIsOwn ==
    ASSUME CloudInv, NEW d \in Devices, beat[d] # <<>>
    PROVE  /\ Ping(Head(beat[d])) \in FrameOf(d) \ NoteFrame
           /\ Head(beat[d]) \subseteq Modules
<1>1. beat[d] \in {<<>>} \cup {<<ms>> : ms \in SUBSET Modules} /\ BeatOwn(d)
  BY DEF CloudInv, TypeOK
<1>2. PICK ms \in SUBSET Modules : beat[d] = <<ms>>
  BY <1>1
<1>3. Head(beat[d]) = ms /\ ms \subseteq Hosted(d)
  BY <1>1, <1>2 DEF BeatOwn
<1>4. QED
  BY <1>3 DEF Ping, FrameOf, NoteFrame, PingFrame

\* The steps of the devices and of the connections.
LEMMA DeviceKeeps ==
    ASSUME CloudInv, UNCHANGED <<tables, posting, undone>>,
           \/ \E m \in Modules : ModuleUp(m) \/ ModuleDown(m) \/ Relay(m)
           \/ \E d \in Devices : \/ ComposeBeat(d) \/ SendBeat(d)
                                 \/ Connect(d) \/ Drop(d) \/ ResetDealer(d) \/ Reboot(d)
    PROVE  CloudInv'
<1>1. /\ Sound(Tables)' /\ MgrIssueAgrees' /\ mgrTerminal' \in BOOLEAN
      /\ CopySound' /\ saved' \in [Modules -> Wanted] /\ flaw' \in Flaws /\ undone' \in BOOLEAN
      /\ job' \in {"idle", "applied", "failed"}
  BY TablesSame, CopySame
<1>2. /\ up \subseteq Modules /\ connected \subseteq Devices /\ outrun \subseteq Modules
      /\ beat \in [Devices -> {<<>>} \cup {<<ms>> : ms \in SUBSET Modules}]
      /\ inbox \in [Devices -> Seq(Frame)] /\ pending \in [Devices -> Seq(Frame \ NoteFrame)]
      /\ \A d \in Devices : BeatOwn(d)
      /\ online' = online /\ undone' = undone
  BY DEF CloudInv, TypeOK, tables
<1>3. Host \in [Modules -> Devices]
  BY CloudStatusAssumption
<1>4. beat' = beat => \A d \in Devices : BeatOwn(d)'
  BY <1>2 DEF BeatOwn
<1>5. ASSUME NEW m \in Modules, ModuleUp(m) \/ ModuleDown(m) \/ Relay(m) PROVE CloudInv'
  <2>1. PICK c \in Categories, a \in BOOLEAN : SendToCloud(Host[m], Report(m, c, a))
    BY <1>5 DEF ModuleUp, ModuleDown, Relay, Categories
  <2>2. /\ Report(m, c, a) \in FrameOf(Host[m]) \ NoteFrame /\ Host[m] \in Devices
    BY <1>3, ReportIsOwn
  <2>3. connected' = connected /\ beat' = beat
    BY <1>5 DEF ModuleUp, ModuleDown, Relay
  <2>4. up' \subseteq Modules /\ outrun' \subseteq Modules
    BY <1>2, <1>5 DEF ModuleUp, ModuleDown, Relay
  <2>5. /\ \A e \in Devices : Channel(e)'
        /\ inbox' \in [Devices -> Seq(Frame)]
        /\ pending' \in [Devices -> Seq(Frame \ NoteFrame)]
    BY <1>2, <2>1, <2>2, <2>3, SendKeeps
  <2>6. QED
    BY <1>1, <1>2, <1>4, <2>3, <2>4, <2>5, Together
<1>6. ASSUME NEW d \in Devices, ComposeBeat(d) PROVE CloudInv'
  <2> DEFINE ms == {m \in up : Host[m] = d}
  <2>1. /\ beat' = [beat EXCEPT ![d] = <<ms>>]
        /\ UNCHANGED <<up, connected, pending, inbox, outrun>>
    BY <1>6 DEF ComposeBeat
  <2>2. ms \in SUBSET Modules /\ ms \subseteq Hosted(d)
    BY <1>2 DEF Hosted
  <2> HIDE DEF ms
  <2>3. beat' \in [Devices -> {<<>>} \cup {<<xs>> : xs \in SUBSET Modules}]
    BY <1>2, <2>1, <2>2
  <2>4. ASSUME NEW e \in Devices PROVE BeatOwn(e)'
    <3>1. CASE e = d
      BY <1>2, <2>1, <2>2, <3>1 DEF BeatOwn
    <3>2. CASE e # d
      BY <1>2, <2>1, <3>2 DEF BeatOwn
    <3>3. QED
      BY <3>1, <3>2
  <2>5. \A e \in Devices : Channel(e)'
    BY <1>2, <2>1, SameKeeps
  <2>6. QED
    BY <1>1, <1>2, <2>1, <2>3, <2>4, <2>5, Together
<1>7. ASSUME NEW d \in Devices, beat' = [beat EXCEPT ![d] = <<>>]
      PROVE  /\ beat' \in [Devices -> {<<>>} \cup {<<xs>> : xs \in SUBSET Modules}]
             /\ \A e \in Devices : BeatOwn(e)'
  <2>1. ASSUME NEW e \in Devices PROVE BeatOwn(e)'
    <3>1. CASE e = d
      BY <1>2, <1>7, <3>1 DEF BeatOwn
    <3>2. CASE e # d
      BY <1>2, <1>7, <3>2 DEF BeatOwn
    <3>3. QED
      BY <3>1, <3>2
  <2>2. QED
    BY <1>2, <1>7, <2>1
<1>8. ASSUME NEW d \in Devices, SendBeat(d) PROVE CloudInv'
  <2>1. /\ beat[d] # <<>> /\ SendToCloud(d, Ping(Head(beat[d])))
        /\ beat' = [beat EXCEPT ![d] = <<>>]
        /\ outrun' = outrun \cup (Head(beat[d]) \ up)
        /\ UNCHANGED <<up, connected>>
    BY <1>8 DEF SendBeat
  <2>2. Ping(Head(beat[d])) \in FrameOf(d) \ NoteFrame /\ Head(beat[d]) \subseteq Modules
    BY <2>1, BeatIsOwn
  <2>3. /\ \A e \in Devices : Channel(e)'
        /\ inbox' \in [Devices -> Seq(Frame)]
        /\ pending' \in [Devices -> Seq(Frame \ NoteFrame)]
    BY <1>2, <2>1, <2>2, SendKeeps
  <2>4. outrun' \subseteq Modules
    BY <1>2, <2>1, <2>2
  <2>5. QED
    BY <1>1, <1>2, <1>7, <2>1, <2>3, <2>4, Together
<1>9. ASSUME NEW d \in Devices, Connect(d) PROVE CloudInv'
  <2>1. UNCHANGED <<up, beat, outrun>>
    BY <1>9 DEF Connect
  <2>2. QED
    BY <1>1, <1>2, <1>4, <1>9, <2>1, ConnectKeeps, Together
<1>10. ASSUME NEW d \in Devices, Drop(d) \/ ResetDealer(d) \/ Reboot(d) PROVE CloudInv'
  <2>1. \/ /\ d \in connected
           /\ \E i \in Cuts(d) : \/ Cut(d, i, <<>>)
                                 \/ \E j \in Cuts(d) : Cut(d, i, After(d, j))
        \/ pending' = [pending EXCEPT ![d] = <<>>] /\ UNCHANGED <<connected, inbox>>
    <3>1. CASE Drop(d)
      <4>1. d \in connected
        BY <3>1 DEF Drop
      <4>2. PICK i \in Cuts(d) : \E j \in i..Len(inbox[d]) : Cut(d, i, After(d, j))
        BY <3>1 DEF Drop
      <4>3. PICK j \in i..Len(inbox[d]) : Cut(d, i, After(d, j))
        BY <4>2
      <4>4. j \in Cuts(d)
        <5>1. Len(inbox[d]) \in Nat
          BY <1>2, LenProperties
        <5>2. QED
          BY <5>1 DEF Cuts
      <4>5. QED
        BY <4>1, <4>3, <4>4
    <3>2. CASE ResetDealer(d) \/ Reboot(d)
      BY <3>2 DEF ResetDealer, Reboot
    <3>3. QED
      BY <1>10, <3>1, <3>2
  <2>2. /\ \A e \in Devices : Channel(e)'
        /\ connected' \subseteq Devices
        /\ inbox' \in [Devices -> Seq(Frame)]
        /\ pending' \in [Devices -> Seq(Frame \ NoteFrame)]
    BY <1>2, <2>1, CutKeeps
  <2>3. beat' = beat \/ beat' = [beat EXCEPT ![d] = <<>>]
    BY <1>10 DEF Drop, ResetDealer, Reboot
  <2>4. up' \subseteq Modules /\ outrun' \subseteq Modules
    BY <1>2, <1>10 DEF Drop, ResetDealer, Reboot
  <2>5. QED
    BY <1>1, <1>2, <1>4, <1>7, <2>2, <2>3, <2>4, Together
<1>11. QED
  BY <1>5, <1>6, <1>8, <1>9, <1>10

\* The messages the cloud handles.
LEMMA HandleKeeps ==
    ASSUME CloudInv, NEW d \in Devices, HandleMsg(d)
    PROVE  CloudInv'
<1>1. /\ inbox[d] # <<>> /\ inbox' = [inbox EXCEPT ![d] = Tail(@)]
      /\ UNCHANGED <<up, beat, connected, pending, posting, undone, outrun>>
  BY DEF HandleMsg, HandleConnection, HandleReport, HandlePing, ReadFrom, device
<1>2. /\ up \subseteq Modules /\ connected \subseteq Devices /\ outrun \subseteq Modules
      /\ beat \in [Devices -> {<<>>} \cup {<<ms>> : ms \in SUBSET Modules}]
      /\ inbox \in [Devices -> Seq(Frame)] /\ pending \in [Devices -> Seq(Frame \ NoteFrame)]
      /\ \A e \in Devices : BeatOwn(e)
      /\ mgrTerminal \in BOOLEAN
  BY DEF CloudInv, TypeOK
<1>3. /\ CopySound' /\ saved' \in [Modules -> Wanted] /\ flaw' \in Flaws /\ undone' \in BOOLEAN
      /\ job' \in {"idle", "applied", "failed"}
      /\ \A e \in Devices : BeatOwn(e)'
  BY <1>1, <1>2, CopySame DEF BeatOwn
<1>4. /\ Sound(Tables)' /\ MgrIssueAgrees' /\ mgrTerminal' \in BOOLEAN
      /\ \A e \in Devices \ {d} : e \in online' <=> e \in online
      /\ ~undone => (d \in online' <=> Head(inbox[d]).kind # "disconnect")
  <2>1. CASE HandleConnection(d)
    BY <2>1, NoteSound
  <2>2. CASE HandleReport(d) \/ HandlePing(d)
    <3>1. online' = online \cup {d} /\ mgrTerminal' = mgrTerminal
      BY <2>2 DEF HandleReport, HandlePing, Seen
    <3>2. /\ Sound(Tables)' /\ MgrIssueAgrees'
          /\ Head(inbox[d]).kind # "disconnect"
      BY <2>2, ReportSound DEF IsNote
    <3>3. QED
      BY <1>2, <3>1, <3>2
  <2>3. QED
    BY <2>1, <2>2 DEF HandleMsg
<1>5. /\ \A e \in Devices : Channel(e)'
      /\ inbox' \in [Devices -> Seq(Frame)]
  BY <1>1, <1>4, ReadKeeps
<1>6. QED
  BY <1>1, <1>2, <1>3, <1>4, <1>5, Together

\* A configuration that is posted, and what comes of it.
LEMMA ConfigKeeps ==
    ASSUME CloudInv, BeginConfig \/ EndConfig \/ UndoConfig
    PROVE  CloudInv'
<1>1. /\ up \subseteq Modules /\ connected \subseteq Devices /\ outrun \subseteq Modules
      /\ beat \in [Devices -> {<<>>} \cup {<<ms>> : ms \in SUBSET Modules}]
      /\ inbox \in [Devices -> Seq(Frame)] /\ pending \in [Devices -> Seq(Frame \ NoteFrame)]
      /\ saved \in [Modules -> Wanted] /\ flaw \in Flaws /\ mgrTerminal \in BOOLEAN /\ undone \in BOOLEAN
      /\ \A e \in Devices : BeatOwn(e)
      /\ Sound(Tables) /\ MgrIssueAgrees /\ CopySound
  BY DEF CloudInv, TypeOK
<1>2. UNCHANGED <<up, beat, connected, pending, inbox>>
  BY DEF BeginConfig, EndConfig, UndoConfig, device
<1>3. \A e \in Devices : BeatOwn(e)'
  BY <1>1, <1>2 DEF BeatOwn
<1>4. MgrOffline' = MgrOffline
  BY DEF MgrOffline
<1>5. CASE BeginConfig
  <2>1. PICK cfg \in Configs, f \in Flaws : Accepted(cfg, f) \/ Refused(cfg, f)
    BY <1>5 DEF BeginConfig
  <2>2. /\ copy' = Tables
        /\ UNCHANGED <<online, mgrTerminal, undone, outrun>>
    BY <1>5 DEF BeginConfig
  <2>3. cfg \in [Modules -> Wanted]
    BY CloudStatusAssumption
  <2>4. Sound(Tables)' /\ MgrIssueAgrees'
    BY <2>1, <2>2, <2>3, BuildSound DEF Accepted, Refused
  <2>5. CopySound'
    BY <1>1, <1>4, <2>2 DEF CopySound, Sound, MgrIssueAgrees, Tables, Has, Fits
  <2>6. saved' \in [Modules -> Wanted] /\ flaw' \in Flaws /\ job' \in {"idle", "applied", "failed"}
    BY <1>1, <2>1, <2>3 DEF Accepted, Refused
  <2>7. \A e \in Devices : Channel(e)'
    BY <1>2, <2>2, SameKeeps
  <2>8. QED
    BY <1>1, <1>2, <1>3, <2>2, <2>4, <2>5, <2>6, <2>7, Together
<1>6. CASE EndConfig
  <2>1. job' = "idle" /\ UNCHANGED <<tables, saved, flaw, undone, outrun>>
    BY <1>6 DEF EndConfig
  <2>2. CopySound'
    BY <2>1 DEF CopySound
  <2>3. Sound(Tables)' /\ MgrIssueAgrees' /\ mgrTerminal' \in BOOLEAN
    BY <2>1, TablesSame
  <2>4. \A e \in Devices : Channel(e)'
    BY <1>2, <2>1, SameKeeps DEF tables
  <2>5. QED
    BY <1>1, <1>2, <1>3, <2>1, <2>2, <2>3, <2>4, Together
<1>7. CASE UndoConfig
  <2>1. /\ job # "idle" /\ job' = "idle" /\ UNCHANGED <<saved, flaw>>
        /\ online' = copy.online /\ listed' = copy.listed /\ expected' = copy.expected
        /\ slot' = copy.slot /\ current' = copy.current /\ issues' = copy.issues
        /\ stray' = copy.stray
        /\ mgrTerminal' = copy.mgrTerminal
        /\ undone' = (undone \/ copy.online # online)
        /\ outrun' = outrun \cup ((copy.current \ current) \ up)
    BY <1>7 DEF UndoConfig
  <2>2. CopySound'
    BY <2>1 DEF CopySound
  <2>3. /\ Sound(copy)
        /\ copy.mgrTerminal \in BOOLEAN
        /\ ~undone => (MgrOffline \in copy.issues => Mgr \notin copy.online)
    BY <1>1, <2>1 DEF CopySound
  <2>4. Sound(Tables)'
    BY <1>4, <2>1, <2>3 DEF Sound, Tables, Has, Fits
  <2>5. (undone => undone') /\ (~undone' => ~undone /\ online' = online) /\ undone' \in BOOLEAN
    BY <1>1, <2>1
  <2>6. MgrIssueAgrees'
    BY <1>4, <2>1, <2>3, <2>5 DEF MgrIssueAgrees
  <2>7. \A e \in Devices : Channel(e)'
    BY <1>2, <2>5, SameKeeps
  <2>8. outrun' \subseteq Modules
    BY <1>1, <2>1, <2>3 DEF Sound, Tables, Has, Fits
  <2>9. QED
    BY <1>1, <1>2, <1>3, <2>1, <2>2, <2>3, <2>4, <2>5, <2>6, <2>7, <2>8, Together
<1>8. QED
  BY <1>5, <1>6, <1>7

\* The cloud starts again.
LEMMA RestartKeeps ==
    ASSUME CloudInv, Restart
    PROVE  CloudInv'
<1>1. /\ up \subseteq Modules /\ outrun \subseteq Modules
      /\ beat \in [Devices -> {<<>>} \cup {<<ms>> : ms \in SUBSET Modules}]
      /\ saved \in [Modules -> Wanted] /\ flaw \in Flaws
      /\ \A e \in Devices : BeatOwn(e) /\ Channel(e)
  BY DEF CloudInv, TypeOK
<1>2. /\ connected' = {} /\ inbox' = [d \in Devices |-> <<>>]
      /\ online' = {} /\ current' = {} /\ issues' = {}
      /\ mgrTerminal' = FALSE /\ undone' = FALSE /\ job' = "idle"
      /\ UNCHANGED <<up, beat, saved, flaw, outrun>>
      /\ LoadConfigMap
  BY DEF Restart, LoadConfigMap
<1>3. \A d \in Devices : Kept(d) \subseteq Seq(FrameOf(d) \ NoteFrame)
  BY <1>1, KeptAreReports DEF Kept, Channel
<1>4. /\ pending' \in [Devices -> UNION {Kept(d) : d \in Devices}]
      /\ \A d \in Devices : pending'[d] \in Kept(d)
  BY DEF Restart
<1>5. \A d \in Devices : pending'[d] \in Seq(FrameOf(d) \ NoteFrame)
  BY <1>3, <1>4
<1>6. \A d \in Devices : pending'[d] \in Seq(Frame \ NoteFrame)
  BY <1>5, OwnFrames, SeqMonotonic
<1>7. pending' \in [Devices -> Seq(Frame \ NoteFrame)]
  BY <1>4, <1>6
<1>8. inbox' \in [Devices -> Seq(Frame)]
  BY <1>2, EmptySeq
<1>9. ASSUME NEW e \in Devices PROVE Channel(e)' /\ BeatOwn(e)'
  <2>1. inbox'[e] = <<>> /\ Off(e)' = 1 /\ Down(e)' = 1
    BY <1>2 DEF Off, Down
  <2>2. Follows(<<>>) /\ <<>> \in Seq(FrameOf(e)) /\ Ends(<<>>, 1) /\ Begins(<<>>, 1)
    BY EmptySeq DEF Follows, Ends, Begins
  <2>3. QED
    BY <1>1, <1>2, <1>5, <2>1, <2>2 DEF Channel, BeatOwn
<1>10. Sound(Tables)' /\ MgrIssueAgrees' /\ CopySound'
  <2>1. /\ listed' \in {{}, Named(saved)} /\ stray' \in {{}, Named(saved)}
        /\ Named(saved) \subseteq Modules
        /\ \/ listed' \subseteq stray'
           \/ listed' = Named(saved) /\ expected' = saved
        /\ expected' \in [Modules -> Wanted]
        /\ slot' \in [Modules -> {"none", "null", "bool"}]
        /\ \A m \in Modules : expected'[m] # "none" => slot'[m] # "none"
    BY <1>1, <1>2 DEF LoadConfigMap, Written, Named, Nowhere, Wanted, Flaws
  <2>2. \A m \in Named(saved) : saved[m] \in {"on", "off"}
    BY <1>1 DEF Named, Wanted
  <2>3. \A m \in listed' : Fits(Tables, m)'
    BY <2>1, <2>2 DEF Fits, Tables
  <2>4. Sound(Tables)'
    BY <1>2, <2>1, <2>3 DEF Sound, Tables
  <2>5. QED
    BY <1>2, <2>4 DEF MgrIssueAgrees, CopySound
<1>11. QED
  BY <1>1, <1>2, <1>7, <1>8, <1>9, <1>10, Together

\* The invariant holds at first.
LEMMA CloudInvHolds == Init => CloudInv
<1> SUFFICES ASSUME Init PROVE CloudInv
  OBVIOUS
<1>1. \A s : <<>> \in Seq(s)
  BY EmptySeq
<1>2. TypeOK
  BY <1>1, CloudStatusAssumption DEF Init, TypeOK, Flaws, Named, Wanted
<1>3. ASSUME NEW d \in Devices PROVE Channel(d) /\ BeatOwn(d)
  <2>1. inbox[d] = <<>> /\ pending[d] = <<>> /\ beat[d] = <<>> /\ Off(d) = 1 /\ Down(d) = 1
    BY <1>3 DEF Init, Off, Down
  <2>2. Follows(<<>>) /\ Ends(<<>>, 1) /\ Begins(<<>>, 1)
    BY EmptySeq DEF Follows, Ends, Begins
  <2>3. QED
    BY <1>1, <2>1, <2>2 DEF Channel, BeatOwn
<1>4. Sound(Tables) /\ MgrIssueAgrees /\ CopySound
  <2>1. /\ InitConfig \in [Modules -> Wanted] /\ Named(InitConfig) \subseteq Modules
        /\ \A m \in Named(InitConfig) : InitConfig[m] \in {"on", "off"}
    BY CloudStatusAssumption DEF Named, Wanted
  <2>2. /\ online = {} /\ current = {} /\ issues = {} /\ stray = {} /\ job = "idle"
        /\ listed = Named(InitConfig) /\ expected = InitConfig
        /\ slot = [m \in Modules |-> IF InitConfig[m] = "none" THEN "none" ELSE "bool"]
    BY DEF Init
  <2>3. \A m \in listed : Fits(Tables, m)
    BY <2>1, <2>2 DEF Fits, Tables
  <2>4. Sound(Tables)
    BY <2>1, <2>2, <2>3 DEF Sound, Tables
  <2>5. QED
    BY <2>2, <2>4 DEF MgrIssueAgrees, CopySound
<1>5. QED
  BY <1>2, <1>3, <1>4 DEF CloudInv

LEMMA CloudInvInvariant == Spec => []CloudInv
<1>1. Init => CloudInv
  BY CloudInvHolds
<1>2. CloudInv /\ [Next]_vars => CloudInv'
  <2> SUFFICES ASSUME CloudInv, [Next]_vars PROVE CloudInv'
    OBVIOUS
  <2>1. CASE \E m \in Modules : ModuleUp(m) \/ ModuleDown(m) \/ Relay(m)
    BY <2>1, DeviceKeeps DEF ModuleUp, ModuleDown, Relay
  <2>2. CASE \E d \in Devices : \/ ComposeBeat(d) \/ SendBeat(d)
                                \/ Connect(d) \/ Drop(d) \/ ResetDealer(d) \/ Reboot(d)
    BY <2>2, DeviceKeeps DEF ComposeBeat, SendBeat, Connect, Drop, ResetDealer, Reboot
  <2>3. CASE \E d \in Devices : HandleMsg(d)
    BY <2>3, HandleKeeps
  <2>4. CASE BeginConfig \/ EndConfig \/ UndoConfig
    BY <2>4, ConfigKeeps
  <2>5. CASE Restart
    BY <2>5, RestartKeeps
  <2>6. CASE UNCHANGED vars
    <3>1. UNCHANGED <<tables, posting, undone>> /\ \A d \in Devices : BeatOwn(d)'
      BY <2>6 DEF vars, tables, status, posting, CloudInv, BeatOwn
    <3>2. \A d \in Devices : Channel(d)'
      BY <2>6, SameKeeps DEF vars
    <3>3. QED
      BY <2>6, <3>1, <3>2, CopySame, TablesSame, Together DEF vars, CloudInv, TypeOK
  <2>7. QED
    BY <2>1, <2>2, <2>3, <2>4, <2>5, <2>6 DEF Next
<1>3. QED
  BY <1>1, <1>2, PTL DEF Spec

--------------------------------------------------------------------------------
(* What is shown of a module that is down *)

\* The cloud takes m for running when it reads f, or for not running.
Revives(f, m) ==
    \/ f.kind = "report" /\ f.mod = m /\ ~f.active /\ f.cat \in Reviving
    \/ f.kind = "ping" /\ m \in f.mods

Silences(f, m) ==
    \/ f.kind = "disconnect"
    \/ f.kind = "report" /\ f.mod = m /\ f.active /\ f.cat = "AV_MODOFFLINE"

\* Whatever revives m in q is put right behind it.
Answered(q, m) ==
    \A i \in 1..Len(q) : Revives(q[i], m) => \E j \in i+1..Len(q) : Silences(q[j], m)

\* Something in q is still to say that m is down.
ToCome(q, m) == \E j \in 1..Len(q) : Silences(q[j], m)

\* Modules that are down and that nothing has declared up since.
Gone == Modules \ (up \cup outrun)

Told(m) == Answered(inbox[Host[m]], m) /\ Answered(pending[Host[m]], m)

AwaitsEnd(m) == ~undone /\ Host[m] = Mgr /\ m \in current => ToCome(inbox[Mgr], m)

\* The socket of a device that is connected keeps nothing.
NothingKept == \A d \in connected : pending[d] = <<>>

ShownInv ==
    /\ CloudInv
    /\ NothingKept
    /\ \A m \in Gone : Told(m) /\ AwaitsEnd(m)

\* No message both revives a module and silences it.
LEMMA NotBoth == ASSUME NEW f, NEW m, Silences(f, m) PROVE ~Revives(f, m)
BY DEF Silences, Revives, Reviving

\* One message more.
LEMMA OneMoreAnswered ==
    ASSUME NEW S, NEW q \in Seq(S), NEW f \in S, NEW m
    PROVE  /\ ~Revives(f, m) /\ Answered(q, m) => Answered(Append(q, f), m)
           /\ ToCome(q, m) => ToCome(Append(q, f), m)
           /\ Silences(f, m) => Answered(Append(q, f), m) /\ ToCome(Append(q, f), m)
<1> DEFINE r == Append(q, f)
           n == Len(q)
<1>1. /\ n \in Nat /\ Len(r) = n + 1 /\ r[n + 1] = f
      /\ \A i \in 1..n : r[i] = q[i]
  BY AppendProperties, LenProperties
<1> HIDE DEF r, n
<1>2. ASSUME ~Revives(f, m), Answered(q, m), NEW i \in 1..Len(r), Revives(r[i], m)
      PROVE  \E j \in i+1..Len(r) : Silences(r[j], m)
  <2>1. i \in 1..n /\ Revives(q[i], m)
    BY <1>1, <1>2
  <2>2. PICK j \in i+1..n : Silences(q[j], m)
    BY <1>2, <2>1 DEF Answered, n
  <2>3. j \in i+1..Len(r) /\ r[j] = q[j]
    BY <1>1, <2>1, <2>2
  <2>4. QED
    BY <2>2, <2>3
<1>3. ASSUME ToCome(q, m) PROVE ToCome(r, m)
  BY <1>1, <1>3 DEF ToCome, n
<1>4. ASSUME Silences(f, m) PROVE Answered(r, m) /\ ToCome(r, m)
  <2>1. n + 1 \in 1..Len(r) /\ Silences(r[n + 1], m)
    BY <1>1, <1>4
  <2>2. ASSUME NEW i \in 1..Len(r), Revives(r[i], m)
        PROVE  \E j \in i+1..Len(r) : Silences(r[j], m)
    <3>1. i # n + 1
      BY <1>1, <1>4, <2>2, NotBoth
    <3>2. n + 1 \in i+1..Len(r)
      BY <1>1, <3>1
    <3>3. QED
      BY <2>1, <3>2
  <2>3. QED
    BY <2>1, <2>2 DEF Answered, ToCome
<1>5. QED
  BY <1>2, <1>3, <1>4 DEF Answered, r

\* What a socket has kept, behind what has arrived.
LEMMA BothAnswered ==
    ASSUME NEW S, NEW q \in Seq(S), NEW p \in Seq(S), NEW m
    PROVE  /\ Answered(q, m) /\ Answered(p, m) => Answered(q \o p, m)
           /\ ToCome(q, m) => ToCome(q \o p, m)
<1> DEFINE r == q \o p
<1>1. /\ Len(q) \in Nat /\ Len(p) \in Nat /\ Len(r) = Len(q) + Len(p)
      /\ \A i \in 1..Len(q) + Len(p) : r[i] = IF i <= Len(q) THEN q[i] ELSE p[i - Len(q)]
  BY LenProperties, ConcatProperties
<1> HIDE DEF r
<1>2. /\ \A i \in 1..Len(q) : i \in 1..Len(r) /\ r[i] = q[i]
      /\ \A i \in 1..Len(p) : i + Len(q) \in 1..Len(r) /\ r[i + Len(q)] = p[i]
      /\ \A i \in 1..Len(r) : i \in 1..Len(q) \/ (i - Len(q) \in 1..Len(p) /\ r[i] = p[i - Len(q)])
  <2>1. ASSUME NEW i \in 1..Len(q) PROVE i \in 1..Len(r) /\ r[i] = q[i]
    BY <1>1
  <2>2. ASSUME NEW i \in 1..Len(p) PROVE i + Len(q) \in 1..Len(r) /\ r[i + Len(q)] = p[i]
    <3>1. i + Len(q) \in 1..Len(q) + Len(p) /\ ~(i + Len(q) <= Len(q)) /\ i + Len(q) - Len(q) = i
      BY <1>1
    <3>2. QED
      BY <1>1, <3>1
  <2>3. ASSUME NEW i \in 1..Len(r)
        PROVE  i \in 1..Len(q) \/ (i - Len(q) \in 1..Len(p) /\ r[i] = p[i - Len(q)])
    <3>1. i \in 1..Len(q) + Len(p) /\ (~(i <= Len(q)) => i - Len(q) \in 1..Len(p))
      BY <1>1
    <3>2. CASE i <= Len(q)
      BY <3>1, <3>2
    <3>3. CASE ~(i <= Len(q))
      BY <1>1, <3>1, <3>3
    <3>4. QED
      BY <3>2, <3>3
  <2>4. QED
    BY <2>1, <2>2, <2>3
<1>3. ASSUME ToCome(q, m) PROVE ToCome(r, m)
  BY <1>2, <1>3 DEF ToCome
<1>4. ASSUME Answered(q, m), Answered(p, m), NEW i \in 1..Len(r), Revives(r[i], m)
      PROVE  \E j \in i+1..Len(r) : Silences(r[j], m)
  <2>1. CASE i \in 1..Len(q)
    <3>1. PICK j \in i+1..Len(q) : Silences(q[j], m)
      BY <1>2, <1>4, <2>1 DEF Answered
    <3>2. j \in 1..Len(q) /\ j \in i+1..Len(r)
      BY <1>1, <2>1, <3>1
    <3>3. QED
      BY <1>2, <3>1, <3>2
  <2>2. CASE i - Len(q) \in 1..Len(p) /\ r[i] = p[i - Len(q)]
    <3>1. PICK j \in i-Len(q)+1..Len(p) : Silences(p[j], m)
      BY <1>4, <2>2 DEF Answered
    <3>2. j \in 1..Len(p) /\ j + Len(q) \in i+1..Len(r)
      BY <1>1, <2>2, <3>1
    <3>3. QED
      BY <1>2, <3>1, <3>2
  <2>3. QED
    BY <1>2, <2>1, <2>2
<1>5. QED
  BY <1>3, <1>4 DEF Answered, r

\* The first message is read.
LEMMA TailAnswered ==
    ASSUME NEW S, NEW q \in Seq(S), q # <<>>, NEW m, Answered(q, m)
    PROVE  /\ Answered(Tail(q), m)
           /\ Revives(Head(q), m) => ToCome(Tail(q), m)
           /\ ToCome(q, m) /\ ~Silences(Head(q), m) => ToCome(Tail(q), m)
<1> DEFINE t == Tail(q)
<1>1. /\ Len(q) \in Nat /\ Len(q) >= 1 /\ Len(t) = Len(q) - 1 /\ Head(q) = q[1]
      /\ \A i \in 1..Len(t) : t[i] = q[i + 1]
  BY LenProperties, EmptySeq, HeadTailProperties
<1> HIDE DEF t
<1>2. \A j \in 2..Len(q) : j - 1 \in 1..Len(t) /\ t[j - 1] = q[j]
  <2> TAKE j \in 2..Len(q)
  <2>1. j - 1 \in 1..Len(t) /\ (j - 1) + 1 = j
    BY <1>1
  <2>2. QED
    BY <1>1, <2>1
<1>3. ASSUME NEW i \in 1..Len(t), Revives(t[i], m)
      PROVE  \E j \in i+1..Len(t) : Silences(t[j], m)
  <2>1. i + 1 \in 1..Len(q) /\ Revives(q[i + 1], m)
    BY <1>1, <1>3
  <2>2. PICK j \in (i + 1)+1..Len(q) : Silences(q[j], m)
    BY <2>1 DEF Answered
  <2>3. j \in 2..Len(q) /\ j - 1 \in i+1..Len(t)
    BY <1>1, <2>1, <2>2
  <2>4. QED
    BY <1>2, <2>2, <2>3
<1>4. ASSUME Revives(Head(q), m) PROVE ToCome(t, m)
  <2>1. PICK j \in 1+1..Len(q) : Silences(q[j], m)
    BY <1>1, <1>4 DEF Answered
  <2>2. j \in 2..Len(q)
    BY <2>1
  <2>3. QED
    BY <1>2, <2>1, <2>2 DEF ToCome
<1>5. ASSUME ToCome(q, m), ~Silences(Head(q), m) PROVE ToCome(t, m)
  <2>1. PICK j \in 1..Len(q) : Silences(q[j], m)
    BY <1>5 DEF ToCome
  <2>2. j \in 2..Len(q)
    BY <1>1, <1>5, <2>1
  <2>3. QED
    BY <1>2, <2>1, <2>2 DEF ToCome
<1>6. QED
  BY <1>3, <1>4, <1>5 DEF Answered, t

\* What is left in the socket of a lost connection.
LEMMA AfterAnswered ==
    ASSUME NEW S, NEW d, inbox[d] \in Seq(S), NEW j \in 0..Len(inbox[d]), NEW m,
           Answered(inbox[d], m)
    PROVE  Answered(After(d, j), m)
<1> DEFINE q == inbox[d]
           r == After(d, j)
<1>1. Len(q) \in Nat /\ \A i \in j+1..Len(q) : q[i] \in S
  <2>1. Len(q) \in Nat /\ \A i \in 1..Len(q) : q[i] \in S
    BY LenProperties, ElementOfSeq
  <2>2. \A i \in j+1..Len(q) : i \in 1..Len(q)
    BY <2>1
  <2>3. QED
    BY <2>1, <2>2
<1>2. /\ Len(r) = Len(q) - j
      /\ \A i \in 1..Len(q) - j : r[i] = q[j + i]
  BY <1>1, SubSeqProperties DEF After
<1> HIDE DEF q, r
<1>3. ASSUME NEW i \in 1..Len(r), Revives(r[i], m)
      PROVE  \E k \in i+1..Len(r) : Silences(r[k], m)
  <2>1. j + i \in 1..Len(q) /\ Revives(q[j + i], m)
    BY <1>1, <1>2, <1>3 DEF q
  <2>2. PICK k \in (j + i)+1..Len(q) : Silences(q[k], m)
    BY <2>1 DEF Answered, q
  <2>3. k - j \in i+1..Len(r) /\ k - j \in 1..Len(q) - j /\ j + (k - j) = k
    BY <1>1, <1>2, <2>1, <2>2
  <2>4. QED
    BY <1>2, <2>2, <2>3
<1>4. QED
  BY <1>3 DEF Answered, r

\* A queue that is empty or ends with the end of the connection says all.
LEMMA EndAnswers ==
    ASSUME NEW S, NEW q \in Seq(S), NEW m, Ends(q, 1)
    PROVE  Answered(q, m) /\ (q # <<>> => ToCome(q, m))
<1>1. CASE q = <<>>
  BY <1>1, EmptySeq DEF Answered
<1>2. CASE q # <<>>
  <2>1. Len(q) \in Nat /\ Len(q) \in 1..Len(q)
    BY <1>2, LenProperties, EmptySeq
  <2>2. Silences(q[Len(q)], m)
    BY <1>2 DEF Ends, Silences
  <2>3. ASSUME NEW i \in 1..Len(q), Revives(q[i], m) PROVE Len(q) \in i+1..Len(q)
    <3>1. i # Len(q)
      BY <2>2, <2>3, NotBoth
    <3>2. QED
      BY <2>1, <3>1
  <2>4. QED
    BY <2>1, <2>2, <2>3 DEF Answered, ToCome
<1>3. QED
  BY <1>1, <1>2

\* Of a module whose device is not connected the end has been read or is unread.
LEMMA DisconnectedShown ==
    ASSUME CloudInv, NEW m \in Modules, Host[m] \notin connected
    PROVE  Answered(inbox[Host[m]], m) /\ AwaitsEnd(m)
<1> DEFINE d == Host[m]
<1>1. d \in Devices
  BY CloudStatusAssumption
<1>2. Channel(d) /\ Down(d) = 1
  BY <1>1 DEF CloudInv, Down
<1>3. Answered(inbox[d], m) /\ (inbox[d] # <<>> => ToCome(inbox[d], m))
  BY <1>2, EndAnswers DEF Channel
<1>4. ASSUME ~undone, d = Mgr, m \in current PROVE inbox[d] # <<>>
  <2>1. Off(d) = 0
    BY <1>4 DEF CloudInv, Sound, Off, Tables, Has, Fits
  <2>2. QED
    BY <1>2, <1>4, <2>1 DEF Channel
<1>5. QED
  BY <1>3, <1>4 DEF AwaitsEnd

\* A message that does not revive m is sent, or one that says m is down.
LEMMA SendShown ==
    ASSUME CloudInv, NothingKept, NEW d \in Devices, NEW f \in FrameOf(d) \ NoteFrame, SendToCloud(d, f),
           UNCHANGED <<current, undone>>, NEW m \in Modules,
           \/ Told(m) /\ AwaitsEnd(m) /\ (Host[m] = d => ~Revives(f, m))
           \/ Host[m] = d /\ Silences(f, m)
    PROVE  Told(m)' /\ AwaitsEnd(m)'
<1> DEFINE h == Host[m]
<1>1. /\ inbox \in [Devices -> Seq(Frame)] /\ pending \in [Devices -> Seq(Frame \ NoteFrame)]
      /\ h \in Devices /\ Mgr \in Devices /\ f \in Frame /\ f \in Frame \ NoteFrame
  BY CloudStatusAssumption, OwnFrames DEF CloudInv, TypeOK
<1>2. CASE h # d
  <2>1. inbox'[h] = inbox[h] /\ pending'[h] = pending[h]
    BY <1>1, <1>2 DEF SendToCloud
  <2>2. Told(m) /\ AwaitsEnd(m)
    BY <1>2
  <2>3. QED
    BY <2>1, <2>2 DEF Told, AwaitsEnd
<1>3. CASE h = d /\ d \in connected
  <2>1. inbox'[d] = Append(inbox[d], f) /\ pending' = pending
    BY <1>1, <1>3 DEF SendToCloud
  <2>2. /\ ~Revives(f, m) /\ Answered(inbox[d], m) => Answered(inbox'[d], m)
        /\ ToCome(inbox[d], m) => ToCome(inbox'[d], m)
        /\ Silences(f, m) => Answered(inbox'[d], m) /\ ToCome(inbox'[d], m)
    <3>1. inbox[d] \in Seq(Frame)
      BY <1>1
    <3>2. QED
      BY <1>1, <2>1, <3>1, OneMoreAnswered
  <2>3. Answered(pending[d], m)
    BY <1>3, EmptySeq DEF NothingKept, Answered
  <2>4. QED
    BY <1>3, <2>1, <2>2, <2>3 DEF Told, AwaitsEnd
<1>4. CASE h = d /\ d \notin connected
  <2>1. pending'[d] = Append(pending[d], f) /\ inbox' = inbox
    BY <1>1, <1>4 DEF SendToCloud
  <2>2. /\ ~Revives(f, m) /\ Answered(pending[d], m) => Answered(pending'[d], m)
        /\ Silences(f, m) => Answered(pending'[d], m)
    <3>1. pending[d] \in Seq(Frame \ NoteFrame)
      BY <1>1
    <3>2. QED
      BY <1>1, <2>1, <3>1, OneMoreAnswered
  <2>3. Answered(inbox[d], m) /\ AwaitsEnd(m)
    BY <1>4, DisconnectedShown
  <2>4. QED
    BY <1>4, <2>1, <2>2, <2>3 DEF Told, AwaitsEnd
<1>5. QED
  BY <1>2, <1>3, <1>4

\* A device connects: what its socket kept comes behind what has arrived.
LEMMA ConnectShown ==
    ASSUME CloudInv, NEW d \in Devices, Connect(d), NEW m \in Modules, Told(m), AwaitsEnd(m)
    PROVE  Told(m)' /\ AwaitsEnd(m)'
<1> DEFINE h == Host[m]
           a == Append(inbox[d], Note("connect"))
<1>1. /\ inbox \in [Devices -> Seq(Frame)] /\ pending \in [Devices -> Seq(Frame \ NoteFrame)]
      /\ h \in Devices
      /\ inbox' = [inbox EXCEPT ![d] = a \o pending[d]]
      /\ pending' = [pending EXCEPT ![d] = <<>>]
      /\ UNCHANGED <<current, undone>>
  BY CloudStatusAssumption DEF CloudInv, TypeOK, Connect, tables, status
<1>2. CASE h # d
  <2>1. inbox'[h] = inbox[h] /\ pending'[h] = pending[h]
    BY <1>1, <1>2
  <2>2. QED
    BY <1>1, <2>1 DEF Told, AwaitsEnd
<1>3. CASE h = d
  <2>1. inbox'[d] = a \o pending[d] /\ pending'[d] = <<>>
    BY <1>1
  <2>2. Note("connect") \in Frame /\ ~Revives(Note("connect"), m)
    BY DEF Note, Frame, NoteFrame, Revives
  <2>3. inbox[d] \in Seq(Frame) /\ pending[d] \in Seq(Frame)
    BY <1>1, SeqMonotonic
  <2>4. /\ a \in Seq(Frame)
        /\ Answered(inbox[d], m) => Answered(a, m)
        /\ ToCome(inbox[d], m) => ToCome(a, m)
    BY <2>2, <2>3, AppendProperties, OneMoreAnswered
  <2> HIDE DEF a
  <2>5. /\ Answered(a, m) /\ Answered(pending[d], m) => Answered(a \o pending[d], m)
        /\ ToCome(a, m) => ToCome(a \o pending[d], m)
    BY <2>3, <2>4, BothAnswered
  <2>6. Answered(<<>>, m)
    BY EmptySeq DEF Answered
  <2>7. QED
    BY <1>1, <1>3, <2>1, <2>4, <2>5, <2>6 DEF Told, AwaitsEnd
<1>4. QED
  BY <1>2, <1>3

\* A connection ends, or the socket without one is emptied.
LEMMA CutShown ==
    ASSUME CloudInv, NEW d \in Devices, UNCHANGED <<current, undone>>, NEW m \in Modules,
           Host[m] # d => Told(m) /\ AwaitsEnd(m),
           \/ /\ d \in connected
              /\ \E i \in Cuts(d) :
                    \/ Cut(d, i, <<>>)
                    \/ Told(m) /\ \E j \in Cuts(d) : Cut(d, i, After(d, j))
           \/ /\ d \notin connected
              /\ pending' = [pending EXCEPT ![d] = <<>>]
              /\ UNCHANGED <<connected, inbox>>
    PROVE  Told(m)' /\ AwaitsEnd(m)'
<1> DEFINE h == Host[m]
<1>1. /\ inbox \in [Devices -> Seq(Frame)] /\ pending \in [Devices -> Seq(Frame \ NoteFrame)]
      /\ h \in Devices
  BY CloudStatusAssumption DEF CloudInv, TypeOK
<1>2. CASE h # d
  <2>1. inbox'[h] = inbox[h] /\ pending'[h] = pending[h]
    BY <1>1, <1>2 DEF Cut
  <2>2. QED
    BY <1>2, <2>1 DEF Told, AwaitsEnd
<1>3. Answered(<<>>, m)
  BY EmptySeq DEF Answered
<1>4. CASE h = d /\ d \in connected
  <2> DEFINE e(i) == Append(SubSeq(inbox[d], 1, i), Note("disconnect"))
  <2>1. PICK i \in Cuts(d) : \/ Cut(d, i, <<>>)
                             \/ Told(m) /\ \E j \in Cuts(d) : Cut(d, i, After(d, j))
    BY <1>4
  <2>2. inbox'[d] = e(i)
    BY <1>1, <2>1 DEF Cut
  <2>3. SubSeq(inbox[d], 1, i) \in Seq(Frame)
    <3>1. Len(inbox[d]) \in Nat /\ i \in 0..Len(inbox[d]) /\ inbox[d] \in Seq(Frame)
      BY <1>1, LenProperties DEF Cuts
    <3>2. \A k \in 1..i : inbox[d][k] \in Frame
      <4>1. \A k \in 1..Len(inbox[d]) : inbox[d][k] \in Frame
        BY <3>1, ElementOfSeq
      <4>2. QED
        BY <3>1, <4>1
    <3>3. QED
      BY <3>1, <3>2, SubSeqProperties
  <2>4. Note("disconnect") \in Frame /\ Silences(Note("disconnect"), m)
    BY DEF Note, Frame, NoteFrame, Silences
  <2>5. Answered(e(i), m) /\ ToCome(e(i), m)
    BY <2>3, <2>4, OneMoreAnswered
  <2>6. Answered(pending'[d], m)
    <3>1. CASE Cut(d, i, <<>>)
      BY <1>1, <1>3, <3>1 DEF Cut
    <3>2. CASE Told(m) /\ \E j \in Cuts(d) : Cut(d, i, After(d, j))
      <4>1. PICK j \in Cuts(d) : Cut(d, i, After(d, j))
        BY <3>2
      <4>2. Answered(After(d, j), m)
        <5>1. inbox[d] \in Seq(Frame) /\ j \in 0..Len(inbox[d]) /\ Answered(inbox[d], m)
          BY <1>1, <1>4, <3>2 DEF Cuts, Told
        <5>2. QED
          BY <5>1, AfterAnswered
      <4>3. QED
        BY <1>1, <4>1, <4>2 DEF Cut
    <3>3. QED
      BY <2>1, <3>1, <3>2
  <2> HIDE DEF e
  <2>7. QED
    BY <1>4, <2>2, <2>5, <2>6 DEF Told, AwaitsEnd
<1>5. CASE h = d /\ d \notin connected
  <2>1. Answered(inbox[d], m) /\ AwaitsEnd(m)
    BY <1>5, DisconnectedShown
  <2>2. inbox' = inbox /\ pending'[d] = <<>>
    BY <1>1, <1>5
  <2>3. QED
    BY <1>3, <1>5, <2>1, <2>2 DEF Told, AwaitsEnd
<1>6. QED
  BY <1>2, <1>4, <1>5

\* The steps of the devices and of the connections.
LEMMA DeviceShown ==
    ASSUME ShownInv, UNCHANGED <<tables, posting, undone>>,
           \/ \E m \in Modules : ModuleUp(m) \/ ModuleDown(m) \/ Relay(m)
           \/ \E d \in Devices : \/ ComposeBeat(d) \/ SendBeat(d)
                                 \/ Connect(d) \/ Drop(d) \/ ResetDealer(d) \/ Reboot(d)
    PROVE  NothingKept' /\ \A m \in Gone' : Told(m)' /\ AwaitsEnd(m)'
<1>1. /\ CloudInv /\ NothingKept /\ UNCHANGED <<current, undone>>
      /\ \A m \in Gone : Told(m) /\ AwaitsEnd(m)
      /\ up \subseteq Modules /\ connected \subseteq Devices
      /\ inbox \in [Devices -> Seq(Frame)] /\ pending \in [Devices -> Seq(Frame \ NoteFrame)]
      /\ Host \in [Modules -> Devices]
  BY CloudStatusAssumption DEF ShownInv, CloudInv, TypeOK, tables, status
<1>2. ASSUME NEW d \in Devices, NEW f, SendToCloud(d, f), connected' = connected PROVE NothingKept'
  BY <1>1, <1>2 DEF SendToCloud, NothingKept
<1>3. ASSUME NEW n \in Modules, ModuleUp(n) \/ ModuleDown(n) \/ Relay(n)
      PROVE  NothingKept' /\ \A m \in Gone' : Told(m)' /\ AwaitsEnd(m)'
  <2>1. CASE ModuleDown(n)
    <3>1. /\ SendToCloud(Host[n], Report(n, "AV_MODOFFLINE", TRUE))
          /\ up' = up \ {n} /\ outrun' = outrun /\ connected' = connected
      BY <2>1 DEF ModuleDown
    <3>2. /\ Report(n, "AV_MODOFFLINE", TRUE) \in FrameOf(Host[n]) \ NoteFrame
          /\ Host[n] \in Devices
      BY <1>1, ReportIsOwn DEF Categories
    <3>3. Silences(Report(n, "AV_MODOFFLINE", TRUE), n)
      BY DEF Silences, Report
    <3>4. \A m : ~Revives(Report(n, "AV_MODOFFLINE", TRUE), m)
      BY DEF Revives, Report
    <3>5. ASSUME NEW m \in Gone' PROVE Told(m)' /\ AwaitsEnd(m)'
      <4>1. m \in Modules /\ (m = n \/ m \in Gone)
        BY <1>1, <3>1, <3>5 DEF Gone
      <4>2. CASE m = n
        BY <1>1, <3>1, <3>2, <3>3, <4>2, SendShown
      <4>3. CASE m \in Gone
        BY <1>1, <3>1, <3>2, <3>4, <4>1, <4>3, SendShown
      <4>4. QED
        BY <4>1, <4>2, <4>3
    <3>6. QED
      BY <1>2, <3>1, <3>2, <3>5
  <2>2. CASE ModuleUp(n) \/ Relay(n)
    <3>1. PICK c \in Categories, a \in BOOLEAN : SendToCloud(Host[n], Report(n, c, a))
      BY <2>2 DEF ModuleUp, Relay, Categories
    <3>2. Report(n, c, a) \in FrameOf(Host[n]) \ NoteFrame /\ Host[n] \in Devices
      BY <1>1, ReportIsOwn
    <3>3. /\ n \in up' /\ up \subseteq up' /\ connected' = connected
          /\ outrun' = outrun \/ outrun' = outrun \ {n}
      BY <2>2 DEF ModuleUp, Relay
    <3>4. ASSUME NEW m \in Gone' PROVE Told(m)' /\ AwaitsEnd(m)'
      <4>1. m \in Gone /\ m \in Modules /\ m # n
        BY <3>3, <3>4 DEF Gone
      <4>2. ~Revives(Report(n, c, a), m)
        BY <4>1 DEF Revives, Report
      <4>3. QED
        BY <1>1, <3>1, <3>2, <4>1, <4>2, SendShown
    <3>5. QED
      BY <1>2, <3>1, <3>2, <3>3, <3>4
  <2>3. QED
    BY <1>3, <2>1, <2>2
<1>4. ASSUME NEW d \in Devices, ComposeBeat(d)
      PROVE  NothingKept' /\ \A m \in Gone' : Told(m)' /\ AwaitsEnd(m)'
  BY <1>1, <1>4 DEF ComposeBeat, NothingKept, Gone, Told, AwaitsEnd
<1>5. ASSUME NEW d \in Devices, SendBeat(d)
      PROVE  NothingKept' /\ \A m \in Gone' : Told(m)' /\ AwaitsEnd(m)'
  <2> DEFINE f == Ping(Head(beat[d]))
  <2>1. /\ beat[d] # <<>> /\ SendToCloud(d, f) /\ up' = up /\ connected' = connected
        /\ outrun' = outrun \cup (Head(beat[d]) \ up)
    BY <1>5 DEF SendBeat
  <2>2. f \in FrameOf(d) \ NoteFrame
    BY <1>1, <2>1, BeatIsOwn
  <2>3. ASSUME NEW m \in Gone' PROVE Told(m)' /\ AwaitsEnd(m)'
    <3>1. m \in Gone /\ m \in Modules /\ m \notin Head(beat[d])
      BY <2>1, <2>3 DEF Gone
    <3>2. ~Revives(f, m)
      BY <3>1 DEF Revives, Ping
    <3> HIDE DEF f
    <3>3. QED
      BY <1>1, <2>1, <2>2, <3>1, <3>2, SendShown
  <2>4. QED
    BY <1>2, <2>1, <2>3
<1>6. ASSUME NEW d \in Devices, Connect(d)
      PROVE  NothingKept' /\ \A m \in Gone' : Told(m)' /\ AwaitsEnd(m)'
  <2>1. /\ up' = up /\ outrun' = outrun /\ connected' = connected \cup {d}
        /\ pending' = [pending EXCEPT ![d] = <<>>]
    BY <1>6 DEF Connect
  <2>2. ASSUME NEW m \in Gone' PROVE Told(m)' /\ AwaitsEnd(m)'
    <3>1. m \in Gone /\ m \in Modules
      BY <2>1, <2>2 DEF Gone
    <3>2. QED
      BY <1>1, <1>6, <3>1, ConnectShown
  <2>3. NothingKept'
    BY <1>1, <2>1 DEF NothingKept
  <2>4. QED
    BY <2>2, <2>3
<1>7. ASSUME NEW d \in Devices, Drop(d) \/ ResetDealer(d) \/ Reboot(d)
      PROVE  NothingKept' /\ \A m \in Gone' : Told(m)' /\ AwaitsEnd(m)'
  <2>1. \/ /\ d \in connected
           /\ \E i \in Cuts(d) :
                 \/ Cut(d, i, <<>>)
                 \/ up' = up /\ \E j \in Cuts(d) : Cut(d, i, After(d, j))
        \/ /\ d \notin connected
           /\ pending' = [pending EXCEPT ![d] = <<>>]
           /\ UNCHANGED <<connected, inbox>>
    <3>1. CASE Drop(d)
      <4>1. d \in connected /\ up' = up
        BY <3>1 DEF Drop
      <4>2. PICK i \in Cuts(d) : \E j \in i..Len(inbox[d]) : Cut(d, i, After(d, j))
        BY <3>1 DEF Drop
      <4>3. PICK j \in i..Len(inbox[d]) : Cut(d, i, After(d, j))
        BY <4>2
      <4>4. j \in Cuts(d)
        <5>1. Len(inbox[d]) \in Nat
          BY <1>1, LenProperties
        <5>2. QED
          BY <5>1 DEF Cuts
      <4>5. QED
        BY <4>1, <4>3, <4>4
    <3>2. CASE ResetDealer(d) \/ Reboot(d)
      BY <3>2 DEF ResetDealer, Reboot
    <3>3. QED
      BY <1>7, <3>1, <3>2
  <2>2. outrun' = outrun /\ \A m \in up \ up' : Host[m] = d
    BY <1>7 DEF Drop, ResetDealer, Reboot
  <2>3. NothingKept'
    BY <1>1, <2>1 DEF NothingKept, Cut
  <2>4. ASSUME NEW m \in Gone' PROVE Told(m)' /\ AwaitsEnd(m)'
    <3>1. m \in Modules /\ (m \in Gone \/ (m \in up \ up' /\ Host[m] = d))
      BY <2>2, <2>4 DEF Gone
    <3>2. /\ Host[m] # d => Told(m) /\ AwaitsEnd(m)
          /\ up' = up => Told(m)
      BY <1>1, <3>1
    <3>3. \/ /\ d \in connected
             /\ \E i \in Cuts(d) :
                   \/ Cut(d, i, <<>>)
                   \/ Told(m) /\ \E j \in Cuts(d) : Cut(d, i, After(d, j))
          \/ /\ d \notin connected
             /\ pending' = [pending EXCEPT ![d] = <<>>]
             /\ UNCHANGED <<connected, inbox>>
      BY <2>1, <3>2
    <3>4. QED
      BY <1>1, <3>1, <3>2, <3>3, CutShown
  <2>5. QED
    BY <2>3, <2>4
<1>8. QED
  BY <1>3, <1>4, <1>5, <1>6, <1>7

\* What a message does to a module that is shown running.
LEMMA HandledShown ==
    ASSUME CloudInv, NEW d \in Devices, HandleMsg(d), NEW m \in current'
    PROVE  \/ m \notin current /\ Host[m] = d /\ Revives(Head(inbox[d]), m)
           \/ m \in current /\ (~undone /\ Host[m] = d /\ d = Mgr => ~Silences(Head(inbox[d]), m))
<1> DEFINE f == Head(inbox[d])
<1>1. inbox[d] # <<>> /\ inbox[d] \in Seq(FrameOf(d)) /\ Channel(d)
  BY DEF HandleMsg, HandleConnection, HandleReport, HandlePing, CloudInv, Channel
<1>2. f = inbox[d][1] /\ f \in FrameOf(d) /\ (~undone => (f.kind = "connect" <=> Off(d) = 1))
  <2>1. f = inbox[d][1] /\ f \in FrameOf(d)
    BY <1>1, HeadTailProperties, EmptySeq, ElementOfSeq, LenProperties
  <2>2. QED
    BY <1>1, <2>1 DEF Channel, Begins
<1> HIDE DEF f
<1>3. /\ m \in current => m \in Modules /\ HasStatus
      /\ m \in current => Known(m)
  BY DEF CloudInv, Sound, Tables, Has, HasStatus, Known
<1>4. CASE HandleConnection(d)
  <2>1. /\ f.kind \in {"connect", "disconnect"}
        /\ IF d \in online THEN PeerGone(d) ELSE PeerCame(d)
    BY <1>4 DEF HandleConnection, IsNote, f
  <2>2. m \in current
    BY <2>1 DEF PeerGone, PeerCame
  <2>3. ASSUME ~undone, d = Mgr PROVE f.kind # "disconnect"
    <3>1. Managed(d)
      BY <1>3, <2>2, <2>3 DEF Managed
    <3>2. d \notin online
      BY <2>1, <3>1 DEF PeerGone
    <3>3. QED
      BY <1>2, <2>3, <3>2 DEF Off
  <2>4. ~undone /\ d = Mgr => ~Silences(f, m)
    BY <2>1, <2>3 DEF Silences
  <2>5. QED
    BY <2>2, <2>4 DEF f
<1>5. CASE HandleReport(d)
  <2>1. /\ f.kind = "report" /\ IF f.active THEN Activate(f.mod, f.cat) ELSE Recover({f.mod}, f.cat)
    BY <1>5 DEF HandleReport, f
  <2>2. Host[f.mod] = d
    BY <1>2, <2>1 DEF FrameOf, NoteFrame, PingFrame
  <2>3. CASE f.active
    <3>1. m \in current
      BY <2>1, <2>3 DEF Activate
    <3>2. ASSUME Silences(f, m) PROVE FALSE
      <4>1. f.mod = m /\ f.cat = "AV_MODOFFLINE"
        BY <2>1, <3>2 DEF Silences
      <4>2. current' = current \ {m}
        BY <1>3, <2>1, <2>3, <3>1, <4>1 DEF Activate, Level
      <4>3. QED
        BY <4>2
    <3>3. QED
      BY <3>1, <3>2 DEF f
  <2>4. CASE ~f.active
    <3>1. m \in current \/ (m = f.mod /\ f.cat \in Reviving)
      BY <2>1, <2>4 DEF Recover, Revived
    <3>2. m = f.mod /\ f.cat \in Reviving => Revives(f, m)
      BY <2>1, <2>4 DEF Revives
    <3>3. ~Silences(f, m)
      BY <2>1, <2>4 DEF Silences
    <3>4. QED
      BY <2>2, <3>1, <3>2, <3>3 DEF f
  <2>5. QED
    BY <2>3, <2>4
<1>6. CASE HandlePing(d)
  <2>1. f.kind = "ping" /\ Recover(f.mods, "AV_MODOFFLINE")
    BY <1>6 DEF HandlePing, f
  <2>2. f.mods \subseteq Hosted(d)
    BY <1>2, <2>1 DEF FrameOf, NoteFrame, ReportFrame
  <2>3. m \in current \/ m \in f.mods
    BY <2>1 DEF Recover, Revived
  <2>4. m \in f.mods => Host[m] = d /\ Revives(f, m)
    BY <2>1, <2>2 DEF Hosted, Revives
  <2>5. ~Silences(f, m)
    BY <2>1 DEF Silences
  <2>6. QED
    BY <2>3, <2>4, <2>5 DEF f
<1>7. QED
  BY <1>4, <1>5, <1>6 DEF HandleMsg

\* The messages the cloud handles.
LEMMA HandleShown ==
    ASSUME ShownInv, NEW d \in Devices, HandleMsg(d)
    PROVE  NothingKept' /\ \A m \in Gone' : Told(m)' /\ AwaitsEnd(m)'
<1>1. /\ inbox[d] # <<>> /\ inbox' = [inbox EXCEPT ![d] = Tail(@)]
      /\ UNCHANGED <<up, connected, pending, undone, outrun>>
  BY DEF HandleMsg, HandleConnection, HandleReport, HandlePing, ReadFrom, device
<1>2. /\ CloudInv /\ NothingKept /\ \A m \in Gone : Told(m) /\ AwaitsEnd(m)
      /\ inbox \in [Devices -> Seq(Frame)] /\ Host \in [Modules -> Devices] /\ Mgr \in Devices
  BY CloudStatusAssumption DEF ShownInv, CloudInv, TypeOK
<1>3. NothingKept'
  BY <1>1, <1>2 DEF NothingKept
<1>4. ASSUME NEW m \in Gone' PROVE Told(m)' /\ AwaitsEnd(m)'
  <2> DEFINE h == Host[m]
  <2>1. m \in Gone /\ m \in Modules /\ h \in Devices /\ Told(m) /\ AwaitsEnd(m)
    BY <1>1, <1>2, <1>4 DEF Gone
  <2>2. m \in current' => \/ m \notin current /\ h = d /\ Revives(Head(inbox[d]), m)
                          \/ m \in current /\ (~undone /\ h = d /\ d = Mgr
                                                 => ~Silences(Head(inbox[d]), m))
    BY <1>2, HandledShown
  <2>3. CASE h # d
    <3>1. inbox'[h] = inbox[h] /\ pending'[h] = pending[h]
      BY <1>1, <1>2, <2>1, <2>3
    <3>2. QED
      BY <1>1, <2>1, <2>2, <2>3, <3>1 DEF Told, AwaitsEnd
  <2>4. CASE h = d
    <3>1. inbox'[d] = Tail(inbox[d]) /\ inbox[d] \in Seq(Frame) /\ Answered(inbox[d], m)
      BY <1>1, <1>2, <2>1, <2>4 DEF Told
    <3>2. /\ Answered(inbox'[d], m)
          /\ Revives(Head(inbox[d]), m) => ToCome(inbox'[d], m)
          /\ ToCome(inbox[d], m) /\ ~Silences(Head(inbox[d]), m) => ToCome(inbox'[d], m)
      BY <1>1, <3>1, TailAnswered
    <3>3. Told(m)'
      BY <1>1, <2>1, <2>4, <3>2 DEF Told
    <3>4. AwaitsEnd(m)'
      BY <1>1, <2>1, <2>2, <2>4, <3>2 DEF AwaitsEnd
    <3>5. QED
      BY <3>3, <3>4
  <2>5. QED
    BY <2>3, <2>4
<1>5. QED
  BY <1>3, <1>4

\* A configuration that is posted, and what comes of it: what the copy shows running
\* again, of the modules that are down, has outrun its end.
LEMMA ConfigShown ==
    ASSUME ShownInv, BeginConfig \/ EndConfig \/ UndoConfig
    PROVE  NothingKept' /\ \A m \in Gone' : Told(m)' /\ AwaitsEnd(m)'
<1>1. NothingKept /\ \A m \in Gone : Told(m) /\ AwaitsEnd(m)
  BY DEF ShownInv
<1>2. UNCHANGED <<up, connected, pending, inbox>>
  BY DEF BeginConfig, EndConfig, UndoConfig, device
<1>3. undone => undone'
  BY DEF BeginConfig, EndConfig, UndoConfig
<1>4. \A m \in Gone' : m \in Gone /\ (m \in current' => m \in current)
  <2>1. CASE BeginConfig
    <3>1. PICK cfg \in Configs, f \in Flaws : Accepted(cfg, f) \/ Refused(cfg, f)
      BY <2>1 DEF BeginConfig
    <3>2. current' \subseteq current
      BY <3>1 DEF Accepted, Refused, BuildIpcStatus, Built, NotBuilt, status
    <3>3. QED
      BY <1>2, <2>1, <3>2 DEF BeginConfig, Gone
  <2>2. CASE EndConfig
    BY <1>2, <2>2 DEF EndConfig, tables, status, Gone
  <2>3. CASE UndoConfig
    BY <1>2, <2>3 DEF UndoConfig, Gone
  <2>4. QED
    BY <2>1, <2>2, <2>3
<1>5. QED
  BY <1>1, <1>2, <1>3, <1>4 DEF NothingKept, Told, AwaitsEnd

\* The cloud starts again.
LEMMA RestartShown ==
    ASSUME ShownInv, Restart
    PROVE  NothingKept' /\ \A m \in Gone' : Told(m)' /\ AwaitsEnd(m)'
<1>1. /\ \A m \in Gone : Told(m)
      /\ inbox \in [Devices -> Seq(Frame)] /\ Host \in [Modules -> Devices]
  BY CloudStatusAssumption DEF ShownInv, CloudInv, TypeOK
<1>2. /\ connected' = {} /\ current' = {} /\ inbox' = [d \in Devices |-> <<>>]
      /\ UNCHANGED <<up, outrun>> /\ \A d \in Devices : pending'[d] \in Kept(d)
  BY DEF Restart, LoadConfigMap
<1>3. Gone' = Gone
  BY <1>2 DEF Gone
<1>4. ASSUME NEW m \in Gone PROVE Told(m)' /\ AwaitsEnd(m)'
  <2> DEFINE h == Host[m]
  <2>1. h \in Devices /\ inbox[h] \in Seq(Frame) /\ Answered(inbox[h], m) /\ Answered(pending[h], m)
    BY <1>1 DEF Gone, Told
  <2>2. inbox'[h] = <<>> /\ Answered(<<>>, m)
    BY <1>2, <2>1, EmptySeq DEF Answered
  <2>3. CASE h \in connected
    <3>1. PICK j \in Cuts(h) : pending'[h] = After(h, j)
      BY <1>2, <2>1, <2>3 DEF Kept
    <3>2. j \in 0..Len(inbox[h])
      BY DEF Cuts
    <3>3. Answered(pending'[h], m)
      BY <2>1, <3>1, <3>2, AfterAnswered
    <3>4. QED
      BY <1>2, <2>2, <3>3 DEF Told, AwaitsEnd
  <2>4. CASE h \notin connected
    <3>1. pending'[h] = pending[h]
      BY <1>2, <2>1, <2>4 DEF Kept
    <3>2. QED
      BY <1>2, <2>1, <2>2, <3>1 DEF Told, AwaitsEnd
  <2>5. QED
    BY <2>3, <2>4
<1>5. QED
  BY <1>2, <1>3, <1>4 DEF NothingKept

LEMMA ShownInvInvariant == Spec => []ShownInv
<1>1. Init => ShownInv
  <2> SUFFICES ASSUME Init PROVE ShownInv
    OBVIOUS
  <2>1. CloudInv
    BY CloudInvHolds
  <2>2. NothingKept
    BY DEF Init, NothingKept
  <2>3. ASSUME NEW m \in Modules PROVE Told(m) /\ AwaitsEnd(m)
    <3>1. Host[m] \in Devices
      BY CloudStatusAssumption
    <3>2. inbox[Host[m]] = <<>> /\ pending[Host[m]] = <<>> /\ current = {}
      BY <3>1 DEF Init
    <3>3. Answered(<<>>, m)
      BY EmptySeq DEF Answered
    <3>4. QED
      BY <3>2, <3>3 DEF Told, AwaitsEnd
  <2>4. QED
    BY <2>1, <2>2, <2>3 DEF ShownInv, Gone
<1>2. ShownInv /\ CloudInv' /\ [Next]_vars => ShownInv'
  <2> SUFFICES ASSUME ShownInv, [Next]_vars
               PROVE  NothingKept' /\ \A m \in Gone' : Told(m)' /\ AwaitsEnd(m)'
    BY DEF ShownInv
  <2>1. CASE \E m \in Modules : ModuleUp(m) \/ ModuleDown(m) \/ Relay(m)
    BY <2>1, DeviceShown DEF ModuleUp, ModuleDown, Relay
  <2>2. CASE \E d \in Devices : \/ ComposeBeat(d) \/ SendBeat(d)
                                \/ Connect(d) \/ Drop(d) \/ ResetDealer(d) \/ Reboot(d)
    BY <2>2, DeviceShown DEF ComposeBeat, SendBeat, Connect, Drop, ResetDealer, Reboot
  <2>3. CASE \E d \in Devices : HandleMsg(d)
    BY <2>3, HandleShown
  <2>4. CASE BeginConfig \/ EndConfig \/ UndoConfig
    BY <2>4, ConfigShown
  <2>5. CASE Restart
    BY <2>5, RestartShown
  <2>6. CASE UNCHANGED vars
    BY <2>6 DEF vars, device, tables, status, ShownInv, NothingKept, Gone, Told, AwaitsEnd
  <2>7. QED
    BY <2>1, <2>2, <2>3, <2>4, <2>5, <2>6 DEF Next
<1>3. QED
  BY <1>1, <1>2, CloudInvInvariant, PTL DEF Spec

--------------------------------------------------------------------------------
(* The theorems *)

\* Tables and messages have the types the code gives them; in particular an issue of a
\* manager is filed under its own name.
THEOREM TypeCorrect == Spec => []TypeOK
<1>1. CloudInv => TypeOK
  BY DEF CloudInv
<1>2. QED
  BY <1>1, CloudInvInvariant, PTL

\* Unless an old table was put back, the table and the notifications unread tell whether
\* a device is connected.
THEOREM TableAgrees == Spec => []OnlineAgrees
<1>1. CloudInv => OnlineAgrees
  <2> SUFFICES ASSUME CloudInv, ~undone, NEW d \in Devices
               PROVE  /\ Notes(d) = {} => (d \in online <=> d \in connected)
                      /\ \A i \in Notes(d) :
                            (\A j \in Notes(d) : i <= j)
                              => (d \in online <=> inbox[d][i].kind = "disconnect")
    BY DEF OnlineAgrees
  <2> DEFINE q == inbox[d]
  <2>1. /\ q \in Seq(FrameOf(d)) /\ Follows(q) /\ Ends(q, Down(d)) /\ Begins(q, Off(d))
        /\ q = <<>> => Off(d) = Down(d)
    BY DEF CloudInv, Channel
  <2>2. /\ Len(q) \in Nat /\ DOMAIN q = 1..Len(q) /\ (q # <<>> => Len(q) >= 1)
        /\ (Off(d) = 1 <=> d \notin online) /\ (Down(d) = 1 <=> d \notin connected)
    BY <2>1, LenProperties, EmptySeq DEF Off, Down
  <2> HIDE DEF q
  <2>3. Notes(d) = {i \in 1..Len(q) : q[i].kind = "connect" \/ q[i].kind = "disconnect"}
    BY <2>2 DEF Notes, IsNote, q
  <2>4. ASSUME Notes(d) = {} PROVE d \in online <=> d \in connected
    <3>1. CASE q = <<>>
      BY <2>1, <2>2, <3>1
    <3>2. CASE q # <<>>
      <4>1. 1 \in 1..Len(q) /\ Len(q) \in 1..Len(q)
        BY <2>2, <3>2
      <4>2. q[1].kind # "connect" /\ q[Len(q)].kind # "disconnect"
        BY <2>3, <2>4, <4>1
      <4>3. QED
        BY <2>1, <2>2, <3>2, <4>2 DEF Begins, Ends
    <3>3. QED
      BY <3>1, <3>2
  <2>5. ASSUME NEW i \in Notes(d), \A j \in Notes(d) : i <= j
        PROVE  d \in online <=> q[i].kind = "disconnect"
    <3>1. i \in 1..Len(q) /\ q # <<>> /\ (q[i].kind = "connect" \/ q[i].kind = "disconnect")
      BY <2>2, <2>3, EmptySeq
    <3>2. CASE i = 1
      BY <2>1, <2>2, <3>1, <3>2 DEF Begins
    <3>3. CASE i # 1
      <4>1. i \in 2..Len(q) /\ i - 1 \in 1..Len(q) /\ 1 \in 1..Len(q) /\ ~(i <= i - 1) /\ ~(i <= 1)
        BY <2>2, <3>1, <3>3
      <4>2. i - 1 \notin Notes(d) /\ 1 \notin Notes(d)
        BY <2>5, <4>1
      <4>3. q[i - 1].kind # "disconnect" /\ q[1].kind # "connect"
        BY <2>3, <4>1, <4>2
      <4>4. q[i].kind # "connect" /\ d \in online
        BY <2>1, <2>2, <3>1, <4>1, <4>3 DEF Follows, Begins
      <4>5. QED
        BY <3>1, <4>4
    <3>4. QED
      BY <3>2, <3>3
  <2>6. QED
    BY <2>4, <2>5 DEF q
<1>2. QED
  BY <1>1, CloudInvInvariant, PTL

\* While the manager is offline none of its modules is shown running, whatever a failed
\* configuration has put back.
THEOREM OfflineIsShown == Spec => []OfflineShowsNone
<1>1. CloudInv => OfflineShowsNone
  BY DEF CloudInv, Sound, OfflineShowsNone, Tables, Has, Fits
<1>2. QED
  BY <1>1, CloudInvInvariant, PTL

\* Only modules in the status of the camera are shown running or have issues, however late
\* a report about a removed one arrives, except those that an exception kept out of it.
THEOREM KnownAreShown == Spec => []OnlyKnown
<1>1. CloudInv => OnlyKnown
  BY DEF CloudInv, Sound, OnlyKnown, Tables, Has, Fits
<1>2. QED
  BY <1>1, CloudInvInvariant, PTL

\* The issue "manager offline" is shown only of a manager that is offline.
THEOREM MgrIssueIsRight == Spec => []MgrIssueAgrees
<1>1. CloudInv => MgrIssueAgrees
  BY DEF CloudInv
<1>2. QED
  BY <1>1, CloudInvInvariant, PTL

\* When everything of the manager has been read, a module of its own that is shown
\* running is up, except one that a heartbeat or a copy put back declared up too late.
THEOREM ShownIsExplained == Spec => []CurrentIsExplained
<1>1. ShownInv => CurrentIsExplained
  <2> SUFFICES ASSUME ShownInv, ~undone, Quiet(Mgr), NEW m \in current \ up, Host[m] = Mgr
               PROVE  m \in outrun
    BY DEF CurrentIsExplained
  <2>1. m \in Modules
    BY DEF ShownInv, CloudInv, TypeOK
  <2>2. ~ToCome(inbox[Mgr], m)
    BY EmptySeq DEF Quiet, ToCome
  <2>3. m \notin Gone
    BY <2>2 DEF ShownInv, AwaitsEnd
  <2>4. QED
    BY <2>1, <2>3 DEF Gone
<1>2. QED
  BY <1>1, ShownInvInvariant, PTL
================================================================================
