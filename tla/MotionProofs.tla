------------------------------ MODULE MotionProofs ------------------------------
(***************************************************************************)
(* No motion is left out of the events, no event is cut short, and what    *)
(* evslicer is sent are the events, for all values of the parameters and   *)
(* any number of frames and restarts.                                      *)
(***************************************************************************)
EXTENDS Motion, SequenceTheorems, TLAPS

Entry == [event : {"start", "end"}, ts : Nat]

\* Openings and closings alternate, in the order of time.
Alternates(l) ==
    /\ l \in Seq(Entry)
    /\ \A i \in 1..Len(l) : l[i].event = IF i % 2 = 1 THEN "start" ELSE "end"
    /\ \A i, j \in 1..Len(l) : i < j => l[i].ts <= l[j].ts

\* The motion at t lies in an event.
Covered(l, t) ==
    \E i \in 1..Len(l) : /\ i % 2 = 1 /\ l[i].ts <= t
                         /\ i + 1 <= Len(l) => t <= l[i + 1].ts

\* The closing i was right for the motions ms.
Right(l, i, ms) ==
    \/ \A t \in ms : t >= l[i].ts \/ l[i].ts - t > Post
    \/ /\ i + 1 <= Len(l)
       /\ l[i + 1].ts = l[i].ts
       /\ l[i].ts - l[i - 1].ts > MaxDuration

\* The log and the motions fit together.
Fits(l, ms) ==
    /\ Alternates(l)
    /\ ms \subseteq Nat
    /\ \A t \in ms : Covered(l, t)
    /\ \A i \in 1..Len(l) : i % 2 # 1 => Right(l, i, ms)

LEMMA Parity ==
    ASSUME NEW n \in Nat
    PROVE  /\ n % 2 = 1 \/ n % 2 = 0
           /\ n % 2 = 1 => (n + 1) % 2 = 0
           /\ n % 2 = 0 => (n + 1) % 2 = 1
OBVIOUS

\* One entry more.
LEMMA OneMore ==
    ASSUME NEW l \in Seq(Entry), NEW e \in Entry
    PROVE  /\ l \o <<e>> \in Seq(Entry)
           /\ Len(l) \in Nat /\ Len(l \o <<e>>) = Len(l) + 1
           /\ \A i \in 1..Len(l) : (l \o <<e>>)[i] = l[i]
           /\ (l \o <<e>>)[Len(l) + 1] = e
<1>1. <<e>> \in Seq(Entry) /\ Len(<<e>>) = 1 /\ <<e>>[1] = e /\ Len(l) \in Nat
  BY LenProperties
<1>2. /\ l \o <<e>> \in Seq(Entry) /\ Len(l \o <<e>>) = Len(l) + Len(<<e>>)
      /\ \A i \in 1..Len(l) + Len(<<e>>) :
            (l \o <<e>>)[i] = IF i <= Len(l) THEN l[i] ELSE <<e>>[i - Len(l)]
  BY <1>1, ConcatProperties
<1>3. QED
  BY <1>1, <1>2

\* What an entry more keeps.
LEMMA Longer ==
    ASSUME NEW l, Alternates(l), NEW e \in Entry, NEW ms \in SUBSET Nat,
           e.event = IF Len(l) % 2 = 1 THEN "end" ELSE "start",
           \A i \in 1..Len(l) : l[i].ts <= e.ts
    PROVE  /\ Alternates(l \o <<e>>)
           /\ \A t \in ms : Covered(l, t) /\ (Len(l) % 2 # 1 \/ t <= e.ts)
                               => Covered(l \o <<e>>, t)
           /\ \A i \in 1..Len(l) : i % 2 # 1 => \A old \in SUBSET ms :
                 Right(l, i, old) /\ (\A t \in ms \ old : t >= l[i].ts)
                   => Right(l \o <<e>>, i, ms)
<1> DEFINE r == l \o <<e>>
           n == Len(l)
<1>1. /\ l \in Seq(Entry) /\ n \in Nat
      /\ n % 2 = 1 \/ n % 2 = 0
      /\ n % 2 = 1 => (n + 1) % 2 = 0
      /\ n % 2 = 0 => (n + 1) % 2 = 1
      /\ e.ts \in Nat
      /\ \A i \in 1..n : l[i] \in Entry /\ l[i].ts \in Nat /\ l[i].ts <= e.ts
  <2>1. l \in Seq(Entry) /\ n \in Nat
    BY LenProperties DEF Alternates
  <2>2. \A i \in 1..n : l[i] \in Entry
    BY <2>1, ElementOfSeq
  <2>3. QED
    BY <2>1, <2>2, Parity DEF Entry
<1>2. /\ r \in Seq(Entry) /\ Len(r) = n + 1
      /\ \A i \in 1..n : r[i] = l[i]
      /\ r[n + 1] = e
  BY <1>1, OneMore
<1>3. e.event = IF (n + 1) % 2 = 1 THEN "start" ELSE "end"
  <2>1. CASE n % 2 = 1
    BY <1>1, <2>1
  <2>2. CASE n % 2 = 0
    BY <1>1, <2>2
  <2>3. QED
    BY <1>1, <2>1, <2>2
<1>4. /\ \A i \in 1..n : l[i].event = IF i % 2 = 1 THEN "start" ELSE "end"
      /\ \A i, j \in 1..n : i < j => l[i].ts <= l[j].ts
  BY DEF Alternates
<1> HIDE DEF r, n
<1>5. Alternates(r)
  <2>1. ASSUME NEW i \in 1..n + 1 PROVE r[i].event = IF i % 2 = 1 THEN "start" ELSE "end"
    <3>1. CASE i = n + 1
      BY <1>2, <1>3, <3>1
    <3>2. CASE i # n + 1
      <4>1. i \in 1..n
        BY <1>1, <3>2
      <4>2. QED
        BY <1>2, <1>4, <4>1
    <3>3. QED
      BY <3>1, <3>2
  <2>2. ASSUME NEW i \in 1..n + 1, NEW j \in 1..n + 1, i < j PROVE r[i].ts <= r[j].ts
    <3>1. i \in 1..n
      BY <1>1, <2>2
    <3>2. CASE j = n + 1
      BY <1>1, <1>2, <3>1, <3>2
    <3>3. CASE j # n + 1
      <4>1. j \in 1..n
        BY <1>1, <3>3
      <4>2. QED
        BY <1>2, <1>4, <2>2, <3>1, <4>1
    <3>4. QED
      BY <3>2, <3>3
  <2>3. QED
    BY <1>2, <2>1, <2>2 DEF Alternates
<1>6. ASSUME NEW t \in ms, Covered(l, t), n % 2 # 1 \/ t <= e.ts PROVE Covered(r, t)
  <2>1. PICK i \in 1..n : i % 2 = 1 /\ l[i].ts <= t /\ (i + 1 <= n => t <= l[i + 1].ts)
    BY <1>6 DEF Covered, n
  <2>2. i \in 1..n + 1 /\ r[i] = l[i]
    BY <1>1, <1>2
  <2>3. i + 1 <= n + 1 => t <= r[i + 1].ts
    <3>1. CASE i = n
      BY <1>1, <1>2, <1>6, <2>1, <3>1
    <3>2. CASE i # n
      <4>1. i + 1 \in 1..n
        BY <1>1, <3>2
      <4>2. QED
        BY <1>2, <2>1, <4>1
    <3>3. QED
      BY <3>1, <3>2
  <2>4. QED
    BY <1>2, <2>1, <2>2, <2>3 DEF Covered
<1>7. ASSUME NEW i \in 1..n, i % 2 # 1, NEW old \in SUBSET ms, Right(l, i, old),
             \A t \in ms \ old : t >= l[i].ts
      PROVE  Right(r, i, ms)
  <2>1. i # 1 /\ i - 1 \in 1..n /\ r[i] = l[i] /\ r[i - 1] = l[i - 1]
    <3>1. 1 % 2 = 1
      OBVIOUS
    <3>2. i - 1 \in 1..n
      BY <1>1, <1>7, <3>1
    <3>3. QED
      BY <1>2, <1>7, <3>1, <3>2
  <2>2. CASE \A t \in old : t >= l[i].ts \/ l[i].ts - t > Post
    BY <1>7, <2>1, <2>2 DEF Right
  <2>3. CASE /\ i + 1 <= n /\ l[i + 1].ts = l[i].ts
             /\ l[i].ts - l[i - 1].ts > MaxDuration
    <3>1. i + 1 \in 1..n /\ i + 1 <= n + 1
      BY <1>1, <2>3
    <3>2. QED
      BY <1>2, <2>1, <2>3, <3>1 DEF Right
  <2>4. QED
    BY <1>7, <2>2, <2>3 DEF Right, n
<1>8. QED
  BY <1>5, <1>6, <1>7 DEF r, n

LEMMA LogTypes ==
    ASSUME NEW l, Alternates(l)
    PROVE  /\ l \in Seq(Entry) /\ Len(l) \in Nat
           /\ \A i \in 1..Len(l) : l[i].ts \in Nat
           /\ Len(l) % 2 = 1 => (Len(l) + 1) % 2 = 0 /\ Len(l) \in 1..Len(l)
           /\ Len(l) % 2 # 1 => (Len(l) + 1) % 2 = 1
<1>1. l \in Seq(Entry) /\ Len(l) \in Nat
  BY LenProperties DEF Alternates
<1>2. \A i \in 1..Len(l) : l[i] \in Entry
  BY <1>1, ElementOfSeq
<1>3. Len(l) = 0 => Len(l) % 2 = 0
  BY <1>1
<1>4. QED
  BY <1>1, <1>2, <1>3, Parity DEF Entry

\* An event opens, with motions from then on.
LEMMA Opened ==
    ASSUME NEW l, NEW ms, Fits(l, ms), Len(l) % 2 # 1, NEW o \in Nat,
           \A i \in 1..Len(l) : l[i].ts <= o,
           NEW more \in SUBSET Nat, \A t \in more : t >= o
    PROVE  Fits(l \o <<Opening(o)>>, ms \cup more)
<1> DEFINE r == l \o <<Opening(o)>>
           n == Len(l)
           all == ms \cup more
<1>1. /\ Opening(o) \in Entry /\ Opening(o).event = "start" /\ Opening(o).ts = o
      /\ all \in SUBSET Nat /\ ms \in SUBSET all
  BY DEF Entry, Opening, Fits
<1>2. l \in Seq(Entry) /\ n \in Nat /\ (n + 1) % 2 = 1 /\ \A i \in 1..n : l[i].ts \in Nat
  BY LogTypes DEF Fits
<1>3. Len(r) = n + 1 /\ r[n + 1] = Opening(o)
  BY <1>1, <1>2, OneMore
<1>4. /\ Alternates(r)
      /\ \A t \in all : Covered(l, t) => Covered(r, t)
      /\ \A i \in 1..n : i % 2 # 1 => \A old \in SUBSET all :
            Right(l, i, old) /\ (\A t \in all \ old : t >= l[i].ts) => Right(r, i, all)
  <2>1. /\ Alternates(l) /\ Opening(o).event = IF n % 2 = 1 THEN "end" ELSE "start"
        /\ \A i \in 1..n : l[i].ts <= Opening(o).ts
        /\ n % 2 # 1
    BY <1>1 DEF Fits
  <2>2. QED
    BY <1>1, <2>1, Longer
<1>5. \A i \in 1..n : l[i].ts <= o
  OBVIOUS
<1> HIDE DEF r, n, all
<1>6. ASSUME NEW t \in more PROVE Covered(r, t)
  <2>1. n + 1 \in 1..n + 1 /\ r[n + 1].ts <= t /\ ~(n + 1 + 1 <= n + 1)
    BY <1>1, <1>2, <1>3
  <2>2. QED
    BY <1>2, <1>3, <2>1 DEF Covered
<1>7. \A t \in all : Covered(r, t)
  BY <1>4, <1>6 DEF Fits, all
<1>8. ASSUME NEW i \in 1..n + 1, i % 2 # 1 PROVE Right(r, i, all)
  <2>1. i \in 1..n
    BY <1>2, <1>8
  <2>2. Right(l, i, ms)
    BY <1>8, <2>1 DEF Fits, n
  <2>3. ASSUME NEW t \in all \ ms PROVE t >= l[i].ts
    <3>1. t \in Nat /\ t >= o /\ l[i].ts \in Nat /\ l[i].ts <= o
      BY <1>2, <1>5, <2>1 DEF all
    <3>2. QED
      BY <3>1
  <2>4. QED
    BY <1>1, <1>4, <1>8, <2>1, <2>2, <2>3
<1>9. QED
  BY <1>1, <1>3, <1>4, <1>7, <1>8 DEF Fits, r, all

\* An event closes that nothing has moved in for longer than Post.
LEMMA Closed ==
    ASSUME NEW l, NEW ms, Fits(l, ms), Len(l) % 2 = 1, NEW c \in Nat,
           \A i \in 1..Len(l) : l[i].ts <= c,
           \A t \in ms : c - t > Post
    PROVE  Fits(l \o <<Closing(c)>>, ms)
<1> DEFINE r == l \o <<Closing(c)>>
           n == Len(l)
<1>1. /\ Closing(c) \in Entry /\ Closing(c).event = "end" /\ Closing(c).ts = c
      /\ ms \in SUBSET Nat /\ Post \in Nat
  BY MotionAssumption DEF Entry, Closing, Fits
<1>2. l \in Seq(Entry) /\ n \in Nat
  BY LogTypes DEF Fits
<1>3. Len(r) = n + 1 /\ r[n + 1] = Closing(c)
  BY <1>1, <1>2, OneMore
<1>4. /\ Alternates(r)
      /\ \A t \in ms : Covered(l, t) /\ t <= c => Covered(r, t)
      /\ \A i \in 1..n : i % 2 # 1 => \A old \in SUBSET ms :
            Right(l, i, old) /\ (\A t \in ms \ old : t >= l[i].ts) => Right(r, i, ms)
  <2>1. /\ Alternates(l) /\ Closing(c).event = IF n % 2 = 1 THEN "end" ELSE "start"
        /\ \A i \in 1..n : l[i].ts <= Closing(c).ts
    BY <1>1 DEF Fits
  <2>2. QED
    BY <1>1, <2>1, Longer
<1> HIDE DEF r, n
<1>5. ASSUME NEW t \in ms PROVE Covered(r, t)
  <2>1. t <= c
    BY <1>1
  <2>2. QED
    BY <1>4, <2>1 DEF Fits
<1>6. ASSUME NEW i \in 1..n + 1, i % 2 # 1 PROVE Right(r, i, ms)
  <2>1. CASE i \in 1..n
    <3>1. Right(l, i, ms)
      BY <1>6, <2>1 DEF Fits, n
    <3>2. QED
      BY <1>4, <1>6, <2>1, <3>1
  <2>2. CASE i = n + 1
    BY <1>1, <1>3, <2>2 DEF Right
  <2>3. QED
    BY <1>2, <2>1, <2>2
<1>7. QED
  BY <1>1, <1>3, <1>4, <1>5, <1>6 DEF Fits, r

\* A long event goes on as another one, with a motion at that time.
LEMMA WentOn ==
    ASSUME NEW l, NEW ms, Fits(l, ms), Len(l) % 2 = 1, NEW c \in Nat,
           \A i \in 1..Len(l) : l[i].ts <= c,
           \A t \in ms : t <= c,
           c - l[Len(l)].ts > MaxDuration
    PROVE  Fits(l \o <<Closing(c), Opening(c)>>, ms \cup {c})
<1> DEFINE r == l \o <<Closing(c)>>
           s == r \o <<Opening(c)>>
           n == Len(l)
           all == ms \cup {c}
<1>1. /\ Closing(c) \in Entry /\ Closing(c).event = "end" /\ Closing(c).ts = c
      /\ Opening(c) \in Entry /\ Opening(c).event = "start" /\ Opening(c).ts = c
      /\ all \in SUBSET Nat /\ ms \in SUBSET all
  BY DEF Entry, Closing, Opening, Fits
<1>2. /\ l \in Seq(Entry) /\ n \in Nat /\ (n + 1) % 2 = 0 /\ n \in 1..n
      /\ \A i \in 1..n : l[i].ts \in Nat
  BY LogTypes DEF Fits
<1>3. /\ r \in Seq(Entry) /\ Len(r) = n + 1 /\ r[n + 1] = Closing(c)
      /\ \A i \in 1..n : r[i] = l[i]
  BY <1>1, <1>2, OneMore
<1>4. /\ Alternates(r)
      /\ \A t \in all : Covered(l, t) /\ t <= c => Covered(r, t)
      /\ \A i \in 1..n : i % 2 # 1 => \A old \in SUBSET all :
            Right(l, i, old) /\ (\A t \in all \ old : t >= l[i].ts) => Right(r, i, all)
  <2>1. /\ Alternates(l) /\ Closing(c).event = IF n % 2 = 1 THEN "end" ELSE "start"
        /\ \A i \in 1..n : l[i].ts <= Closing(c).ts
    BY <1>1 DEF Fits
  <2>2. QED
    BY <1>1, <2>1, Longer
<1>5. /\ \A i \in 1..n : l[i].ts <= c
      /\ c - l[n].ts > MaxDuration
  OBVIOUS
<1> HIDE DEF r, n
<1>6. \A i \in 1..Len(r) : r[i].ts <= c
  <2> SUFFICES ASSUME NEW i \in 1..n + 1 PROVE r[i].ts <= c
    BY <1>3
  <2>1. i \in 1..n \/ i = n + 1
    BY <1>2
  <2>2. QED
    BY <1>1, <1>3, <1>5, <2>1
<1>7. /\ Len(s) = n + 1 + 1 /\ s[n + 1 + 1] = Opening(c)
      /\ \A i \in 1..n + 1 : s[i] = r[i]
  BY <1>1, <1>3, OneMore
<1>8. /\ Alternates(s)
      /\ \A t \in all : Covered(r, t) => Covered(s, t)
      /\ \A i \in 1..n + 1 : i % 2 # 1 => \A old \in SUBSET all :
            Right(r, i, old) /\ (\A t \in all \ old : t >= r[i].ts) => Right(s, i, all)
  <2>1. /\ Alternates(r) /\ Opening(c).event = IF Len(r) % 2 = 1 THEN "end" ELSE "start"
        /\ \A i \in 1..Len(r) : r[i].ts <= Opening(c).ts
        /\ Len(r) % 2 # 1
    BY <1>1, <1>2, <1>3, <1>4, <1>6
  <2>2. /\ Alternates(s)
        /\ \A t \in all : Covered(r, t) => Covered(s, t)
        /\ \A i \in 1..Len(r) : i % 2 # 1 => \A old \in SUBSET all :
              Right(r, i, old) /\ (\A t \in all \ old : t >= r[i].ts) => Right(s, i, all)
    BY <1>1, <2>1, Longer
  <2>3. QED
    BY <1>3, <2>2
<1> HIDE DEF s
<1>9. ASSUME NEW t \in all PROVE Covered(s, t)
  <2>1. CASE t \in ms
    BY <1>1, <1>4, <1>8, <2>1 DEF Fits
  <2>2. CASE t = c
    <3>1. /\ n + 1 + 1 \in 1..Len(s) /\ (n + 1 + 1) % 2 = 1 /\ s[n + 1 + 1].ts <= t
          /\ ~(n + 1 + 1 + 1 <= Len(s))
      BY <1>1, <1>2, <1>7, <2>2, Parity
    <3>2. QED
      BY <3>1 DEF Covered
  <2>3. QED
    BY <2>1, <2>2 DEF all
<1>10. ASSUME NEW i \in 1..n + 1 + 1, i % 2 # 1 PROVE Right(s, i, all)
  <2>1. CASE i \in 1..n
    <3>1. Right(l, i, ms)
      BY <1>10, <2>1 DEF Fits, n
    <3>2. \A t \in all \ ms : t >= l[i].ts
      BY <1>2, <1>5, <2>1 DEF all
    <3>3. Right(r, i, all)
      BY <1>1, <1>4, <1>10, <2>1, <3>1, <3>2
    <3>4. i \in 1..n + 1
      BY <1>2, <2>1
    <3>5. QED
      BY <1>8, <1>10, <3>3, <3>4
  <2>2. CASE i = n + 1
    <3>1. /\ i + 1 <= Len(s) /\ s[i + 1].ts = c /\ s[i].ts = c
          /\ i - 1 = n /\ s[n] = l[n]
      BY <1>1, <1>2, <1>3, <1>7, <2>2
    <3>2. QED
      BY <1>5, <3>1 DEF Right
  <2>3. CASE i = n + 1 + 1
    BY <1>2, <1>10, <2>3, Parity
  <2>4. QED
    BY <1>2, <2>1, <2>2, <2>3
<1>11. Fits(s, all)
  BY <1>1, <1>7, <1>8, <1>9, <1>10 DEF Fits
<1>12. s = l \o <<Closing(c), Opening(c)>>
  <2> DEFINE a == <<Closing(c)>>
             b == <<Opening(c)>>
  <2>1. a \in Seq(Entry) /\ b \in Seq(Entry) /\ a \o b = <<Closing(c), Opening(c)>>
    <3>1. a \in Seq(Entry) /\ b \in Seq(Entry)
      BY <1>1
    <3>2. a \o b \in Seq(Entry) /\ Len(a \o b) = 2 /\ (a \o b)[1] = Closing(c) /\ (a \o b)[2] = Opening(c)
      BY <1>1, <3>1, OneMore
    <3>3. /\ <<Closing(c), Opening(c)>> \in Seq(Entry)
          /\ Len(<<Closing(c), Opening(c)>>) = 2
          /\ \A i \in 1..2 : (a \o b)[i] = <<Closing(c), Opening(c)>>[i]
      BY <1>1, <3>2
    <3>4. QED
      BY <3>1, <3>2, <3>3, SeqEqual
  <2>2. (l \o a) \o b = l \o (a \o b)
    BY <1>2, <2>1, ConcatAssociative
  <2>3. QED
    BY <2>1, <2>2 DEF s, r
<1>13. QED
  BY <1>11, <1>12 DEF all

\* A motion after the beginning of the event that is open lies in it.
LEMMA MoreMotion ==
    ASSUME NEW l, NEW ms, Fits(l, ms), Len(l) % 2 = 1, NEW t \in Nat,
           \A i \in 1..Len(l) : l[i].ts <= t
    PROVE  Fits(l, ms \cup {t})
<1>1. /\ Len(l) \in Nat /\ Len(l) \in 1..Len(l)
      /\ \A i \in 1..Len(l) : l[i].ts \in Nat
  BY LogTypes DEF Fits
<1>2. Covered(l, t)
  BY <1>1 DEF Covered
<1>3. ASSUME NEW i \in 1..Len(l), i % 2 # 1 PROVE Right(l, i, ms \cup {t})
  BY <1>3 DEF Fits, Right
<1>4. QED
  BY <1>2, <1>3 DEF Fits

--------------------------------------------------------------------------------
(* The invariant *)

MotionInv ==
    /\ packetTm \in Nat \ {0} /\ evtStartTmLast \in 0..packetTm /\ evtStartTmOrig \in Nat
    /\ evtState \in {"NONE", "PRE", "IN", "POST"}
    /\ Fits(log, motions)
    /\ \A i \in 1..Len(log) : log[i].ts <= packetTm
    /\ Len(log) % 2 = 1 <=> evtState \in {"IN", "POST"}
    /\ \A t \in motions : t <= evtStartTmLast
    /\ suspect = IF evtState = "PRE" THEN {evtStartTmOrig} ELSE {}
    /\ evtState # "NONE" => evtStartTmOrig \in 1..evtStartTmLast
    /\ evtState = "PRE" => \A i \in 1..Len(log) : log[i].ts <= evtStartTmOrig
    /\ evtState \in {"IN", "POST"} => log[Len(log)].ts = evtStartTmOrig

\* A frame with motion keeps the invariant.
LEMMA MotionKeeps == MotionInv /\ MotionFrame => MotionInv'
<1> SUFFICES ASSUME MotionInv, MotionFrame PROVE MotionInv'
  OBVIOUS
<1>1. /\ packetTm \in Nat \ {0} /\ evtStartTmOrig \in Nat /\ evtStartTmLast \in 0..packetTm
      /\ Fits(log, motions) /\ log \in Seq(Entry) /\ Len(log) \in Nat /\ motions \subseteq Nat
      /\ \A i \in 1..Len(log) : log[i].ts \in Nat /\ log[i].ts <= packetTm
      /\ Len(log) % 2 = 1 => (Len(log) + 1) % 2 = 0 /\ Len(log) \in 1..Len(log)
      /\ Len(log) % 2 # 1 => (Len(log) + 1) % 2 = 1
      /\ \A t \in motions : t <= packetTm
      /\ evtStartTmLast' = packetTm /\ packetTm' = packetTm
  <2>1. Fits(log, motions) /\ Alternates(log) /\ motions \subseteq Nat
    BY DEF MotionInv, Fits
  <2>2. /\ packetTm \in Nat \ {0} /\ evtStartTmOrig \in Nat /\ evtStartTmLast \in 0..packetTm
        /\ \A i \in 1..Len(log) : log[i].ts <= packetTm
        /\ \A t \in motions : t <= evtStartTmLast
        /\ evtStartTmLast' = packetTm /\ packetTm' = packetTm
    BY DEF MotionInv, MotionFrame
  <2>3. \A t \in motions : t <= packetTm
    BY <2>1, <2>2
  <2>4. QED
    BY <2>1, <2>2, <2>3, LogTypes
<1>2. CASE /\ evtState = "NONE" /\ evtState' = "PRE" /\ evtStartTmOrig' = packetTm
           /\ suspect' = {packetTm} /\ UNCHANGED <<log, motions>>
  BY <1>1, <1>2 DEF MotionInv
<1>3. CASE /\ evtState = "PRE" /\ evtState' = "IN" /\ Made(<<Opening(OpeningTime)>>)
           /\ motions' = motions \cup suspect \cup {packetTm} /\ suspect' = {}
           /\ UNCHANGED evtStartTmOrig
  <2> DEFINE o == evtStartTmOrig
             more == {o, packetTm}
  <2>1. /\ o \in 1..evtStartTmLast /\ \A i \in 1..Len(log) : log[i].ts <= o
        /\ Len(log) % 2 # 1 /\ suspect = {o}
    BY <1>3 DEF MotionInv
  <2>2. o \in Nat /\ o <= packetTm /\ more \in SUBSET Nat /\ \A t \in more : t >= o
    BY <1>1, <2>1
  <2>3. log' = log \o <<Opening(o)>> /\ motions' = motions \cup more
    BY <1>3, <2>1 DEF Made, OpeningTime
  <2>4. Fits(log', motions')
    BY <1>1, <2>1, <2>2, <2>3, Opened
  <2>5. Opening(o) \in Entry /\ Opening(o).ts = o
    BY <2>2 DEF Opening, Entry
  <2>6. /\ Len(log') = Len(log) + 1 /\ log'[Len(log) + 1] = Opening(o)
        /\ \A i \in 1..Len(log) : log'[i] = log[i]
    BY <1>1, <2>3, <2>5, OneMore
  <2>7. ASSUME NEW i \in 1..Len(log') PROVE log'[i].ts <= packetTm
    <3>1. i \in 1..Len(log) \/ i = Len(log) + 1
      BY <1>1, <2>6
    <3>2. QED
      BY <1>1, <2>2, <2>5, <2>6, <3>1
  <2>8. \A t \in motions' : t <= packetTm
    BY <1>1, <2>2, <2>3
  <2>9. Len(log') % 2 = 1 /\ log'[Len(log')].ts = evtStartTmOrig'
    BY <1>1, <1>3, <2>1, <2>5, <2>6
  <2>10. evtStartTmOrig' \in 1..evtStartTmLast' /\ evtStartTmOrig' \in Nat
    BY <1>1, <1>3, <2>1
  <2>11. QED
    BY <1>1, <1>3, <2>4, <2>7, <2>8, <2>9, <2>10 DEF MotionInv
<1>4. CASE /\ evtState = "IN" /\ evtState' = "IN" /\ suspect' = suspect
           /\ packetTm - evtStartTmOrig > MaxDuration
           /\ evtStartTmOrig' = packetTm
           /\ Made(<<Closing(packetTm), Opening(packetTm)>>)
           /\ motions' = motions \cup {packetTm}
  <2> DEFINE es == <<Closing(packetTm), Opening(packetTm)>>
  <2>1. /\ Len(log) % 2 = 1 /\ log[Len(log)].ts = evtStartTmOrig /\ suspect = {}
    BY <1>4 DEF MotionInv
  <2>2. log' = log \o es
    BY <1>4 DEF Made
  <2>3. Fits(log', motions')
    BY <1>1, <1>4, <2>1, <2>2, WentOn
  <2>4. es \in Seq(Entry) /\ Len(es) = 2 /\ es[1].ts = packetTm /\ es[2].ts = packetTm
    BY <1>1 DEF Closing, Opening, Entry
  <2>5. /\ Len(log') = Len(log) + 2
        /\ \A i \in 1..Len(log) + 2 : log'[i] = IF i <= Len(log) THEN log[i] ELSE es[i - Len(log)]
    BY <1>1, <2>2, <2>4, ConcatProperties
  <2> HIDE DEF es
  <2>6. ASSUME NEW i \in 1..Len(log') PROVE log'[i].ts <= packetTm
    <3>1. CASE i \in 1..Len(log)
      BY <1>1, <2>5, <3>1
    <3>2. CASE i = Len(log) + 1 \/ i = Len(log) + 2
      BY <1>1, <2>4, <2>5, <3>2
    <3>3. QED
      BY <1>1, <2>5, <3>1, <3>2
  <2>7. \A t \in motions' : t <= packetTm
    BY <1>1, <1>4
  <2>8. log'[Len(log')].ts = packetTm
    BY <1>1, <2>4, <2>5
  <2>9. Len(log') % 2 = 1
    <3>1. (Len(log) + 1) % 2 = 0 /\ Len(log') = (Len(log) + 1) + 1
      BY <1>1, <2>1, <2>5
    <3>2. QED
      BY <1>1, <3>1, Parity
  <2>10. QED
    BY <1>1, <1>4, <2>1, <2>3, <2>6, <2>7, <2>8, <2>9 DEF MotionInv
<1>5. CASE /\ evtState \in {"IN", "POST"} /\ evtState' = "IN"
           /\ UNCHANGED <<evtStartTmOrig, log, suspect>>
           /\ motions' = motions \cup {packetTm}
  <2>1. /\ Len(log) % 2 = 1 /\ log[Len(log)].ts = evtStartTmOrig /\ suspect = {}
        /\ evtStartTmOrig \in 1..evtStartTmLast
    BY <1>5 DEF MotionInv
  <2>2. Fits(log, motions \cup {packetTm})
    BY <1>1, <2>1, MoreMotion
  <2>3. \A t \in motions' : t <= packetTm
    BY <1>1, <1>5
  <2>4. QED
    BY <1>1, <1>5, <2>1, <2>2, <2>3 DEF MotionInv
<1>6. QED
  BY <1>2, <1>3, <1>4, <1>5 DEF MotionFrame

\* A frame without motion keeps the invariant.
LEMMA StillKeeps == MotionInv /\ StillFrame => MotionInv'
<1> SUFFICES ASSUME MotionInv, StillFrame PROVE MotionInv'
  OBVIOUS
<1>1. UNCHANGED <<packetTm, evtStartTmLast, evtStartTmOrig, motions>>
  BY DEF StillFrame
<1>2. CASE evtState = "PRE" /\ evtState' = "NONE" /\ suspect' = {} /\ log' = log
  BY <1>1, <1>2 DEF MotionInv
<1>3. CASE evtState = "IN" /\ evtState' = "POST" /\ UNCHANGED <<log, suspect>>
  BY <1>1, <1>3 DEF MotionInv
<1>4. CASE evtState = "POST" /\ Over /\ evtState' = "NONE" /\ Made(<<Closing(packetTm)>>)
           /\ UNCHANGED suspect
  <2>1. /\ packetTm \in Nat \ {0} /\ evtStartTmLast \in 0..packetTm /\ Fits(log, motions)
        /\ Len(log) % 2 = 1 /\ suspect = {} /\ motions \subseteq Nat
        /\ \A t \in motions : t <= evtStartTmLast
        /\ \A i \in 1..Len(log) : log[i].ts <= packetTm
        /\ evtStartTmOrig \in 1..evtStartTmLast /\ Post \in Nat
    BY <1>4, MotionAssumption DEF MotionInv, Fits
  <2>2. packetTm - evtStartTmLast > Post
    BY <1>4, <2>1 DEF Over, Dura
  <2>3. \A t \in motions : packetTm - t > Post
    BY <2>1, <2>2
  <2>4. log' = log \o <<Closing(packetTm)>>
    BY <1>4 DEF Made
  <2>5. Fits(log', motions)
    BY <2>1, <2>3, <2>4, Closed
  <2>6. log \in Seq(Entry) /\ Len(log) \in Nat /\ (Len(log) + 1) % 2 = 0
    BY <2>1, LogTypes DEF Fits
  <2>7. Closing(packetTm) \in Entry /\ Closing(packetTm).ts = packetTm
    BY <2>1 DEF Closing, Entry
  <2>8. /\ Len(log') = Len(log) + 1 /\ log'[Len(log) + 1] = Closing(packetTm)
        /\ \A i \in 1..Len(log) : log'[i] = log[i]
    BY <2>4, <2>6, <2>7, OneMore
  <2>9. ASSUME NEW i \in 1..Len(log') PROVE log'[i].ts <= packetTm
    <3>1. i \in 1..Len(log) \/ i = Len(log) + 1
      BY <2>6, <2>8
    <3>2. QED
      BY <2>1, <2>7, <2>8, <3>1
  <2>10. Len(log') % 2 # 1
    BY <2>6, <2>8
  <2>11. QED
    BY <1>1, <1>4, <2>1, <2>5, <2>9, <2>10 DEF MotionInv
<1>5. QED
  BY <1>2, <1>3, <1>4 DEF StillFrame

LEMMA MotionInvInvariant == Spec => []MotionInv
<1>1. ASSUME packetTm \in Nat \ {0}, evtState = "NONE", evtStartTmLast = 0, evtStartTmOrig = 0,
             log = <<>>, suspect = {}, motions = {}
      PROVE  MotionInv
  <2>1. <<>> \in Seq(Entry) /\ Len(<<>>) = 0 /\ 0 % 2 # 1
    BY EmptySeq
  <2>2. Fits(<<>>, {})
    BY <2>1 DEF Fits, Alternates
  <2>3. QED
    BY <1>1, <2>1, <2>2 DEF MotionInv
<1>2. Init => MotionInv
  BY <1>1 DEF Init
<1>3. MotionInv /\ [Next]_vars => MotionInv'
  <2> SUFFICES ASSUME MotionInv, [Next]_vars PROVE MotionInv'
    OBVIOUS
  <2>1. CASE TimePasses
    <3>1. packetTm' = packetTm + 1 /\ packetTm \in Nat \ {0}
      BY <2>1 DEF TimePasses, MotionInv
    <3>2. UNCHANGED <<evtState, evtStartTmLast, evtStartTmOrig, log, suspect, motions>>
      BY <2>1 DEF TimePasses, detector
    <3>3. \A i \in 1..Len(log) : log[i].ts \in Nat
      BY LogTypes DEF MotionInv, Fits
    <3>4. evtStartTmLast \in 0..packetTm' /\ \A i \in 1..Len(log) : log[i].ts <= packetTm'
      BY <3>1, <3>3 DEF MotionInv
    <3>5. QED
      BY <3>1, <3>2, <3>4 DEF MotionInv
  <2>2. CASE MotionFrame
    BY <2>2, MotionKeeps
  <2>3. CASE StillFrame
    BY <2>3, StillKeeps
  <2>4. CASE FirstFrame \/ Looks \/ Relays \/ UNCHANGED vars
    <3>1. UNCHANGED <<packetTm, evtState, evtStartTmLast, evtStartTmOrig, log, suspect, motions>>
      BY <2>4 DEF FirstFrame, Looks, Relays, vars, detector
    <3>2. QED
      BY <3>1 DEF MotionInv
  <2>5. CASE Restart
    <3>1. /\ packetTm' \in Nat \ {0} /\ evtState' = "NONE" /\ evtStartTmLast' = 0
          /\ evtStartTmOrig' = 0 /\ log' = <<>> /\ suspect' = {} /\ motions' = {}
      BY <2>5 DEF Restart, MotionInv
    <3>2. <<>> \in Seq(Entry) /\ Len(<<>>) = 0 /\ 0 % 2 # 1
      BY EmptySeq
    <3>3. Fits(<<>>, {})
      BY <3>2 DEF Fits, Alternates
    <3>4. QED
      BY <3>1, <3>2, <3>3 DEF MotionInv
  <2>6. QED
    BY <2>1, <2>2, <2>3, <2>4, <2>5 DEF Next
<1>4. QED
  BY <1>2, <1>3, PTL DEF Spec

--------------------------------------------------------------------------------
(* The event thread *)

Times(l) == {l[i].ts : i \in 1..Len(l)}

\* What waits in the queue q is of the log l and in the order of time, not before the
\* copy f that the event thread holds.
Waiting(l, f, q) ==
    /\ q \in Seq(Entry)
    /\ \A i \in 1..Len(q) : q[i].ts \in Times(l)
    /\ \A i, j \in 1..Len(q) : i < j => q[i].ts <= q[j].ts
    /\ f # <<>> => /\ q # <<>> /\ f[1].ts \in Times(l)
                   /\ \A i \in 1..Len(q) : f[1].ts <= q[i].ts

\* The time t of something relayed is not after what is still to come.
Ahead(l, f, q, t) ==
    /\ t \in Times(l)
    /\ f # <<>> => t <= f[1].ts
    /\ \A i \in 1..Len(q) : t <= q[i].ts

\* Nothing is missing: what was relayed and what waits are the log.
Exact(l, tl, f, q) ==
    /\ Len(l) = Len(tl) + Len(q)
    /\ \A i \in 1..Len(tl) : l[i] = tl[i]
    /\ \A i \in 1..Len(q) : l[Len(tl) + i] = q[i]
    /\ f # <<>> => f = <<q[1]>>

\* The events sent are the openings relayed with their closings, but for the last.
Paired(tl, ev, s) ==
    /\ Len(s) = Len(tl) \div 2
    /\ \A k \in 1..Len(s) : s[k] = <<tl[2*k - 1].ts, tl[2*k].ts>>
    /\ ev = IF Len(tl) % 2 = 1 THEN <<tl[Len(tl)].ts>> ELSE <<>>

LastOf(s) == s[Len(s)]

\* What was relayed is where the log begins.
Logged(l, tl) == \A i \in 1..Len(tl) : i \in 1..Len(l) /\ tl[i] = l[i]

\* The sequence r is s with y at its end.
Extended(s, y, r) ==
    /\ Len(r) = Len(s) + 1 /\ r[Len(s) + 1] = y
    /\ \A k \in 1..Len(s) : r[k] = s[k]

\* An event that is put together: nothing, or its start.
Begun == {<<>>} \cup {<<t>> : t \in Nat}

\* The events sent are in the order of time.
InTime(l, f, q, ev, s) ==
    /\ ev # <<>> => Ahead(l, f, q, ev[1])
    /\ \A k \in 1..Len(s) :
          /\ Ahead(l, f, q, LastOf(s[k]))
          /\ ev # <<>> => LastOf(s[k]) <= ev[1]
    /\ \A k, j \in 1..Len(s) :
          k <= j /\ Len(s[j]) = 2 =>
             s[j][1] <= s[j][2] /\ (k < j => LastOf(s[k]) <= s[j][1])

RelayTypes ==
    /\ told \in Seq(Entry)
    /\ front \in {<<>>} \cup {<<e>> : e \in Entry}
    /\ eventToSlicer \in Begun
    /\ sent \in Seq(Seq(Nat))
    /\ \A k \in 1..Len(sent) : Len(sent[k]) \in {1, 2}
    /\ overflowed \in BOOLEAN

RelayInv ==
    /\ RelayTypes
    /\ Waiting(log, front, evtQueue)
    /\ InTime(log, front, evtQueue, eventToSlicer, sent)
    /\ ~overflowed => /\ Exact(log, told, front, evtQueue)
                      /\ Paired(told, eventToSlicer, sent)

\* Something later is pushed, whatever that drops.
LEMMA PushKeepsTime ==
    ASSUME NEW l \in Seq(Entry), NEW f, NEW q, Waiting(l, f, q), NEW e \in Entry,
           \A i \in 1..Len(l) : l[i].ts <= e.ts
    PROVE  LET r == PushDropOldest(q, e, QueueCap)
           IN  /\ Waiting(l \o <<e>>, f, r)
               /\ \A t : Ahead(l, f, q, t) => Ahead(l \o <<e>>, f, r, t)
<1> DEFINE a == Append(q, e)
           r == PushDropOldest(q, e, QueueCap)
           m == l \o <<e>>
<1>1. /\ q \in Seq(Entry) /\ Len(q) \in Nat
      /\ a \in Seq(Entry) /\ a # <<>> /\ Len(a) = Len(q) + 1 /\ a[Len(q) + 1] = e
      /\ \A i \in 1..Len(q) : a[i] = q[i]
  BY AppendProperties, LenProperties DEF Waiting
<1>2. /\ m \in Seq(Entry) /\ Len(l) \in Nat /\ Len(m) = Len(l) + 1 /\ m[Len(l) + 1] = e
      /\ \A i \in 1..Len(l) : m[i] = l[i] /\ l[i].ts \in Nat
  <2>1. \A i \in 1..Len(l) : l[i] \in Entry
    BY ElementOfSeq
  <2>2. QED
    BY <2>1, OneMore DEF Entry
<1> HIDE DEF a, m
<1>3. e.ts \in Nat /\ \A t \in Times(l) : t \in Nat /\ t <= e.ts
  BY <1>2 DEF Times, Entry
<1>4. e.ts \in Times(m) /\ Times(l) \subseteq Times(m)
  BY <1>2 DEF Times
<1>5. \E d \in {0, 1} : /\ r \in Seq(Entry) /\ r # <<>> /\ Len(r) = Len(a) - d
                        /\ \A i \in 1..Len(r) : r[i] = a[i + d] /\ i + d \in 1..Len(a)
  <2>1. CASE Len(q) + 1 > QueueCap
    <3>1. r = Tail(a)
      BY <2>1 DEF PushDropOldest, a
    <3>2. /\ r \in Seq(Entry) /\ Len(r) = Len(a) - 1
          /\ \A i \in 1..Len(r) : r[i] = a[i + 1]
      BY <1>1, <3>1, HeadTailProperties
    <3>3. Len(r) # 0
      BY <1>1, <2>1, <3>2, MotionAssumption
    <3>4. QED
      BY <1>1, <3>2, <3>3, EmptySeq
  <2>2. CASE ~(Len(q) + 1 > QueueCap)
    <3>1. r = a
      BY <2>2 DEF PushDropOldest, a
    <3>2. QED
      BY <1>1, <3>1
  <2>3. QED
    BY <2>1, <2>2
<1>6. PICK d \in {0, 1} : /\ r \in Seq(Entry) /\ r # <<>> /\ Len(r) = Len(a) - d
                          /\ \A i \in 1..Len(r) : r[i] = a[i + d] /\ i + d \in 1..Len(a)
  BY <1>5
<1> HIDE DEF r
<1>7. Len(r) \in Nat
  BY <1>1, <1>6
<1>8. \A i \in 1..Len(a) : /\ a[i].ts \in Times(m) /\ a[i].ts \in Nat
                           /\ (i \in 1..Len(q) /\ a[i] = q[i]) \/ a[i] = e
  <2> TAKE i \in 1..Len(a)
  <2>1. i \in 1..Len(q) \/ i = Len(q) + 1
    BY <1>1
  <2>2. QED
    BY <1>1, <1>3, <1>4, <2>1 DEF Waiting
<1>9. ASSUME NEW i \in 1..Len(a), NEW j \in 1..Len(a), i < j PROVE a[i].ts <= a[j].ts
  <2>1. i \in 1..Len(q) /\ a[i] = q[i] /\ a[i].ts \in Times(l)
    BY <1>1, <1>9 DEF Waiting
  <2>2. CASE j \in 1..Len(q)
    BY <1>1, <1>9, <2>1, <2>2 DEF Waiting
  <2>3. CASE j = Len(q) + 1
    BY <1>1, <1>3, <2>1, <2>3
  <2>4. QED
    BY <1>1, <2>2, <2>3
<1>10. ASSUME NEW t \in Times(l), \A i \in 1..Len(q) : t <= q[i].ts
       PROVE  \A i \in 1..Len(r) : t <= r[i].ts
  <2> TAKE i \in 1..Len(r)
  <2>1. i + d \in 1..Len(a) /\ r[i] = a[i + d]
    BY <1>6
  <2>2. QED
    BY <1>3, <1>8, <1>10, <2>1
<1>11. \A i \in 1..Len(r) : r[i].ts \in Times(m)
  BY <1>6, <1>8
<1>12. ASSUME NEW i \in 1..Len(r), NEW j \in 1..Len(r), i < j PROVE r[i].ts <= r[j].ts
  <2>1. /\ i + d \in 1..Len(a) /\ r[i] = a[i + d]
        /\ j + d \in 1..Len(a) /\ r[j] = a[j + d] /\ i + d < j + d
    BY <1>6, <1>7, <1>12
  <2>2. QED
    BY <1>9, <2>1
<1>13. f # <<>> => /\ f[1].ts \in Times(m)
                   /\ \A i \in 1..Len(r) : f[1].ts <= r[i].ts
  BY <1>4, <1>10 DEF Waiting
<1>14. Waiting(m, f, r)
  BY <1>6, <1>11, <1>12, <1>13 DEF Waiting
<1>15. ASSUME NEW t, Ahead(l, f, q, t) PROVE Ahead(m, f, r, t)
  BY <1>4, <1>10, <1>15 DEF Ahead
<1>16. QED
  BY <1>14, <1>15 DEF m, r

\* Nothing is dropped.
LEMMA PushKeepsAll ==
    ASSUME NEW l \in Seq(Entry), NEW tl \in Seq(Entry), NEW f, NEW q \in Seq(Entry),
           Exact(l, tl, f, q), f # <<>> => q # <<>>, NEW e \in Entry, Len(q) + 1 <= QueueCap
    PROVE  Exact(l \o <<e>>, tl, f, PushDropOldest(q, e, QueueCap))
<1> DEFINE a == Append(q, e)
           m == l \o <<e>>
<1>1. /\ Len(q) \in Nat /\ Len(tl) \in Nat
      /\ Len(a) = Len(q) + 1 /\ a[Len(q) + 1] = e
      /\ \A i \in 1..Len(q) : a[i] = q[i]
      /\ q # <<>> => 1 \in 1..Len(q)
  BY AppendProperties, LenProperties, EmptySeq
<1>2. /\ Len(l) \in Nat /\ Len(m) = Len(l) + 1 /\ m[Len(l) + 1] = e
      /\ \A i \in 1..Len(l) : m[i] = l[i]
  BY OneMore
<1>3. PushDropOldest(q, e, QueueCap) = a
  BY <1>1, MotionAssumption DEF PushDropOldest
<1> HIDE DEF a, m
<1>4. Len(m) = Len(tl) + Len(a)
  BY <1>1, <1>2 DEF Exact
<1>5. ASSUME NEW i \in 1..Len(tl) PROVE m[i] = tl[i]
  BY <1>1, <1>2 DEF Exact
<1>6. ASSUME NEW i \in 1..Len(a) PROVE m[Len(tl) + i] = a[i]
  <2>1. CASE i \in 1..Len(q)
    <3>1. Len(tl) + i \in 1..Len(l)
      BY <1>1, <2>1 DEF Exact
    <3>2. QED
      BY <1>1, <1>2, <2>1, <3>1 DEF Exact
  <2>2. CASE i = Len(q) + 1
    <3>1. Len(tl) + i = Len(l) + 1
      BY <1>1, <2>2 DEF Exact
    <3>2. QED
      BY <1>1, <1>2, <2>2, <3>1
  <2>3. QED
    BY <1>1, <2>1, <2>2
<1>7. f # <<>> => f = <<a[1]>>
  BY <1>1 DEF Exact
<1>8. QED
  BY <1>3, <1>4, <1>5, <1>6, <1>7 DEF Exact, m

\* The detector makes one entry, or two; each comes after all there are.
LEMMA OneMade ==
    ASSUME RelayInv, NEW e \in Entry, log \in Seq(Entry),
           \A i \in 1..Len(log) : log[i].ts <= e.ts,
           Made(<<e>>), UNCHANGED relay
    PROVE  RelayInv'
<1>1. /\ evtQueue' = PushDropOldest(evtQueue, e, QueueCap) /\ log' = log \o <<e>>
      /\ overflowed' = (overflowed \/ Len(evtQueue) + 1 > QueueCap)
      /\ UNCHANGED <<front, eventToSlicer, sent, told>>
  BY DEF Made, relay
<1>2. /\ Waiting(log', front, evtQueue')
      /\ \A t : Ahead(log, front, evtQueue, t) => Ahead(log', front, evtQueue', t)
  BY <1>1, PushKeepsTime DEF RelayInv
<1>3. InTime(log', front, evtQueue', eventToSlicer, sent)
  BY <1>2 DEF RelayInv, InTime
<1>4. evtQueue \in Seq(Entry) /\ Len(evtQueue) \in Nat /\ QueueCap \in Nat
  BY LenProperties, MotionAssumption DEF RelayInv, Waiting
<1>5. ~overflowed' => /\ Exact(log', told, front, evtQueue')
                      /\ Paired(told, eventToSlicer, sent)
  <2> SUFFICES ASSUME ~overflowed' PROVE /\ Exact(log', told, front, evtQueue')
                                         /\ Paired(told, eventToSlicer, sent)
    OBVIOUS
  <2>1. ~overflowed /\ Len(evtQueue) + 1 <= QueueCap
    <3>1. ~overflowed /\ ~(Len(evtQueue) + 1 > QueueCap)
      BY <1>1, Zenon
    <3>2. QED
      BY <1>4, <3>1
  <2>2. /\ Exact(log, told, front, evtQueue) /\ Paired(told, eventToSlicer, sent)
        /\ told \in Seq(Entry) /\ (front # <<>> => evtQueue # <<>>)
    BY <2>1 DEF RelayInv, RelayTypes, Waiting
  <2>3. QED
    BY <1>1, <1>4, <2>1, <2>2, PushKeepsAll
<1>6. RelayTypes'
  <2>1. overflowed' \in BOOLEAN
    BY <1>1
  <2>2. QED
    BY <1>1, <2>1 DEF RelayInv, RelayTypes
<1>7. QED
  BY <1>1, <1>2, <1>3, <1>5, <1>6 DEF RelayInv

LEMMA TwoMade ==
    ASSUME RelayInv, NEW c \in Entry, NEW e \in Entry, log \in Seq(Entry),
           \A i \in 1..Len(log) : log[i].ts <= c.ts, c.ts <= e.ts,
           Made(<<c, e>>), UNCHANGED relay
    PROVE  RelayInv'
<1> DEFINE once == PushDropOldest(evtQueue, c, QueueCap)
           more == log \o <<c>>
<1>1. /\ evtQueue' = PushDropOldest(once, e, QueueCap) /\ log' = log \o <<c, e>>
      /\ overflowed' = (overflowed \/ Len(evtQueue) + 2 > QueueCap)
      /\ UNCHANGED <<front, eventToSlicer, sent, told>>
  BY DEF Made, relay
<1>2. /\ more \in Seq(Entry) /\ Len(log) \in Nat /\ Len(more) = Len(log) + 1
      /\ more[Len(log) + 1] = c /\ \A i \in 1..Len(log) : more[i] = log[i]
  BY OneMore
<1>3. log' = more \o <<e>>
  <2> DEFINE a == <<c>>
             b == <<e>>
  <2>1. a \in Seq(Entry) /\ b \in Seq(Entry)
    OBVIOUS
  <2>2. a \o b = <<c, e>>
    <3>1. a \o b \in Seq(Entry) /\ Len(a \o b) = 2 /\ (a \o b)[1] = c /\ (a \o b)[2] = e
      BY <2>1, OneMore
    <3>2. /\ <<c, e>> \in Seq(Entry) /\ Len(<<c, e>>) = 2
          /\ \A i \in 1..2 : (a \o b)[i] = <<c, e>>[i]
      BY <3>1
    <3>3. QED
      BY <3>1, <3>2, SeqEqual
  <2>3. (log \o a) \o b = log \o (a \o b)
    BY <2>1, ConcatAssociative
  <2>4. QED
    BY <1>1, <2>2, <2>3
<1> HIDE DEF once, more
<1>4. \A i \in 1..Len(more) : more[i].ts <= e.ts
  <2> TAKE i \in 1..Len(more)
  <2>1. more[i] \in Entry /\ (more[i] = c \/ (i \in 1..Len(log) /\ more[i] = log[i]))
    <3>1. more[i] \in Entry
      BY <1>2, ElementOfSeq
    <3>2. i \in 1..Len(log) \/ i = Len(log) + 1
      BY <1>2
    <3>3. QED
      BY <1>2, <3>1, <3>2
  <2>2. more[i].ts <= c.ts /\ more[i].ts \in Nat /\ c.ts \in Nat /\ e.ts \in Nat
    BY <2>1 DEF Entry
  <2>3. QED
    BY <2>2
<1>5. /\ Waiting(more, front, once)
      /\ \A t : Ahead(log, front, evtQueue, t) => Ahead(more, front, once, t)
  BY PushKeepsTime DEF RelayInv, once, more
<1>6. /\ Waiting(log', front, evtQueue')
      /\ \A t : Ahead(more, front, once, t) => Ahead(log', front, evtQueue', t)
  BY <1>1, <1>2, <1>3, <1>4, <1>5, PushKeepsTime
<1>7. InTime(log', front, evtQueue', eventToSlicer, sent)
  BY <1>5, <1>6 DEF RelayInv, InTime
<1>8. evtQueue \in Seq(Entry) /\ Len(evtQueue) \in Nat /\ QueueCap \in Nat
  BY LenProperties, MotionAssumption DEF RelayInv, Waiting
<1>9. ~overflowed' => /\ Exact(log', told, front, evtQueue')
                      /\ Paired(told, eventToSlicer, sent)
  <2> SUFFICES ASSUME ~overflowed' PROVE /\ Exact(log', told, front, evtQueue')
                                         /\ Paired(told, eventToSlicer, sent)
    OBVIOUS
  <2>1. ~overflowed /\ Len(evtQueue) + 1 <= QueueCap /\ Len(evtQueue) + 1 + 1 <= QueueCap
    <3>1. ~overflowed /\ ~(Len(evtQueue) + 2 > QueueCap)
      BY <1>1, Zenon
    <3>2. QED
      BY <1>8, <3>1
  <2>2. /\ Exact(log, told, front, evtQueue) /\ Paired(told, eventToSlicer, sent)
        /\ told \in Seq(Entry) /\ (front # <<>> => evtQueue # <<>>)
    BY <2>1 DEF RelayInv, RelayTypes, Waiting
  <2>3. Exact(more, told, front, once)
    BY <1>8, <2>1, <2>2, PushKeepsAll DEF once, more
  <2>4. once \in Seq(Entry) /\ (front # <<>> => once # <<>>)
    BY <1>5 DEF Waiting
  <2>5. Len(once) + 1 <= QueueCap
    <3>1. once = Append(evtQueue, c)
      BY <1>8, <2>1 DEF PushDropOldest, once
    <3>2. QED
      BY <1>8, <2>1, <3>1, AppendProperties
  <2>6. QED
    BY <1>1, <1>2, <1>3, <2>2, <2>3, <2>4, <2>5, PushKeepsAll
<1>10. RelayTypes'
  <2>1. overflowed' \in BOOLEAN
    BY <1>1
  <2>2. QED
    BY <1>1, <2>1 DEF RelayInv, RelayTypes
<1>11. QED
  BY <1>1, <1>6, <1>7, <1>9, <1>10 DEF RelayInv

\* The frames.
LEMMA FramesRelayed ==
    ASSUME MotionInv, RelayInv, MotionFrame \/ StillFrame
    PROVE  RelayInv'
<1>1. /\ packetTm \in Nat /\ evtStartTmOrig \in Nat
      /\ log \in Seq(Entry) /\ UNCHANGED relay
      /\ \A i \in 1..Len(log) : log[i].ts <= packetTm
  BY LogTypes DEF MotionInv, Fits, MotionFrame, StillFrame
<1>2. \A t \in Nat : /\ Opening(t) \in Entry /\ Opening(t).ts = t
                     /\ Closing(t) \in Entry /\ Closing(t).ts = t
  BY DEF Opening, Closing, Entry
<1>3. CASE evtState = "PRE" /\ Made(<<Opening(OpeningTime)>>)
  <2>1. \A i \in 1..Len(log) : log[i].ts <= evtStartTmOrig
    BY <1>3 DEF MotionInv
  <2>2. QED
    BY <1>1, <1>2, <1>3, <2>1, OneMade DEF OpeningTime
<1>4. CASE Made(<<Closing(packetTm), Opening(packetTm)>>)
  BY <1>1, <1>2, <1>4, TwoMade
<1>5. CASE Made(<<Closing(packetTm)>>)
  BY <1>1, <1>2, <1>5, OneMade
<1>6. CASE UNCHANGED <<evtQueue, log, overflowed>>
  BY <1>1, <1>6 DEF relay, RelayInv, RelayTypes
<1>7. QED
  BY <1>3, <1>4, <1>5, <1>6 DEF MotionFrame, StillFrame

\* The event thread makes its copy.
LEMMA LooksRelayed ==
    ASSUME RelayInv, Looks
    PROVE  RelayInv'
<1>1. /\ front = <<>> /\ evtQueue # <<>> /\ front' = <<Head(evtQueue)>>
      /\ UNCHANGED <<evtQueue, eventToSlicer, sent, told, log, overflowed>>
  BY DEF Looks
<1>2. evtQueue \in Seq(Entry) /\ Len(evtQueue) \in Nat /\ 1 \in 1..Len(evtQueue)
  BY <1>1, LenProperties, EmptySeq DEF RelayInv, Waiting
<1>3. /\ Head(evtQueue) = evtQueue[1] /\ evtQueue[1] \in Entry
      /\ \A i \in 1..Len(evtQueue) : evtQueue[i].ts \in Nat
  <2>1. \A i \in 1..Len(evtQueue) : evtQueue[i] \in Entry
    BY <1>2, ElementOfSeq
  <2>2. QED
    BY <1>2, <2>1 DEF Entry
<1>4. front' = <<evtQueue[1]>> /\ front'[1] = evtQueue[1]
  BY <1>1, <1>3
<1>5. /\ \A i \in 1..Len(evtQueue) : evtQueue[1].ts <= evtQueue[i].ts
      /\ evtQueue[1].ts \in Times(log)
  <2>1. \A i \in 1..Len(evtQueue) : i = 1 \/ 1 < i
    BY <1>2
  <2>2. QED
    BY <1>2, <1>3, <2>1 DEF RelayInv, Waiting
<1>6. Waiting(log, front', evtQueue)
  BY <1>1, <1>4, <1>5 DEF RelayInv, Waiting
<1>7. \A t : Ahead(log, front, evtQueue, t) => Ahead(log, front', evtQueue, t)
  BY <1>2, <1>4 DEF Ahead
<1>8. InTime(log, front', evtQueue, eventToSlicer, sent)
  BY <1>7 DEF RelayInv, InTime
<1>9. ~overflowed => Exact(log, told, front', evtQueue) /\ Paired(told, eventToSlicer, sent)
  BY <1>4 DEF RelayInv, Exact
<1>10. RelayTypes'
  BY <1>1, <1>3, <1>4 DEF RelayInv, RelayTypes
<1>11. QED
  BY <1>1, <1>6, <1>8, <1>9, <1>10 DEF RelayInv

\* The head of the queue goes; nothing else of time changes.
LEMMA PopKeepsTime ==
    ASSUME NEW l, NEW f, NEW q, Waiting(l, f, q), f # <<>>, f[1] \in Entry
    PROVE  /\ Waiting(l, <<>>, Tail(q))
           /\ \A t : Ahead(l, f, q, t) => Ahead(l, <<>>, Tail(q), t)
           /\ Ahead(l, <<>>, Tail(q), f[1].ts)
<1> DEFINE r == Tail(q)
<1>1. q \in Seq(Entry) /\ Len(q) \in Nat /\ q # <<>>
  BY LenProperties DEF Waiting
<1>2. /\ r \in Seq(Entry) /\ Len(r) = Len(q) - 1
      /\ \A i \in 1..Len(r) : r[i] = q[i + 1]
  BY <1>1, HeadTailProperties
<1> HIDE DEF r
<1>3. \A i \in 1..Len(r) : i + 1 \in 1..Len(q)
  BY <1>1, <1>2
<1>4. ASSUME NEW i \in 1..Len(r), NEW j \in 1..Len(r), i < j PROVE r[i].ts <= r[j].ts
  <2>1. i + 1 < j + 1
    BY <1>1, <1>2, <1>4
  <2>2. QED
    BY <1>2, <1>3, <2>1 DEF Waiting
<1>5. Waiting(l, <<>>, r)
  BY <1>2, <1>3, <1>4 DEF Waiting
<1>6. ASSUME NEW t, Ahead(l, f, q, t) PROVE Ahead(l, <<>>, r, t)
  BY <1>2, <1>3, <1>6 DEF Ahead
<1>7. Ahead(l, <<>>, r, f[1].ts)
  BY <1>2, <1>3 DEF Ahead, Waiting
<1>8. QED
  BY <1>5, <1>6, <1>7 DEF r

\* The copy was the head, and is relayed now.
LEMMA PopKeepsAll ==
    ASSUME NEW l, NEW tl \in Seq(Entry), NEW f, NEW q \in Seq(Entry), q # <<>>, f # <<>>,
           Exact(l, tl, f, q)
    PROVE  /\ Exact(l, tl \o f, <<>>, Tail(q))
           /\ f = <<l[Len(tl) + 1]>> /\ Len(tl) + 1 \in 1..Len(l) /\ Len(tl) \in Nat
           /\ Len(tl \o f) = Len(tl) + 1
           /\ \A i \in 1..Len(tl) + 1 : (tl \o f)[i] = l[i]
           /\ \A i \in 1..Len(tl) : tl[i] = l[i]
<1> DEFINE r == Tail(q)
           m == tl \o f
<1>1. Len(tl) \in Nat
  BY LenProperties
<1>2. /\ Len(tl) \in Nat /\ Len(q) \in Nat /\ 1 \in 1..Len(q) /\ q[1] \in Entry
      /\ r \in Seq(Entry) /\ Len(r) = Len(q) - 1
      /\ \A i \in 1..Len(r) : r[i] = q[i + 1]
  BY LenProperties, EmptySeq, ElementOfSeq, HeadTailProperties
<1>3. f = <<q[1]>> /\ l[Len(tl) + 1] = q[1]
  BY <1>2 DEF Exact
<1>4. /\ Len(m) = Len(tl) + 1 /\ m[Len(tl) + 1] = q[1]
      /\ \A i \in 1..Len(tl) : m[i] = tl[i]
  BY <1>2, <1>3, OneMore
<1> HIDE DEF r, m
<1>5. ASSUME NEW i \in 1..(Len(tl) + 1) PROVE m[i] = l[i]
  <2>1. i \in 1..Len(tl) \/ i = Len(tl) + 1
    BY <1>1
  <2>2. QED
    BY <1>3, <1>4, <2>1 DEF Exact
<1>6. ASSUME NEW i \in 1..Len(r) PROVE l[Len(m) + i] = r[i]
  <2>1. i + 1 \in 1..Len(q) /\ Len(m) + i = Len(tl) + (i + 1)
    BY <1>2, <1>4
  <2>2. QED
    BY <1>2, <2>1 DEF Exact
<1>7. Len(l) = Len(m) + Len(r) /\ Len(tl) + 1 \in 1..Len(l)
  BY <1>2, <1>4 DEF Exact
<1>8. Exact(l, m, <<>>, r)
  BY <1>4, <1>5, <1>6, <1>7 DEF Exact
<1>9. QED
  BY <1>2, <1>3, <1>4, <1>5, <1>7, <1>8 DEF Exact, r, m

\* One event more is sent, in its time.
LEMMA SentLater ==
    ASSUME NEW l, NEW f, NEW q, NEW ev, NEW x, NEW s, ev \in Begun, x \in Nat,
           s \in Seq(Seq(Nat)), InTime(l, f, q, ev, s), Ahead(l, f, q, x),
           ev # <<>> => ev[1] <= x
    PROVE  /\ Append(s, ev \o <<x>>) \in Seq(Seq(Nat))
           /\ Extended(s, ev \o <<x>>, Append(s, ev \o <<x>>))
           /\ Len(ev \o <<x>>) \in {1, 2}
           /\ InTime(l, f, q, <<>>, Append(s, ev \o <<x>>))
<1> DEFINE e == ev \o <<x>>
           s2 == Append(s, e)
           n == Len(s)
<1>1. /\ e \in Seq(Nat)
      /\ \/ ev = <<>> /\ e = <<x>> /\ Len(e) = 1 /\ e[1] = x
         \/ ev # <<>> /\ ev[1] \in Nat /\ e = <<ev[1], x>> /\ Len(e) = 2 /\ e[1] = ev[1] /\ e[2] = x
  <2>1. CASE ev = <<>>
    <3>1. <<x>> \in Seq(Nat)
      OBVIOUS
    <3>2. e = <<x>>
      BY <2>1, <3>1, ConcatEmptySeq
    <3>3. QED
      BY <2>1, <3>1, <3>2
  <2>2. CASE ev # <<>>
    <3>1. PICK t \in Nat : ev = <<t>>
      BY <2>2 DEF Begun
    <3>2. <<t>> \in Seq(Nat) /\ Len(<<t>>) = 1 /\ <<x>> \in Seq(Nat) /\ Len(<<x>>) = 1
      OBVIOUS
    <3>3. e \in Seq(Nat) /\ Len(e) = 2 /\ e[1] = t /\ e[2] = x
      <4>1. /\ e \in Seq(Nat) /\ Len(e) = Len(<<t>>) + Len(<<x>>)
            /\ \A i \in 1..Len(<<t>>) + Len(<<x>>) :
                  e[i] = IF i <= Len(<<t>>) THEN <<t>>[i] ELSE <<x>>[i - Len(<<t>>)]
        BY <3>1, <3>2, ConcatProperties
      <4>2. QED
        BY <3>2, <4>1
    <3>4. e = <<t, x>>
      <4>1. /\ <<t, x>> \in Seq(Nat) /\ Len(<<t, x>>) = 2
            /\ \A i \in 1..2 : e[i] = <<t, x>>[i]
        BY <3>3
      <4>2. QED
        BY <3>3, <4>1, SeqEqual
    <3>5. QED
      BY <2>2, <3>1, <3>3, <3>4
  <2>3. QED
    BY <2>1, <2>2
<1> HIDE DEF e
<1>2. /\ s2 \in Seq(Seq(Nat)) /\ n \in Nat /\ Len(s2) = n + 1 /\ s2[n + 1] = e
      /\ \A k \in 1..n : s2[k] = s[k]
  BY <1>1, AppendProperties, LenProperties
<1> HIDE DEF s2, n
<1>3. LastOf(e) = x /\ \A k \in 1..n : LastOf(s2[k]) = LastOf(s[k])
  BY <1>1, <1>2 DEF LastOf
<1>4. ASSUME NEW k \in 1..n + 1 PROVE Ahead(l, f, q, LastOf(s2[k]))
  <2>1. CASE k \in 1..n
    BY <1>3, <2>1 DEF InTime, n
  <2>2. CASE k = n + 1
    BY <1>2, <1>3, <2>2
  <2>3. QED
    BY <1>2, <2>1, <2>2
<1>5. ASSUME NEW k \in 1..n + 1, NEW j \in 1..n + 1, k <= j, Len(s2[j]) = 2
      PROVE  s2[j][1] <= s2[j][2] /\ (k < j => LastOf(s2[k]) <= s2[j][1])
  <2>1. CASE j \in 1..n
    <3>1. k \in 1..n /\ s2[j] = s[j] /\ LastOf(s2[k]) = LastOf(s[k])
      BY <1>2, <1>3, <1>5, <2>1
    <3>2. QED
      BY <1>5, <2>1, <3>1 DEF InTime, n
  <2>2. CASE j = n + 1
    <3>1. ev # <<>> /\ e[1] = ev[1] /\ e[2] = x /\ s2[j] = e
      <4>1. s2[j] = e
        BY <1>2, <2>2
      <4>2. Len(e) = 2
        BY <1>5, <4>1
      <4>3. Len(e) # 1
        BY <4>2
      <4>4. QED
        BY <1>1, <4>1, <4>3, Zenon
    <3>2. k < j => k \in 1..n /\ LastOf(s2[k]) = LastOf(s[k])
      BY <1>2, <1>3, <2>2
    <3>3. QED
      BY <3>1, <3>2 DEF InTime, n
  <2>3. QED
    BY <1>2, <2>1, <2>2
<1>6. InTime(l, f, q, <<>>, s2)
  BY <1>2, <1>4, <1>5 DEF InTime
<1>7. QED
  <2>1. Extended(s, e, s2)
    BY <1>2 DEF Extended, n
  <2>2. Len(e) \in {1, 2}
    BY <1>1
  <2>3. QED
    BY <1>2, <1>6, <2>1, <2>2 DEF e, s2

\* The pairs, when the opening that has no closing yet is followed by one, or there is none
\* and another opens.
LEMMA Halves ==
    ASSUME NEW n \in Nat
    PROVE  /\ n \div 2 \in Nat
           /\ n % 2 = 1 => (n + 1) \div 2 = n \div 2 + 1 /\ n + 1 = 2 * (n \div 2 + 1)
           /\ n % 2 = 0 => (n + 1) \div 2 = n \div 2
           /\ \A k \in 1..n \div 2 : 2*k - 1 \in 1..n /\ 2*k \in 1..n
OBVIOUS

LEMMA PairsKept ==
    ASSUME NEW l, NEW tl, NEW m, NEW ev, NEW s, Alternates(l), Paired(tl, ev, s),
           Logged(l, tl), Logged(l, m), Len(tl) \in Nat, Len(m) = Len(tl) + 1
    PROVE  /\ l[Len(tl) + 1].event = "start" => Paired(m, <<l[Len(tl) + 1].ts>>, s)
           /\ l[Len(tl) + 1].event = "end" =>
                 /\ ev = <<l[Len(tl)].ts>>
                 /\ \A s2 : Extended(s, <<l[Len(tl)].ts, l[Len(tl) + 1].ts>>, s2)
                            => Paired(m, <<>>, s2)
<1> DEFINE n == Len(tl)
           h == n \div 2
           x == l[n + 1]
<1>1. /\ n % 2 = 1 \/ n % 2 = 0
      /\ n % 2 = 1 => (n + 1) % 2 = 0 /\ (n + 1) \div 2 = h + 1 /\ n + 1 = 2 * (h + 1)
      /\ n % 2 = 0 => (n + 1) % 2 = 1 /\ (n + 1) \div 2 = h
      /\ h \in Nat /\ \A k \in 1..h : 2*k - 1 \in 1..n /\ 2*k \in 1..n
  BY Parity, Halves
<1>2. x.event = IF (n + 1) % 2 = 1 THEN "start" ELSE "end"
  <2>1. n + 1 \in 1..n + 1 /\ Len(m) = n + 1
    OBVIOUS
  <2>2. n + 1 \in 1..Len(l)
    BY <2>1 DEF Logged
  <2>3. QED
    BY <2>2 DEF Alternates
<1>3. /\ Len(s) = h
      /\ \A k \in 1..Len(s) : s[k] = <<tl[2*k - 1].ts, tl[2*k].ts>>
      /\ ev = IF n % 2 = 1 THEN <<tl[n].ts>> ELSE <<>>
  BY DEF Paired
<1>4. \A i \in 1..n : i \in 1..n + 1 /\ m[i] = tl[i] /\ tl[i] = l[i]
  <2> TAKE i \in 1..n
  <2>1. i \in 1..n + 1
    OBVIOUS
  <2>2. QED
    BY <2>1 DEF Logged
<1>5. n + 1 \in 1..n + 1 /\ m[n + 1] = x /\ Len(m) = n + 1 /\ n + 1 \in 1..Len(l)
  <2>1. n + 1 \in 1..n + 1
    OBVIOUS
  <2>2. QED
    BY <2>1 DEF Logged
<1>6. n \in Nat
  OBVIOUS
<1> HIDE DEF n, x
<1>7. \A k \in 1..Len(s) : s[k] = <<m[2*k - 1].ts, m[2*k].ts>>
  BY <1>1, <1>3, <1>4
<1>8. ASSUME x.event = "start" PROVE Paired(m, <<x.ts>>, s)
  <2>1. n % 2 = 0 /\ (n + 1) % 2 = 1
    BY <1>1, <1>2, <1>8
  <2>2. QED
    BY <1>1, <1>3, <1>5, <1>7, <2>1 DEF Paired
<1>9. ASSUME x.event = "end" PROVE n % 2 = 1 /\ ev = <<l[n].ts>> /\ n \in 1..n
  <2>1. n % 2 = 1
    BY <1>1, <1>2, <1>9
  <2>2. n \in 1..n
    BY <1>6, <2>1
  <2>3. QED
    BY <1>3, <1>4, <2>1, <2>2
<1>10. ASSUME x.event = "end", NEW s2, Extended(s, <<l[n].ts, x.ts>>, s2)
       PROVE  Paired(m, <<>>, s2)
  <2>1. /\ Len(s2) = Len(s) + 1 /\ s2[Len(s) + 1] = <<l[n].ts, x.ts>>
        /\ \A k \in 1..Len(s) : s2[k] = s[k]
    BY <1>10 DEF Extended
  <2>2. n % 2 = 1 /\ n \in 1..n /\ (n + 1) % 2 = 0
    BY <1>1, <1>9, <1>10
  <2>3. Len(s2) = Len(m) \div 2 /\ Len(s2) = h + 1
    BY <1>1, <1>3, <1>5, <2>1, <2>2
  <2>4. ASSUME NEW k \in 1..h + 1 PROVE s2[k] = <<m[2*k - 1].ts, m[2*k].ts>>
    <3>1. CASE k \in 1..h
      BY <1>3, <1>7, <2>1, <3>1
    <3>2. CASE k = h + 1
      <4>1. 2*k = n + 1 /\ 2*k - 1 = n
        BY <1>1, <1>6, <2>2, <3>2
      <4>2. QED
        BY <1>3, <1>4, <1>5, <2>1, <2>2, <3>2, <4>1
    <3>3. QED
      BY <1>1, <3>1, <3>2
  <2>5. Len(m) % 2 # 1 /\ \A k \in 1..Len(s2) : s2[k] = <<m[2*k - 1].ts, m[2*k].ts>>
    <3>1. Len(m) % 2 = 0
      BY <1>5, <2>2, Zenon
    <3>2. QED
      BY <2>3, <2>4, <3>1
  <2>6. QED
    BY <2>3, <2>5 DEF Paired
<1>11. QED
  BY <1>8, <1>9, <1>10 DEF n, x

\* The event thread pops, and relays its copy.
LEMMA RelaysRelayed ==
    ASSUME MotionInv, RelayInv, Relays
    PROVE  RelayInv'
<1>1. /\ front # <<>> /\ evtQueue' = Tail(evtQueue) /\ front' = <<>> /\ told' = told \o front
      /\ \/ /\ front[1].event = "start"
            /\ eventToSlicer' = <<front[1].ts>> /\ sent' = sent
         \/ /\ front[1].event = "end"
            /\ sent' = Append(sent, eventToSlicer \o <<front[1].ts>>) /\ eventToSlicer' = <<>>
      /\ UNCHANGED <<log, overflowed>>
  BY DEF Relays, Cleared
<1>2. /\ RelayTypes /\ Waiting(log, front, evtQueue)
      /\ InTime(log, front, evtQueue, eventToSlicer, sent)
      /\ Alternates(log)
  BY DEF RelayInv, MotionInv, Fits
<1>3. /\ front[1] \in Entry /\ front[1].ts \in Nat /\ front \in Seq(Entry)
      /\ told \in Seq(Entry) /\ sent \in Seq(Seq(Nat)) /\ Len(sent) \in Nat
      /\ eventToSlicer \in Begun
  <2>1. PICK e \in Entry : front = <<e>>
    BY <1>1, <1>2 DEF RelayTypes
  <2>2. front[1] \in Entry /\ front[1].ts \in Nat /\ front \in Seq(Entry)
    BY <2>1 DEF Entry
  <2>3. QED
    BY <1>2, <2>2, LenProperties DEF RelayTypes
<1>4. /\ Waiting(log, <<>>, evtQueue')
      /\ \A t : Ahead(log, front, evtQueue, t) => Ahead(log, <<>>, evtQueue', t)
      /\ Ahead(log, <<>>, evtQueue', front[1].ts)
  BY <1>1, <1>2, <1>3, PopKeepsTime
<1>5. InTime(log, <<>>, evtQueue', eventToSlicer, sent)
  BY <1>2, <1>4 DEF InTime
<1>6. /\ eventToSlicer # <<>> => eventToSlicer[1] <= front[1].ts
      /\ \A k \in 1..Len(sent) : LastOf(sent[k]) <= front[1].ts
  BY <1>1, <1>2 DEF InTime, Ahead
<1>7. /\ told' \in Seq(Entry) /\ front' \in {<<>>} \cup {<<e>> : e \in Entry}
      /\ overflowed' \in BOOLEAN
  <2>1. told' \in Seq(Entry)
    BY <1>1, <1>3, ConcatProperties
  <2>2. QED
    BY <1>1, <1>2, <2>1 DEF RelayTypes
<1>8. ASSUME ~overflowed
      PROVE  /\ Exact(log, told', <<>>, evtQueue')
             /\ front = <<log[Len(told) + 1]>> /\ Len(told) \in Nat
             /\ Len(told') = Len(told) + 1
             /\ Logged(log, told') /\ Logged(log, told)
             /\ Paired(told, eventToSlicer, sent)
  <2>1. /\ Exact(log, told, front, evtQueue) /\ Paired(told, eventToSlicer, sent)
        /\ evtQueue \in Seq(Entry) /\ evtQueue # <<>>
    BY <1>1, <1>8 DEF RelayInv, Waiting
  <2>2. /\ Exact(log, told', <<>>, evtQueue')
        /\ front = <<log[Len(told) + 1]>> /\ Len(told) + 1 \in 1..Len(log) /\ Len(told) \in Nat
        /\ Len(told') = Len(told) + 1
        /\ \A i \in 1..Len(told) + 1 : told'[i] = log[i]
        /\ \A i \in 1..Len(told) : told[i] = log[i]
    BY <1>1, <1>3, <2>1, PopKeepsAll
  <2>3. Len(log) \in Nat
    <3>1. log \in Seq(Entry)
      BY DEF MotionInv, Fits, Alternates
    <3>2. QED
      BY <3>1, LenProperties
  <2>4. Logged(log, told') /\ Logged(log, told)
    BY <2>2, <2>3 DEF Logged
  <2>5. QED
    BY <2>1, <2>2, <2>4
<1>9. CASE front[1].event = "start" /\ eventToSlicer' = <<front[1].ts>> /\ sent' = sent
  <2>1. InTime(log, <<>>, evtQueue', eventToSlicer', sent)
    <3>1. eventToSlicer'[1] = front[1].ts
      BY <1>9
    <3>2. QED
      BY <1>4, <1>5, <1>6, <3>1 DEF InTime
  <2>2. RelayTypes'
    BY <1>2, <1>3, <1>7, <1>9 DEF RelayTypes, Begun
  <2>3. ASSUME ~overflowed PROVE Paired(told', eventToSlicer', sent)
    <3>1. front[1] = log[Len(told) + 1]
      BY <1>8, <2>3
    <3>2. QED
      BY <1>2, <1>8, <1>9, <2>3, <3>1, PairsKept
  <2>4. QED
    BY <1>1, <1>4, <1>8, <1>9, <2>1, <2>2, <2>3 DEF RelayInv
<1>10. CASE /\ front[1].event = "end"
            /\ sent' = Append(sent, eventToSlicer \o <<front[1].ts>>) /\ eventToSlicer' = <<>>
  <2>1. /\ sent' \in Seq(Seq(Nat))
        /\ Extended(sent, eventToSlicer \o <<front[1].ts>>, sent')
        /\ Len(eventToSlicer \o <<front[1].ts>>) \in {1, 2}
        /\ InTime(log, <<>>, evtQueue', <<>>, sent')
    BY <1>3, <1>4, <1>5, <1>6, <1>10, SentLater
  <2>2. ASSUME NEW k \in 1..Len(sent') PROVE Len(sent'[k]) \in {1, 2}
    <3>1. k \in 1..Len(sent) \/ k = Len(sent) + 1
      BY <1>3, <2>1 DEF Extended
    <3>2. QED
      BY <1>2, <2>1, <3>1 DEF RelayTypes, Extended
  <2>3. RelayTypes'
    BY <1>7, <1>10, <2>1, <2>2 DEF RelayTypes, Begun
  <2>4. ASSUME ~overflowed PROVE Paired(told', <<>>, sent')
    <3> DEFINE x == log[Len(told) + 1]
               o == log[Len(told)].ts
    <3>1. front[1] = x /\ x.event = "end"
      BY <1>8, <1>10, <2>4
    <3>2. /\ eventToSlicer = <<o>>
          /\ \A s2 : Extended(sent, <<o, x.ts>>, s2) => Paired(told', <<>>, s2)
      BY <1>2, <1>8, <2>4, <3>1, PairsKept
    <3>3. eventToSlicer \o <<front[1].ts>> = <<o, x.ts>>
      <4>1. <<o>> \in Seq(Nat) /\ <<x.ts>> \in Seq(Nat) /\ o \in Nat /\ x.ts \in Nat
        <5>1. o \in Nat
          BY <1>3, <3>2 DEF Begun
        <5>2. x.ts \in Nat
          BY <1>3, <3>1
        <5>3. QED
          BY <5>1, <5>2
      <4> HIDE DEF o, x
      <4>2. /\ <<o>> \o <<x.ts>> \in Seq(Nat) /\ Len(<<o>> \o <<x.ts>>) = 2
            /\ \A i \in 1..2 : (<<o>> \o <<x.ts>>)[i] = IF i <= 1 THEN <<o>>[i] ELSE <<x.ts>>[i - 1]
        <5>1. Len(<<o>>) = 1 /\ Len(<<x.ts>>) = 1
          OBVIOUS
        <5>2. QED
          BY <4>1, <5>1, ConcatProperties
      <4>3. /\ <<o, x.ts>> \in Seq(Nat) /\ Len(<<o, x.ts>>) = 2
            /\ \A i \in 1..2 : (<<o>> \o <<x.ts>>)[i] = <<o, x.ts>>[i]
        BY <4>1, <4>2
      <4>4. <<o>> \o <<x.ts>> = <<o, x.ts>>
        BY <4>2, <4>3, SeqEqual
      <4>5. QED
        BY <3>1, <3>2, <4>4
    <3> HIDE DEF o, x
    <3>4. QED
      BY <2>1, <3>2, <3>3
  <2>5. QED
    BY <1>1, <1>4, <1>8, <1>10, <2>1, <2>3, <2>4 DEF RelayInv
<1>11. QED
  BY <1>1, <1>9, <1>10

\* A process that starts has relayed nothing.
LEMMA FreshRelay ==
    /\ Waiting(<<>>, <<>>, <<>>)
    /\ InTime(<<>>, <<>>, <<>>, <<>>, <<>>)
    /\ Exact(<<>>, <<>>, <<>>, <<>>)
    /\ Paired(<<>>, <<>>, <<>>)
    /\ <<>> \in Seq(Entry) /\ <<>> \in Seq(Seq(Nat)) /\ Len(<<>>) = 0
<1>1. <<>> \in Seq(Entry) /\ <<>> \in Seq(Seq(Nat)) /\ Len(<<>>) = 0
  BY EmptySeq
<1>2. Waiting(<<>>, <<>>, <<>>)
  BY <1>1 DEF Waiting
<1>3. InTime(<<>>, <<>>, <<>>, <<>>, <<>>)
  BY <1>1 DEF InTime
<1>4. Exact(<<>>, <<>>, <<>>, <<>>)
  BY <1>1 DEF Exact
<1>5. Paired(<<>>, <<>>, <<>>)
  <2>1. 0 \div 2 = 0 /\ 0 % 2 # 1
    OBVIOUS
  <2>2. QED
    BY <1>1, <2>1 DEF Paired
<1>6. QED
  BY <1>1, <1>2, <1>3, <1>4, <1>5

LEMMA RelayInvInvariant == Spec => []RelayInv
<1>1. Init => RelayInv
  <2> SUFFICES ASSUME Init PROVE RelayInv
    OBVIOUS
  <2>1. /\ evtQueue = <<>> /\ front = <<>> /\ eventToSlicer = <<>> /\ sent = <<>>
        /\ told = <<>> /\ log = <<>> /\ overflowed = FALSE
    BY DEF Init
  <2>2. RelayTypes
    <3>1. /\ told \in Seq(Entry) /\ sent \in Seq(Seq(Nat)) /\ Len(sent) = 0
          /\ front \in {<<>>} \cup {<<e>> : e \in Entry} /\ overflowed \in BOOLEAN
      BY <2>1, FreshRelay
    <3>2. eventToSlicer \in Begun
      BY <2>1 DEF Begun
    <3>3. QED
      BY <3>1, <3>2 DEF RelayTypes
  <2>3. QED
    BY <2>1, <2>2, FreshRelay, Zenon DEF RelayInv
<1>2. MotionInv /\ RelayInv /\ [Next]_vars => RelayInv'
  <2> SUFFICES ASSUME MotionInv, RelayInv, [Next]_vars PROVE RelayInv'
    OBVIOUS
  <2>1. CASE MotionFrame \/ StillFrame
    BY <2>1, FramesRelayed
  <2>2. CASE Looks
    BY <2>2, LooksRelayed
  <2>3. CASE Relays
    BY <2>3, RelaysRelayed
  <2>4. CASE TimePasses \/ FirstFrame \/ UNCHANGED vars
    BY <2>4 DEF TimePasses, FirstFrame, vars, relay, RelayInv, RelayTypes
  <2>5. CASE Restart
    <3>1. /\ evtQueue' = <<>> /\ front' = <<>> /\ eventToSlicer' = <<>> /\ sent' = <<>>
          /\ told' = <<>> /\ log' = <<>> /\ overflowed' = FALSE
      BY <2>5 DEF Restart
    <3>2. RelayTypes'
      <4>1. /\ told' \in Seq(Entry) /\ sent' \in Seq(Seq(Nat)) /\ Len(sent') = 0
            /\ front' \in {<<>>} \cup {<<e>> : e \in Entry} /\ overflowed' \in BOOLEAN
        BY <3>1, FreshRelay
      <4>2. eventToSlicer' \in Begun
        BY <3>1 DEF Begun
      <4>3. QED
        BY <4>1, <4>2 DEF RelayTypes
    <3>3. /\ Waiting(log', front', evtQueue')
          /\ InTime(log', front', evtQueue', eventToSlicer', sent')
          /\ Exact(log', told', front', evtQueue')
          /\ Paired(told', eventToSlicer', sent')
      BY <3>1, FreshRelay, Zenon
    <3>4. QED
      BY <3>2, <3>3 DEF RelayInv
  <2>6. QED
    BY <2>1, <2>2, <2>3, <2>4, <2>5 DEF Next
<1>3. QED
  BY <1>1, <1>2, MotionInvInvariant, PTL DEF Spec

--------------------------------------------------------------------------------
(* The theorems *)

\* Every confirmed motion lies in an event, and events follow one another in time.
THEOREM NoMotionIsLost == Spec => []MotionCovered
<1>1. MotionInv => MotionCovered
  <2> SUFFICES ASSUME MotionInv PROVE MotionCovered
    OBVIOUS
  <2>1. /\ Alternates(log) /\ DOMAIN log = 1..Len(log) /\ Len(log) \in Nat
        /\ Len(log) % 2 = 1 => Len(log) \in 1..Len(log)
        /\ \A t \in motions : Covered(log, t)
    BY LogTypes, LenProperties DEF MotionInv, Fits
  <2>2. \A i \in 1..Len(log) : i \in Openings <=> i % 2 = 1
    BY <2>1 DEF Openings
  <2>3. \A i \in Closings : i \in 1..Len(log)
    BY <2>1 DEF Closings
  <2>4. \A i \in DOMAIN log : log[i].event = IF i \in Openings THEN "start" ELSE "end"
    BY <2>1, <2>2 DEF Alternates
  <2>5. \A i, j \in DOMAIN log : i < j => log[i].ts <= log[j].ts
    BY <2>1 DEF Alternates
  <2>6. Len(log) \in Openings <=> evtState \in {"IN", "POST"}
    BY <2>1 DEF MotionInv, Openings
  <2>7. ASSUME NEW t \in motions
        PROVE  \E i \in Openings : log[i].ts <= t /\ (i + 1 \in Closings => t <= log[i + 1].ts)
    <3>1. PICK i \in 1..Len(log) : /\ i % 2 = 1 /\ log[i].ts <= t
                                   /\ i + 1 <= Len(log) => t <= log[i + 1].ts
      BY <2>1 DEF Covered
    <3>2. i \in Openings /\ (i + 1 \in Closings => i + 1 <= Len(log))
      BY <2>1, <2>2, <2>3, <3>1
    <3>3. QED
      BY <3>1, <3>2
  <2>8. QED
    BY <2>4, <2>5, <2>6, <2>7 DEF MotionCovered
<1>2. QED
  BY <1>1, MotionInvInvariant, PTL

\* An event ends only after a long enough rest, or goes on as a new one.
THEOREM NoEventIsCut == Spec => []NotCutShort
<1>1. MotionInv => NotCutShort
  <2> SUFFICES ASSUME MotionInv, NEW i \in Closings
               PROVE  \/ \A t \in motions : t >= log[i].ts \/ log[i].ts - t > Post
                      \/ /\ i + 1 \in Openings
                         /\ log[i + 1].ts = log[i].ts
                         /\ log[i].ts - log[i - 1].ts > MaxDuration
    BY DEF NotCutShort
  <2>1. /\ DOMAIN log = 1..Len(log) /\ Len(log) \in Nat
        /\ \A j \in 1..Len(log) : j % 2 # 1 => Right(log, j, motions)
    BY LogTypes, LenProperties DEF MotionInv, Fits
  <2>2. i \in 1..Len(log) /\ i % 2 # 1
    BY <2>1 DEF Closings, Openings
  <2>3. (i + 1) % 2 = 1
    BY <2>2, Parity
  <2>4. i + 1 <= Len(log) => i + 1 \in Openings
    BY <2>1, <2>2, <2>3 DEF Openings
  <2>5. QED
    BY <2>1, <2>2, <2>4 DEF Right
<1>2. QED
  BY <1>1, MotionInvInvariant, PTL

\* evslicer gets each event that is complete, once, in order and with its own times, and
\* evdaemon each opening and closing; when the queue has overflowed something is missing,
\* but no event ends before it starts or reaches back into one sent before.
THEOREM SlicerIsTold == Spec => []SlicerTold
<1>1. MotionInv /\ RelayInv => SlicerTold
  <2> SUFFICES ASSUME MotionInv, RelayInv PROVE SlicerTold
    OBVIOUS
  <2>1. ASSUME ~overflowed
        PROVE  /\ told \o front \o (IF front = <<>> THEN evtQueue ELSE Tail(evtQueue)) = log
               /\ sent = [k \in 1..Len(told) \div 2 |-> <<told[2*k - 1].ts, told[2*k].ts>>]
    <3>1. /\ Exact(log, told, front, evtQueue) /\ Paired(told, eventToSlicer, sent)
          /\ told \in Seq(Entry) /\ evtQueue \in Seq(Entry) /\ sent \in Seq(Seq(Nat))
          /\ front # <<>> => evtQueue # <<>>
      BY <2>1 DEF RelayInv, RelayTypes, Waiting
    <3>2. log \in Seq(Entry)
      BY DEF MotionInv, Fits, Alternates
    <3>3. ASSUME NEW tl \in Seq(Entry), NEW q \in Seq(Entry), NEW f, Exact(log, tl, f, q)
          PROVE  tl \o q = log
      <4>1. /\ tl \o q \in Seq(Entry) /\ Len(tl \o q) = Len(tl) + Len(q)
            /\ Len(tl) \in Nat /\ Len(q) \in Nat
            /\ \A i \in 1..Len(tl) + Len(q) :
                  (tl \o q)[i] = IF i <= Len(tl) THEN tl[i] ELSE q[i - Len(tl)]
        BY ConcatProperties, LenProperties
      <4>2. ASSUME NEW i \in 1..(Len(tl) + Len(q)) PROVE (tl \o q)[i] = log[i]
        <5>1. CASE i <= Len(tl)
          <6>1. i \in 1..Len(tl)
            BY <4>1, <5>1
          <6>2. QED
            BY <3>3, <4>1, <5>1, <6>1 DEF Exact
        <5>2. CASE ~(i <= Len(tl))
          <6>1. i - Len(tl) \in 1..Len(q) /\ Len(tl) + (i - Len(tl)) = i
            BY <4>1, <5>2
          <6>2. log[Len(tl) + (i - Len(tl))] = q[i - Len(tl)]
            BY <3>3, <6>1 DEF Exact
          <6>3. QED
            BY <4>1, <5>2, <6>1, <6>2
        <5>3. QED
          BY <5>1, <5>2
      <4>3. QED
        BY <3>2, <3>3, <4>1, <4>2, SeqEqual DEF Exact
    <3>4. told \o front \o (IF front = <<>> THEN evtQueue ELSE Tail(evtQueue)) = log
      <4>1. CASE front = <<>>
        <5>1. told \o front = told
          BY <3>1, <4>1, ConcatEmptySeq
        <5>2. QED
          BY <3>1, <3>3, <4>1, <5>1
      <4>2. CASE front # <<>>
        <5>1. /\ Exact(log, told \o front, <<>>, Tail(evtQueue))
              /\ Tail(evtQueue) \in Seq(Entry)
          BY <3>1, <4>2, PopKeepsAll, HeadTailProperties
        <5>2. told \o front \in Seq(Entry)
          <6>1. front \in Seq(Entry)
            <7>1. PICK e \in Entry : front = <<e>>
              BY <4>2 DEF RelayInv, RelayTypes
            <7>2. QED
              BY <7>1
          <6>2. QED
            BY <3>1, <6>1, ConcatProperties
        <5>3. QED
          BY <3>3, <4>2, <5>1, <5>2
      <4>3. QED
        BY <4>1, <4>2
    <3>5. sent = [k \in 1..Len(told) \div 2 |-> <<told[2*k - 1].ts, told[2*k].ts>>]
      <4>1. sent = [k \in 1..Len(sent) |-> sent[k]]
        BY <3>1, LenProperties
      <4>2. QED
        BY <3>1, <4>1 DEF Paired
    <3>6. QED
      BY <3>4, <3>5
  <2>2. \A k, l \in DOMAIN sent :
           k <= l /\ Len(sent[l]) = 2 =>
              sent[l][1] <= sent[l][2] /\ (k < l => sent[k][Len(sent[k])] <= sent[l][1])
    <3>1. DOMAIN sent = 1..Len(sent)
      BY LenProperties DEF RelayInv, RelayTypes
    <3>2. QED
      BY <3>1 DEF RelayInv, InTime, LastOf
  <2>3. QED
    BY <2>1, <2>2 DEF SlicerTold
<1>2. QED
  BY <1>1, MotionInvInvariant, RelayInvInvariant, PTL
=================================================================================
