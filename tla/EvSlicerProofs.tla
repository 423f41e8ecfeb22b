----------------------------- MODULE EvSlicerProofs -----------------------------
(***************************************************************************)
(* Proofs about EvSlicer, for any sizes of the ring and of the queue and   *)
(* any number of slices, events and crashes: the ring and the disk agree,  *)
(* an event gets the slices it was recorded in, and every event is in one  *)
(* place.                                                                  *)
(***************************************************************************)
EXTENDS EvSlicer, FiniteSetTheorems, SequenceTheorems, TLAPS

--------------------------------------------------------------------------------
(* Finite sets of numbers, and queues *)

\* A finite set of numbers that is not empty has a least element.
LEMMA LeastExists ==
    ASSUME NEW S \in SUBSET Int, IsFiniteSet(S), S # {}
    PROVE  Min(S) \in S /\ \A y \in S : Min(S) <= y
<1> DEFINE UpTo(x) == {y \in S : y <= x}
           T == {UpTo(x) : x \in S}
<1>1. T \subseteq FiniteSubsetsOf(S) /\ T # {}
  <2>1. \A A \in SUBSET S : A \in FiniteSubsetsOf(S)
    BY FS_Subset DEF FiniteSubsetsOf
  <2>2. \A x \in S : UpTo(x) \in SUBSET S
    OBVIOUS
  <2>3. QED
    BY <2>1, <2>2
<1>2. \A x \in S : x \in Int
  OBVIOUS
<1>3. IsWellFoundedOn(StrictSubsetOrdering(S), FiniteSubsetsOf(S))
  BY FS_StrictSubsetOrderingWellFounded
<1> HIDE DEF T
<1>4. \E d \in T : \A c \in T : ~(<<c, d>> \in StrictSubsetOrdering(S))
  BY <1>1, <1>3, WFMin
<1> USE DEF T
<1>5. PICK x \in S : \A y \in S : ~(<<UpTo(y), UpTo(x)>> \in StrictSubsetOrdering(S))
  BY <1>4
<1>6. ASSUME NEW y \in S, y < x
      PROVE  FALSE
  <2>1. \A z \in S : z <= y => z <= x
    BY <1>6, <1>2
  <2>2. x <= x /\ ~(x <= y)
    BY <1>6, <1>2
  <2>3. UpTo(y) \subseteq UpTo(x) /\ x \in UpTo(x) /\ x \notin UpTo(y)
    BY <2>1, <2>2
  <2>4. UpTo(y) \in SUBSET S /\ UpTo(x) \in SUBSET S /\ UpTo(y) # UpTo(x)
    BY <2>3
  <2> HIDE DEF UpTo
  <2>5. \A A, B \in SUBSET S : A \subseteq B /\ A # B => <<A, B>> \in StrictSubsetOrdering(S)
    BY DEF StrictSubsetOrdering
  <2>6. QED
    BY <1>5, <2>3, <2>4, <2>5
<1>7. \A y \in S : x <= y
  BY <1>6
<1>8. QED
  BY <1>7 DEF Min

\* What the members of a queue are after reading and after pushing.
LEMMA ElementsTail ==
    ASSUME NEW S, NEW q \in Seq(S), q # <<>>
    PROVE  /\ Head(q) \in Elements(q)
           /\ Elements(q) = Elements(Tail(q)) \cup {Head(q)}
<1>1. /\ Len(q) \in Nat \ {0} /\ DOMAIN q = 1..Len(q) /\ Head(q) = q[1]
      /\ Tail(q) \in Seq(S) /\ DOMAIN Tail(q) = 1..Len(q) - 1
      /\ \A i \in 1..Len(q) - 1 : Tail(q)[i] = q[i + 1]
  BY HeadTailProperties, LenProperties, EmptySeq
<1>2. \A i \in 2..Len(q) : i - 1 \in 1..Len(q) - 1 /\ Tail(q)[i - 1] = q[i]
  BY <1>1
<1>3. \A i \in 1..Len(q) : i = 1 \/ i \in 2..Len(q)
  BY <1>1
<1>4. Elements(q) \subseteq Elements(Tail(q)) \cup {Head(q)}
  <2>1. ASSUME NEW i \in 1..Len(q)
        PROVE  q[i] = Head(q) \/ \E j \in 1..Len(q) - 1 : q[i] = Tail(q)[j]
    BY <1>1, <1>2, <1>3
  <2>2. \A x \in Elements(q) : \E i \in 1..Len(q) : x = q[i]
    BY <1>1 DEF Elements
  <2>3. \A j \in 1..Len(q) - 1 : Tail(q)[j] \in Elements(Tail(q))
    BY <1>1 DEF Elements
  <2>4. QED
    BY <2>1, <2>2, <2>3
<1>5. \A i \in 1..Len(q) - 1 : i + 1 \in 1..Len(q)
  BY <1>1
<1>6. Elements(Tail(q)) \subseteq Elements(q) /\ Head(q) \in Elements(q)
  BY <1>1, <1>5 DEF Elements
<1>7. QED
  BY <1>4, <1>6

LEMMA ElementsAppend ==
    ASSUME NEW S, NEW q \in Seq(S), NEW e \in S
    PROVE  Elements(Append(q, e)) = Elements(q) \cup {e}
<1>1. /\ Len(q) \in Nat /\ DOMAIN q = 1..Len(q)
      /\ DOMAIN Append(q, e) = 1..Len(q) + 1
      /\ \A i \in 1..Len(q) : Append(q, e)[i] = q[i]
      /\ Append(q, e)[Len(q) + 1] = e
  BY AppendProperties, LenProperties
<1>2. 1..Len(q) + 1 = 1..Len(q) \cup {Len(q) + 1}
  BY <1>1
<1>3. QED
  BY <1>1, <1>2 DEF Elements

LEMMA ElementsOfSeq ==
    ASSUME NEW S, NEW q \in Seq(S)
    PROVE  Elements(q) \subseteq S
BY DEF Elements

--------------------------------------------------------------------------------
(* The disk and the ring *)

\* What the monitor has told last, or is to tell.
Told == Elements(notices) \cup ({lastFile} \ {0})

\* A finished slice is in the ring or the monitor is to tell of it; and a slice that
\* it has told of, or is to tell of, and that has been removed is older than a full ring.
Remembered == \A f \in files \ hollow : f \in ring \cup {lastFile} \cup Elements(notices)
GoneAreOld ==
    \A f \in Told \ files : Cardinality(ring) = NumSlices /\ \A s \in ring : f < s

DiskTypes ==
    /\ clock \in Nat
    /\ files \subseteq 1..clock
    /\ hollow \subseteq files
    /\ open \in {0, clock} /\ (open # 0 => open \in files)
    /\ lastFile \in 0..clock
    /\ notices \in Seq(1..clock)

DiskInv ==
    /\ DiskTypes
    /\ ring \subseteq files
    /\ Cardinality(ring) <= NumSlices
    /\ Remembered
    /\ GoneAreOld

\* A finished slice goes into the ring; the oldest leaves it, with its file, when it
\* is full.
LEMMA InsertKeeps ==
    ASSUME DiskInv, lastFile # 0
    PROVE  LET result == Inserted(ring, lastFile)
               gone == result.removed \cap files
           IN  /\ result.ring \subseteq files \ gone
               /\ Cardinality(result.ring) <= NumSlices
               /\ \A f \in (ring \cup {lastFile}) \ gone : f \in files => f \in result.ring
               /\ \A f \in (Told \ files) \cup gone :
                     Cardinality(result.ring) = NumSlices /\ \A s \in result.ring : f < s
               /\ open \notin gone
               /\ gone = {} \/ \E g \in files : gone = {g}
<1> DEFINE all == ring \cup {lastFile}
           res == Inserted(ring, lastFile)
           gone == res.removed \cap files
<1>1. /\ clock \in Nat /\ files \subseteq 1..clock /\ ring \subseteq files
      /\ lastFile \in 1..clock /\ NumSlices \in Nat \ {0}
      /\ Cardinality(ring) <= NumSlices /\ GoneAreOld /\ lastFile \in Told
      /\ open = 0 \/ open = clock
  BY EvSlicerAssumption DEF DiskInv, DiskTypes, Told
<1>2. IsFiniteSet(ring) /\ Cardinality(ring) \in Nat
  <2>1. IsFiniteSet(1..clock)
    BY <1>1, FS_Interval
  <2>2. QED
    BY <1>1, <2>1, FS_Subset, FS_CardinalityType
<1>3. /\ IsFiniteSet(all) /\ Cardinality(all) \in Nat
      /\ Cardinality(all) = IF lastFile \in ring THEN Cardinality(ring) ELSE Cardinality(ring) + 1
  BY <1>2, FS_AddElement, FS_CardinalityType
<1>4. CASE ~(ring # {} /\ Cardinality(all) > NumSlices)
  <2>1. res.ring = all /\ res.removed = {}
    BY <1>4 DEF Inserted
  <2>2. ring = {} => Cardinality(ring) = 0
    BY FS_EmptySet
  <2>3. \A f \in Told \ files : lastFile \in ring
    BY <1>1, <1>3, <1>4, <2>2 DEF GoneAreOld
  <2>4. lastFile \in files
    BY <1>1, <2>3
  <2>5. Cardinality(all) <= NumSlices
    BY <1>1, <1>3, <1>4, <2>2
  <2>6. \A f \in Told \ files : all = ring
    BY <2>3
  <2>7. QED
    BY <1>1, <2>1, <2>4, <2>5, <2>6 DEF GoneAreOld
<1>5. CASE ring # {} /\ Cardinality(all) > NumSlices
  <2> DEFINE m == Min(all)
  <2>1. res.ring = all \ {m} /\ res.removed = {m}
    BY <1>5 DEF Inserted
  <2>2. all \in SUBSET Int /\ all \subseteq 1..clock /\ all # {}
    BY <1>1
  <2>3. m \in all /\ \A y \in all : m <= y
    BY <1>3, <2>2, LeastExists
  <2> HIDE DEF m
  <2>4. lastFile \notin ring /\ Cardinality(ring) = NumSlices
    BY <1>1, <1>2, <1>3, <1>5
  <2>5. Cardinality(all \ {m}) = NumSlices
    <3>1. Cardinality(all) = NumSlices + 1
      BY <1>3, <2>4
    <3> HIDE DEF all
    <3>2. Cardinality(all \ {m}) = Cardinality(all) - 1
      BY <1>3, <2>3, FS_RemoveElement
    <3>3. QED
      BY <1>1, <3>1, <3>2
  <2>6. lastFile \notin files => m = lastFile
    BY <1>1, <2>2, <2>3 DEF GoneAreOld
  <2>7. all \ {m} \subseteq files
    BY <1>1, <2>6
  <2>8. \A f \in Told \ files : \A s \in all \ {m} : f < s
    BY <1>1, <2>2, <2>3 DEF GoneAreOld
  <2>9. \A s \in all \ {m} : m < s
    BY <2>2, <2>3
  <2>10. \E s : s \in all \ {m}
    <3>1. SUFFICES ASSUME all \ {m} = {} PROVE FALSE
      OBVIOUS
    <3>2. QED
      BY <1>1, <2>5, <3>1, FS_EmptySet
  <2>11. m # clock /\ m # 0
    BY <1>1, <2>2, <2>3, <2>9, <2>10
  <2> HIDE DEF res
  <2>12. gone = {m} \cap files
    BY <2>1
  <2>13. res.ring \subseteq files \ gone
    BY <2>1, <2>7, <2>12
  <2>14. Cardinality(res.ring) = NumSlices
    BY <2>1, <2>5
  <2>15. \A f \in (ring \cup {lastFile}) \ gone : f \in files => f \in res.ring
    BY <2>1, <2>12
  <2>16. \A f \in (Told \ files) \cup gone : \A s \in res.ring : f < s
    BY <2>1, <2>8, <2>9, <2>12
  <2>17. open \notin gone
    BY <1>1, <2>11, <2>12
  <2>18. gone = {} \/ \E g \in files : gone = {g}
    BY <2>12
  <2>19. QED
    BY <1>1, <2>13, <2>14, <2>15, <2>16, <2>17, <2>18 DEF res
<1>6. QED
  BY <1>4, <1>5

\* A notice adds its path to what is to be told.
LEMMA TellAdds ==
    ASSUME NEW S, NEW q \in Seq(S), NEW f \in S
    PROVE  Tell(q, f) \in Seq(S) /\ Elements(Tell(q, f)) = Elements(q) \cup {f}
<1>1. CASE q # <<>> /\ q[Len(q)] = f
  <2>1. Len(q) \in DOMAIN q
    BY <1>1, LenProperties, EmptySeq
  <2>2. f \in Elements(q)
    BY <1>1, <2>1 DEF Elements
  <2>3. QED
    BY <1>1, <2>2 DEF Tell
<1>2. CASE ~(q # <<>> /\ q[Len(q)] = f)
  BY <1>2, AppendProperties, ElementsAppend DEF Tell
<1>3. QED
  BY <1>1, <1>2

\* The writer.
LEMMA WriterKeeps ==
    ASSUME DiskInv, OpenSlice \/ WriteSlice
    PROVE  DiskInv'
<1>1. DiskTypes /\ ring \subseteq files /\ Cardinality(ring) <= NumSlices /\ Remembered /\ GoneAreOld
  BY DEF DiskInv
<1>2. CASE OpenSlice
  <2>1. /\ clock' = clock + 2 /\ clock' \in Nat /\ open' = clock' /\ files' = files \cup {clock'}
        /\ hollow' \subseteq hollow \cup {clock'} /\ hollow \subseteq hollow'
        /\ ring' = ring /\ lastFile' = lastFile /\ notices' = Tell(notices, clock')
    BY <1>1, <1>2 DEF OpenSlice, DiskTypes
  <2>2. /\ 1..clock \subseteq 1..clock' /\ 0..clock \subseteq 0..clock' /\ clock' \in 1..clock'
    BY <1>1, <2>1 DEF DiskTypes
  <2>3. notices \in Seq(1..clock')
    BY <1>1, <2>2 DEF DiskTypes
  <2>4. notices' \in Seq(1..clock') /\ Elements(notices') = Elements(notices) \cup {clock'}
    BY <2>1, <2>2, <2>3, TellAdds
  <2>5. DiskTypes'
    BY <1>1, <2>1, <2>2, <2>4 DEF DiskTypes
  <2>6. Remembered'
    BY <1>1, <2>1, <2>4 DEF Remembered
  <2>7. Told' \ files' \subseteq Told \ files
    BY <2>1, <2>4 DEF Told
  <2>8. GoneAreOld'
    BY <1>1, <2>1, <2>7 DEF GoneAreOld
  <2>9. QED
    BY <1>1, <2>1, <2>5, <2>6, <2>8 DEF DiskInv
<1>3. CASE WriteSlice
  <2>1. /\ UNCHANGED disk /\ ring' = ring /\ lastFile' = lastFile /\ notices' = Tell(notices, open)
        /\ open \in files /\ open \in 1..clock
    BY <1>1, <1>3 DEF WriteSlice, DiskTypes
  <2> DEFINE N == 1..clock
  <2>2. notices \in Seq(N) /\ open \in N
    BY <1>1, <2>1 DEF DiskTypes
  <2> HIDE DEF N
  <2>3. notices' \in Seq(N) /\ Elements(notices') = Elements(notices) \cup {open}
    BY <2>1, <2>2, TellAdds
  <2> USE DEF N
  <2>4. notices' \in Seq(1..clock) /\ Elements(notices') = Elements(notices) \cup {open}
    BY <2>3
  <2>5. DiskTypes'
    BY <1>1, <2>1, <2>4 DEF DiskTypes, disk
  <2>6. Remembered'
    BY <1>1, <2>1, <2>4 DEF Remembered, disk
  <2>7. Told' \ files' \subseteq Told \ files
    BY <2>1, <2>4 DEF Told, disk
  <2>8. GoneAreOld'
    BY <1>1, <2>1, <2>7 DEF GoneAreOld
  <2>9. QED
    BY <1>1, <2>1, <2>5, <2>6, <2>8 DEF DiskInv, disk
<1>4. QED
  BY <1>2, <1>3

\* The monitor.
LEMMA MonitorKeeps ==
    ASSUME DiskInv, FileMonHandler
    PROVE  DiskInv'
<1> DEFINE f == Head(notices)
           result == Inserted(ring, lastFile)
           gone == result.removed \cap files
<1>1. DiskTypes /\ ring \subseteq files /\ Cardinality(ring) <= NumSlices /\ Remembered /\ GoneAreOld
  BY DEF DiskInv
<1>2. /\ notices \in Seq(1..clock) /\ notices # <<>>
      /\ f \in 1..clock /\ Tail(notices) \in Seq(1..clock)
      /\ Elements(notices) = Elements(Tail(notices)) \cup {f}
      /\ lastFile' = f /\ clock' = clock /\ open' = open
  BY <1>1, ElementsTail, HeadTailProperties DEF DiskTypes, FileMonHandler
<1>3. CASE f # lastFile /\ lastFile # 0
  <2>1. /\ ring' = result.ring /\ files' = files \ gone /\ hollow' = hollow \ gone
        /\ notices' = IF gone = {} THEN Tail(notices)
                      ELSE Append(Tail(notices), CHOOSE g \in gone : TRUE)
    BY <1>3 DEF FileMonHandler
  <2>2. /\ result.ring \subseteq files \ gone
        /\ Cardinality(result.ring) <= NumSlices
        /\ \A g \in (ring \cup {lastFile}) \ gone : g \in files => g \in result.ring
        /\ \A g \in (Told \ files) \cup gone :
              Cardinality(result.ring) = NumSlices /\ \A s \in result.ring : g < s
        /\ open \notin gone
        /\ gone = {} \/ \E g \in files : gone = {g}
    BY <1>3, InsertKeeps
  <2> HIDE DEF result, gone
  <2>3. notices' \in Seq(1..clock) /\ Elements(notices') = Elements(Tail(notices)) \cup gone
    <3>1. CASE gone = {}
      BY <1>2, <2>1, <3>1
    <3>2. CASE \E g \in files : gone = {g}
      <4>1. PICK g \in files : gone = {g}
        BY <3>2
      <4>2. notices' = Append(Tail(notices), g) /\ g \in 1..clock
        BY <1>1, <2>1, <4>1 DEF DiskTypes
      <4> DEFINE N == 1..clock
      <4>3. Tail(notices) \in Seq(N) /\ g \in N
        BY <1>2, <4>2
      <4> HIDE DEF N
      <4>4. /\ Append(Tail(notices), g) \in Seq(N)
            /\ Elements(Append(Tail(notices), g)) = Elements(Tail(notices)) \cup {g}
        <5>1. \A q \in Seq(N), e \in N :
                 Append(q, e) \in Seq(N) /\ Elements(Append(q, e)) = Elements(q) \cup {e}
          BY AppendProperties, ElementsAppend
        <5>2. QED
          BY <4>3, <5>1
      <4>5. notices' \in Seq(N) /\ Elements(notices') = Elements(Tail(notices)) \cup {g}
        BY <4>2, <4>4
      <4>6. QED
        BY <4>1, <4>5 DEF N
    <3>3. QED
      BY <2>2, <3>1, <3>2
  <2>4. files' \subseteq 1..clock' /\ hollow' \subseteq files'
    BY <1>1, <1>2, <2>1 DEF DiskTypes
  <2>5. open' \in {0, clock'} /\ (open' # 0 => open' \in files')
    BY <1>1, <1>2, <2>1, <2>2 DEF DiskTypes
  <2>6. clock' \in Nat /\ lastFile' \in 0..clock' /\ notices' \in Seq(1..clock')
    BY <1>1, <1>2, <2>3 DEF DiskTypes
  <2>7. DiskTypes'
    BY <2>4, <2>5, <2>6 DEF DiskTypes
  <2>8. Remembered'
    BY <1>1, <1>2, <2>1, <2>2, <2>3 DEF Remembered
  <2>9. Told' \ files' \subseteq (Told \ files) \cup gone
    BY <1>2, <2>1, <2>3 DEF Told
  <2>10. GoneAreOld'
    BY <2>1, <2>2, <2>9 DEF GoneAreOld
  <2>11. QED
    BY <2>1, <2>2, <2>7, <2>8, <2>10 DEF DiskInv
<1>4. CASE ~(f # lastFile /\ lastFile # 0)
  <2>1. notices' = Tail(notices) /\ UNCHANGED <<ring, files, hollow>>
    BY <1>4 DEF FileMonHandler
  <2>2. DiskTypes'
    BY <1>1, <1>2, <2>1 DEF DiskTypes
  <2>3. 0 \notin files
    BY <1>1 DEF DiskTypes
  <2>4. Remembered'
    BY <1>1, <1>2, <1>4, <2>1, <2>3 DEF Remembered
  <2>5. Told' \ files' \subseteq Told \ files
    BY <1>2, <2>1 DEF Told
  <2>6. GoneAreOld'
    BY <1>1, <2>1, <2>5 DEF GoneAreOld
  <2>7. QED
    BY <1>1, <2>1, <2>2, <2>4, <2>6 DEF DiskInv
<1>5. QED
  BY <1>3, <1>4

\* The slices a start keeps fit into the ring.
LEMMA NewestFits ==
    ASSUME NEW S \in SUBSET Nat, IsFiniteSet(S)
    PROVE  Cardinality(Newest(S)) <= NumSlices
<1>1. NumSlices \in Nat \ {0}
  BY EvSlicerAssumption
<1>2. Newest(S) \in SUBSET S /\ IsFiniteSet(Newest(S))
  BY FS_Subset DEF Newest
<1>3. CASE Newest(S) = {}
  BY <1>1, <1>3, FS_EmptySet
<1>4. CASE Newest(S) # {}
  <2> DEFINE m == Min(Newest(S))
             later == {g \in S : g > m}
  <2>1. Newest(S) \subseteq S /\ \A x \in S : x \in Int
    BY <1>2
  <2>2. m \in Newest(S) /\ \A y \in Newest(S) : m <= y
    BY <1>2, <1>4, <2>1, LeastExists
  <2>3. Cardinality(later) < NumSlices
    BY <2>2 DEF Newest
  <2>4. IsFiniteSet(later) /\ Cardinality(later) \in Nat
    BY FS_Subset, FS_CardinalityType
  <2> HIDE DEF m
  <2>5. m \in Int /\ \A y \in Newest(S) : y \in S /\ y \in Int /\ m <= y
    BY <2>1, <2>2
  <2>6. \A y \in Newest(S) \ {m} : y \in S /\ y > m
    BY <2>5
  <2>7. Newest(S) \ {m} \subseteq later
    BY <2>6
  <2>8. Cardinality(Newest(S) \ {m}) <= Cardinality(later)
    BY <2>4, <2>7, FS_Subset
  <2>9. /\ Cardinality(Newest(S) \ {m}) = Cardinality(Newest(S)) - 1
        /\ Cardinality(Newest(S)) \in Nat
    BY <1>2, <2>2, FS_RemoveElement, FS_CardinalityType
  <2>10. QED
    BY <1>1, <2>3, <2>4, <2>8, <2>9
<1>5. QED
  BY <1>3, <1>4

\* A start of evslicer.
LEMMA BootKeepsDisk ==
    ASSUME DiskInv, Boot
    PROVE  DiskInv'
<1> DEFINE mp4s == files \ hollow
           kept == {f \in mp4s : ~TooOld(f)}
<1>1. /\ clock \in Nat /\ files \subseteq 1..clock /\ hollow \subseteq files
      /\ Hours \in Nat /\ NumSlices \in Nat
  BY EvSlicerAssumption DEF DiskInv, DiskTypes
<1>2. \A f \in files : ~TooOld(f)
  BY <1>1 DEF TooOld
<1>3. kept = mp4s
  BY <1>2
<1>4. /\ ring' = Newest(mp4s) /\ files' = Newest(mp4s) \cup (files \cap hollow)
      /\ open' = 0 /\ notices' = <<>> /\ lastFile' = 0 /\ clock' = clock /\ hollow' = hollow
  BY <1>3 DEF Boot
<1>5. Newest(mp4s) \subseteq mp4s
  BY DEF Newest
<1>6. Cardinality(Newest(mp4s)) <= NumSlices
  <2>1. mp4s \in SUBSET Nat /\ mp4s \in SUBSET (1..clock)
    BY <1>1
  <2>2. IsFiniteSet(1..clock)
    BY <1>1, FS_Interval
  <2>3. IsFiniteSet(mp4s)
    BY <2>1, <2>2, FS_Subset
  <2>4. QED
    BY <2>1, <2>3, NewestFits
<1>7. files' \subseteq 1..clock' /\ hollow' \subseteq files'
  BY <1>1, <1>4, <1>5
<1>8. clock' \in Nat /\ lastFile' \in 0..clock' /\ notices' \in Seq(1..clock') /\ open' = 0
  BY <1>1, <1>4
<1>9. DiskTypes'
  BY <1>7, <1>8 DEF DiskTypes
<1>10. Elements(notices') = {}
  BY <1>4 DEF Elements
<1>11. Remembered' /\ GoneAreOld'
  BY <1>4, <1>10 DEF Remembered, GoneAreOld, Told
<1>12. QED
  BY <1>4, <1>6, <1>9, <1>11 DEF DiskInv

LEMMA DiskInit == Init => DiskInv
<1> SUFFICES ASSUME Init PROVE DiskInv
  OBVIOUS
<1>1. Elements(notices) = {}
  BY DEF Init, Elements
<1>2. Cardinality(ring) <= NumSlices
  BY FS_EmptySet, EvSlicerAssumption DEF Init
<1>3. QED
  BY <1>1, <1>2 DEF Init, DiskInv, DiskTypes, Remembered, GoneAreOld, Told

LEMMA DiskStep == DiskInv /\ [Next]_vars => DiskInv'
<1> SUFFICES ASSUME DiskInv, [Next]_vars PROVE DiskInv'
  OBVIOUS
<1>1. CASE UNCHANGED <<disk, ring, watch>>
  BY <1>1 DEF DiskInv, DiskTypes, Remembered, GoneAreOld, Told, Elements, disk, watch
<1>2. CASE OpenSlice \/ WriteSlice
  BY <1>2, WriterKeeps
<1>3. CASE FileMonHandler
  BY <1>3, MonitorKeeps
<1>4. CASE Boot
  BY <1>4, BootKeepsDisk
<1>5. UNCHANGED vars \/ (\E e : HandleEdgeMsg(e) \/ DebugRecord(e) \/ Wake(e)) =>
        UNCHANGED <<disk, ring, watch>>
  BY DEF vars, disk, watch, HandleEdgeMsg, DebugRecord, Wake
<1>6. EventThread => UNCHANGED <<disk, ring, watch>> \/ Boot
  BY DEF EventThread, TakeEvent, FindSlices, CheckFiles, Post
<1>7. CheckFiles => UNCHANGED <<disk, ring, watch>> \/ Boot
  BY DEF CheckFiles
<1>8. QED
  BY <1>1, <1>2, <1>3, <1>4, <1>5, <1>6, <1>7 DEF Next, Restart

LEMMA DiskAlways == Spec => []DiskInv
BY DiskInit, DiskStep, PTL DEF Spec

\* Every slice of the ring is on the disk, although removing a file is itself noticed
\* and taken for a slice that was finished.
THEOREM RingIsOnDisk == Spec => []RingOnDisk
BY DiskAlways, PTL DEF DiskInv, RingOnDisk

\* No finished slice is forgotten on the disk.
THEOREM NoneIsForgotten == Spec => []NoSliceForgotten
<1>1. DiskInv => NoSliceForgotten
  BY DEF DiskInv, Remembered, NoSliceForgotten
<1>2. QED
  BY <1>1, DiskAlways, PTL

--------------------------------------------------------------------------------
(* The events *)

IdsOf(S) == {x.id : x \in S}
Apart(S) == \A x, y \in S : x.id = y.id => x = y

\* The events of X end for the reason r.
Ending(r, X) == {<<r, i>> : i \in X}

\* No event is twice in a queue.
Once(q) == \A k, l \in DOMAIN q : q[k].id = q[l].id => k = l

\* The events queued, asleep, in the hands of the event thread, and ended.
Queued  == IdsOf(Elements(eventQueue))
Resting == IdsOf(asleep)
Busy    == {cur.ev.id} \ {0}
Done    == {x[2] : x \in ended}

WorkTypes ==
    /\ accepted \in 0..MaxEvents
    /\ debugs \in Nat
    /\ eventQueue \in BoundedSeq(Event, QueueCap + debugs)
    /\ asleep \in SUBSET Event
    /\ cur \in [at : {"idle", "find", "check", "post"}, ev : Event \cup {NoEvent},
               slices : SUBSET Int]
    /\ cur.at = "idle" => cur = Idle
    /\ cur.at # "idle" => cur.ev \in Event
    /\ uploadFailed \in BOOLEAN

\* An event ends after it begins.
Forward == \A e \in Elements(eventQueue) \cup asleep \cup {cur.ev} : e.tss <= e.tse

\* Each event is in one of the four places and only once there.
OnePlace ==
    /\ Queued \cup Resting \cup Busy \cup Done = 1..accepted
    /\ Queued \cap (Resting \cup Busy \cup Done) = {}
    /\ Resting \cap (Busy \cup Done) = {}
    /\ Busy \cap Done = {}
    /\ Once(eventQueue) /\ Apart(asleep)
    /\ \A x, y \in ended : x[2] = y[2] => x = y

EventInv == WorkTypes /\ Forward /\ OnePlace

\* Reading a queue takes its first event out of it.
LEMMA OnceTail ==
    ASSUME NEW q \in Seq(Event), q # <<>>, Once(q)
    PROVE  /\ Once(Tail(q))
           /\ IdsOf(Elements(Tail(q))) = IdsOf(Elements(q)) \ {Head(q).id}
           /\ Head(q).id \in IdsOf(Elements(q))
<1>1. /\ Len(q) \in Nat \ {0} /\ DOMAIN q = 1..Len(q) /\ Head(q) = q[1]
      /\ DOMAIN Tail(q) = 1..Len(q) - 1
      /\ \A i \in 1..Len(q) - 1 : Tail(q)[i] = q[i + 1]
  BY HeadTailProperties, LenProperties, EmptySeq
<1>2. \A i \in 1..Len(q) - 1 : i + 1 \in 1..Len(q) /\ i + 1 # 1
  BY <1>1
<1>3. Once(Tail(q))
  <2> SUFFICES ASSUME NEW k \in 1..Len(q) - 1, NEW l \in 1..Len(q) - 1,
                      Tail(q)[k].id = Tail(q)[l].id
               PROVE  k = l
    BY <1>1 DEF Once
  <2>1. q[k + 1].id = q[l + 1].id
    BY <1>1
  <2>2. k + 1 = l + 1
    BY <1>1, <1>2, <2>1 DEF Once
  <2>3. QED
    BY <1>1, <2>2
<1>4. \A i \in 1..Len(q) - 1 : Tail(q)[i].id # Head(q).id
  <2> SUFFICES ASSUME NEW i \in 1..Len(q) - 1, Tail(q)[i].id = Head(q).id PROVE FALSE
    OBVIOUS
  <2>1. q[i + 1].id = q[1].id
    BY <1>1
  <2>2. 1 \in 1..Len(q)
    BY <1>1
  <2>3. QED
    BY <1>1, <1>2, <2>1, <2>2 DEF Once
<1>5. \A x \in Elements(Tail(q)) : x.id # Head(q).id
  BY <1>1, <1>4 DEF Elements
<1>6. Elements(q) = Elements(Tail(q)) \cup {Head(q)}
  BY ElementsTail
<1>7. QED
  BY <1>3, <1>5, <1>6 DEF IdsOf

\* A new event at the end of a queue.
LEMMA OnceAppend ==
    ASSUME NEW q \in Seq(Event), NEW e \in Event, Once(q), e.id \notin IdsOf(Elements(q))
    PROVE  /\ Append(q, e) \in Seq(Event) /\ Once(Append(q, e))
           /\ IdsOf(Elements(Append(q, e))) = IdsOf(Elements(q)) \cup {e.id}
<1>1. /\ Len(q) \in Nat /\ DOMAIN q = 1..Len(q) /\ Append(q, e) \in Seq(Event)
      /\ DOMAIN Append(q, e) = 1..Len(q) + 1
      /\ \A i \in 1..Len(q) : Append(q, e)[i] = q[i]
      /\ Append(q, e)[Len(q) + 1] = e
  BY AppendProperties, LenProperties
<1>2. \A i \in 1..Len(q) + 1 : i \in 1..Len(q) \/ i = Len(q) + 1
  BY <1>1
<1>3. \A i \in 1..Len(q) : q[i].id # e.id
  BY <1>1 DEF IdsOf, Elements
<1>4. Once(Append(q, e))
  BY <1>1, <1>2, <1>3 DEF Once
<1>5. Elements(Append(q, e)) = Elements(q) \cup {e}
  BY ElementsAppend
<1>6. QED
  BY <1>1, <1>4, <1>5 DEF IdsOf

\* What is queued when an event is pushed, and what ends: the event that the limit
\* pushes out, if any.
LEMMA EnqueueDoes ==
    ASSUME WorkTypes, Once(eventQueue), NEW e \in Event, e.id \notin Queued, Enqueue(e)
    PROVE  /\ eventQueue' \in BoundedSeq(Event, QueueCap + debugs)
           /\ Once(eventQueue')
           /\ Elements(eventQueue') \subseteq Elements(eventQueue) \cup {e}
           /\ \E X \in SUBSET Queued :
                 /\ IdsOf(Elements(eventQueue')) = (Queued \ X) \cup {e.id}
                 /\ ended' = ended \cup Ending("evicted", X)
<1> DEFINE q == eventQueue
<1>1. /\ q \in Seq(Event) /\ Len(q) \in Nat /\ Len(q) <= QueueCap + debugs
      /\ QueueCap \in Nat \ {0} /\ debugs \in Nat
  BY EvSlicerAssumption DEF WorkTypes, BoundedSeq
<1>2. /\ eventQueue' = PushDropOldest(q, e, QueueCap)
      /\ ended' = ended \cup {<<"evicted", x.id>> : x \in Evicted(q, e, QueueCap)}
  BY DEF Enqueue, Evictions
<1>3. CASE Len(q) + 1 > QueueCap
  <2>1. q # <<>>
    BY <1>1, <1>3, EmptySeq
  <2>2. /\ eventQueue' = Append(Tail(q), e) /\ Evicted(q, e, QueueCap) = {Head(q)}
    BY <1>1, <1>2, <1>3, <2>1, HeadTailAppend DEF PushDropOldest, Evicted
  <2>3. /\ Once(Tail(q)) /\ IdsOf(Elements(Tail(q))) = Queued \ {Head(q).id}
        /\ Head(q).id \in Queued
    BY <1>1, <2>1, OnceTail DEF Queued
  <2>4. Tail(q) \in Seq(Event) /\ Len(Tail(q)) = Len(q) - 1
    BY <1>1, <2>1, HeadTailProperties
  <2>5. e.id \notin IdsOf(Elements(Tail(q)))
    BY <2>3
  <2>6. /\ Append(Tail(q), e) \in Seq(Event) /\ Once(Append(Tail(q), e))
        /\ IdsOf(Elements(Append(Tail(q), e))) = (Queued \ {Head(q).id}) \cup {e.id}
    BY <2>3, <2>4, <2>5, OnceAppend
  <2>7. Len(Append(Tail(q), e)) = Len(q)
    BY <1>1, <2>4, AppendProperties
  <2>8. Elements(Append(Tail(q), e)) \subseteq Elements(q) \cup {e}
    <3>1. \A r \in Seq(Event) : Elements(Append(r, e)) = Elements(r) \cup {e}
      BY ElementsAppend
    <3>2. Elements(q) = Elements(Tail(q)) \cup {Head(q)}
      BY <1>1, <2>1, ElementsTail
    <3>3. QED
      BY <2>4, <3>1, <3>2
  <2>9. ended' = ended \cup Ending("evicted", {Head(q).id})
    BY <1>2, <2>2 DEF Ending
  <2>10. {Head(q).id} \in SUBSET Queued
    BY <2>3
  <2>11. eventQueue' \in BoundedSeq(Event, QueueCap + debugs)
    BY <1>1, <2>2, <2>6, <2>7 DEF BoundedSeq
  <2>12. QED
    BY <2>2, <2>6, <2>8, <2>9, <2>10, <2>11
<1>4. CASE ~(Len(q) + 1 > QueueCap)
  <2>1. /\ eventQueue' = Append(q, e) /\ Evicted(q, e, QueueCap) = {}
    BY <1>2, <1>4 DEF PushDropOldest, Evicted
  <2>2. /\ Append(q, e) \in Seq(Event) /\ Once(Append(q, e))
        /\ IdsOf(Elements(Append(q, e))) = Queued \cup {e.id}
    BY <1>1, OnceAppend DEF Queued
  <2>3. Len(Append(q, e)) = Len(q) + 1
    BY <1>1, AppendProperties
  <2>4. Elements(Append(q, e)) = Elements(q) \cup {e}
    BY <1>1, ElementsAppend
  <2>5. ended' = ended \cup Ending("evicted", {})
    BY <1>2, <2>1 DEF Ending
  <2>6. eventQueue' \in BoundedSeq(Event, QueueCap + debugs)
    BY <1>1, <1>4, <2>1, <2>2, <2>3 DEF BoundedSeq
  <2>7. IdsOf(Elements(eventQueue')) = (Queued \ {}) \cup {e.id}
    BY <2>1, <2>2
  <2>8. /\ Once(eventQueue')
        /\ Elements(eventQueue') \subseteq Elements(eventQueue) \cup {e}
    BY <2>1, <2>2, <2>4
  <2>9. {} \in SUBSET Queued
    OBVIOUS
  <2>10. QED
    BY <2>5, <2>6, <2>7, <2>8, <2>9
<1>5. QED
  BY <1>3, <1>4

\* Events that end for one reason, and had not ended before.
LEMMA EndedAdds ==
    ASSUME NEW r, NEW X, X \cap Done = {}, \A x, y \in ended : x[2] = y[2] => x = y,
           ended' = ended \cup Ending(r, X)
    PROVE  Done' = Done \cup X /\ \A x, y \in ended' : x[2] = y[2] => x = y
<1> DEFINE G == Ending(r, X)
<1>1. \A i \in X : <<r, i>>[2] = i
  OBVIOUS
<1>2. \A x \in G : x[2] \in X /\ x = <<r, x[2]>>
  BY <1>1 DEF Ending
<1>3. \A i \in X : \E x \in G : i = x[2]
  BY <1>1 DEF Ending
<1>4. ended' = ended \cup G
  OBVIOUS
<1> HIDE DEF G
<1>5. \A x \in ended : x[2] \in Done /\ x[2] \notin X
  BY DEF Done
<1>6. Done' \subseteq Done \cup X
  BY <1>2, <1>4 DEF Done
<1>7. Done \cup X \subseteq Done'
  BY <1>3, <1>4 DEF Done
<1>8. QED
  BY <1>2, <1>4, <1>5, <1>6, <1>7

\* An event that was in no other place than asleep or in hand is pushed, and comes
\* back with the queue.
LEMMA PushedKeeps ==
    ASSUME EventInv, NEW e \in Event, e.tss <= e.tse, e.id \notin Queued \cup Done,
           accepted' \in 0..MaxEvents, 1..accepted' = 1..accepted \cup {e.id},
           debugs' \in Nat, eventQueue' \in BoundedSeq(Event, QueueCap + debugs'),
           Once(eventQueue'), Elements(eventQueue') \subseteq Elements(eventQueue) \cup {e},
           NEW X \in SUBSET Queued,
           IdsOf(Elements(eventQueue')) = (Queued \ X) \cup {e.id},
           ended' = ended \cup Ending("evicted", X),
           asleep' \in SUBSET asleep, uploadFailed' \in BOOLEAN,
           \/ e.id \notin Resting \cup Busy /\ UNCHANGED <<asleep, cur>>
           \/ /\ IdsOf(asleep') = Resting \ {e.id} /\ e.id \notin Busy /\ cur' = cur
           \/ /\ UNCHANGED asleep /\ cur' = Idle /\ Busy = {e.id}
    PROVE  EventInv'
<1>1. WorkTypes /\ Forward /\ OnePlace
  BY DEF EventInv
<1>2. Queued \subseteq 1..accepted /\ accepted \in Nat
  BY <1>1 DEF OnePlace, WorkTypes
<1>3. /\ Done' = Done \cup X
      /\ \A x, y \in ended' : x[2] = y[2] => x = y
  <2>1. \A x, y \in ended : x[2] = y[2] => x = y
    BY <1>1 DEF OnePlace
  <2>2. X \cap Done = {}
    BY <1>1 DEF OnePlace
  <2>3. QED
    BY <2>1, <2>2, EndedAdds
<1>4. Idle.ev.id = 0 /\ Idle.ev = NoEvent /\ NoEvent.tss = 0 /\ NoEvent.tse = 0 /\ Idle.at = "idle"
      /\ Idle \in [at : {"idle", "find", "check", "post"}, ev : Event \cup {NoEvent},
                   slices : SUBSET Int]
  BY DEF Idle, NoEvent
<1>5. WorkTypes'
  <2>1. asleep' \in SUBSET Event
    BY <1>1 DEF WorkTypes
  <2>2. QED
    BY <1>1, <1>3, <1>4, <2>1 DEF WorkTypes
<1>6. Forward'
  BY <1>1, <1>4 DEF Forward
<1>7. Apart(asleep')
  BY <1>1 DEF OnePlace, Apart
<1>8. /\ Queued' \cup Resting' \cup Busy' \cup Done' = 1..accepted'
      /\ Queued' \cap (Resting' \cup Busy' \cup Done') = {}
      /\ Resting' \cap (Busy' \cup Done') = {}
      /\ Busy' \cap Done' = {}
  <2>1. Queued' = (Queued \ X) \cup {e.id}
    BY DEF Queued
  <2>2. CASE e.id \notin Resting \cup Busy /\ UNCHANGED <<asleep, cur>>
    <3>1. Resting' = Resting /\ Busy' = Busy
      BY <2>2 DEF Resting, Busy
    <3>2. QED
      BY <1>1, <1>3, <2>1, <2>2, <3>1 DEF OnePlace
  <2>3. CASE IdsOf(asleep') = Resting \ {e.id} /\ e.id \notin Busy /\ cur' = cur
    <3>1. Resting' = Resting \ {e.id} /\ Busy' = Busy
      BY <2>3 DEF Resting, Busy
    <3>2. QED
      BY <1>1, <1>3, <2>1, <2>3, <3>1 DEF OnePlace
  <2>4. CASE UNCHANGED asleep /\ cur' = Idle /\ Busy = {e.id}
    <3>1. Resting' = Resting /\ Busy' = {}
      BY <1>4, <2>4 DEF Resting, Busy
    <3>2. QED
      BY <1>1, <1>3, <2>1, <2>4, <3>1 DEF OnePlace
  <2>5. QED
    BY <2>2, <2>3, <2>4
<1>9. OnePlace'
  BY <1>3, <1>7, <1>8 DEF OnePlace
<1>10. QED
  BY <1>5, <1>6, <1>9 DEF EventInv

\* A new event of a module or of the operator.
LEMMA NewEventKeeps ==
    ASSUME EventInv, NEW e \in NewEvents, HandleEdgeMsg(e) \/ DebugRecord(e), DiskInv
    PROVE  EventInv'
<1>1. WorkTypes /\ Forward /\ OnePlace
  BY DEF EventInv
<1>2. /\ accepted \in Nat /\ MaxEvents \in Nat /\ accepted < MaxEvents /\ accepted' = accepted + 1
      /\ e.id = accepted + 1 /\ UNCHANGED <<asleep, cur, uploadFailed>>
  BY <1>1, EvSlicerAssumption DEF HandleEdgeMsg, DebugRecord, Accept, WorkTypes
<1>3. e \in Event /\ e.tss <= e.tse
  <2>1. PICK s \in Starts, d \in Spans :
           e = [id |-> accepted + 1, tss |-> s, tse |-> s + d, cnt |-> -1]
    BY DEF NewEvents
  <2>2. s \in Nat /\ d \in Nat /\ s + d \in Nat /\ s <= s + d /\ accepted + 1 \in 1..MaxEvents
    BY <1>2, EvSlicerAssumption
  <2>3. QED
    BY <2>1, <2>2 DEF Event
<1>4. e.id \notin Queued \cup Resting \cup Busy \cup Done /\ 1..accepted + 1 = 1..accepted \cup {e.id}
  BY <1>1, <1>2 DEF OnePlace
<1>5. /\ e.id \notin Queued \cup Done
      /\ accepted' \in 0..MaxEvents /\ 1..accepted' = 1..accepted \cup {e.id}
      /\ asleep' \in SUBSET asleep /\ uploadFailed' \in BOOLEAN
      /\ e.id \notin Resting \cup Busy /\ UNCHANGED <<asleep, cur>>
  BY <1>1, <1>2, <1>4 DEF WorkTypes
<1>6. CASE HandleEdgeMsg(e)
  <2>1. /\ eventQueue' \in BoundedSeq(Event, QueueCap + debugs)
        /\ Once(eventQueue')
        /\ Elements(eventQueue') \subseteq Elements(eventQueue) \cup {e}
        /\ \E X \in SUBSET Queued :
              /\ IdsOf(Elements(eventQueue')) = (Queued \ X) \cup {e.id}
              /\ ended' = ended \cup Ending("evicted", X)
    BY <1>1, <1>3, <1>4, <1>6, EnqueueDoes DEF HandleEdgeMsg, OnePlace
  <2>2. debugs' = debugs
    BY <1>6 DEF HandleEdgeMsg
  <2>3. QED
    BY <1>3, <1>5, <2>1, <2>2, PushedKeeps DEF EventInv, WorkTypes
<1>7. CASE DebugRecord(e)
  <2>1. debugs' = debugs + 1 /\ ended' = ended /\ eventQueue' = Append(eventQueue, e)
    BY <1>7 DEF DebugRecord
  <2>2. /\ eventQueue \in Seq(Event) /\ Len(eventQueue) \in Nat
        /\ Len(eventQueue) <= QueueCap + debugs /\ QueueCap \in Nat /\ debugs \in Nat
    BY <1>1, EvSlicerAssumption DEF WorkTypes, BoundedSeq
  <2>3. /\ eventQueue' \in Seq(Event) /\ Once(eventQueue')
        /\ IdsOf(Elements(eventQueue')) = Queued \cup {e.id}
    BY <1>1, <1>3, <1>4, <2>1, <2>2, OnceAppend DEF OnePlace, Queued
  <2>4. /\ Len(eventQueue') = Len(eventQueue) + 1
        /\ Elements(eventQueue') = Elements(eventQueue) \cup {e}
    BY <1>3, <2>1, <2>2, AppendProperties, ElementsAppend
  <2>5. debugs' \in Nat /\ eventQueue' \in BoundedSeq(Event, QueueCap + debugs')
    BY <2>1, <2>2, <2>3, <2>4 DEF BoundedSeq
  <2>6. ended' = ended \cup Ending("evicted", {})
    BY <2>1 DEF Ending
  <2>7. IdsOf(Elements(eventQueue')) = (Queued \ {}) \cup {e.id}
    BY <2>3
  <2>8. {} \in SUBSET Queued
    OBVIOUS
  <2>9. Elements(eventQueue') \subseteq Elements(eventQueue) \cup {e} /\ Once(eventQueue')
    BY <2>3, <2>4
  <2>10. QED
    BY <1>3, <1>5, <2>5, <2>6, <2>7, <2>8, <2>9, PushedKeeps
<1>8. QED
  BY <1>6, <1>7

\* An event that has slept is queued again.
LEMMA WakeKeeps ==
    ASSUME EventInv, NEW e \in asleep, Wake(e)
    PROVE  EventInv'
<1>1. WorkTypes /\ Forward /\ OnePlace
  BY DEF EventInv
<1>2. /\ asleep' = asleep \ {e} /\ Enqueue(e) /\ e \in Event
      /\ accepted' = accepted /\ debugs' = debugs /\ uploadFailed' = uploadFailed /\ cur' = cur
  BY <1>1 DEF Wake, WorkTypes
<1>3. e.id \in Resting /\ e.id \notin Queued \cup Done /\ e.id \notin Busy /\ e.tss <= e.tse
  BY <1>1 DEF OnePlace, Forward, Resting, IdsOf
<1>4. /\ eventQueue' \in BoundedSeq(Event, QueueCap + debugs)
      /\ Once(eventQueue')
      /\ Elements(eventQueue') \subseteq Elements(eventQueue) \cup {e}
      /\ \E X \in SUBSET Queued :
            /\ IdsOf(Elements(eventQueue')) = (Queued \ X) \cup {e.id}
            /\ ended' = ended \cup Ending("evicted", X)
  BY <1>1, <1>2, <1>3, EnqueueDoes DEF OnePlace
<1>5. IdsOf(asleep') = Resting \ {e.id}
  BY <1>1, <1>2 DEF OnePlace, Apart, IdsOf, Resting
<1>6. 1..accepted' = 1..accepted \cup {e.id} /\ accepted' \in 0..MaxEvents
  BY <1>1, <1>2, <1>3 DEF OnePlace, WorkTypes
<1>7. asleep' \in SUBSET asleep /\ uploadFailed' \in BOOLEAN /\ debugs' \in Nat
  BY <1>1, <1>2 DEF WorkTypes
<1>8. QED
  BY <1>2, <1>3, <1>4, <1>5, <1>6, <1>7, PushedKeeps

\* The event in hand ends.
LEMMA EndKeeps ==
    ASSUME EventInv, cur.at # "idle", NEW r, cur' = Idle, uploadFailed' \in BOOLEAN,
           ended' = ended \cup {<<r, cur.ev.id>>},
           UNCHANGED <<eventQueue, asleep, accepted, debugs>>
    PROVE  EventInv'
<1>1. WorkTypes /\ Forward /\ OnePlace
  BY DEF EventInv
<1>2. cur.ev.id \in Nat \ {0}
  BY <1>1 DEF WorkTypes, Event
<1>3. Busy = {cur.ev.id} /\ Busy \cap Done = {}
  BY <1>1, <1>2 DEF Busy, OnePlace
<1>4. ended' = ended \cup Ending(r, Busy)
  BY <1>3 DEF Ending
<1>5. Done' = Done \cup Busy /\ \A x, y \in ended' : x[2] = y[2] => x = y
  BY <1>1, <1>3, <1>4, EndedAdds DEF OnePlace
<1>6. Idle.ev = NoEvent /\ NoEvent.id = 0 /\ NoEvent.tss = 0 /\ NoEvent.tse = 0
      /\ Idle \in [at : {"idle", "find", "check", "post"}, ev : Event \cup {NoEvent},
                   slices : SUBSET Int]
  BY DEF Idle, NoEvent
<1>7. Busy' = {} /\ Queued' = Queued /\ Resting' = Resting
  BY <1>6 DEF Busy, Queued, Resting
<1>8. WorkTypes'
  BY <1>1, <1>6 DEF WorkTypes, Idle
<1>9. Forward'
  BY <1>1, <1>6 DEF Forward
<1>10. OnePlace'
  BY <1>1, <1>5, <1>7 DEF OnePlace, Once, Apart
<1>11. QED
  BY <1>8, <1>9, <1>10 DEF EventInv

\* The event in hand goes on to the next step.
LEMMA NextStepKeeps ==
    ASSUME EventInv, cur.at # "idle", NEW slices \in SUBSET Int, NEW at \in {"check", "post"},
           cur' = [cur EXCEPT !.at = at, !.slices = slices],
           UNCHANGED <<eventQueue, asleep, uploadFailed, ended, accepted, debugs>>
    PROVE  EventInv'
<1>1. WorkTypes /\ Forward /\ OnePlace
  BY DEF EventInv
<1>2. cur'.ev = cur.ev /\ cur'.at = at
      /\ cur' \in [at : {"idle", "find", "check", "post"}, ev : Event \cup {NoEvent},
                   slices : SUBSET Int]
  BY <1>1 DEF WorkTypes
<1>3. Busy' = Busy /\ Queued' = Queued /\ Resting' = Resting /\ Done' = Done
  BY <1>2 DEF Busy, Queued, Resting, Done
<1>4. WorkTypes'
  BY <1>1, <1>2 DEF WorkTypes
<1>5. Forward'
  BY <1>1, <1>2 DEF Forward
<1>6. OnePlace'
  BY <1>1, <1>3 DEF OnePlace, Once, Apart
<1>7. QED
  BY <1>4, <1>5, <1>6 DEF EventInv

\* The event at the head of the queue ends, goes to sleep or is taken.
LEMMA TakeKeeps ==
    ASSUME EventInv, TakeEvent
    PROVE  EventInv'
<1> DEFINE e == Head(eventQueue)
<1>1. WorkTypes /\ Forward /\ OnePlace
  BY DEF EventInv
<1>2. /\ cur = Idle /\ eventQueue # <<>> /\ eventQueue' = Tail(eventQueue)
      /\ accepted' = accepted /\ debugs' = debugs /\ uploadFailed' = uploadFailed
      /\ \/ ended' = ended \cup {<<"old", e.id>>} /\ UNCHANGED <<cur, asleep>>
         \/ asleep' = asleep \cup {e} /\ UNCHANGED <<cur, ended>>
         \/ cur' = [Idle EXCEPT !.at = "find", !.ev = e] /\ UNCHANGED <<asleep, ended>>
  BY DEF TakeEvent, Pop
<1>3. /\ eventQueue \in Seq(Event) /\ Len(eventQueue) \in Nat
      /\ Len(eventQueue) <= QueueCap + debugs /\ QueueCap \in Nat /\ debugs \in Nat
  BY <1>1, EvSlicerAssumption DEF WorkTypes, BoundedSeq
<1>4. /\ Once(eventQueue') /\ Queued' = Queued \ {e.id} /\ e.id \in Queued
  BY <1>1, <1>2, <1>3, OnceTail DEF OnePlace, Queued
<1>5. /\ eventQueue' \in Seq(Event) /\ Len(eventQueue') = Len(eventQueue) - 1 /\ e \in Event
  BY <1>2, <1>3, HeadTailProperties
<1>6. Elements(eventQueue) = Elements(eventQueue') \cup {e}
  BY <1>2, <1>3, ElementsTail
<1>7. eventQueue' \in BoundedSeq(Event, QueueCap + debugs')
  BY <1>2, <1>3, <1>5 DEF BoundedSeq
<1>8. /\ Idle.ev = NoEvent /\ Idle.at = "idle" /\ NoEvent.id = 0 /\ e.id # 0
      /\ e.id \notin Resting \cup Done /\ Busy = {} /\ Queued' \cap {e.id} = {}
  BY <1>1, <1>2, <1>4, <1>5 DEF Idle, NoEvent, OnePlace, Busy, Event
<1>9. CASE ended' = ended \cup {<<"old", e.id>>} /\ UNCHANGED <<cur, asleep>>
  <2>1. ended' = ended \cup Ending("old", {e.id}) /\ {e.id} \cap Done = {}
    BY <1>8, <1>9 DEF Ending
  <2>2. Done' = Done \cup {e.id} /\ \A x, y \in ended' : x[2] = y[2] => x = y
    BY <1>1, <2>1, EndedAdds DEF OnePlace
  <2>3. Busy' = {} /\ Resting' = Resting
    BY <1>8, <1>9 DEF Busy, Resting
  <2>4. OnePlace'
    BY <1>1, <1>2, <1>4, <1>8, <1>9, <2>2, <2>3 DEF OnePlace, Apart
  <2>5. WorkTypes'
    BY <1>1, <1>2, <1>7, <1>9 DEF WorkTypes
  <2>6. Forward'
    BY <1>1, <1>6, <1>9 DEF Forward
  <2>7. QED
    BY <2>4, <2>5, <2>6 DEF EventInv
<1>10. CASE asleep' = asleep \cup {e} /\ UNCHANGED <<cur, ended>>
  <2>1. Resting' = Resting \cup {e.id} /\ Done' = Done /\ Busy' = {}
    BY <1>8, <1>10 DEF Resting, Done, Busy, IdsOf
  <2>2. Apart(asleep')
    BY <1>1, <1>8, <1>10 DEF OnePlace, Apart, Resting, IdsOf
  <2>3. OnePlace'
    BY <1>1, <1>2, <1>4, <1>8, <1>10, <2>1, <2>2 DEF OnePlace
  <2>4. WorkTypes'
    BY <1>1, <1>2, <1>5, <1>7, <1>10 DEF WorkTypes
  <2>5. Forward'
    BY <1>1, <1>6, <1>10 DEF Forward
  <2>6. QED
    BY <2>3, <2>4, <2>5 DEF EventInv
<1>11. CASE cur' = [Idle EXCEPT !.at = "find", !.ev = e] /\ UNCHANGED <<asleep, ended>>
  <2>1. cur'.ev = e /\ cur'.at = "find"
        /\ cur' \in [at : {"idle", "find", "check", "post"}, ev : Event \cup {NoEvent},
                     slices : SUBSET Int]
    BY <1>5, <1>11 DEF Idle
  <2>2. Busy' = {e.id} /\ Resting' = Resting /\ Done' = Done
    BY <1>8, <1>11, <2>1 DEF Busy, Resting, Done
  <2>3. OnePlace'
    BY <1>1, <1>2, <1>4, <1>8, <1>11, <2>2 DEF OnePlace, Apart
  <2>4. WorkTypes'
    BY <1>1, <1>2, <1>5, <1>7, <1>11, <2>1 DEF WorkTypes
  <2>5. Forward'
    BY <1>1, <1>6, <1>11, <2>1 DEF Forward
  <2>6. QED
    BY <2>3, <2>4, <2>5 DEF EventInv
<1>12. QED
  BY <1>2, <1>9, <1>10, <1>11

\* The slices of the event are looked up.
LEMMA FindKeeps ==
    ASSUME EventInv, DiskInv, FindSlices
    PROVE  EventInv'
<1> DEFINE v == FindSlicesByRange(cur.ev.tss, cur.ev.tse)
<1>1. cur.at = "find" /\ uploadFailed \in BOOLEAN
  BY DEF FindSlices, EventInv, WorkTypes
<1>2. v \in SUBSET Int
  <2>1. v \subseteq ring
    BY DEF FindSlicesByRange
  <2>2. ring \subseteq 1..clock /\ clock \in Nat
    BY DEF DiskInv, DiskTypes
  <2>3. \A s \in ring : s \in Int
    BY <2>2
  <2> HIDE DEF v
  <2>4. QED
    BY <2>1, <2>3
<1>3. CASE cur' = Idle /\ ended' = ended \cup {<<"missing", cur.ev.id>>}
  BY <1>1, <1>3, EndKeeps DEF FindSlices
<1>4. CASE cur' = [cur EXCEPT !.at = "check", !.slices = v] /\ UNCHANGED ended
  BY <1>1, <1>2, <1>4, NextStepKeeps DEF FindSlices
<1>5. QED
  BY <1>3, <1>4 DEF FindSlices

\* A start of evslicer ends what was in memory.
LEMMA BootKeepsEvents ==
    ASSUME EventInv, Boot
    PROVE  EventInv'
<1>1. WorkTypes /\ Forward /\ OnePlace
  BY DEF EventInv
<1>2. /\ eventQueue' = <<>> /\ asleep' = {} /\ cur' = Idle /\ uploadFailed' = FALSE
      /\ ended' = ended \cup Ending("crash", Pending)
      /\ accepted' = accepted /\ debugs' = debugs
  BY DEF Boot, Ending
<1>3. Pending = Queued \cup Resting \cup Busy
  BY DEF Pending, Queued, Resting, Busy, IdsOf
<1>4. Pending \cap Done = {}
  BY <1>1, <1>3 DEF OnePlace
<1>5. Done' = Done \cup Pending /\ \A x, y \in ended' : x[2] = y[2] => x = y
  BY <1>1, <1>2, <1>4, EndedAdds DEF OnePlace
<1>6. Idle.ev = NoEvent /\ NoEvent.id = 0 /\ NoEvent.tss = 0 /\ NoEvent.tse = 0
      /\ Idle \in [at : {"idle", "find", "check", "post"}, ev : Event \cup {NoEvent},
                   slices : SUBSET Int]
  BY DEF Idle, NoEvent
<1>7. Elements(eventQueue') = {} /\ Once(eventQueue') /\ Apart(asleep')
  BY <1>2 DEF Elements, Once, Apart
<1>8. Queued' = {} /\ Resting' = {} /\ Busy' = {}
  BY <1>2, <1>6, <1>7 DEF Queued, Resting, Busy, IdsOf
<1>9. OnePlace'
  BY <1>1, <1>2, <1>3, <1>5, <1>7, <1>8 DEF OnePlace
<1>10. eventQueue' \in BoundedSeq(Event, QueueCap + debugs')
  <2>1. QueueCap \in Nat /\ debugs \in Nat
    BY <1>1, EvSlicerAssumption DEF WorkTypes
  <2>2. eventQueue' \in Seq(Event) /\ Len(eventQueue') = 0
    BY <1>2
  <2>3. QED
    BY <1>2, <2>1, <2>2 DEF BoundedSeq
<1>11. WorkTypes'
  BY <1>1, <1>2, <1>6, <1>10 DEF WorkTypes, Idle
<1>12. Forward'
  BY <1>2, <1>6, <1>7 DEF Forward
<1>13. QED
  BY <1>9, <1>11, <1>12 DEF EventInv

\* The files of the slices are looked at.
LEMMA CheckKeeps ==
    ASSUME EventInv, CheckFiles
    PROVE  EventInv'
<1>1. cur.at = "check" /\ uploadFailed \in BOOLEAN /\ cur.slices \in SUBSET Int
  BY DEF CheckFiles, EventInv, WorkTypes
<1>2. CASE Boot
  BY <1>2, BootKeepsEvents
<1>3. CASE /\ cur' = Idle /\ ended' = ended \cup {<<"empty", cur.ev.id>>}
           /\ UNCHANGED <<eventQueue, asleep, uploadFailed, accepted, debugs>>
  BY <1>1, <1>3, EndKeeps
<1>4. CASE /\ cur' = [cur EXCEPT !.at = "post"]
           /\ UNCHANGED <<eventQueue, asleep, uploadFailed, ended, accepted, debugs>>
  <2>1. cur' = [cur EXCEPT !.at = "post", !.slices = cur.slices]
    BY <1>4 DEF EventInv, WorkTypes
  <2>2. QED
    BY <1>1, <1>4, <2>1, NextStepKeeps
<1>5. QED
  BY <1>2, <1>3, <1>4 DEF CheckFiles

\* The slices are posted: the event ends or is queued with one try less.
LEMMA PostKeeps ==
    ASSUME EventInv, NEW outcome \in Outcomes, Post(outcome)
    PROVE  EventInv'
<1> DEFINE e == cur.ev
<1>1. WorkTypes /\ Forward /\ OnePlace
  BY DEF EventInv
<1>2. /\ cur.at = "post" /\ cur' = Idle /\ uploadFailed' \in BOOLEAN
      /\ UNCHANGED <<asleep, accepted, debugs>> /\ e \in Event
  BY <1>1 DEF Post, WorkTypes
<1>3. CASE \E r : End(r)
  BY <1>2, <1>3, EndKeeps DEF End
<1>4. CASE \E n \in 1..2 : Enqueue(Retried(e, n))
  <2>1. PICK n \in 1..2 : Enqueue(Retried(e, n))
    BY <1>4
  <2> DEFINE f == Retried(e, n)
  <2>2. f \in Event /\ f.id = e.id /\ f.tss = e.tss /\ f.tse = e.tse
    BY <1>2 DEF Retried, Event
  <2> HIDE DEF f
  <2>3. Busy = {f.id} /\ f.id \notin Queued \cup Done /\ f.tss <= f.tse
    BY <1>1, <1>2, <2>2 DEF OnePlace, Busy, Forward, Event
  <2>4. /\ eventQueue' \in BoundedSeq(Event, QueueCap + debugs)
        /\ Once(eventQueue')
        /\ Elements(eventQueue') \subseteq Elements(eventQueue) \cup {f}
        /\ \E X \in SUBSET Queued :
              /\ IdsOf(Elements(eventQueue')) = (Queued \ X) \cup {f.id}
              /\ ended' = ended \cup Ending("evicted", X)
    BY <1>1, <2>1, <2>2, <2>3, EnqueueDoes DEF OnePlace, f
  <2>5. 1..accepted' = 1..accepted \cup {f.id} /\ accepted' \in 0..MaxEvents
    BY <1>1, <1>2, <2>3 DEF OnePlace, WorkTypes
  <2>6. debugs' = debugs /\ debugs' \in Nat /\ asleep' \in SUBSET asleep
    BY <1>1, <1>2 DEF WorkTypes
  <2>7. QED
    BY <1>2, <2>2, <2>3, <2>4, <2>5, <2>6, PushedKeeps
<1>5. e.cnt \in -1..2 /\ CountAfter(e) \in 0..2
  BY <1>2 DEF Event, CountAfter
<1>6. (\E r : End(r)) \/ (\E n \in 1..2 : Enqueue(Retried(e, n)))
  BY <1>5 DEF Post
<1>7. QED
  BY <1>3, <1>4, <1>6

LEMMA EventInit == Init => EventInv
<1> SUFFICES ASSUME Init PROVE EventInv
  OBVIOUS
<1>1. Elements(eventQueue) = {} /\ Once(eventQueue)
  BY DEF Init, Elements, Once
<1>2. eventQueue \in BoundedSeq(Event, QueueCap + debugs)
  <2>1. QueueCap \in Nat /\ debugs = 0 /\ eventQueue \in Seq(Event) /\ Len(eventQueue) = 0
    BY EvSlicerAssumption DEF Init
  <2>2. QED
    BY <2>1 DEF BoundedSeq
<1>3. Idle.ev = NoEvent /\ NoEvent.id = 0 /\ NoEvent.tss = 0 /\ NoEvent.tse = 0
      /\ Idle \in [at : {"idle", "find", "check", "post"}, ev : Event \cup {NoEvent},
                   slices : SUBSET Int]
  BY DEF Idle, NoEvent
<1>4. WorkTypes
  <2>1. accepted \in 0..MaxEvents /\ debugs \in Nat
    BY EvSlicerAssumption DEF Init
  <2>2. asleep \in SUBSET Event /\ uploadFailed \in BOOLEAN /\ cur = Idle /\ cur.at = "idle"
    BY DEF Init, Idle
  <2>3. QED
    BY <1>2, <1>3, <2>1, <2>2 DEF WorkTypes
<1>5. Forward
  BY <1>1, <1>3 DEF Init, Forward
<1>6. Queued = {} /\ Resting = {} /\ Busy = {} /\ Done = {}
  BY <1>1, <1>3 DEF Init, Queued, Resting, Busy, Done, IdsOf
<1>7. OnePlace
  BY <1>1, <1>6 DEF Init, OnePlace, Apart
<1>8. QED
  BY <1>4, <1>5, <1>7 DEF EventInv

LEMMA EventStep == EventInv /\ DiskInv /\ [Next]_vars => EventInv'
<1> SUFFICES ASSUME EventInv, DiskInv, [Next]_vars PROVE EventInv'
  OBVIOUS
<1>1. CASE UNCHANGED <<work, accepted, debugs>>
  <2>1. UNCHANGED <<eventQueue, asleep, cur, uploadFailed, ended, accepted, debugs>>
    BY <1>1 DEF work
  <2>2. WorkTypes'
    BY <2>1 DEF EventInv, WorkTypes
  <2>3. Forward'
    BY <2>1 DEF EventInv, Forward
  <2>4. Queued' = Queued /\ Resting' = Resting /\ Busy' = Busy /\ Done' = Done
    BY <2>1 DEF Queued, Resting, Busy, Done
  <2>5. OnePlace'
    BY <2>1, <2>4 DEF EventInv, OnePlace, Once, Apart
  <2>6. QED
    BY <2>2, <2>3, <2>5 DEF EventInv
<1>2. OpenSlice \/ WriteSlice \/ FileMonHandler \/ UNCHANGED vars =>
         UNCHANGED <<work, accepted, debugs>>
  BY DEF OpenSlice, WriteSlice, FileMonHandler, vars, work
<1>3. ASSUME NEW e \in NewEvents, HandleEdgeMsg(e) \/ DebugRecord(e)
      PROVE  EventInv'
  BY <1>3, NewEventKeeps
<1>4. ASSUME NEW e \in asleep, Wake(e)
      PROVE  EventInv'
  BY <1>4, WakeKeeps
<1>5. CASE EventThread
  BY <1>5, TakeKeeps, FindKeeps, CheckKeeps, PostKeeps DEF EventThread
<1>6. CASE Restart
  BY <1>6, BootKeepsEvents DEF Restart
<1>7. QED
  BY <1>1, <1>2, <1>3, <1>4, <1>5, <1>6 DEF Next

LEMMA EventAlways == Spec => [](EventInv /\ DiskInv)
<1>1. Init => EventInv /\ DiskInv
  BY EventInit, DiskInit
<1>2. (EventInv /\ DiskInv) /\ [Next]_vars => (EventInv /\ DiskInv)'
  BY EventStep, DiskStep
<1>3. QED
  BY <1>1, <1>2, PTL DEF Spec

\* Types: the ring keeps to its capacity, and the queue exceeds its limit only by the
\* events of the operator, whatever is put back and whatever wakes.
THEOREM TypeCorrect == Spec => []TypeOK
<1>1. EventInv /\ DiskInv => TypeOK
  BY DEF EventInv, DiskInv, WorkTypes, DiskTypes, TypeOK
<1>2. QED
  BY <1>1, EventAlways, PTL

\* A set of at most one member has as many members as it has witnesses.
LEMMA CountOne ==
    ASSUME NEW A, \A x, y \in A : x = y
    PROVE  Cardinality(A) = IF A = {} THEN 0 ELSE 1
<1>1. CASE A = {}
  BY <1>1, FS_EmptySet
<1>2. CASE A # {}
  <2>1. PICK x \in A : A = {x}
    BY <1>2
  <2>2. QED
    BY <1>2, <2>1, FS_Singleton
<1>3. QED
  BY <1>1, <1>2

\* Every event received is in exactly one place - queued, asleep, in the hands of the
\* event thread, or ended for one reason - however often it is put back, however many
\* are pushed out, and whenever evslicer crashes.
THEOREM InOnePlace == Spec => []EventInOnePlace
<1>1. ASSUME EventInv
      PROVE  EventInOnePlace
  <2> DEFINE E(i) == {x \in ended : x[2] = i}
             Q(i) == {k \in DOMAIN eventQueue : eventQueue[k].id = i}
             A(i) == {x \in asleep : x.id = i}
  <2>1. OnePlace /\ WorkTypes
    BY <1>1 DEF EventInv
  <2>2. \A i : \A x, y \in E(i) : x = y
    BY <2>1 DEF OnePlace
  <2>3. \A i : \A x, y \in Q(i) : x = y
    BY <2>1 DEF OnePlace, Once
  <2>4. \A i : \A x, y \in A(i) : x = y
    BY <2>1 DEF OnePlace, Apart
  <2>5. \A i : E(i) # {} <=> i \in Done
    BY DEF Done
  <2>6. \A i : Q(i) # {} <=> i \in Queued
    BY DEF Queued, IdsOf, Elements
  <2>7. \A i : A(i) # {} <=> i \in Resting
    BY DEF Resting, IdsOf
  <2>8. \A i \in 1..accepted : cur.ev.id = i <=> i \in Busy
    BY DEF Busy
  <2> HIDE DEF E, Q, A
  <2>9. ASSUME NEW i \in 1..accepted
        PROVE  Cardinality(E(i)) + Cardinality(Q(i)) + Cardinality(A(i))
                 + (IF cur.ev.id = i THEN 1 ELSE 0) = 1
    <3>1. /\ Cardinality(E(i)) = IF E(i) = {} THEN 0 ELSE 1
          /\ Cardinality(Q(i)) = IF Q(i) = {} THEN 0 ELSE 1
          /\ Cardinality(A(i)) = IF A(i) = {} THEN 0 ELSE 1
      BY <2>2, <2>3, <2>4, CountOne
    <3>2. QED
      BY <2>1, <2>5, <2>6, <2>7, <2>8, <3>1 DEF OnePlace
  <2>10. Queued \cup Resting \cup Busy \cup Done = 1..accepted
    BY <2>1 DEF OnePlace
  <2>11. QED
    BY <2>9, <2>10 DEF EventInOnePlace, E, Q, A, Queued, Resting, Busy, Done, IdsOf
<1>2. QED
  BY <1>1, EventAlways, PTL

\* The slices chosen for an event are those of the ring in which some of it was
\* recorded.
THEOREM OverlapIsChosen == Spec => ChosenOverlap
<1>1. ASSUME EventInv, DiskInv, [Next]_vars, cur.at = "find", cur'.at = "check"
      PROVE  cur'.slices = {s \in ring : Overlaps(s, cur.ev)}
  <2> DEFINE a == cur.ev.tss
             b == cur.ev.tse
  <2>1. a \in Nat /\ b \in Nat /\ a <= b
    BY <1>1 DEF EventInv, WorkTypes, Forward, Event
  <2>2. ring \in SUBSET Int /\ IsFiniteSet(ring)
    <3>1. ring \subseteq 1..clock /\ clock \in Nat
      BY <1>1 DEF DiskInv, DiskTypes
    <3>2. IsFiniteSet(1..clock)
      BY <3>1, FS_Interval
    <3>3. \A s \in ring : s \in Int
      BY <3>1
    <3>4. IsFiniteSet(ring)
      BY <3>1, <3>2, FS_Subset
    <3>5. QED
      BY <3>3, <3>4
  <2>3. FindSlices
    <3>1. Idle.at = "idle"
      BY DEF Idle
    <3>2. UNCHANGED cur \/ cur' = Idle \/ FindSlices \/ cur.at # "find"
      BY <1>1 DEF Next, OpenSlice, WriteSlice, FileMonHandler, HandleEdgeMsg, DebugRecord, Wake,
                  EventThread, TakeEvent, CheckFiles, Post, Restart, Boot, work, vars, Idle
    <3>3. QED
      BY <1>1, <3>1, <3>2
  <2>4. cur'.slices = FindSlicesByRange(a, b) /\ FindSlicesByRange(a, b) # {}
    <3> DEFINE v == FindSlicesByRange(a, b)
    <3>1. cur' = Idle \/ (v # {} /\ cur' = [cur EXCEPT !.at = "check", !.slices = v])
      BY <2>3 DEF FindSlices
    <3>2. cur \in [at : {"idle", "find", "check", "post"}, ev : Event \cup {NoEvent},
                   slices : SUBSET Int]
      BY <1>1 DEF EventInv, WorkTypes
    <3>3. cur' # Idle
      BY <1>1 DEF Idle
    <3> HIDE DEF v
    <3>4. cur'.slices = v /\ v # {}
      BY <3>1, <3>2, <3>3
    <3>5. QED
      BY <3>4 DEF v
  <2>5. cur'.slices = {s \in ring : s <= b /\ \A t \in ring : (s < t /\ t <= b) => ~(a >= t)}
    BY <2>4 DEF FindSlicesByRange
  <2>6. ASSUME NEW s \in ring, s <= b
        PROVE  (\A t \in ring : (s < t /\ t <= b) => ~(a >= t)) <=> Overlaps(s, cur.ev)
    BY <2>1, <2>2, <2>6 DEF Overlaps
  <2>7. \A s \in ring : Overlaps(s, cur.ev) => s <= b
    BY DEF Overlaps
  <2>8. QED
    BY <2>5, <2>6, <2>7
<1>2. [Next]_vars /\ EventInv /\ DiskInv =>
        (cur.at = "find" /\ cur'.at = "check" => cur'.slices = {s \in ring : Overlaps(s, cur.ev)})
  BY <1>1
<1>3. QED
  BY <1>2, EventAlways, PTL DEF Spec, ChosenOverlap

================================================================================
