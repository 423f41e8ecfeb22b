-------------------------- MODULE ReleaseBundleProofs --------------------------
(***************************************************************************)
(* The index of the active release bundle is right, and a position deletes *)
(* what it shows, for all releases, positions and numbers of restarts.     *)
(***************************************************************************)
EXTENDS ReleaseBundle, SequenceTheorems, TLAPS

\* A list of bundles without a duplicate, the index of its active bundle and the
\* release that was made active fit together.
Right(q, idx, act) ==
    /\ q \in Seq(Releases)
    /\ \A i, j \in DOMAIN q : q[i] = q[j] => i = j
    /\ \/ idx = -1 /\ act = {}
       \/ idx \in 0..Len(q) - 1 /\ act = {q[idx + 1]}

BundleInv ==
    /\ Right(bundles, activeIdx, activated)
    /\ Right(saved.bundles, saved.activeIdx, savedActivated)

\* A new bundle, active or not, fits.
LEMMA AddedFits ==
    ASSUME NEW q, NEW idx, NEW act, Right(q, idx, act), NEW r \in Releases,
           \A i \in 0..Len(q) - 1 : q[i + 1] # r
    PROVE  /\ Right(Append(q, r), idx, act)
           /\ Right(Append(q, r), Len(q), {r})
<1>1. q \in Seq(Releases) /\ Len(q) \in Nat /\ DOMAIN q = 1..Len(q)
  BY LenProperties DEF Right
<1>2. /\ Append(q, r) \in Seq(Releases)
      /\ Len(Append(q, r)) = Len(q) + 1
      /\ DOMAIN Append(q, r) = 1..Len(q) + 1
      /\ \A i \in 1..Len(q) : Append(q, r)[i] = q[i]
      /\ Append(q, r)[Len(q) + 1] = r
  BY <1>1, AppendProperties, LenProperties
<1>3. \A i \in 1..Len(q) : q[i] # r
  <2> SUFFICES ASSUME NEW i \in 1..Len(q) PROVE q[i] # r
    OBVIOUS
  <2>1. i - 1 \in 0..Len(q) - 1 /\ (i - 1) + 1 = i
    BY <1>1
  <2>2. QED
    BY <2>1
<1>4. \A i, j \in DOMAIN Append(q, r) : Append(q, r)[i] = Append(q, r)[j] => i = j
  BY <1>1, <1>2, <1>3 DEF Right
<1>5. QED
  BY <1>1, <1>2, <1>4 DEF Right

\* The bundles that stay after one is erased.
LEMMA ErasedIndex ==
    ASSUME NEW q \in Seq(Releases), NEW idx \in 0..Len(q) - 1
    PROVE  /\ Erased(q, idx) \in Seq(Releases)
           /\ Len(Erased(q, idx)) = Len(q) - 1
           /\ DOMAIN Erased(q, idx) = 1..Len(q) - 1
           /\ \A j \in 1..Len(q) - 1 :
                 Erased(q, idx)[j] = IF j <= idx THEN q[j] ELSE q[j + 1]
<1> DEFINE s == SubSeq(q, 1, idx)
           t == SubSeq(q, idx + 2, Len(q))
<1>1. Len(q) \in Nat /\ DOMAIN q = 1..Len(q) /\ \A i \in 1..Len(q) : q[i] \in Releases
      /\ idx \in Nat /\ idx + 1 <= Len(q)
  BY LenProperties, ElementOfSeq
<1>2. /\ s \in Seq(Releases) /\ Len(s) = idx
      /\ \A j \in 1..idx : s[j] = q[j]
  BY <1>1, SubSeqProperties
<1>3. /\ t \in Seq(Releases) /\ Len(t) = Len(q) - 1 - idx
      /\ \A j \in 1..Len(q) - 1 - idx : t[j] = q[idx + 1 + j]
  <2>1. \A j \in idx + 2..Len(q) : q[j] \in Releases
    BY <1>1
  <2>2. /\ t \in Seq(Releases)
        /\ Len(t) = IF idx + 2 <= Len(q) THEN Len(q) - (idx + 2) + 1 ELSE 0
        /\ \A j \in 1..Len(q) - (idx + 2) + 1 : t[j] = q[idx + 2 + j - 1]
    BY <1>1, <2>1, SubSeqProperties
  <2> HIDE DEF t
  <2>3. Len(t) = Len(q) - 1 - idx
    <3> DEFINE n == Len(q)
    <3>0. n \in Nat /\ idx \in Nat /\ idx + 1 <= n
      BY <1>1
    <3> HIDE DEF n
    <3>1. (idx + 2 <= n => n - (idx + 2) + 1 = n - 1 - idx) /\ (~(idx + 2 <= n) => 0 = n - 1 - idx)
      BY <3>0
    <3>2. \/ idx + 2 <= Len(q) /\ Len(q) - (idx + 2) + 1 = Len(q) - 1 - idx
          \/ ~(idx + 2 <= Len(q)) /\ 0 = Len(q) - 1 - idx
      BY <3>1 DEF n
    <3>3. Len(t) = IF idx + 2 <= Len(q) THEN Len(q) - (idx + 2) + 1 ELSE 0
      BY <2>2
    <3>4. QED
      BY <3>2, <3>3
  <2>4. ASSUME NEW j \in 1..Len(q) - 1 - idx PROVE t[j] = q[idx + 1 + j]
    <3>1. j \in 1..Len(q) - (idx + 2) + 1 /\ idx + 2 + j - 1 = idx + 1 + j
      BY <1>1
    <3>2. QED
      BY <2>2, <3>1
  <2>5. QED
    BY <2>2, <2>3, <2>4
<1> HIDE DEF s, t
<1>4. /\ s \o t \in Seq(Releases)
      /\ Len(s \o t) = Len(q) - 1
      /\ \A j \in 1..Len(q) - 1 : (s \o t)[j] = IF j <= idx THEN s[j] ELSE t[j - idx]
  <2>1. /\ s \o t \in Seq(Releases)
        /\ Len(s \o t) = Len(s) + Len(t)
        /\ \A j \in 1..Len(s) + Len(t) : (s \o t)[j] = IF j <= Len(s) THEN s[j] ELSE t[j - Len(s)]
    BY <1>2, <1>3, ConcatProperties
  <2>2. Len(s) = idx /\ Len(s) + Len(t) = Len(q) - 1
    BY <1>1, <1>2, <1>3
  <2>3. QED
    BY <2>1, <2>2
<1>5. \A j \in 1..Len(q) - 1 : (s \o t)[j] = IF j <= idx THEN q[j] ELSE q[j + 1]
  <2> SUFFICES ASSUME NEW j \in 1..Len(q) - 1
               PROVE  (s \o t)[j] = IF j <= idx THEN q[j] ELSE q[j + 1]
    OBVIOUS
  <2>1. CASE j <= idx
    BY <1>1, <1>2, <1>4, <2>1
  <2>2. CASE ~(j <= idx)
    <3>1. j - idx \in 1..Len(q) - 1 - idx /\ idx + 1 + (j - idx) = j + 1
      BY <1>1, <2>2
    <3>2. QED
      BY <1>1, <1>3, <1>4, <2>2, <3>1
  <2>3. QED
    BY <2>1, <2>2
<1>6. QED
  BY <1>1, <1>4, <1>5, LenProperties DEF Erased, s, t

\* Erasing a bundle that is not the active one, with the index moved, fits.
LEMMA ErasedFits ==
    ASSUME Right(bundles, activeIdx, activated), NEW idx \in Indices, idx # activeIdx
    PROVE  Right(Erased(bundles, idx), ActiveAfter(idx), activated)
<1> DEFINE r == Erased(bundles, idx)
<1>1. bundles \in Seq(Releases) /\ Len(bundles) \in Nat /\ idx \in 0..Len(bundles) - 1
      /\ DOMAIN bundles = 1..Len(bundles)
  BY LenProperties DEF Right, Indices
<1>2. /\ r \in Seq(Releases) /\ Len(r) = Len(bundles) - 1 /\ DOMAIN r = 1..Len(bundles) - 1
      /\ \A j \in 1..Len(bundles) - 1 : r[j] = IF j <= idx THEN bundles[j] ELSE bundles[j + 1]
  BY <1>1, ErasedIndex
<1>3. \A i, j \in DOMAIN r : r[i] = r[j] => i = j
  <2> SUFFICES ASSUME NEW i \in 1..Len(bundles) - 1, NEW j \in 1..Len(bundles) - 1, r[i] = r[j]
               PROVE  i = j
    BY <1>2
  <2> DEFINE Old(n) == IF n <= idx THEN n ELSE n + 1
  <2>1. Old(i) \in DOMAIN bundles /\ Old(j) \in DOMAIN bundles
    BY <1>1
  <2>2. bundles[Old(i)] = bundles[Old(j)]
    BY <1>2
  <2>3. Old(i) = Old(j)
    BY <2>1, <2>2 DEF Right
  <2>4. QED
    BY <1>1, <2>3
<1>4. CASE activeIdx = -1
  BY <1>1, <1>2, <1>3, <1>4 DEF Right, ActiveAfter
<1>5. CASE activeIdx \in 0..Len(bundles) - 1 /\ activated = {bundles[activeIdx + 1]}
  <2>1. ActiveAfter(idx) \in 0..Len(r) - 1
    BY <1>1, <1>2, <1>5 DEF ActiveAfter
  <2>2. r[ActiveAfter(idx) + 1] = bundles[activeIdx + 1]
    BY <1>1, <1>2, <1>5, <2>1 DEF ActiveAfter
  <2>3. QED
    BY <1>2, <1>3, <1>5, <2>1, <2>2 DEF Right
<1>6. QED
  BY <1>4, <1>5 DEF Right

\* Saved or not, what is in the database fits.
LEMMA SaveFits ==
    ASSUME BundleInv, Save, Right(bundles', activeIdx', activated')
    PROVE  BundleInv'
  BY DEF BundleInv, Save

\* A position that may be deleted.
LEMMA DeletedFits ==
    ASSUME BundleInv, NEW k, DeleteAt(k)
    PROVE  BundleInv'
<1>1. /\ FromNewest(k) \in Indices /\ FromNewest(k) # activeIdx
      /\ bundles' = Erased(bundles, FromNewest(k))
      /\ activeIdx' = ActiveAfter(FromNewest(k))
      /\ activated' = activated
      /\ Save
  BY DEF DeleteAt, MayDelete
<1>2. Right(bundles, activeIdx, activated)
  BY DEF BundleInv
<1>3. Right(bundles', activeIdx', activated')
  BY <1>1, <1>2, ErasedFits
<1>4. QED
  BY <1>1, <1>3, SaveFits

LEMMA BundleInvInvariant == Spec => []BundleInv
<1>1. Init => BundleInv
  <2>1. <<>> \in Seq(Releases) /\ DOMAIN <<>> = {}
    BY EmptySeq
  <2>2. QED
    BY <2>1 DEF Init, BundleInv, Right
<1>2. BundleInv /\ [Next]_vars => BundleInv'
  <2> SUFFICES ASSUME BundleInv, [Next]_vars PROVE BundleInv'
    OBVIOUS
  <2>1. CASE \E r \in Releases, active \in BOOLEAN : Add(r, active)
    <3> PICK r \in Releases, active \in BOOLEAN : Add(r, active)
      BY <2>1
    <3>1. /\ \A i \in 0..Len(bundles) - 1 : bundles[i + 1] # r
          /\ bundles' = Append(bundles, r)
          /\ activeIdx' = IF active THEN Len(bundles) ELSE activeIdx
          /\ activated' = IF active THEN {r} ELSE activated
          /\ Save
      BY DEF Add, Indices, At
    <3>2. Right(bundles, activeIdx, activated)
      BY DEF BundleInv
    <3>3. /\ Right(Append(bundles, r), activeIdx, activated)
          /\ Right(Append(bundles, r), Len(bundles), {r})
      BY <3>1, <3>2, AddedFits
    <3>4. Right(bundles', activeIdx', activated')
      BY <3>1, <3>3
    <3>5. QED
      BY <3>1, <3>4, SaveFits
  <2>2. CASE \E bid \in Bids : Delete(bid)
    BY <2>2, DeletedFits DEF Delete
  <2>3. CASE Restart
    BY <2>3 DEF Restart, BundleInv
  <2>4. CASE UNCHANGED vars
    BY <2>4 DEF vars, BundleInv
  <2>5. QED
    BY <2>1, <2>2, <2>3, <2>4 DEF Next
<1>3. QED
  BY <1>1, <1>2, PTL DEF Spec

\* The index of the active bundle points at the release last made active, in memory and
\* in the database, through every addition, deletion, failed save and restart.
THEOREM ActiveStaysRight == Spec => []ActiveIsRight
<1>1. BundleInv => ActiveIsRight
  <2> SUFFICES ASSUME BundleInv PROVE ActiveIsRight
    OBVIOUS
  <2>1. ASSUME NEW q, NEW idx, NEW act, Right(q, idx, act)
        PROVE  /\ act = {q[i + 1] : i \in {idx} \cap 0..Len(q) - 1}
               /\ act = {q[i] : i \in {idx + 1} \cap DOMAIN q}
               /\ act = {} <=> idx = -1
    <3>1. Len(q) \in Nat /\ DOMAIN q = 1..Len(q)
      BY <2>1, LenProperties DEF Right
    <3>2. CASE idx = -1 /\ act = {}
      BY <3>1, <3>2
    <3>3. CASE idx \in 0..Len(q) - 1 /\ act = {q[idx + 1]}
      <4>1. {idx} \cap 0..Len(q) - 1 = {idx} /\ {idx + 1} \cap DOMAIN q = {idx + 1}
        BY <3>1, <3>3
      <4>2. idx # -1
        BY <3>3
      <4>3. QED
        BY <3>3, <4>1, <4>2
    <3>4. QED
      BY <2>1, <3>2, <3>3 DEF Right
  <2>2. QED
    BY <2>1 DEF BundleInv, ActiveIsRight, At, Indices
<1>2. QED
  BY <1>1, BundleInvInvariant, PTL

\* DELETE by position takes away what GET shows at that position, and nothing else goes.
THEOREM PositionIsShown == Spec => PositionDeletesShown
<1> DEFINE Deletes(k) == DeleteAt(k) => Shown(AtPosition(k)) =
                {At(i) : i \in Indices} \ {bundles'[j] : j \in DOMAIN bundles'}
<1>1. BundleInv => \A k \in Positions : Deletes(k)
  <2> SUFFICES ASSUME BundleInv, NEW k \in Positions, DeleteAt(k)
               PROVE  Shown(AtPosition(k)) =
                        {At(i) : i \in Indices} \ {bundles'[j] : j \in DOMAIN bundles'}
    OBVIOUS
  <2> DEFINE idx == FromNewest(k)
             n == Len(bundles)
  <2>1. /\ bundles \in Seq(Releases) /\ n = Len(bundles) /\ n \in Nat /\ DOMAIN bundles = 1..n
        /\ \A i, j \in 1..n : bundles[i] = bundles[j] => i = j
    BY LenProperties DEF BundleInv, Right
  <2>2. k \in Int /\ idx = n - 1 - k /\ idx \in 0..n - 1 /\ k >= 0
        /\ bundles' = Erased(bundles, idx)
    BY <2>1, ReleaseBundleAssumption DEF DeleteAt, MayDelete, FromNewest, Indices
  <2>3. Shown(AtPosition(k)) = {bundles[idx + 1]}
    BY <2>2 DEF Shown, AtPosition, At, Indices
  <2>4. /\ DOMAIN bundles' = 1..n - 1
        /\ \A j \in 1..n - 1 : bundles'[j] = IF j <= idx THEN bundles[j] ELSE bundles[j + 1]
    BY <2>1, <2>2, ErasedIndex
  <2> HIDE DEF idx, n
  <2>5. {bundles'[j] : j \in DOMAIN bundles'} = {bundles[j] : j \in (1..n) \ {idx + 1}}
    <3>1. ASSUME NEW j \in 1..n - 1
          PROVE  \E i \in (1..n) \ {idx + 1} : bundles'[j] = bundles[i]
      <4>1. CASE j <= idx
        BY <2>1, <2>2, <2>4, <4>1
      <4>2. CASE ~(j <= idx)
        <5>1. j + 1 \in (1..n) \ {idx + 1} /\ bundles'[j] = bundles[j + 1]
          BY <2>1, <2>2, <2>4, <4>2
        <5>2. QED
          BY <5>1
      <4>3. QED
        BY <4>1, <4>2
    <3>2. ASSUME NEW i \in (1..n) \ {idx + 1}
          PROVE  \E j \in 1..n - 1 : bundles'[j] = bundles[i]
      <4>1. CASE i <= idx
        BY <2>1, <2>2, <2>4, <4>1
      <4>2. CASE ~(i <= idx)
        <5>1. i - 1 \in 1..n - 1 /\ ~(i - 1 <= idx) /\ (i - 1) + 1 = i
          BY <2>1, <2>2, <4>2
        <5>2. QED
          BY <2>4, <5>1
      <4>3. QED
        BY <4>1, <4>2
    <3>3. \A x : x \in {bundles'[j] : j \in 1..n - 1} <=> x \in {bundles[j] : j \in (1..n) \ {idx + 1}}
      BY <3>1, <3>2
    <3>4. QED
      BY <2>4, <3>3
  <2>6. {At(i) : i \in Indices} = {bundles[j] : j \in 1..n}
    <3>1. \A i \in 0..n - 1 : i + 1 \in 1..n
      BY <2>1
    <3>2. \A j \in 1..n : j - 1 \in 0..n - 1 /\ (j - 1) + 1 = j
      BY <2>1
    <3>3. QED
      BY <2>1, <3>1, <3>2 DEF At, Indices
  <2>7. idx + 1 \in 1..n
    BY <2>1, <2>2
  <2>8. {bundles[j] : j \in 1..n} \ {bundles[j] : j \in (1..n) \ {idx + 1}} = {bundles[idx + 1]}
    BY <2>1, <2>7
  <2>9. QED
    BY <2>3, <2>5, <2>6, <2>8
<1>2. BundleInv /\ [Next]_vars => [\A k \in Positions : Deletes(k)]_vars
  BY <1>1
<1>3. QED
  BY <1>2, BundleInvInvariant, PTL DEF Spec, PositionDeletesShown
================================================================================
