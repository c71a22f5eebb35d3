--------------------------- MODULE KeyScanProofs ---------------------------
(***************************************************************************)
(* Proofs about KeyScan, for any finite set of keys, any callers and any   *)
(* pages: what the scans and the KeyIterator return, from what Less and    *)
(* the positions of a native iterator on a finite set of keys are.  A scan *)
(* or an iterator has met an initial part of the keys it asked for, which  *)
(* its cursor bounds, and has delivered that part in order.                *)
(***************************************************************************)
EXTENDS KeyScan, FiniteSetTheorems, TLAPS

\* A leaf that names no other prover is left to Zenon.
USE Zenon

WF == INSTANCE WellFoundedInduction

-----------------------------------------------------------------------------
(* The order of keys.                                                      *)

(* The keys a and b differ at the position i for the first time, and a is   *)
(* before b.                                                               *)
Splits(a, b, i) ==
  /\ i \in 1 .. Len(b) /\ i <= Len(a) + 1
  /\ \A j \in 1 .. i - 1 : a[j] = b[j]
  /\ i <= Len(a) => a[i] < b[i]

LEMMA SamePart ==
  ASSUME NEW a \in Seq(Nat), NEW b \in Seq(Nat), NEW n \in Nat, n <= Len(a), n <= Len(b)
  PROVE  SubSeq(a, 1, n) = SubSeq(b, 1, n) <=> \A j \in 1 .. n : a[j] = b[j]
<1>1. \A s \in Seq(Nat) : n <= Len(s) => SubSeq(s, 1, n) = [j \in 1 .. n |-> s[j]]
  BY SMT
<1>2. SubSeq(a, 1, n) = [j \in 1 .. n |-> a[j]] /\ SubSeq(b, 1, n) = [j \in 1 .. n |-> b[j]]
  BY <1>1, SMT
<1>3. QED
  BY <1>2, SMT

LEMMA LessIs ==
  ASSUME NEW a \in Seq(Nat), NEW b \in Seq(Nat)
  PROVE  Less(a, b) <=> \E i \in Nat : Splits(a, b, i)
<1>1. ASSUME NEW i \in 1 .. Len(b), i <= Len(a) + 1
      PROVE  SubSeq(a, 1, i - 1) = SubSeq(b, 1, i - 1) <=> \A j \in 1 .. i - 1 : a[j] = b[j]
  <2>1. i - 1 \in Nat /\ i - 1 <= Len(a) /\ i - 1 <= Len(b)
    BY <1>1, SMT
  <2>2. QED
    BY <2>1, SamePart
<1>2. 1 .. Len(b) \subseteq Nat
  BY SMT
<1>3. QED
  BY <1>1, <1>2 DEF Less, Splits

LEMMA LessOnce == ASSUME NEW a \in Seq(Nat) PROVE ~Less(a, a)
<1>1. \A i \in Nat : ~Splits(a, a, i)
  BY SMT DEF Splits
<1>2. QED
  BY <1>1, LessIs

LEMMA LessTransitive ==
  ASSUME NEW a \in Seq(Nat), NEW b \in Seq(Nat), NEW c \in Seq(Nat), Less(a, b), Less(b, c)
  PROVE  Less(a, c)
<1>1. PICK i \in Nat : Splits(a, b, i)
  BY LessIs
<1>2. PICK j \in Nat : Splits(b, c, j)
  BY LessIs
<1>3. CASE i <= j
  <2>1. /\ i \in 1 .. Len(b) /\ i <= Len(a) + 1 /\ (i <= Len(a) => a[i] < b[i])
        /\ j \in 1 .. Len(c) /\ (j <= Len(b) => b[j] < c[j])
        /\ \A m \in 1 .. i - 1 : a[m] = b[m]
        /\ \A m \in 1 .. j - 1 : b[m] = c[m]
    BY <1>1, <1>2 DEF Splits
  <2>2. i \in 1 .. Len(c) /\ \A m \in 1 .. i - 1 : m \in 1 .. j - 1
    BY <1>3, <2>1, SMT
  <2>3. \A m \in 1 .. i - 1 : a[m] = c[m]
    BY <2>1, <2>2
  <2>4. i <= Len(a) => a[i] < c[i]
    <3>1. b[i] \in Nat /\ c[i] \in Nat /\ b[i] <= c[i]
      <4>1. b[i] \in Nat /\ c[i] \in Nat
        <5>1. i \in 1 .. Len(b) /\ i \in 1 .. Len(c)
          BY <2>1, <2>2
        <5>2. QED
          BY <5>1, SMT
      <4>2. CASE i = j
        BY <2>1, <4>1, <4>2, SMT
      <4>3. CASE i # j
        <5>1. i \in 1 .. j - 1
          BY <1>3, <2>1, <4>3, SMT
        <5>2. QED
          BY <2>1, <4>1, <5>1, SMT
      <4>4. QED
        BY <4>2, <4>3, SMT
    <3>2. i \in 1 .. Len(b) /\ (i <= Len(a) => a[i] < b[i])
      BY <2>1
    <3>3. i <= Len(a) => a[i] \in Nat
      BY <3>2, SMT
    <3>4. QED
      BY <3>1, <3>2, <3>3, SMT
  <2>5. Splits(a, c, i)
    BY <2>1, <2>2, <2>3, <2>4 DEF Splits
  <2>6. QED
    BY <2>5, LessIs
<1>4. CASE j < i
  <2>1. /\ i \in 1 .. Len(b) /\ i <= Len(a) + 1
        /\ j \in 1 .. Len(c) /\ (j <= Len(b) => b[j] < c[j])
        /\ \A m \in 1 .. i - 1 : a[m] = b[m]
        /\ \A m \in 1 .. j - 1 : b[m] = c[m]
    BY <1>1, <1>2 DEF Splits
  <2>2. j <= Len(a) /\ j <= Len(b) /\ j \in 1 .. i - 1 /\ \A m \in 1 .. j - 1 : m \in 1 .. i - 1
    BY <1>4, <2>1, SMT
  <2>3. (\A m \in 1 .. j - 1 : a[m] = c[m]) /\ a[j] < c[j]
    BY <2>1, <2>2, SMT
  <2>4. j <= Len(a) + 1
    BY <2>2, SMT
  <2>5. Splits(a, c, j)
    BY <2>1, <2>3, <2>4 DEF Splits
  <2>6. QED
    BY <2>5, LessIs
<1>5. QED
  BY <1>3, <1>4, SMT

LEMMA SmallestOf ==
  ASSUME NEW T \in SUBSET Nat, T # {}
  PROVE  \E m \in T : \A k \in T : m <= k
<1> DEFINE R == WF!OpToRel(<, Nat)
<1>1. WF!IsWellFoundedOn(R, Nat)
  BY WF!NatLessThanWellFounded
<1>2. \A x, y \in Nat : x < y => <<x, y>> \in R
  BY SMT DEF WF!OpToRel
<1> HIDE DEF R
<1>3. PICK x \in T : \A y \in T : ~(<<y, x>> \in R)
  BY <1>1, WF!WFMin
<1>4. \A y \in T : ~(y < x)
  BY <1>2, <1>3
<1>5. \A y \in T : x <= y
  BY <1>4, SMT
<1>6. QED
  BY <1>5, SMT

LEMMA LessTotal ==
  ASSUME NEW a \in Seq(Nat), NEW b \in Seq(Nat), a # b
  PROVE  Less(a, b) \/ Less(b, a)
<1> DEFINE T == {i \in Nat \ {0} : i > Len(a) \/ i > Len(b) \/ a[i] # b[i]}
<1>1. Len(a) + 1 \in T
  BY SMT
<1>2. PICK i \in T : \A j \in T : i <= j
  <2>1. T \in SUBSET Nat /\ T # {}
    BY <1>1, SMT
  <2> HIDE DEF T
  <2>2. QED
    BY <2>1, SmallestOf
<1>3. \A j \in 1 .. i - 1 : j <= Len(a) /\ j <= Len(b) /\ a[j] = b[j]
  BY <1>2, SMT
<1>4. i \in Nat \ {0} /\ (i > Len(a) \/ i > Len(b) \/ a[i] # b[i])
  BY <1>2, SMT
<1> HIDE DEF T
<1>5. i <= Len(a) + 1 /\ i <= Len(b) + 1
  BY <1>3, <1>4, SMT
<1>6. CASE i > Len(a) /\ i > Len(b)
  <2>1. Len(a) = Len(b)
    BY <1>4, <1>5, <1>6, SMT
  <2>2. \A j \in 1 .. Len(a) : a[j] = b[j]
    BY <1>3, <1>4, <1>5, <1>6, SMT
  <2>3. a = b
    BY <2>1, <2>2, SMT
  <2>4. QED
    BY <2>3, SMT
<1>7. CASE i <= Len(a) \/ i <= Len(b)
  <2>1. Splits(a, b, i) \/ Splits(b, a, i)
    <3>1. CASE i <= Len(a) /\ i <= Len(b)
      <4>1. a[i] \in Nat /\ b[i] \in Nat /\ a[i] # b[i]
        BY <1>4, <3>1, SMT
      <4>2. QED
        BY <1>3, <1>4, <1>5, <3>1, <4>1, SMTT(20) DEF Splits
    <3>2. CASE i <= Len(a) /\ i > Len(b)
      BY <1>3, <1>4, <1>5, <3>2, SMT DEF Splits
    <3>3. CASE i <= Len(b) /\ i > Len(a)
      BY <1>3, <1>4, <1>5, <3>3, SMT DEF Splits
    <3>4. QED
      BY <1>4, <1>7, <3>1, <3>2, <3>3, SMT
  <2>2. QED
    BY <1>4, <2>1, LessIs
<1>8. QED
  BY <1>4, <1>6, <1>7, SMT

(* The keys with a prefix follow it without a gap.                          *)
LEMMA PrefixOrder ==
  ASSUME NEW p \in Seq(Nat), NEW j \in Seq(Nat), NEW k \in Seq(Nat),
         LessEq(p, j), Less(j, k), StartsWith(k, p)
  PROVE  StartsWith(j, p)
<1>1. Len(p) <= Len(k) /\ \A i \in 1 .. Len(p) : k[i] = p[i]
  <2>1. Len(p) <= Len(k) /\ SubSeq(k, 1, Len(p)) = SubSeq(p, 1, Len(p)) /\ Len(p) \in Nat
    <3>1. SubSeq(p, 1, Len(p)) = p
      BY SMT
    <3>2. QED
      BY <3>1, SMT DEF StartsWith
  <2>2. QED
    BY <2>1, SamePart, SMT
<1>2. CASE p = j
  BY <1>2, SMT DEF StartsWith
<1>3. CASE Less(p, j)
  <2>1. PICK i \in Nat : Splits(p, j, i)
    BY <1>3, LessIs
  <2>2. CASE i = Len(p) + 1
    <3>1. Len(p) <= Len(j) /\ \A m \in 1 .. Len(p) : j[m] = p[m]
      BY <2>1, <2>2, SMT DEF Splits
    <3>2. SubSeq(j, 1, Len(p)) = SubSeq(p, 1, Len(p))
      BY <3>1, SamePart, SMT
    <3>3. QED
      BY <3>1, <3>2, SMT DEF StartsWith
  <2>3. CASE i <= Len(p)
    <3>1. Splits(k, j, i)
      BY <1>1, <2>1, <2>3, SMTT(20) DEF Splits
    <3>2. Less(k, j)
      BY <3>1, LessIs
    <3>3. QED
      BY <3>2, LessTransitive, LessOnce
  <2>4. QED
    <3>1. i <= Len(p) + 1
      BY <2>1 DEF Splits
    <3>2. i = Len(p) + 1 \/ i <= Len(p)
      BY <3>1, SMT
    <3>3. QED
      BY <2>2, <2>3, <3>2, SMT
<1>4. QED
  BY <1>2, <1>3 DEF LessEq

-----------------------------------------------------------------------------
(* The positions of an iterator that goes up or down.                      *)

Before(j, k, reverse) == IF reverse THEN Less(k, j) ELSE Less(j, k)

(* The keys a snapshot may consist of.                                     *)
Snapshots == {s \in SUBSET Seq(Nat) : IsFiniteSet(s) /\ null \notin s}

LEMMA SnapshotPart ==
  ASSUME NEW s \in Snapshots, NEW q \in SUBSET s
  PROVE  q \in Snapshots
<1>1. IsFiniteSet(s) /\ s \subseteq Seq(Nat) /\ null \notin s
  BY SMT DEF Snapshots
<1>2. IsFiniteSet(q)
  BY <1>1, FS_Subset
<1>3. QED
  BY <1>1, <1>2, SMT DEF Snapshots

LEMMA SnapshotFacts ==
  ASSUME NEW s \in Snapshots
  PROVE  IsFiniteSet(s) /\ s \subseteq Seq(Nat) /\ null \notin s
  BY SMT DEF Snapshots

LEMMA BeforeOrder ==
  ASSUME NEW r \in BOOLEAN, NEW a \in Seq(Nat), NEW b \in Seq(Nat)
  PROVE  /\ ~Before(a, a, r)
         /\ a = b \/ Before(a, b, r) \/ Before(b, a, r)
         /\ Before(a, b, r) => a # b /\ ~Before(b, a, r)
         /\ \A c \in Seq(Nat) : Before(a, b, r) /\ Before(b, c, r) => Before(a, c, r)
<1>1. ~Less(a, a) /\ ~Less(b, b)
  BY LessOnce
<1>2. a = b \/ Less(a, b) \/ Less(b, a)
  BY LessTotal
<1>3. ~(Less(a, b) /\ Less(b, a))
  BY <1>1, LessTransitive
<1>4. \A c \in Seq(Nat) : /\ Less(a, b) /\ Less(b, c) => Less(a, c)
                          /\ Less(c, b) /\ Less(b, a) => Less(c, a)
  BY LessTransitive
<1>5. CASE r
  BY <1>1, <1>2, <1>3, <1>4, <1>5 DEF Before
<1>6. CASE ~r
  BY <1>1, <1>2, <1>3, <1>4, <1>6 DEF Before
<1>7. QED
  BY <1>5, <1>6, SMT

(* The number of keys of s before k.                                        *)
LEMMA PositionIs ==
  ASSUME NEW s \in Snapshots, NEW r \in BOOLEAN, NEW k
  PROVE  /\ Position(k, s, r) = Cardinality({j \in s : Before(j, k, r)})
         /\ Position(k, s, r) \in Nat
<1>1. Position(k, s, r) = Cardinality({j \in s : Before(j, k, r)})
  BY DEF Position, Before
<1>2. {j \in s : Before(j, k, r)} \in SUBSET s
  BY SMT
<1>3. IsFiniteSet({j \in s : Before(j, k, r)})
  BY <1>2, SnapshotFacts, FS_Subset
<1>4. QED
  BY <1>1, <1>3, FS_CardinalityType

LEMMA FewerKeys ==
  ASSUME NEW s \in Snapshots, NEW q \in SUBSET s, NEW k \in s, k \notin q
  PROVE  Cardinality(q) \in Nat /\ Cardinality(s) \in Nat /\ Cardinality(q) < Cardinality(s)
<1>1. IsFiniteSet(s)
  BY SnapshotFacts
<1>2. q # s
  BY SMT
<1>3. /\ IsFiniteSet(q) /\ Cardinality(q) <= Cardinality(s)
      /\ Cardinality(s) = Cardinality(q) => s = q
  BY <1>1, FS_Subset
<1>4. Cardinality(q) \in Nat /\ Cardinality(s) \in Nat
  BY <1>1, <1>3, FS_CardinalityType
<1>5. QED
  BY <1>2, <1>3, <1>4, SMT

LEMMA Foremost ==
  ASSUME NEW s \in Snapshots, s # {}, NEW r \in BOOLEAN
  PROVE  \E k \in s : \A j \in s : k = j \/ Before(k, j, r)
<1> DEFINE T == {Position(k, s, r) : k \in s}
<1>1. T \in SUBSET Nat /\ T # {}
  BY PositionIs
<1>2. PICK m \in T : \A n \in T : m <= n
  <2> HIDE DEF T
  <2>1. QED
    BY <1>1, SmallestOf
<1>3. PICK k \in s : m = Position(k, s, r)
  BY <1>2, SMT
<1>4. \A j \in s : Position(k, s, r) <= Position(j, s, r)
  BY <1>2, <1>3, SMT
<1> HIDE DEF T
<1>5. s \subseteq Seq(Nat)
  BY SnapshotFacts
<1>6. ASSUME NEW j \in s, Before(j, k, r) PROVE FALSE
  <2> DEFINE lo == {i \in s : Before(i, j, r)}
             hi == {i \in s : Before(i, k, r)}
  <2>1. j \in hi /\ j \notin lo
    BY <1>5, <1>6, BeforeOrder
  <2>2. lo \in SUBSET hi
    BY <1>5, <1>6, BeforeOrder, SMT
  <2>3. hi \in Snapshots
    <3>1. hi \in SUBSET s
      BY SMT
    <3>2. QED
      BY <3>1, SnapshotPart
  <2>4. Position(j, s, r) = Cardinality(lo) /\ Position(k, s, r) = Cardinality(hi)
    BY PositionIs
  <2> HIDE DEF lo, hi
  <2>5. Cardinality(lo) \in Nat /\ Cardinality(hi) \in Nat /\ Cardinality(lo) < Cardinality(hi)
    BY <2>1, <2>2, <2>3, FewerKeys
  <2>6. QED
    BY <1>4, <1>6, <2>4, <2>5, SMT
<1>7. QED
  BY <1>3, <1>5, <1>6, BeforeOrder

(* k is the key of s an iterator in this direction meets first, null when   *)
(* there is none.                                                          *)
Leads(k, s, r) ==
  \/ k = null /\ s = {}
  \/ k \in s /\ \A j \in s : k = j \/ Before(k, j, r)

LEMMA FirstKeyLeads == ASSUME NEW s \in Snapshots PROVE Leads(FirstKey(s), s, FALSE)
<1>1. CASE s = {}
  BY <1>1 DEF FirstKey, Leads
<1>2. CASE s # {}
  <2>1. \E k \in s : \A j \in s : LessEq(k, j)
    BY <1>2, Foremost DEF LessEq, Before
  <2>2. FirstKey(s) = CHOOSE k \in s : \A j \in s : LessEq(k, j)
    BY <1>2 DEF FirstKey
  <2>3. FirstKey(s) \in s /\ \A j \in s : LessEq(FirstKey(s), j)
    BY <2>1, <2>2
  <2>4. QED
    BY <2>3 DEF Leads, LessEq, Before
<1>3. QED
  BY <1>1, <1>2

LEMMA LastKeyLeads == ASSUME NEW s \in Snapshots PROVE Leads(LastKey(s), s, TRUE)
<1>1. CASE s = {}
  BY <1>1 DEF LastKey, Leads
<1>2. CASE s # {}
  <2>1. \E k \in s : \A j \in s : LessEq(j, k)
    <3>1. PICK k \in s : \A j \in s : k = j \/ Before(k, j, TRUE)
      BY <1>2, Foremost
    <3>2. \A j \in s : LessEq(j, k)
      BY <3>1 DEF LessEq, Before
    <3>3. QED
      BY <3>2, SMT
  <2>2. LastKey(s) = CHOOSE k \in s : \A j \in s : LessEq(j, k)
    BY <1>2 DEF LastKey
  <2>3. LastKey(s) \in s /\ \A j \in s : LessEq(j, LastKey(s))
    BY <2>1, <2>2
  <2>4. \A j \in s : LastKey(s) = j \/ Before(LastKey(s), j, TRUE)
    BY <2>3 DEF LessEq, Before
  <2>5. QED
    BY <2>3, <2>4 DEF Leads
<1>3. QED
  BY <1>1, <1>2

(* Next and Prev of the native iterator.                                   *)
Advance(s, k, r) == IF r THEN PrevKey(s, k) ELSE NextKey(s, k)

LEMMA AdvanceLeads ==
  ASSUME NEW s \in Snapshots, NEW r \in BOOLEAN, NEW k
  PROVE  Leads(Advance(s, k, r), {j \in s : Before(k, j, r)}, r)
<1>1. {j \in s : Less(k, j)} \in Snapshots /\ {j \in s : Less(j, k)} \in Snapshots
  <2>1. {j \in s : Less(k, j)} \in SUBSET s /\ {j \in s : Less(j, k)} \in SUBSET s
    BY SMT
  <2>2. QED
    BY <2>1, SnapshotPart
<1>2. Leads(NextKey(s, k), {j \in s : Less(k, j)}, FALSE)
  BY <1>1, FirstKeyLeads DEF NextKey
<1>3. Leads(PrevKey(s, k), {j \in s : Less(j, k)}, TRUE)
  BY <1>1, LastKeyLeads DEF PrevKey
<1>4. CASE r
  <2>1. {j \in s : Before(k, j, r)} = {j \in s : Less(j, k)} /\ r = TRUE
    BY <1>4, SMT DEF Before
  <2>2. QED
    BY <1>3, <1>4, <2>1 DEF Advance
<1>5. CASE ~r
  <2>1. {j \in s : Before(k, j, r)} = {j \in s : Less(k, j)} /\ r = FALSE
    BY <1>5, SMT DEF Before
  <2>2. QED
    BY <1>2, <1>5, <2>1 DEF Advance
<1>6. QED
  BY <1>4, <1>5, SMT
-----------------------------------------------------------------------------
(* What a list of the first keys of a set is.                              *)

RangeOf(seq) == {seq[i] : i \in DOMAIN seq}

Sorted(seq, r) == \A i, j \in DOMAIN seq : i < j => Before(seq[i], seq[j], r)

(* d are the keys of m before all others.                                  *)
Initial(d, m, r) ==
  /\ d \subseteq m
  /\ \A k \in d, j \in m : Before(j, k, r) => j \in d

LEMMA InitialIs ==
  ASSUME NEW m \in Snapshots, NEW r \in BOOLEAN, NEW d, Initial(d, m, r), NEW k \in m
  PROVE  /\ Cardinality(d) \in Nat
         /\ k \in d <=> Position(k, m, r) < Cardinality(d)
<1>1. d \in SUBSET m /\ \A i \in d, j \in m : Before(j, i, r) => j \in d
  BY DEF Initial
<1>2. d \in Snapshots /\ m \subseteq Seq(Nat)
  BY <1>1, SnapshotPart, SnapshotFacts
<1>3. Cardinality(d) \in Nat
  BY <1>2, SnapshotFacts, FS_CardinalityType
<1> DEFINE lo == {j \in m : Before(j, k, r)}
<1>4. Position(k, m, r) = Cardinality(lo) /\ Cardinality(lo) \in Nat
  BY PositionIs
<1>5. lo \in Snapshots
  <2>1. lo \in SUBSET m
    BY SMT
  <2>2. QED
    BY <2>1, SnapshotPart
<1>6. ASSUME k \in d PROVE Cardinality(lo) < Cardinality(d)
  <2>1. lo \in SUBSET d
    BY <1>1, <1>6, SMT
  <2>2. k \notin lo
    BY <1>2, BeforeOrder
  <2> HIDE DEF lo
  <2>3. QED
    BY <1>2, <1>6, <2>1, <2>2, FewerKeys
<1>7. ASSUME k \notin d PROVE Cardinality(d) <= Cardinality(lo)
  <2>1. ASSUME NEW j \in d PROVE Before(j, k, r)
    <3>1. j \in Seq(Nat) /\ k \in Seq(Nat) /\ j # k
      BY <1>1, <1>2, <1>7, SMT
    <3>2. ~Before(k, j, r)
      BY <1>1, <1>7
    <3>3. QED
      BY <3>1, <3>2, BeforeOrder
  <2>2. d \in SUBSET lo
    BY <1>1, <2>1, SMT
  <2> HIDE DEF lo
  <2>3. QED
    BY <1>5, <2>2, SnapshotFacts, FS_Subset
<1> HIDE DEF lo
<1>8. QED
  BY <1>3, <1>4, <1>6, <1>7, SMT

(* One more key, the next one.                                             *)
LEMMA OneMoreKey ==
  ASSUME NEW m \in Snapshots, NEW r \in BOOLEAN, NEW c \in m,
         NEW d, d = {k \in m : Before(k, c, r)}
  PROVE  /\ Initial(d, m, r) /\ c \notin d
         /\ Initial(d \cup {c}, m, r)
         /\ Cardinality(d) \in Nat
         /\ Cardinality(d \cup {c}) = Cardinality(d) + 1
         /\ Position(c, m, r) = Cardinality(d)
<1>1. m \subseteq Seq(Nat)
  BY SnapshotFacts
<1>2. c \notin d
  BY <1>1, BeforeOrder
<1>3. Initial(d, m, r)
  BY <1>1, BeforeOrder, SMT DEF Initial
<1>4. Initial(d \cup {c}, m, r)
  BY <1>3, SMT DEF Initial
<1>5. d \in SUBSET m
  BY SMT
<1>6. IsFiniteSet(d)
  BY <1>5, SnapshotFacts, FS_Subset
<1>7. Cardinality(d) \in Nat /\ Cardinality(d \cup {c}) = Cardinality(d) + 1
  BY <1>2, <1>6, FS_CardinalityType, FS_AddElement
<1>8. Position(c, m, r) = Cardinality(d)
  BY PositionIs
<1>9. QED
  BY <1>2, <1>3, <1>4, <1>7, <1>8

LEMMA RangeGrows ==
  ASSUME NEW seq \in Seq(Seq(Nat)), NEW c \in Seq(Nat), NEW r \in BOOLEAN,
         Sorted(seq, r), \A k \in RangeOf(seq) : Before(k, c, r)
  PROVE  /\ Append(seq, c) \in Seq(Seq(Nat))
         /\ RangeOf(Append(seq, c)) = RangeOf(seq) \cup {c}
         /\ Sorted(Append(seq, c), r)
<1> DEFINE t == Append(seq, c)
           n == Len(seq)
<1>1. /\ t \in Seq(Seq(Nat)) /\ n \in Nat /\ DOMAIN seq = 1 .. n /\ DOMAIN t = 1 .. n + 1
      /\ t[n + 1] = c /\ \A i \in 1 .. n : t[i] = seq[i]
  BY SMT
<1> HIDE DEF t, n
<1>2. 1 .. n + 1 = (1 .. n) \cup {n + 1}
  BY <1>1, SMT
<1>3. RangeOf(t) = RangeOf(seq) \cup {c}
  BY <1>1, <1>2, SMTT(20) DEF RangeOf
<1>4. ASSUME NEW i \in DOMAIN t, NEW j \in DOMAIN t, i < j
      PROVE  Before(t[i], t[j], r)
  <2>1. i \in 1 .. n /\ (j \in 1 .. n \/ j = n + 1)
    BY <1>1, <1>4, SMT
  <2>2. t[i] = seq[i] /\ seq[i] \in RangeOf(seq)
    BY <1>1, <2>1 DEF RangeOf
  <2>3. CASE j = n + 1
    BY <1>1, <2>2, <2>3
  <2>4. CASE j \in 1 .. n
    BY <1>1, <1>4, <2>1, <2>2, <2>4 DEF Sorted
  <2>5. QED
    BY <2>1, <2>3, <2>4, SMT
<1>5. QED
  BY <1>1, <1>3, <1>4 DEF Sorted, t

LEMMA ListingIs ==
  ASSUME NEW seq, NEW m, NEW r \in BOOLEAN, NEW lo \in Nat, NEW hi \in Nat,
         Sorted(seq, r), RangeOf(seq) = {k \in m : Position(k, m, r) \in lo .. hi - 1}
  PROVE  IsListing(seq, m, r, lo, hi)
<1>1. \A i, j \in DOMAIN seq : i < j => IF r THEN Less(seq[j], seq[i]) ELSE Less(seq[i], seq[j])
  BY DEF Sorted, Before
<1>2. QED
  BY <1>1 DEF IsListing, RangeOf
-----------------------------------------------------------------------------
(* The KeyIterator.                                                        *)

Asked == Seq(Nat) \cup {null}
Stages == {"open", "next", "finished", "closed"}
Flags == BOOLEAN
Iterators ==
  [at : Stages, snap : Snapshots, from : Asked, end : Asked,
   reverse : BOOLEAN, cursor : Asked, isNextValid : BOOLEAN, left : Int,
   delivered : Seq(Seq(Nat))]

Reached(k, from, r) ==
  from # null => IF r THEN LessEq(k, from) ELSE LessEq(from, k)

(* The matching keys the iterator has moved over.                          *)
Passed(i) == {k \in Matching(i) : i.cursor = null \/ Before(k, i.cursor, i.reverse)}

(* The keys delivered are the matching ones before the cursor, in order.   *)
IterShape(i) ==
  /\ i \in Iterators
  /\ i.cursor # null => i.cursor \in i.snap /\ Reached(i.cursor, i.from, i.reverse)
  /\ RangeOf(i.delivered) = Passed(i)
  /\ Cardinality(Passed(i)) = Len(i.delivered)
  /\ Sorted(i.delivered, i.reverse)

IterInv ==
  keyIter.at # "none" =>
    /\ IterShape(keyIter)
    /\ keyIter.at = "open" =>
         /\ keyIter.isNextValid = IsValid(keyIter)
         /\ keyIter.delivered # <<>> => IsValid(keyIter)
    /\ keyIter.at = "finished" => ~IsValid(keyIter)

LEMMA ShapeFacts ==
  ASSUME NEW i, IterShape(i)
  PROVE  /\ i \in Iterators /\ i.at \in Stages
         /\ i.snap \in Snapshots /\ i.snap \subseteq Seq(Nat) /\ null \notin i.snap
         /\ i.from \in Asked /\ i.end \in Asked /\ i.cursor \in Asked
         /\ i.reverse \in BOOLEAN /\ i.left \in Int /\ i.delivered \in Seq(Seq(Nat))
         /\ Matching(i) \in Snapshots
         /\ \A k : k \in Matching(i) <=> /\ k \in i.snap /\ Reached(k, i.from, i.reverse)
                                         /\ InRange(k, i.end, i.reverse)
<1>1. i \in Iterators
  BY DEF IterShape
<1>2. /\ i.at \in Stages /\ i.snap \in Snapshots
      /\ i.from \in Asked /\ i.end \in Asked /\ i.cursor \in Asked
      /\ i.reverse \in BOOLEAN /\ i.left \in Int /\ i.delivered \in Seq(Seq(Nat))
  BY <1>1, SMT DEF Iterators
<1>3. i.snap \subseteq Seq(Nat) /\ null \notin i.snap
  BY <1>2, SnapshotFacts
<1>4. \A k : k \in Matching(i) <=> /\ k \in i.snap /\ Reached(k, i.from, i.reverse)
                                   /\ InRange(k, i.end, i.reverse)
  BY DEF Matching, Reached
<1>5. Matching(i) \in SUBSET i.snap
  BY <1>4
<1>6. Matching(i) \in Snapshots
  BY <1>2, <1>5, SnapshotPart
<1>7. QED
  BY <1>1, <1>2, <1>3, <1>4, <1>6

(* The end of the range is met once, and the start is not met again.        *)
LEMMA RangeOrder ==
  ASSUME NEW r \in BOOLEAN, NEW c \in Seq(Nat), NEW k \in Seq(Nat), Before(c, k, r)
  PROVE  /\ \A end \in Asked : InRange(k, end, r) => InRange(c, end, r)
         /\ \A from \in Asked : Reached(c, from, r) => Reached(k, from, r)
<1>1. \A a, b, d \in Seq(Nat) : LessEq(a, b) /\ Less(b, d) => LessEq(a, d)
  BY LessTransitive DEF LessEq
<1>2. \A a, b, d \in Seq(Nat) : Less(a, b) /\ LessEq(b, d) => LessEq(a, d)
  BY LessTransitive DEF LessEq
<1>3. \A e \in Asked : e # null => e \in Seq(Nat)
  BY DEF Asked
<1>4. CASE r
  <2>1. Less(k, c)
    BY <1>4 DEF Before
  <2>2. ASSUME NEW end \in Asked, InRange(k, end, r) PROVE InRange(c, end, r)
    BY <1>1, <1>3, <1>4, <2>1, <2>2 DEF InRange
  <2>3. ASSUME NEW from \in Asked, Reached(c, from, r) PROVE Reached(k, from, r)
    BY <1>2, <1>3, <1>4, <2>1, <2>3 DEF Reached
  <2>4. QED
    BY <2>2, <2>3, SMT
<1>5. CASE ~r
  <2>1. Less(c, k)
    BY <1>5 DEF Before
  <2>2. ASSUME NEW end \in Asked, InRange(k, end, r) PROVE InRange(c, end, r)
    BY <1>2, <1>3, <1>5, <2>1, <2>2 DEF InRange
  <2>3. ASSUME NEW from \in Asked, Reached(c, from, r) PROVE Reached(k, from, r)
    BY <1>1, <1>3, <1>5, <2>1, <2>3 DEF Reached
  <2>4. QED
    BY <2>2, <2>3, SMT
<1>6. QED
  BY <1>4, <1>5, SMT

LEMMA PassedIs ==
  ASSUME NEW i, IterShape(i)
  PROVE  /\ Initial(Passed(i), Matching(i), i.reverse)
         /\ i.cursor # null => i.cursor \notin Passed(i)
         /\ IsValid(i) => /\ i.cursor \in Matching(i)
                          /\ Passed(i) = {k \in Matching(i) : Before(k, i.cursor, i.reverse)}
         /\ ~IsValid(i) => Passed(i) = Matching(i)
<1> DEFINE m == Matching(i)
           c == i.cursor
           r == i.reverse
<1>1. /\ i.snap \subseteq Seq(Nat) /\ r \in BOOLEAN /\ i.end \in Asked
      /\ \A k : k \in m <=> k \in i.snap /\ Reached(k, i.from, r) /\ InRange(k, i.end, r)
  BY ShapeFacts
<1>2. c # null => c \in i.snap /\ c \in Seq(Nat) /\ Reached(c, i.from, r)
  BY <1>1 DEF IterShape
<1>3. m \subseteq Seq(Nat)
  BY <1>1
<1>4. \A k : k \in Passed(i) <=> k \in m /\ (c = null \/ Before(k, c, r))
  BY DEF Passed
<1>5. IsValid(i) <=> c # null /\ InRange(c, i.end, r)
  BY DEF IsValid
<1> HIDE DEF m, c, r
<1>6. Initial(Passed(i), m, r)
  <2>1. ASSUME NEW k \in Passed(i), NEW j \in m, Before(j, k, r)
        PROVE  j \in Passed(i)
    <3>1. CASE c = null
      BY <1>4, <3>1
    <3>2. CASE c # null
      <4>1. k \in Seq(Nat) /\ j \in Seq(Nat) /\ c \in Seq(Nat) /\ Before(k, c, r)
        BY <1>2, <1>3, <1>4, <2>1, <3>2
      <4>2. Before(j, c, r)
        BY <1>1, <2>1, <4>1, BeforeOrder
      <4>3. QED
        BY <1>4, <4>2
    <3>3. QED
      BY <3>1, <3>2, SMT
  <2>2. QED
    BY <1>4, <2>1 DEF Initial
<1>7. c # null => c \notin Passed(i)
  BY <1>1, <1>2, <1>4, BeforeOrder
<1>8. ASSUME IsValid(i) PROVE c \in m /\ Passed(i) = {k \in m : Before(k, c, r)}
  BY <1>1, <1>2, <1>4, <1>5, <1>8, SMT
<1>9. ASSUME ~IsValid(i) PROVE Passed(i) = m
  <2>1. ASSUME NEW k \in m PROVE c = null \/ Before(k, c, r)
    <3>1. SUFFICES ASSUME c # null PROVE Before(k, c, r)
      BY SMT
    <3>2. ~InRange(c, i.end, r) /\ InRange(k, i.end, r) /\ k \in Seq(Nat) /\ c \in Seq(Nat)
      BY <1>1, <1>2, <1>3, <1>5, <1>9, <3>1
    <3>3. k # c
      BY <3>2, SMT
    <3>4. ~Before(c, k, r)
      BY <1>1, <3>2, RangeOrder
    <3>5. QED
      BY <1>1, <3>2, <3>3, <3>4, BeforeOrder
  <2>2. QED
    BY <1>4, <2>1, SMT
<1>10. QED
  BY <1>6, <1>7, <1>8, <1>9 DEF m, c, r

(* __findKeysIterator stands at the first key of the range in its          *)
(* direction.                                                              *)
LEMMA StartLeads ==
  ASSUME NEW s \in Snapshots, NEW from \in Asked, NEW r \in BOOLEAN
  PROVE  Leads(Start(s, from, r), {k \in s : Reached(k, from, r)}, r)
<1> DEFINE m == {k \in s : Reached(k, from, r)}
           u == {k \in s : LessEq(from, k)}
           q == Seek(s, from)
<1>1. s \subseteq Seq(Nat) /\ null \notin s
  BY SnapshotFacts
<1>2. Leads(FirstKey(s), s, FALSE) /\ Leads(LastKey(s), s, TRUE)
  BY FirstKeyLeads, LastKeyLeads
<1>3. Leads(q, u, FALSE)
  <2>1. u \in SUBSET s
    BY SMT
  <2>2. u \in Snapshots
    BY <2>1, SnapshotPart
  <2>3. QED
    BY <2>2, FirstKeyLeads DEF Seek
<1>4. CASE from = null
  <2>1. m = s
    BY <1>4, SMT DEF Reached
  <2>2. Start(s, from, r) = IF r THEN LastKey(s) ELSE FirstKey(s)
    BY <1>4, SMT DEF Start
  <2>3. QED
    BY <1>2, <2>1, <2>2
<1>5. CASE from # null /\ ~r
  <2>1. m = u /\ r = FALSE
    BY <1>5, SMT DEF Reached
  <2>2. Start(s, from, r) = q
    BY <1>5 DEF Start
  <2>3. QED
    BY <1>3, <2>1, <2>2
<1>6. CASE from # null /\ r
  <2>1. from \in Seq(Nat) /\ r = TRUE
    BY <1>6, SMT DEF Asked
  <2>2. m = {k \in s : LessEq(k, from)}
    BY <1>6, SMT DEF Reached
  <2>3. \A k \in u : k \in s /\ LessEq(from, k)
    BY SMT
  <2>4. \A k \in s : LessEq(from, k) => k \in u
    BY SMT
  <2>5. \A k \in s : ~LessEq(from, k) => LessEq(k, from)
    BY <1>1, <2>1, LessTotal DEF LessEq
  <2>6. CASE q = null
    <3>1. u = {}
      BY <1>1, <1>3, <2>3, <2>6 DEF Leads
    <3>2. m = s
      BY <2>2, <2>4, <2>5, <3>1, SMT
    <3>3. Start(s, from, r) = LastKey(s)
      BY <1>6, <2>6 DEF Start
    <3>4. QED
      BY <1>2, <2>1, <3>2, <3>3
  <2>7. CASE q # null
    <3>1. q \in u /\ \A j \in u : q = j \/ Less(q, j)
      BY <1>3, <2>7 DEF Leads, Before
    <3>2. q \in s /\ q \in Seq(Nat) /\ LessEq(from, q)
      BY <1>1, <2>3, <3>1
    <3>3. CASE Less(from, q)
      <4>1. Start(s, from, r) = PrevKey(s, q)
        BY <1>6, <2>7, <3>3 DEF Start
      <4>2. ASSUME NEW j \in s, Less(j, q) PROVE LessEq(j, from)
        <5>1. j \in Seq(Nat) /\ ~(q = j) /\ ~Less(q, j)
          BY <1>1, <3>2, <4>2, LessOnce, LessTransitive
        <5>2. ~LessEq(from, j)
          BY <2>4, <3>1, <5>1
        <5>3. QED
          BY <2>5, <5>2
      <4>3. ASSUME NEW j \in s, LessEq(j, from) PROVE Less(j, q)
        BY <1>1, <2>1, <3>2, <3>3, <4>3, LessTransitive DEF LessEq
      <4>4. {j \in s : Before(q, j, TRUE)} = m
        <5>1. \A j : Before(q, j, TRUE) <=> Less(j, q)
          BY DEF Before
        <5>2. QED
          BY <2>2, <4>2, <4>3, <5>1
      <4>5. Leads(Advance(s, q, TRUE), {j \in s : Before(q, j, TRUE)}, TRUE)
        BY AdvanceLeads
      <4>6. Advance(s, q, TRUE) = PrevKey(s, q)
        BY DEF Advance
      <4>7. QED
        BY <2>1, <4>1, <4>4, <4>5, <4>6
    <3>4. CASE ~Less(from, q)
      <4>1. q = from
        BY <3>2, <3>4 DEF LessEq
      <4>2. Start(s, from, r) = q
        BY <1>6, <2>7, <3>4 DEF Start
      <4>3. q \in m /\ \A j \in m : q = j \/ Before(q, j, TRUE)
        BY <2>2, <3>2, <4>1, SMT DEF LessEq, Before
      <4>4. QED
        BY <2>1, <4>2, <4>3 DEF Leads
    <3>5. QED
      BY <3>3, <3>4, SMT
  <2>8. QED
    BY <2>6, <2>7, SMT
<1>7. QED
  BY <1>4, <1>5, <1>6, SMT

(* A new iterator has delivered nothing.                                   *)
LEMMA IteratorStarts ==
  ASSUME NEW i \in Iterators, i.cursor = Start(i.snap, i.from, i.reverse), i.delivered = <<>>
  PROVE  IterShape(i)
<1> DEFINE m == {k \in i.snap : Reached(k, i.from, i.reverse)}
           c == i.cursor
<1>1. i.snap \in Snapshots /\ i.from \in Asked /\ i.reverse \in BOOLEAN
  BY SMT DEF Iterators
<1>2. i.snap \subseteq Seq(Nat) /\ null \notin i.snap
  BY <1>1, SnapshotFacts
<1>3. Leads(c, m, i.reverse)
  BY <1>1, StartLeads
<1>4. c # null => c \in i.snap /\ Reached(c, i.from, i.reverse)
  BY <1>3, SMT DEF Leads
<1>5. \A k \in Matching(i) : k \in m
  BY DEF Matching, Reached
<1>6. ASSUME NEW k \in Passed(i) PROVE FALSE
  <2>1. k \in m /\ (c = null \/ Before(k, c, i.reverse))
    BY <1>5, <1>6 DEF Passed
  <2>2. k \in i.snap /\ k \in Seq(Nat)
    BY <1>2, <2>1, SMT
  <2>3. c \in m /\ (c = k \/ Before(c, k, i.reverse)) /\ c # null
    <3>1. m # {} /\ \A j \in m : j # null
      BY <1>2, <2>1, SMT
    <3>2. QED
      BY <1>3, <2>1, <3>1 DEF Leads
  <2>4. c \in Seq(Nat) /\ Before(k, c, i.reverse)
    BY <1>2, <2>1, <2>3, SMT
  <2>5. QED
    BY <1>1, <2>2, <2>3, <2>4, BeforeOrder
<1>7. Passed(i) = {}
  BY <1>6
<1>8. RangeOf(<<>>) = {} /\ Sorted(<<>>, i.reverse) /\ Len(<<>>) = 0
  BY SMT DEF RangeOf, Sorted
<1>9. Cardinality({}) = 0
  BY FS_EmptySet
<1>10. QED
  BY <1>4, <1>7, <1>8, <1>9 DEF IterShape

(* Only the snapshot, the range, the cursor and the keys delivered matter.  *)
LEMMA SameShape ==
  ASSUME NEW i, IterShape(i), NEW t \in Iterators,
         t.snap = i.snap, t.from = i.from, t.end = i.end, t.reverse = i.reverse,
         t.cursor = i.cursor, t.delivered = i.delivered
  PROVE  IterShape(t) /\ (IsValid(t) <=> IsValid(i))
<1>1. Matching(t) = Matching(i)
  BY DEF Matching
<1>2. Passed(t) = Passed(i)
  BY <1>1 DEF Passed
<1>3. IsValid(t) <=> IsValid(i)
  BY DEF IsValid
<1>4. IterShape(t)
  BY <1>2 DEF IterShape
<1>5. QED
  BY <1>3, <1>4, SMT

(* The iterator moves over one key of m.                                   *)
LEMMA MovedOver ==
  ASSUME NEW s \in Snapshots, NEW r \in BOOLEAN, NEW m \in SUBSET s, NEW c \in m, NEW n,
         Leads(n, {j \in s : Before(c, j, r)}, r)
  PROVE  /\ {k \in m : n = null \/ Before(k, n, r)} = {k \in m : Before(k, c, r)} \cup {c}
         /\ n # null => n \in s /\ Before(c, n, r)
<1>1. s \subseteq Seq(Nat) /\ null \notin s /\ c \in Seq(Nat)
  BY SnapshotFacts, SMT
<1>2. n = null => \A j \in s : ~Before(c, j, r)
  BY <1>1, SMT DEF Leads
<1>3. n # null => /\ n \in s /\ Before(c, n, r)
                  /\ \A j \in s : Before(c, j, r) => n = j \/ Before(n, j, r)
  BY SMT DEF Leads
<1>4. ASSUME NEW k \in m PROVE (n = null \/ Before(k, n, r)) <=> k = c \/ Before(k, c, r)
  <2>1. k \in Seq(Nat) /\ k \in s
    BY <1>1, SMT
  <2>2. k = c \/ Before(k, c, r) \/ Before(c, k, r)
    BY <1>1, <2>1, BeforeOrder
  <2>3. CASE n = null
    BY <1>2, <2>1, <2>2, <2>3
  <2>4. CASE n # null
    <3>1. n \in Seq(Nat) /\ Before(c, n, r)
      BY <1>1, <1>3, <2>4, SMT
    <3>2. ASSUME k = c \/ Before(k, c, r) PROVE Before(k, n, r)
      BY <1>1, <2>1, <3>1, <3>2, BeforeOrder
    <3>3. ASSUME Before(k, n, r) PROVE k = c \/ Before(k, c, r)
      <4>1. n # k /\ ~Before(n, k, r)
        BY <2>1, <3>1, <3>3, BeforeOrder
      <4>2. QED
        BY <1>3, <2>1, <2>2, <2>4, <4>1
    <3>4. QED
      BY <2>4, <3>2, <3>3
  <2>5. QED
    BY <2>3, <2>4, SMT
<1>5. QED
  BY <1>3, <1>4, SMT

(* One turn of the loop of __iteratorNextArray.                            *)
LEMMA OneDelivered ==
  ASSUME NEW i, IterShape(i), IsValid(i), NEW t \in Iterators,
         t.snap = i.snap, t.from = i.from, t.end = i.end, t.reverse = i.reverse,
         t.cursor = Advance(i.snap, i.cursor, i.reverse),
         t.delivered = Append(i.delivered, i.cursor)
  PROVE  IterShape(t)
<1> DEFINE m == Matching(i)
           c == i.cursor
           n == t.cursor
           r == i.reverse
           d == Passed(i)
<1>1. /\ i.snap \in Snapshots /\ i.snap \subseteq Seq(Nat) /\ null \notin i.snap
      /\ r \in BOOLEAN /\ i.from \in Asked /\ m \in Snapshots
      /\ i.delivered \in Seq(Seq(Nat))
      /\ \A k : k \in m <=> k \in i.snap /\ Reached(k, i.from, r) /\ InRange(k, i.end, r)
  BY ShapeFacts
<1>2. c \in m /\ d = {k \in m : Before(k, c, r)}
  BY PassedIs
<1>3. RangeOf(i.delivered) = d /\ Cardinality(d) = Len(i.delivered) /\ Sorted(i.delivered, r)
  BY DEF IterShape
<1>4. m \subseteq Seq(Nat) /\ c \in Seq(Nat) /\ Reached(c, i.from, r)
  BY <1>1, <1>2
<1>5. Leads(n, {j \in i.snap : Before(c, j, r)}, r)
  <2>1. Leads(Advance(i.snap, i.cursor, i.reverse),
              {j \in i.snap : Before(i.cursor, j, i.reverse)}, i.reverse)
    BY <1>1, AdvanceLeads
  <2>2. QED
    BY <2>1, SMT
<1>6. Matching(t) = m
  BY DEF Matching
<1>7. Passed(t) = {k \in m : n = null \/ Before(k, n, r)}
  BY <1>6 DEF Passed
<1> HIDE DEF m, c, n, r, d
<1>8. m \in SUBSET i.snap
  BY <1>1
<1>9. /\ {k \in m : n = null \/ Before(k, n, r)} = {k \in m : Before(k, c, r)} \cup {c}
      /\ n # null => n \in i.snap /\ Before(c, n, r)
  BY <1>1, <1>2, <1>5, <1>8, MovedOver, SMTT(20)
<1>11. n # null => Reached(n, i.from, r)
  <2>1. n # null => n \in Seq(Nat)
    BY <1>1, <1>9
  <2>2. QED
    BY <1>1, <1>4, <1>9, <2>1, RangeOrder
<1>12. Passed(t) = d \cup {c}
  BY <1>2, <1>7, <1>9, SMT
<1>13. Cardinality(d \cup {c}) = Cardinality(d) + 1
  BY <1>1, <1>2, OneMoreKey, SMT
<1>14. /\ RangeOf(t.delivered) = d \cup {c} /\ Sorted(t.delivered, r)
  <2>1. \A k \in RangeOf(i.delivered) : Before(k, c, r)
    BY <1>2, <1>3, SMT
  <2>2. QED
    <3>1. /\ RangeOf(Append(i.delivered, c)) = RangeOf(i.delivered) \cup {c}
          /\ Sorted(Append(i.delivered, c), r)
      BY <1>1, <1>3, <1>4, <2>1, RangeGrows
    <3>2. QED
      BY <1>3, <3>1, SMT DEF c
<1>15. Len(t.delivered) = Len(i.delivered) + 1
  BY <1>1, SMT
<1>16. Cardinality(Passed(t)) = Len(t.delivered)
  BY <1>3, <1>12, <1>13, <1>15, SMT
<1>17. n # null => n \in t.snap /\ Reached(n, t.from, t.reverse)
  BY <1>9, <1>11 DEF r
<1>18. QED
  BY <1>12, <1>14, <1>16, <1>17 DEF IterShape, n, r

LEMMA IterExact == ASSUME NEW i, IterShape(i)
  PROVE  /\ IsListing(i.delivered, Matching(i), i.reverse, 0, Len(i.delivered))
         /\ i.cursor # null => i.cursor \notin {i.delivered[n] : n \in DOMAIN i.delivered}
         /\ IsValid(i) <=> Len(i.delivered) < Cardinality(Matching(i))
         /\ ~IsValid(i) => Len(i.delivered) = Cardinality(Matching(i))
<1> DEFINE m == Matching(i)
           d == Passed(i)
           r == i.reverse
           n == Len(i.delivered)
<1>1. r \in BOOLEAN /\ m \in Snapshots /\ n \in Nat
  <2>1. r \in BOOLEAN /\ m \in Snapshots /\ i.delivered \in Seq(Seq(Nat))
    BY ShapeFacts
  <2>2. QED
    BY <2>1, SMT
<1>2. /\ RangeOf(i.delivered) = d /\ Cardinality(d) = n /\ Sorted(i.delivered, r)
      /\ Initial(d, m, r) /\ (i.cursor # null => i.cursor \notin d)
      /\ IsValid(i) => i.cursor \in m
      /\ ~IsValid(i) => d = m
      /\ IsValid(i) => i.cursor # null
  BY PassedIs DEF IterShape, IsValid
<1> HIDE DEF m, d, r, n
<1>3. d \subseteq m
  BY <1>2 DEF Initial
<1>4. ASSUME NEW k \in m PROVE k \in d <=> Position(k, m, r) \in 0 .. n - 1
  <2>1. k \in d <=> Position(k, m, r) < n
    BY <1>1, <1>2, InitialIs, SMT
  <2>2. Position(k, m, r) \in Nat
    BY <1>1, PositionIs
  <2>3. QED
    BY <1>1, <2>1, <2>2, SMT
<1>5. RangeOf(i.delivered) = {k \in m : Position(k, m, r) \in 0 .. n - 1}
  BY <1>2, <1>3, <1>4, SMT
<1>6. IsListing(i.delivered, m, r, 0, n)
  BY <1>1, <1>2, <1>5, ListingIs, SMT
<1>7. i.cursor # null => i.cursor \notin {i.delivered[j] : j \in DOMAIN i.delivered}
  BY <1>2 DEF RangeOf
<1>8. ASSUME IsValid(i) PROVE n < Cardinality(m)
  <2>1. i.cursor \in m /\ i.cursor \notin d /\ d \in SUBSET m
    BY <1>2, <1>3, <1>8, SMT
  <2>2. Cardinality(d) < Cardinality(m)
    BY <1>1, <2>1, FewerKeys
  <2>3. QED
    BY <1>2, <2>2, SMT
<1>9. ASSUME ~IsValid(i) PROVE n = Cardinality(m) /\ ~(n < Cardinality(m))
  BY <1>1, <1>2, <1>9, SMT
<1>10. QED
  BY <1>6, <1>7, <1>8, <1>9 DEF m, r, n

(* The store and the arguments of the callers.                             *)
StoreInv == store \in SUBSET Keys

LEMMA StoreIsSnapshot == ASSUME StoreInv PROVE store \in Snapshots
<1>1. IsFiniteSet(Keys) /\ Keys \subseteq Seq(Nat) /\ null \notin Keys
  BY ScanAssumption, SMT
<1>2. IsFiniteSet(store)
  BY <1>1, FS_Subset DEF StoreInv
<1>3. QED
  BY <1>1, <1>2, SMT DEF StoreInv, Snapshots

LEMMA IteratorNew ==
  ASSUME NEW s \in Snapshots, NEW from \in Asked, NEW end \in Asked, NEW r \in BOOLEAN,
         NEW c \in Asked
  PROVE  [at |-> "open", snap |-> s, from |-> from, end |-> end, reverse |-> r, cursor |-> c,
          isNextValid |-> FALSE, left |-> 0, delivered |-> <<>>] \in Iterators
<1>1. "open" \in Stages
  BY SMT DEF Stages
<1>2. QED
  BY <1>1, SMT DEF Iterators

LEMMA IteratorMade ==
  ASSUME StoreInv, NEW from \in Targets \cup {null}, NEW end \in Targets \cup {null},
         NEW reverse \in BOOLEAN, NewKeyIterator(from, end, reverse)
  PROVE  IterInv'
<1> DEFINE i == [at |-> "open", snap |-> store, from |-> from, end |-> end,
                 reverse |-> reverse, cursor |-> Start(store, from, reverse),
                 isNextValid |-> FALSE, left |-> 0, delivered |-> <<>>]
           t == [i EXCEPT !.isNextValid = IsValid(i)]
<1>1. keyIter' = t
  BY DEF NewKeyIterator
<1>2. store \in Snapshots /\ store \subseteq Seq(Nat)
  BY StoreIsSnapshot, SnapshotFacts
<1>3. from \in Asked /\ end \in Asked
  BY ScanAssumption, SMT DEF Asked
<1>4. Start(store, from, reverse) \in Asked
  BY <1>2, <1>3, StartLeads, SMT DEF Leads, Asked
<1>5. IsValid(i) \in BOOLEAN
  BY DEF IsValid
<1> DEFINE v == IsValid(i)
<1> HIDE DEF v
<1>6. i \in Iterators /\ t \in Iterators
  <2>1. i \in Iterators
    BY <1>2, <1>3, <1>4, IteratorNew
  <2>2. QED
    BY <1>5, <2>1 DEF Iterators
<1>7. /\ i.snap = store /\ i.from = from /\ i.end = end /\ i.reverse = reverse
      /\ i.cursor = Start(store, from, reverse) /\ i.delivered = <<>> /\ i.at = "open"
  OBVIOUS
<1> HIDE DEF i
<1>8. /\ t.snap = i.snap /\ t.from = i.from /\ t.end = i.end /\ t.reverse = i.reverse
      /\ t.cursor = i.cursor /\ t.delivered = i.delivered /\ t.isNextValid = IsValid(i)
      /\ t.at = i.at
  BY <1>6, SMT DEF Iterators
<1> HIDE DEF t
<1>9. IterShape(i)
  BY <1>6, <1>7, IteratorStarts, SMT
<1>10. IterShape(t) /\ (IsValid(t) <=> IsValid(i))
  BY <1>6, <1>8, <1>9, SameShape, SMT
<1>11. t.isNextValid = IsValid(t) /\ t.delivered = <<>>
  <2>1. IsValid(t) \in BOOLEAN
    BY DEF IsValid
  <2>2. QED
    BY <1>5, <1>7, <1>8, <1>10, <2>1, SMT
<1>12. QED
  BY <1>1, <1>7, <1>8, <1>10, <1>11, SMT DEF IterInv

(* An iterator in another state, and one that has delivered a key.         *)
Changed(i, a, v, n) == [i EXCEPT !.at = a, !.isNextValid = v, !.left = n]
Alike(t, i) ==
  /\ t \in Iterators /\ t.snap = i.snap /\ t.from = i.from /\ t.end = i.end
  /\ t.reverse = i.reverse /\ t.cursor = i.cursor /\ t.delivered = i.delivered
ChangedTo(t, i, a, v) == Alike(t, i) /\ t.at = a /\ t.isNextValid = v

Moved(i, n, c, d) == [i EXCEPT !.delivered = d, !.left = n, !.cursor = c]
Ahead(t, i, c, d) ==
  /\ t \in Iterators /\ t.snap = i.snap /\ t.from = i.from /\ t.end = i.end
  /\ t.reverse = i.reverse /\ t.cursor = c /\ t.delivered = d /\ t.at = i.at

LEMMA IteratorChanged ==
  ASSUME NEW i \in Iterators, NEW a \in Stages, NEW v \in Flags, NEW n \in Int
  PROVE  ChangedTo(Changed(i, a, v, n), i, a, v)
  BY DEF Iterators, Alike, Changed, ChangedTo, Flags

LEMMA IteratorMoved ==
  ASSUME NEW i \in Iterators, NEW c \in Asked, NEW n \in Int, NEW d \in Seq(Seq(Nat))
  PROVE  Ahead(Moved(i, n, c, d), i, c, d)
  BY DEF Iterators, Ahead, Moved

(* A step that only changes how far the call of next has got.              *)
LEMMA IteratorStays ==
  ASSUME NEW t, keyIter' = t, keyIter.at # "none", IterInv, Alike(t, keyIter),
         t.at = "open" => IsValid(keyIter) /\ t.isNextValid = TRUE,
         t.at = "finished" => ~IsValid(keyIter)
  PROVE  IterInv'
<1>1. IterShape(keyIter)
  BY DEF IterInv
<1>2. IterShape(t) /\ (IsValid(t) <=> IsValid(keyIter))
  BY <1>1, SameShape, SMT DEF Alike
<1>3. t.at = "open" => t.isNextValid = IsValid(t) /\ IsValid(t)
  <2>1. IsValid(t) \in BOOLEAN
    BY DEF IsValid
  <2>2. QED
    BY <1>2, <2>1
<1>4. QED
  BY <1>2, <1>3, SMT DEF IterInv

LEMMA IterStep ==
  ASSUME IterInv, keyIter.at # "none",
         \/ \E max \in Maxes : NextArray(max)
         \/ NextStep \/ NextEnds \/ CloseKeyIterator
  PROVE  IterInv'
<1> DEFINE i == keyIter
<1>1. IterShape(i)
  BY DEF IterInv
<1>2. /\ i \in Iterators /\ i.snap \in Snapshots /\ i.snap \subseteq Seq(Nat)
      /\ i.reverse \in BOOLEAN /\ i.left \in Int /\ i.delivered \in Seq(Seq(Nat))
  BY <1>1, ShapeFacts
<1>3. i.isNextValid \in Flags
  BY <1>2, SMT DEF Iterators, Flags
<1>4. IsValid(i) \in Flags
  BY DEF IsValid, Flags
<1> HIDE DEF i
<1>5. ASSUME NEW max \in Maxes, NextArray(max) PROVE IterInv'
  <2> DEFINE t == Changed(i, "next", i.isNextValid, max)
  <2>1. max \in Int /\ "next" \in Stages
    BY ScanAssumption, SMT DEF Stages
  <2>2. keyIter' = [i EXCEPT !.at = "next", !.left = max]
    BY <1>5 DEF NextArray, i
  <2>3. keyIter' = t
    BY <1>2, <2>2 DEF Iterators, Changed
  <2>4. ChangedTo(t, i, "next", i.isNextValid)
    BY <1>2, <1>3, <2>1, IteratorChanged
  <2>5. Alike(t, i) /\ t.at # "open" /\ t.at # "finished"
    BY <2>4, SMT DEF ChangedTo
  <2>6. QED
    BY <2>3, <2>5, IteratorStays DEF i
<1>6. CASE NextEnds
  <2> DEFINE a == IF IsValid(i) THEN "open" ELSE "finished"
             t == Changed(i, a, IsValid(i), 0)
  <2>1. keyIter' = t
    BY <1>6 DEF NextEnds, i, Changed
  <2>2. /\ a \in Stages /\ 0 \in Int
        /\ (a = "open" => IsValid(i)) /\ (a = "finished" => ~IsValid(i))
    BY SMT DEF Stages
  <2> HIDE DEF a
  <2>3. ChangedTo(t, i, a, IsValid(i))
    BY <1>2, <1>4, <2>2, IteratorChanged
  <2> HIDE DEF t
  <2>4. /\ Alike(t, i) /\ (t.at = "open" => IsValid(i) /\ t.isNextValid = TRUE)
        /\ t.at = "finished" => ~IsValid(i)
    BY <1>4, <2>2, <2>3, SMT DEF Flags, ChangedTo
  <2>5. QED
    BY <2>1, <2>4, IteratorStays DEF i
<1>7. CASE CloseKeyIterator
  <2> DEFINE t == Changed(i, "closed", FALSE, i.left)
  <2>1. keyIter' = [i EXCEPT !.at = "closed", !.isNextValid = FALSE]
    BY <1>7 DEF CloseKeyIterator, i
  <2>2. keyIter' = t
    BY <1>2, <2>1 DEF Iterators, Changed
  <2>3. ChangedTo(t, i, "closed", FALSE)
    <3>1. "closed" \in Stages /\ FALSE \in Flags
      BY SMT DEF Stages, Flags
    <3>2. QED
      BY <1>2, <3>1, IteratorChanged
  <2>4. Alike(t, i) /\ t.at # "open" /\ t.at # "finished"
    BY <2>3 DEF ChangedTo
  <2>5. QED
    BY <2>2, <2>4, IteratorStays DEF i
<1>8. CASE NextStep
  <2> DEFINE n == Advance(i.snap, i.cursor, i.reverse)
             d == Append(i.delivered, i.cursor)
             t == Moved(i, i.left - 1, n, d)
  <2>1. keyIter' = t /\ i.at = "next" /\ IsValid(i)
    BY <1>8 DEF NextStep, NextGoesOn, Advance, i, Moved
  <2>2. n \in Asked
    BY <1>2, AdvanceLeads, SMT DEF Leads, Asked
  <2>3. d \in Seq(Seq(Nat))
    <3>1. i.cursor \in i.snap
      BY <1>1, <2>1 DEF IterShape, IsValid
    <3>2. QED
      BY <1>2, <3>1, SMT
  <2>4. Ahead(t, i, n, d)
    <3> HIDE DEF n, d
    <3>1. i.left - 1 \in Int
      BY <1>2, SMT
    <3>2. QED
      BY <1>2, <2>2, <2>3, <3>1, IteratorMoved
  <2> HIDE DEF t
  <2>5. IterShape(t)
    BY <1>1, <2>1, <2>4, OneDelivered, SMT DEF Ahead
  <2>6. t.at # "open" /\ t.at # "finished"
    BY <2>1, <2>4, SMT DEF Ahead
  <2>7. QED
    BY <2>1, <2>5, <2>6, SMT DEF IterInv
<1>9. QED
  BY <1>5, <1>6, <1>7, <1>8, SMT
-----------------------------------------------------------------------------
(* The scans.                                                              *)

Scans ==
  [at : {"loop", "done"}, snap : Snapshots, from : Seq(Nat), to : Seq(Nat),
   byPrefix : BOOLEAN, page : Pages \cup {NoPage}, bound : Int, cursor : Asked,
   count : Nat, result : Seq(Seq(Nat))]

All(s) == {k \in s.snap : LessEq(s.from, k) /\ Wanted(s, k)}
Seen(s) == {k \in All(s) : s.cursor = null \/ Before(k, s.cursor, FALSE)}
OnPage(s) == {k \in Seen(s) : Position(k, All(s), FALSE) >= s.page.offset}

(* The keys a scan has met are counted, and those after the offset kept.   *)
ScanShape(s) ==
  /\ s \in Scans
  /\ s.page.offset \in Nat /\ s.page.limit \in Nat
  /\ s.bound = s.page.offset + s.page.limit
  /\ s.byPrefix => s.from = s.to
  /\ s.cursor # null => s.cursor \in s.snap /\ LessEq(s.from, s.cursor)
  /\ s.count = Cardinality(Seen(s)) /\ s.count <= s.bound
  /\ RangeOf(s.result) = OnPage(s)
  /\ Sorted(s.result, FALSE)

ScanInv ==
  scan.at # "none" =>
    /\ ScanShape(scan)
    /\ scan.at = "done" => scan.count = scan.bound \/ Seen(scan) = All(scan)

LEMMA ScanFacts ==
  ASSUME NEW s, ScanShape(s)
  PROVE  /\ s \in Scans /\ s.snap \in Snapshots /\ s.snap \subseteq Seq(Nat) /\ null \notin s.snap
         /\ s.from \in Seq(Nat) /\ s.to \in Seq(Nat) /\ s.byPrefix \in BOOLEAN
         /\ s.bound \in Int /\ s.cursor \in Asked /\ s.count \in Nat /\ s.result \in Seq(Seq(Nat))
         /\ All(s) \in Snapshots /\ All(s) \subseteq Seq(Nat)
         /\ \A k : k \in All(s) <=> k \in s.snap /\ LessEq(s.from, k) /\ Wanted(s, k)
<1>1. s \in Scans
  BY DEF ScanShape
<1>2. /\ s.snap \in Snapshots
      /\ s.from \in Seq(Nat) /\ s.to \in Seq(Nat) /\ s.byPrefix \in BOOLEAN
      /\ s.bound \in Int /\ s.cursor \in Asked /\ s.count \in Nat /\ s.result \in Seq(Seq(Nat))
  BY <1>1, SMT DEF Scans
<1>3. s.snap \subseteq Seq(Nat) /\ null \notin s.snap
  BY <1>2, SnapshotFacts
<1>4. \A k : k \in All(s) <=> k \in s.snap /\ LessEq(s.from, k) /\ Wanted(s, k)
  BY DEF All
<1>5. All(s) \in SUBSET s.snap
  BY <1>4
<1>6. All(s) \in Snapshots
  BY <1>2, <1>5, SnapshotPart
<1>7. All(s) \subseteq Seq(Nat)
  BY <1>6, SnapshotFacts
<1>8. QED
  BY <1>1, <1>2, <1>3, <1>4, <1>6, <1>7

(* The loop ends at the first key that is not wanted, and loses none.       *)
LEMMA WantedOrder ==
  ASSUME NEW s, ScanShape(s), NEW c \in Seq(Nat), NEW k \in Seq(Nat),
         LessEq(s.from, c), Less(c, k), Wanted(s, k)
  PROVE  Wanted(s, c)
<1>1. s.from \in Seq(Nat) /\ s.to \in Seq(Nat)
  BY ScanFacts
<1>2. CASE s.byPrefix
  <2>1. s.from = s.to /\ StartsWith(k, s.to)
    BY <1>2 DEF ScanShape, Wanted
  <2>2. StartsWith(c, s.to)
    BY <1>1, <2>1, PrefixOrder, SMT
  <2>3. QED
    BY <1>2, <2>2 DEF Wanted
<1>3. CASE ~s.byPrefix
  <2>1. LessEq(k, s.to)
    BY <1>3 DEF Wanted
  <2>2. LessEq(c, s.to)
    BY <1>1, <2>1, LessTransitive DEF LessEq
  <2>3. QED
    BY <1>3, <2>2 DEF Wanted
<1>4. QED
  BY <1>2, <1>3, SMT

LEMMA SeenIs ==
  ASSUME NEW s, ScanShape(s)
  PROVE  /\ Initial(Seen(s), All(s), FALSE)
         /\ s.cursor # null /\ Wanted(s, s.cursor) =>
              /\ s.cursor \in All(s)
              /\ Seen(s) = {k \in All(s) : Before(k, s.cursor, FALSE)}
         /\ ~(s.cursor # null /\ Wanted(s, s.cursor)) => Seen(s) = All(s)
<1> DEFINE m == All(s)
           c == s.cursor
<1>1. /\ s.snap \subseteq Seq(Nat) /\ m \subseteq Seq(Nat)
      /\ \A k : k \in m <=> k \in s.snap /\ LessEq(s.from, k) /\ Wanted(s, k)
  BY ScanFacts
<1>2. c # null => c \in s.snap /\ c \in Seq(Nat) /\ LessEq(s.from, c)
  BY <1>1 DEF ScanShape
<1>3. \A k : k \in Seen(s) <=> k \in m /\ (c = null \/ Before(k, c, FALSE))
  BY DEF Seen
<1>4. FALSE \in BOOLEAN
  BY SMT
<1> HIDE DEF m, c
<1>5. Initial(Seen(s), m, FALSE)
  <2>1. ASSUME NEW k \in Seen(s), NEW j \in m, Before(j, k, FALSE)
        PROVE  j \in Seen(s)
    <3>1. CASE c = null
      BY <1>3, <3>1
    <3>2. CASE c # null
      <4>1. k \in Seq(Nat) /\ j \in Seq(Nat) /\ c \in Seq(Nat) /\ Before(k, c, FALSE)
        BY <1>1, <1>2, <1>3, <2>1, <3>2
      <4>2. Before(j, c, FALSE)
        BY <1>4, <2>1, <4>1, BeforeOrder
      <4>3. QED
        BY <1>3, <4>2
    <3>3. QED
      BY <3>1, <3>2, SMT
  <2>2. QED
    BY <1>3, <2>1 DEF Initial
<1>6. ASSUME c # null, Wanted(s, c) PROVE c \in m /\ Seen(s) = {k \in m : Before(k, c, FALSE)}
  BY <1>1, <1>2, <1>3, <1>6
<1>7. ASSUME ~(c # null /\ Wanted(s, c)) PROVE Seen(s) = m
  <2>1. ASSUME NEW k \in m PROVE c = null \/ Before(k, c, FALSE)
    <3>1. SUFFICES ASSUME c # null PROVE Before(k, c, FALSE)
      OBVIOUS
    <3>2. ~Wanted(s, c) /\ Wanted(s, k) /\ k \in Seq(Nat) /\ c \in Seq(Nat) /\ LessEq(s.from, c)
      BY <1>1, <1>2, <1>7, <3>1
    <3>3. k # c
      BY <3>2, SMT
    <3>4. ~Less(c, k)
      BY <3>2, WantedOrder
    <3>5. QED
      BY <3>2, <3>3, <3>4, LessTotal DEF Before
  <2>2. QED
    BY <1>3, <2>1
<1>8. QED
  BY <1>5, <1>6, <1>7 DEF m, c

LEMMA ScanDone ==
  ASSUME NEW s, ScanShape(s), s.count = s.bound \/ Seen(s) = All(s)
  PROVE  IsListing(s.result, All(s), FALSE, s.page.offset, s.page.offset + s.page.limit)
<1> DEFINE m == All(s)
           o == s.page.offset
           b == s.bound
<1>1. m \in Snapshots /\ FALSE \in BOOLEAN /\ Initial(Seen(s), m, FALSE)
  BY ScanFacts, SeenIs
<1>2. /\ o \in Nat /\ s.page.limit \in Nat /\ b = o + s.page.limit
      /\ s.count = Cardinality(Seen(s)) /\ s.count <= b
      /\ RangeOf(s.result) = OnPage(s) /\ Sorted(s.result, FALSE)
  BY DEF ScanShape
<1>3. b \in Nat /\ s.count \in Nat
  BY <1>2, ScanFacts, SMT
<1>4. \A k : k \in OnPage(s) <=> k \in Seen(s) /\ Position(k, m, FALSE) >= o
  BY DEF OnPage
<1>5. Seen(s) \subseteq m
  BY DEF Seen
<1> HIDE DEF m, o, b
<1>6. ASSUME NEW k \in m PROVE k \in OnPage(s) <=> Position(k, m, FALSE) \in o .. b - 1
  <2>1. Position(k, m, FALSE) \in Nat
    BY <1>1, PositionIs
  <2>2. k \in Seen(s) <=> Position(k, m, FALSE) < Cardinality(Seen(s))
    BY <1>1, InitialIs
  <2>3. s.count = b \/ k \in Seen(s)
    BY SMT DEF m, b
  <2>4. k \in OnPage(s) <=> k \in Seen(s) /\ Position(k, m, FALSE) >= o
    BY <1>4
  <2> DEFINE p == Position(k, m, FALSE)
             n == s.count
  <2>5. /\ p \in Nat /\ n \in Nat /\ b \in Nat /\ o \in Nat /\ n <= b
        /\ k \in Seen(s) <=> p < n
    BY <1>2, <1>3, <2>1, <2>2
  <2>6. k \in OnPage(s) <=> k \in Seen(s) /\ p >= o
    BY <2>4
  <2>7. n = b \/ k \in Seen(s)
    BY <2>3, SMT
  <2> HIDE DEF p, n
  <2>8. k \in OnPage(s) <=> p \in o .. b - 1
    BY <2>5, <2>6, <2>7, SMT
  <2>9. QED
    BY <2>8 DEF p
<1>7. RangeOf(s.result) = {k \in m : Position(k, m, FALSE) \in o .. b - 1}
  BY <1>2, <1>4, <1>5, <1>6
<1>8. IsListing(s.result, m, FALSE, o, b)
  BY <1>1, <1>2, <1>3, <1>7, ListingIs
<1>9. QED
  BY <1>2, <1>8 DEF m, o, b

(* A scan in its next state.                                               *)
Counted(s, r, n, c) == [s EXCEPT !.result = r, !.count = n, !.cursor = c]
CountedTo(t, s, r, n, c) ==
  /\ t \in Scans /\ t.snap = s.snap /\ t.from = s.from /\ t.to = s.to /\ t.byPrefix = s.byPrefix
  /\ t.page = s.page /\ t.bound = s.bound
  /\ t.result = r /\ t.count = n /\ t.cursor = c /\ t.at = s.at

LEMMA ScanCounted ==
  ASSUME NEW s \in Scans, NEW r \in Seq(Seq(Nat)), NEW n \in Nat, NEW c \in Asked
  PROVE  CountedTo(Counted(s, r, n, c), s, r, n, c)
  BY DEF Scans, Counted, CountedTo

(* One turn of the loop.                                                   *)
LEMMA OneScanned ==
  ASSUME NEW s, ScanShape(s), s.count < s.bound, s.cursor # null, Wanted(s, s.cursor),
         NEW t, CountedTo(t, s, IF s.count >= s.page.offset THEN Append(s.result, s.cursor)
                                ELSE s.result,
                          s.count + 1, NextKey(s.snap, s.cursor))
  PROVE  ScanShape(t)
<1> DEFINE m == All(s)
           c == s.cursor
           n == t.cursor
           o == s.page.offset
           d == Seen(s)
<1>1. /\ s.snap \in Snapshots /\ m \in Snapshots /\ m \subseteq Seq(Nat) /\ FALSE \in BOOLEAN
      /\ s.from \in Seq(Nat) /\ s.snap \subseteq Seq(Nat)
      /\ s.bound \in Int /\ s.count \in Nat /\ s.result \in Seq(Seq(Nat))
      /\ \A k : k \in m <=> k \in s.snap /\ LessEq(s.from, k) /\ Wanted(s, k)
  BY ScanFacts
<1>2. /\ o \in Nat /\ s.page.limit \in Nat /\ s.bound = o + s.page.limit
      /\ s.byPrefix => s.from = s.to
      /\ s.count = Cardinality(d) /\ RangeOf(s.result) = OnPage(s) /\ Sorted(s.result, FALSE)
      /\ c \in m /\ d = {k \in m : Before(k, c, FALSE)}
  BY SeenIs DEF ScanShape
<1>3. /\ t \in Scans /\ t.snap = s.snap /\ t.from = s.from /\ t.to = s.to
      /\ t.byPrefix = s.byPrefix /\ t.page = s.page /\ t.bound = s.bound
      /\ t.count = s.count + 1 /\ n = NextKey(s.snap, c)
      /\ s.count >= o => t.result = Append(s.result, c)
      /\ ~(s.count >= o) => t.result = s.result
  BY SMT DEF CountedTo
<1>4. All(t) = m
  BY <1>3 DEF All, Wanted
<1>5. Leads(n, {j \in s.snap : Before(c, j, FALSE)}, FALSE)
  <2>1. Leads(Advance(s.snap, c, FALSE), {j \in s.snap : Before(c, j, FALSE)}, FALSE)
    BY <1>1, AdvanceLeads
  <2>2. Advance(s.snap, c, FALSE) = n
    BY <1>3 DEF Advance
  <2>3. QED
    BY <2>1, <2>2
<1>6. Seen(t) = {k \in m : n = null \/ Before(k, n, FALSE)}
  BY <1>4 DEF Seen
<1>7. \A k : /\ k \in OnPage(s) <=> k \in d /\ Position(k, m, FALSE) >= o
             /\ k \in OnPage(t) <=> k \in Seen(t) /\ Position(k, m, FALSE) >= o
  BY <1>3, <1>4 DEF OnPage
<1> HIDE DEF m, c, n, o, d
<1>8. m \in SUBSET s.snap /\ c \in Seq(Nat) /\ LessEq(s.from, c)
  BY <1>1, <1>2
<1>9. /\ {k \in m : n = null \/ Before(k, n, FALSE)} = {k \in m : Before(k, c, FALSE)} \cup {c}
      /\ n # null => n \in s.snap /\ Before(c, n, FALSE)
  BY <1>1, <1>2, <1>5, <1>8, MovedOver
<1>10. Seen(t) = d \cup {c}
  BY <1>2, <1>6, <1>9
<1>11. /\ Cardinality(d \cup {c}) = Cardinality(d) + 1 /\ Position(c, m, FALSE) = Cardinality(d)
  <2>1. PICK r \in BOOLEAN : r = FALSE
    OBVIOUS
  <2>2. m \in Snapshots /\ c \in m /\ d = {k \in m : Before(k, c, r)}
    BY <1>1, <1>2, <2>1
  <2>3. Cardinality(d \cup {c}) = Cardinality(d) + 1 /\ Position(c, m, r) = Cardinality(d)
    BY <2>2, OneMoreKey, SMT
  <2>4. QED
    BY <2>1, <2>3
<1>12. n # null => n \in s.snap /\ LessEq(s.from, n)
  <2>1. ASSUME n # null PROVE LessEq(s.from, n)
    <3>1. n \in Seq(Nat) /\ Less(c, n)
      BY <1>1, <1>9, <2>1 DEF Before
    <3>2. QED
      BY <1>1, <1>8, <3>1, LessTransitive DEF LessEq
  <2>2. QED
    BY <1>9, <2>1, SMT
<1>13. t.count = Cardinality(Seen(t)) /\ t.count <= t.bound
  <2>1. t.count = Cardinality(Seen(t))
    BY <1>2, <1>3, <1>10, <1>11
  <2>2. s.count + 1 <= s.bound
    BY <1>1, SMT
  <2>3. QED
    BY <1>3, <2>1, <2>2
<1>14. RangeOf(t.result) = OnPage(t) /\ Sorted(t.result, FALSE)
  <2>1. CASE s.count >= o
    <3>1. \A k \in RangeOf(s.result) : Before(k, c, FALSE)
      BY <1>2, <1>7
    <3>2. /\ RangeOf(Append(s.result, c)) = RangeOf(s.result) \cup {c}
          /\ Sorted(Append(s.result, c), FALSE)
      BY <1>1, <1>2, <1>8, <3>1, RangeGrows
    <3>3. OnPage(t) = OnPage(s) \cup {c}
      BY <1>2, <1>7, <1>10, <1>11, <2>1
    <3>4. QED
      BY <1>2, <1>3, <2>1, <3>2, <3>3
  <2>2. CASE ~(s.count >= o)
    <3>1. OnPage(t) = OnPage(s)
      BY <1>2, <1>7, <1>10, <1>11, <2>2
    <3>2. QED
      BY <1>2, <1>3, <2>2, <3>1
  <2>3. QED
    BY <2>1, <2>2
<1>15. QED
  BY <1>2, <1>3, <1>12, <1>13, <1>14 DEF ScanShape, n, o

(* A scan starts at the first key that can match.                          *)
LEMMA ScanStarts ==
  ASSUME StoreInv, NEW from \in Targets, NEW to \in Targets, NEW byPrefix \in BOOLEAN,
         byPrefix => from = to,
         NEW page \in Pages \cup {NoPage}, page.offset \in Nat, page.limit \in Nat,
         NEW bound, bound = page.offset + page.limit,
         StartScan(from, to, byPrefix, page, bound)
  PROVE  ScanInv'
<1> DEFINE c == Seek(store, from)
           t == [at |-> "loop", snap |-> store, from |-> from, to |-> to,
                 byPrefix |-> byPrefix, page |-> page, bound |-> bound,
                 cursor |-> c, count |-> 0, result |-> <<>>]
           u == {k \in store : LessEq(from, k)}
<1>1. scan' = t
  BY DEF StartScan
<1>2. store \in Snapshots /\ store \subseteq Seq(Nat) /\ from \in Seq(Nat) /\ to \in Seq(Nat)
  BY StoreIsSnapshot, SnapshotFacts, ScanAssumption, SMT DEF ScanAssumption
<1>3. u \in Snapshots
  <2>1. u \in SUBSET store
    BY SMT
  <2>2. QED
    BY <1>2, <2>1, SnapshotPart
<1>4. Leads(c, u, FALSE)
  BY <1>3, FirstKeyLeads DEF Seek
<1> HIDE DEF c
<1>5. c \in Asked /\ (c # null => c \in store /\ LessEq(from, c))
  BY <1>2, <1>4 DEF Leads, Asked
<1>6. t \in Scans
  BY <1>2, <1>5, SMT DEF Scans
<1>7. /\ t.snap = store /\ t.from = from /\ t.to = to /\ t.byPrefix = byPrefix /\ t.page = page
      /\ t.bound = bound /\ t.cursor = c /\ t.count = 0 /\ t.result = <<>> /\ t.at = "loop"
  BY SMT
<1> HIDE DEF t
<1>8. \A k \in All(t) : k \in u
  BY <1>7 DEF All
<1>9. \A k \in All(t) : ~(c = null \/ Before(k, c, FALSE))
  <2> SUFFICES ASSUME NEW k \in All(t), c = null \/ Before(k, c, FALSE) PROVE FALSE
    OBVIOUS
  <2>1. k \in u /\ k \in Seq(Nat)
    BY <1>2, <1>8, SMT
  <2>2. c \in u /\ (c = k \/ Before(c, k, FALSE)) /\ Before(k, c, FALSE)
    BY <1>2, <1>4, <2>1, SnapshotFacts DEF Leads
  <2>3. c \in Seq(Nat)
    BY <1>2, <2>2, SMT
  <2>4. QED
    BY <2>1, <2>2, <2>3, BeforeOrder
<1>10. Seen(t) = {}
  BY <1>7, <1>9 DEF Seen
<1>11. OnPage(t) = {}
  BY <1>10 DEF OnPage
<1>12. Cardinality({}) = 0
  BY FS_EmptySet
<1>13. RangeOf(<<>>) = {} /\ Sorted(<<>>, FALSE)
  BY SMT DEF RangeOf, Sorted
<1>14. ScanShape(t)
  <2>1. /\ t.page.offset \in Nat /\ t.page.limit \in Nat
        /\ t.bound = t.page.offset + t.page.limit /\ (t.byPrefix => t.from = t.to)
    BY <1>7
  <2>2. t.count = Cardinality(Seen(t)) /\ t.count <= t.bound
    BY <1>7, <1>10, <1>12, SMT
  <2>3. QED
    BY <1>5, <1>6, <1>7, <1>11, <1>13, <2>1, <2>2 DEF ScanShape
<1>15. QED
  BY <1>1, <1>7, <1>14, SMT DEF ScanInv

(* No page that a caller may ask for ends after the largest jint.          *)
PagesEnd == \A page \in Pages : checkOffsetLimit(page) => page.offset + page.limit <= MaxInt

LEMMA PageIs ==
  ASSUME PagesEnd, NEW page \in Pages, checkOffsetLimit(page),
         NEW bound \in PageEnd(page.offset, page.limit)
  PROVE  page.offset \in Nat /\ page.limit \in Nat /\ bound = page.offset + page.limit
<1>1. page.offset \in Int /\ page.limit \in Int
  BY ScanAssumption, SMT DEF ScanAssumption
<1>2. page.offset + page.limit <= MaxInt
  BY DEF PagesEnd
<1>3. bound = page.offset + page.limit
  BY <1>2 DEF PageEnd
<1>4. QED
  BY <1>1, <1>3, SMT DEF checkOffsetLimit

LEMMA ScanBegins ==
  ASSUME PagesEnd, StoreInv, FindKeys \/ FindKeysBetween \/ CountKeys \/ CountKeysBetween
  PROVE  ScanInv'
<1>1. TRUE \in BOOLEAN /\ FALSE \in BOOLEAN
  BY SMT
<1>2. NoPage.offset \in Nat /\ NoPage.limit \in Nat /\ 2 * MaxInt = NoPage.offset + NoPage.limit
  BY ScanAssumption, SMT DEF ScanAssumption, NoPage
<1>3. CASE FindKeys
  <2>1. PICK p \in Targets, page \in Pages : \E bound \in PageEnd(page.offset, page.limit) :
          checkOffsetLimit(page) /\ StartScan(p, p, TRUE, page, bound)
    BY <1>3 DEF FindKeys
  <2>2. PICK bound \in PageEnd(page.offset, page.limit) :
          checkOffsetLimit(page) /\ StartScan(p, p, TRUE, page, bound)
    BY <2>1
  <2>3. page.offset \in Nat /\ page.limit \in Nat /\ bound = page.offset + page.limit
    BY <2>2, PageIs, SMT
  <2>4. page \in Pages \cup {NoPage}
    BY SMT
  <2>5. QED
    BY <1>1, <2>2, <2>3, <2>4, ScanStarts
<1>4. CASE FindKeysBetween
  <2>1. PICK p \in Targets, q \in Targets, page \in Pages :
          \E bound \in PageEnd(page.offset, page.limit) :
            checkOffsetLimit(page) /\ StartScan(p, q, FALSE, page, bound)
    BY <1>4 DEF FindKeysBetween
  <2>2. PICK bound \in PageEnd(page.offset, page.limit) :
          checkOffsetLimit(page) /\ StartScan(p, q, FALSE, page, bound)
    BY <2>1
  <2>3. page.offset \in Nat /\ page.limit \in Nat /\ bound = page.offset + page.limit
    BY <2>2, PageIs
  <2>4. page \in Pages \cup {NoPage}
    BY SMT
  <2>5. QED
    BY <1>1, <2>2, <2>3, <2>4, ScanStarts
<1>5. CASE CountKeys
  <2>1. PICK p \in Targets : StartScan(p, p, TRUE, NoPage, 2 * MaxInt)
    BY <1>5 DEF CountKeys
  <2>2. QED
    BY <1>1, <1>2, <2>1, ScanStarts
<1>6. CASE CountKeysBetween
  <2>1. PICK p \in Targets, q \in Targets : StartScan(p, q, FALSE, NoPage, 2 * MaxInt)
    BY <1>6 DEF CountKeysBetween
  <2>2. QED
    BY <1>1, <1>2, <2>1, ScanStarts
<1>7. QED
  BY <1>3, <1>4, <1>5, <1>6

LEMMA ScanMoves ==
  ASSUME ScanInv, scan.at # "none", ScanStep \/ ScanEnds
  PROVE  ScanInv'
<1> DEFINE s == scan
<1>1. ScanShape(s)
  BY DEF ScanInv
<1>2. /\ s \in Scans /\ s.snap \in Snapshots /\ s.snap \subseteq Seq(Nat)
      /\ s.bound \in Int /\ s.count \in Nat /\ s.result \in Seq(Seq(Nat))
  BY <1>1, ScanFacts
<1> HIDE DEF s
<1>3. CASE ScanStep
  <2> DEFINE c == s.cursor
             r == IF s.count >= s.page.offset THEN Append(s.result, c) ELSE s.result
             n == NextKey(s.snap, c)
             t == Counted(s, r, s.count + 1, n)
  <2>1. /\ s.at = "loop" /\ s.count < s.bound /\ c # null /\ Wanted(s, c)
        /\ scan' = t
    BY <1>3 DEF ScanStep, ScanGoesOn, Counted, s
  <2>2. c \in s.snap
    BY <1>1, <2>1 DEF ScanShape
  <2>3. r \in Seq(Seq(Nat))
    BY <1>2, <2>2, SMT
  <2>4. n \in Asked
    <3>1. FALSE \in BOOLEAN /\ c \in Seq(Nat) /\ n = Advance(s.snap, c, FALSE)
      BY <1>2, <2>2, SMT DEF Advance
    <3>2. Leads(n, {j \in s.snap : Before(c, j, FALSE)}, FALSE)
      BY <1>2, <3>1, AdvanceLeads
    <3>3. QED
      BY <1>2, <3>2 DEF Leads, Asked
  <2> HIDE DEF r, n
  <2>5. CountedTo(t, s, r, s.count + 1, n)
    BY <1>2, <2>3, <2>4, ScanCounted, SMT
  <2> HIDE DEF t
  <2>6. ScanShape(t)
    BY <1>1, <2>1, <2>5, OneScanned DEF r, n
  <2>7. t.at = "loop"
    BY <2>1, <2>5 DEF CountedTo
  <2>8. QED
    BY <2>1, <2>6, <2>7, SMT DEF ScanInv
<1>4. CASE ScanEnds
  <2> DEFINE t == [s EXCEPT !.at = "done"]
  <2>1. scan' = t /\ ~(s.count < s.bound /\ s.cursor # null /\ Wanted(s, s.cursor))
    BY <1>4 DEF ScanEnds, ScanGoesOn, s
  <2>2. /\ t \in Scans /\ t.snap = s.snap /\ t.from = s.from /\ t.to = s.to
        /\ t.byPrefix = s.byPrefix /\ t.page = s.page /\ t.bound = s.bound
        /\ t.cursor = s.cursor /\ t.count = s.count /\ t.result = s.result
    BY <1>2 DEF Scans
  <2> HIDE DEF t
  <2>3. All(t) = All(s)
    BY <2>2 DEF All, Wanted
  <2>4. Seen(t) = Seen(s)
    BY <2>2, <2>3 DEF Seen
  <2>5. OnPage(t) = OnPage(s)
    BY <2>2, <2>3, <2>4 DEF OnPage
  <2>6. ScanShape(t)
    BY <1>1, <2>2, <2>4, <2>5 DEF ScanShape
  <2>7. s.count = s.bound \/ Seen(s) = All(s)
    <3>1. CASE s.count < s.bound
      BY <1>1, <2>1, <3>1, SeenIs
    <3>2. CASE ~(s.count < s.bound)
      <4>1. s.count <= s.bound
        BY <1>1 DEF ScanShape
      <4>2. QED
        BY <1>2, <3>2, <4>1, SMT
    <3>3. QED
      BY <3>1, <3>2, SMT
  <2>8. t.count = t.bound \/ Seen(t) = All(t)
    BY <2>2, <2>3, <2>4, <2>7
  <2>9. QED
    BY <2>1, <2>6, <2>8, SMT DEF ScanInv
<1>5. QED
  BY <1>3, <1>4, SMT

(* The store holds keys of the caller's, whoever writes.                   *)
LEMMA StoreStep == ASSUME StoreInv, [ScanNext]_scanVars PROVE StoreInv'
<1>1. CASE \E k \in Keys : PutOrDelete(k)
  BY <1>1, SMT DEF PutOrDelete, StoreInv
<1>2. CASE store' = store
  BY <1>2 DEF StoreInv
<1>3. QED
  BY <1>1, <1>2 DEF ScanNext, scanVars, FindKeys, FindKeysBetween, CountKeys,
     CountKeysBetween, StartScan, ScanStep, ScanEnds, NewKeyIterator, NextArray, NextStep,
     NextEnds, CloseKeyIterator, Stopped

LEMMA IteratorKept == ASSUME StoreInv, IterInv, [ScanNext]_scanVars PROVE IterInv'
<1>1. CASE keyIter' = keyIter
  BY <1>1, SMT DEF IterInv
<1>2. CASE \E from, end \in Targets \cup {null}, reverse \in BOOLEAN :
             NewKeyIterator(from, end, reverse)
  BY <1>2, IteratorMade, SMT
<1>3. CASE (\E max \in Maxes : NextArray(max)) \/ NextStep \/ NextEnds \/ CloseKeyIterator
  <2>1. keyIter.at # "none"
    BY <1>3 DEF NextArray, NextStep, NextEnds, CloseKeyIterator
  <2>2. QED
    BY <1>3, <2>1, IterStep, SMT
<1>4. QED
  BY <1>1, <1>2, <1>3 DEF ScanNext, scanVars, FindKeys, FindKeysBetween, CountKeys,
     CountKeysBetween, StartScan, ScanStep, ScanEnds, PutOrDelete, Stopped

LEMMA ScanKept == ASSUME PagesEnd, StoreInv, ScanInv, [ScanNext]_scanVars PROVE ScanInv'
<1>1. CASE scan' = scan
  BY <1>1, SMT DEF ScanInv
<1>2. CASE FindKeys \/ FindKeysBetween \/ CountKeys \/ CountKeysBetween
  BY <1>2, ScanBegins, SMT
<1>3. CASE ScanStep \/ ScanEnds
  <2>1. scan.at # "none"
    BY <1>3, SMT DEF ScanStep, ScanEnds
  <2>2. QED
    BY <1>3, <2>1, ScanMoves, SMT
<1>4. QED
  BY <1>1, <1>2, <1>3 DEF ScanNext, scanVars, NewKeyIterator, NextArray, NextStep,
     NextEnds, CloseKeyIterator, PutOrDelete, Stopped

LEMMA ScanInitially == ScanInit => StoreInv /\ IterInv /\ ScanInv
  BY SMT DEF ScanInit, NoScan, StoreInv, IterInv, ScanInv

(* KeyIteratorImpl: the batches that next delivers are the matching keys   *)
(* of the snapshot in order, from the first on and all of them once next   *)
(* has closed the iterator, for every set of keys, both directions and any *)
(* ends of the range, while other threads write.                           *)
THEOREM IteratorsAreExact == ScanSpec => []IteratorExact
<1>1. StoreInv /\ IterInv => IteratorExact
  <2> SUFFICES ASSUME IterInv, keyIter.at # "none" PROVE IteratorExact
    BY DEF IteratorExact
  <2>1. IterShape(keyIter) /\ (keyIter.at = "finished" => ~IsValid(keyIter))
    BY DEF IterInv
  <2>2. keyIter.at = "finished" =>
          Len(keyIter.delivered) = Cardinality(Matching(keyIter))
    BY <2>1, IterExact
  <2>3. QED
    BY <2>1, <2>2, IterExact DEF IteratorExact
<1>2. StoreInv /\ IterInv /\ [ScanNext]_scanVars => (StoreInv /\ IterInv)'
  BY StoreStep, IteratorKept, SMT
<1>3. QED
  BY <1>1, <1>2, ScanInitially, PTL DEF ScanSpec

(* KeyIteratorImpl.hasNext answers true exactly while a matching key is    *)
(* left, and next closes the iterator after the last one.                  *)
THEOREM HasNextIsRight == ScanSpec => []HasNextTells
<1>1. StoreInv /\ IterInv => HasNextTells
  <2> SUFFICES ASSUME IterInv, keyIter.at = "open" PROVE HasNextTells
    BY DEF HasNextTells
  <2>1. /\ IterShape(keyIter) /\ keyIter.isNextValid = IsValid(keyIter)
        /\ keyIter.delivered # <<>> => IsValid(keyIter)
    BY SMT DEF IterInv
  <2>2. IsValid(keyIter) <=> Len(keyIter.delivered) < Cardinality(Matching(keyIter))
    BY <2>1, IterExact
  <2>3. QED
    BY <2>1, <2>2 DEF HasNextTells
<1>2. StoreInv /\ IterInv /\ [ScanNext]_scanVars => (StoreInv /\ IterInv)'
  BY StoreStep, IteratorKept, SMT
<1>3. QED
  BY <1>1, <1>2, ScanInitially, PTL DEF ScanSpec

(* findKeys, findKeysBetween and the counts return the page of the sorted  *)
(* matching keys that offset and limit name, provided that the end of no   *)
(* page overflows the jint the native loop adds it up in.                  *)
THEOREM ScansAreExact == ASSUME PagesEnd PROVE ScanSpec => []ScanExact
<1>1. StoreInv /\ ScanInv => ScanExact
  <2> SUFFICES ASSUME ScanInv, scan.at = "done" PROVE ScanExact
    BY DEF ScanExact
  <2>1. ScanShape(scan) /\ (scan.count = scan.bound \/ Seen(scan) = All(scan))
    BY SMT DEF ScanInv
  <2>2. IsListing(scan.result, All(scan), FALSE, scan.page.offset,
                  scan.page.offset + scan.page.limit)
    BY <2>1, ScanDone
  <2>3. QED
    BY <2>2 DEF ScanExact, All
<1>2. StoreInv /\ ScanInv /\ [ScanNext]_scanVars => (StoreInv /\ ScanInv)'
  BY StoreStep, ScanKept, SMT
<1>3. QED
  BY <1>1, <1>2, ScanInitially, PTL DEF ScanSpec

=============================================================================
