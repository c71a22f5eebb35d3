-------------------------- MODULE WritePathProofs ---------------------------
(* Facts about DBImpl for every number of threads, every batch, bound and    *)
(* fault: the writer at the front of the queue works alone, the background   *)
(* thread is scheduled whenever there is work for it, a sequence number is   *)
(* used once, versions and edits are well formed, the destructor runs alone, *)
(* and a memtable is freed when its last reader is gone.                     *)
EXTENDS WritePath, TLAPS
LOCAL INSTANCE WellFoundedInduction

\* A leaf that names no other prover is left to Zenon.
USE Zenon

-----------------------------------------------------------------------------
(* Least and greatest numbers, which CHOOSE is asked for in the model, what   *)
(* Concat returns, and how a counted set grows and shrinks.                   *)

\* A set of natural numbers has a least element.
LEMMA LeastNumber ==
  ASSUME NEW T \in SUBSET Nat, T # {}
  PROVE  \E m \in T : \A k \in T : m <= k
<1> DEFINE R == OpToRel(<, Nat)
<1>1. IsWellFoundedOn(R, Nat)
  BY NatLessThanWellFounded
<1>2. \A x, y \in Nat : x < y => <<x, y>> \in R
  BY SMT DEF OpToRel
<1> HIDE DEF R
<1>3. PICK x \in T : \A y \in T : ~(<<y, x>> \in R)
  BY <1>1, WFMin
<1>4. \A y \in T : ~(y < x)
  BY <1>2, <1>3
<1>5. \A y \in T : x <= y
  BY <1>4, SMT
<1>6. QED
  BY <1>5, SMT

\* A bounded one has a greatest.
LEMMA GreatestNumber ==
  ASSUME NEW n \in Nat, NEW S \in SUBSET (1 .. n), S # {}
  PROVE  \E m \in S : \A k \in S : k <= m
<1> DEFINE T == {n - k : k \in S}
<1>1. T \in SUBSET Nat /\ T # {}
  <2>1. \A k \in S : n - k \in Nat
    BY SMT
  <2>2. PICK k \in S : TRUE
    OBVIOUS
  <2>3. n - k \in T
    BY <2>2, SMT
  <2>4. QED
    BY <2>1, <2>3, SMT
<1>2. PICK d \in T : \A e \in T : d <= e
  <2> HIDE DEF T
  <2>1. QED
    BY <1>1, LeastNumber, SMT
<1>3. PICK m \in S : d = n - m
  BY <1>2, SMT
<1>4. \A k \in S : k <= m
  BY <1>2, <1>3, SMT
<1>5. QED
  BY <1>4, SMT

\* f[i] strings the first i sequences of ss together, for i up to n.
Concatenates(f, ss, n, S) ==
  /\ f \in [0 .. n -> Seq(S)]
  /\ f[0] = <<>>
  /\ \A i \in 1 .. n : f[i] = f[i - 1] \o ss[i]

\* There is such a function: a least n for which there is none would have a
\* shorter one to be made from.
LEMMA ConcatenatesExists ==
  ASSUME NEW S, NEW ss \in Seq(Seq(S)), NEW n \in Nat, n <= Len(ss)
  PROVE  \E f : Concatenates(f, ss, n, S)
<1> DEFINE Bad == {m \in 0 .. n : ~\E f : Concatenates(f, ss, m, S)}
<1>1. Len(ss) \in Nat /\ \A i \in 1 .. n : ss[i] \in Seq(S)
  BY SMT
<1>2. 0 \notin Bad
  <2>1. Concatenates([i \in 0 .. 0 |-> <<>>], ss, 0, S)
    BY SMT DEF Concatenates
  <2>2. QED
    BY <2>1
<1>3. ASSUME NEW m \in 1 .. n, m - 1 \notin Bad
      PROVE  m \notin Bad
  <2>1. m - 1 \in 0 .. n
    BY SMT
  <2>2. PICK f : Concatenates(f, ss, m - 1, S)
    BY <1>3, <2>1
  <2> DEFINE last == f[m - 1] \o ss[m]
             g == [i \in 0 .. m |-> IF i = m THEN last ELSE f[i]]
  <2>3. f \in [0 .. m - 1 -> Seq(S)] /\ f[0] = <<>>
    BY <2>2 DEF Concatenates
  <2>4. last \in Seq(S)
    <3>1. f[m - 1] \in Seq(S) /\ ss[m] \in Seq(S)
      BY <1>1, <2>3, SMT
    <3>2. QED
      BY <3>1, SMT
  <2> HIDE DEF last
  <2>5. \A i \in 0 .. m : i # m => i \in 0 .. m - 1
    BY SMT
  <2>6. g \in [0 .. m -> Seq(S)] /\ g[0] = <<>>
    BY <2>3, <2>4, <2>5, SMT
  <2>7. ASSUME NEW i \in 1 .. m
        PROVE  g[i] = g[i - 1] \o ss[i]
    <3>1. i \in 0 .. m /\ i - 1 \in 0 .. m /\ i - 1 # m
      BY SMT
    <3>2. g[i - 1] = f[i - 1]
      BY <3>1
    <3>3. CASE i = m
      <4>1. g[i] = f[i - 1] \o ss[i]
        BY <3>1, <3>3 DEF last
      <4>2. QED
        BY <3>2, <4>1
    <3>4. CASE i # m
      <4>1. i \in 1 .. m - 1 /\ g[i] = f[i]
        BY <3>1, <3>4, SMT
      <4>2. f[i] = f[i - 1] \o ss[i]
        BY <2>2, <4>1 DEF Concatenates
      <4>3. QED
        BY <3>2, <4>1, <4>2
    <3>5. QED
      BY <3>3, <3>4
  <2> HIDE DEF g
  <2>8. Concatenates(g, ss, m, S)
    BY <2>6, <2>7 DEF Concatenates
  <2>9. QED
    BY <2>8
<1>4. Bad = {}
  <2>1. SUFFICES ASSUME Bad # {} PROVE FALSE
    BY SMT
  <2>2. Bad \in SUBSET Nat
    BY SMT
  <2>3. PICK m \in Bad : \A k \in Bad : m <= k
    <3> HIDE DEF Bad
    <3>1. QED
      BY <2>1, <2>2, LeastNumber
  <2>4. m \in 0 .. n
    BY <2>3, SMT
  <2> HIDE DEF Bad
  <2>5. m \in 1 .. n /\ m - 1 \notin Bad
    BY <1>2, <2>2, <2>3, <2>4, SMT
  <2>6. QED
    BY <1>3, <2>3, <2>5
<1>5. n \in 0 .. n
  BY SMT
<1>6. QED
  BY <1>4, <1>5

\* Concat is the last value of such a function.
LEMMA ConcatUnfolds ==
  ASSUME NEW S, NEW ss \in Seq(Seq(S))
  PROVE  \E f : Concatenates(f, ss, Len(ss), S) /\ Concat(ss) = f[Len(ss)]
<1> DEFINE n == Len(ss)
           Is(f) == f = [i \in 0 .. n |-> IF i = 0 THEN <<>> ELSE f[i - 1] \o ss[i]]
           upTo == CHOOSE f : Is(f)
<1>1. n \in Nat
  BY SMT
<1>2. PICK h : Concatenates(h, ss, n, S)
  <2>1. Len(ss) \in Nat /\ Len(ss) <= Len(ss)
    BY SMT
  <2>2. QED
    BY <2>1, ConcatenatesExists
<1>3. Concat(ss) = upTo[n]
  BY <1>1 DEF Concat
<1> HIDE DEF n
<1>4. \A i \in 0 .. n : i # 0 => i \in 1 .. n
  BY <1>1, SMT
<1>5. Is(h)
  <2>1. h \in [0 .. n -> Seq(S)] /\ h[0] = <<>>
    BY <1>1, <1>2 DEF Concatenates
  <2>2. \A i \in 0 .. n : i # 0 => h[i] = h[i - 1] \o ss[i]
    BY <1>2, <1>4 DEF Concatenates
  <2>3. \A i \in 0 .. n : h[i] = IF i = 0 THEN <<>> ELSE h[i - 1] \o ss[i]
    BY <2>1, <2>2
  <2>4. QED
    BY <2>1, <2>3
<1>6. Is(upTo)
  <2> HIDE DEF Is
  <2>1. QED
    BY <1>5
<1> HIDE DEF upTo
<1>7. /\ upTo = [i \in 0 .. n |-> upTo[i]] /\ upTo[0] = <<>>
      /\ \A i \in 1 .. n : upTo[i] = upTo[i - 1] \o ss[i]
  <2>1. \A i \in 0 .. n : upTo[i] = IF i = 0 THEN <<>> ELSE upTo[i - 1] \o ss[i]
    BY <1>6
  <2>2. 0 \in 0 .. n /\ \A i \in 1 .. n : i \in 0 .. n /\ i # 0
    BY <1>1, SMT
  <2>3. upTo = [i \in 0 .. n |-> upTo[i]]
    BY <1>6
  <2>4. QED
    BY <2>1, <2>2, <2>3
<1> HIDE DEF Is
<1> DEFINE Bad == {i \in 0 .. n : upTo[i] # h[i]}
<1>8. Bad = {}
  <2>1. SUFFICES ASSUME Bad # {} PROVE FALSE
    BY SMT
  <2>2. Bad \in SUBSET Nat
    BY <1>1, SMT
  <2>3. PICK m \in Bad : \A k \in Bad : m <= k
    <3> HIDE DEF Bad
    <3>1. QED
      BY <2>1, <2>2, LeastNumber
  <2>4. m \in 0 .. n /\ upTo[m] # h[m]
    BY <2>3
  <2>5. m # 0
    BY <1>2, <1>7, <2>4 DEF Concatenates
  <2>6. m \in 1 .. n /\ m - 1 \in 0 .. n /\ m - 1 \notin Bad
    <3> HIDE DEF Bad
    <3>1. QED
      BY <2>3, <2>4, <2>5, <1>1, SMT
  <2>7. upTo[m - 1] = h[m - 1]
    BY <2>6
  <2>8. QED
    BY <1>2, <1>7, <2>4, <2>6, <2>7 DEF Concatenates
<1>9. upTo = h
  <2>1. h = [i \in 0 .. n |-> h[i]]
    BY <1>2 DEF Concatenates
  <2>2. \A i \in 0 .. n : upTo[i] = h[i]
    BY <1>8
  <2>3. QED
    BY <1>7, <2>1, <2>2
<1>10. QED
  BY <1>2, <1>3, <1>9 DEF n

\* Concat returns a sequence.
LEMMA ConcatType ==
  ASSUME NEW S, NEW ss \in Seq(Seq(S))
  PROVE  Concat(ss) \in Seq(S)
<1>1. PICK f : Concatenates(f, ss, Len(ss), S) /\ Concat(ss) = f[Len(ss)]
  BY ConcatUnfolds
<1>2. Len(ss) \in 0 .. Len(ss)
  BY SMT
<1>3. QED
  BY <1>1, <1>2 DEF Concatenates

\* x is an element of s.
Has(s, x) == \E k \in 1 .. Len(s) : s[k] = x

LEMMA HasJoined ==
  ASSUME NEW S, NEW s \in Seq(S), NEW t \in Seq(S), NEW x
  PROVE  Has(s \o t, x) <=> Has(s, x) \/ Has(t, x)
<1>1. /\ Len(s) \in Nat /\ Len(t) \in Nat /\ Len(s \o t) = Len(s) + Len(t)
      /\ \A k \in 1 .. Len(s) : k \in 1 .. Len(s \o t) /\ (s \o t)[k] = s[k]
      /\ \A k \in 1 .. Len(t) : /\ Len(s) + k \in 1 .. Len(s \o t)
                                /\ (s \o t)[Len(s) + k] = t[k]
  BY SMT
<1>2. \A k \in 1 .. Len(s \o t) :
        \/ k \in 1 .. Len(s)
        \/ k - Len(s) \in 1 .. Len(t) /\ Len(s) + (k - Len(s)) = k
  BY <1>1, SMT
<1>3. ASSUME NEW k \in 1 .. Len(s \o t), (s \o t)[k] = x
      PROVE  Has(s, x) \/ Has(t, x)
  <2>1. CASE k \in 1 .. Len(s)
    BY <1>1, <1>3, <2>1 DEF Has
  <2>2. CASE k - Len(s) \in 1 .. Len(t) /\ Len(s) + (k - Len(s)) = k
    <3>1. (s \o t)[Len(s) + (k - Len(s))] = t[k - Len(s)]
      BY <1>1, <2>2
    <3>2. t[k - Len(s)] = x
      BY <1>3, <2>2, <3>1
    <3>3. QED
      BY <2>2, <3>2 DEF Has
  <2>3. QED
    BY <1>2, <2>1, <2>2
<1>4. Has(s, x) \/ Has(t, x) => Has(s \o t, x)
  BY <1>1 DEF Has
<1>5. QED
  BY <1>3, <1>4 DEF Has

\* The elements of Concat(ss) are those of its sequences.
LEMMA ConcatElements ==
  ASSUME NEW S, NEW ss \in Seq(Seq(S)), NEW x
  PROVE  Has(Concat(ss), x) <=> \E i \in 1 .. Len(ss) : Has(ss[i], x)
<1> DEFINE n == Len(ss)
<1>1. PICK f : Concatenates(f, ss, n, S) /\ Concat(ss) = f[n]
  BY ConcatUnfolds
<1>2. n \in Nat /\ n \in 0 .. n /\ \A i \in 1 .. n : ss[i] \in Seq(S) /\ i - 1 \in 0 .. n
  BY SMT
<1> DEFINE Right(i) == Has(f[i], x) <=> \E j \in 1 .. i : Has(ss[j], x)
           Bad == {i \in 0 .. n : ~Right(i)}
<1>3. Right(0)
  <2>1. Len(<<>>) = 0 /\ 1 .. 0 = {}
    BY SMT
  <2>2. f[0] = <<>>
    BY <1>1 DEF Concatenates
  <2>3. QED
    BY <2>1, <2>2 DEF Has
<1>4. ASSUME NEW i \in 1 .. n, Right(i - 1)
      PROVE  Right(i)
  <2>1. f[i] = f[i - 1] \o ss[i] /\ f[i - 1] \in Seq(S) /\ ss[i] \in Seq(S)
    BY <1>1, <1>2 DEF Concatenates
  <2>2. Has(f[i], x) <=> Has(f[i - 1], x) \/ Has(ss[i], x)
    <3>1. \A a, b \in Seq(S) : Has(a \o b, x) <=> Has(a, x) \/ Has(b, x)
      BY HasJoined, SMT
    <3>2. QED
      BY <2>1, <3>1, SMT
  <2>3. /\ \A j \in 1 .. i : j \in 1 .. i - 1 \/ j = i
        /\ \A j \in 1 .. i - 1 : j \in 1 .. i
        /\ i \in 1 .. i
    BY SMT
  <2>4. (\E j \in 1 .. i : Has(ss[j], x)) <=>
          (\E j \in 1 .. i - 1 : Has(ss[j], x)) \/ Has(ss[i], x)
    BY <2>3
  <2>5. QED
    BY <1>4, <2>2, <2>4
<1> HIDE DEF n, Right
<1>5. Bad = {}
  <2>1. SUFFICES ASSUME Bad # {} PROVE FALSE
    BY SMT
  <2>2. Bad \in SUBSET Nat
    BY <1>2, SMT
  <2>3. PICK m \in Bad : \A k \in Bad : m <= k
    <3> HIDE DEF Bad
    <3>1. QED
      BY <2>1, <2>2, LeastNumber
  <2>4. m \in 0 .. n /\ ~Right(m)
    BY <2>3
  <2>5. m # 0
    BY <1>3, <2>4
  <2>6. m \in 1 .. n /\ m - 1 \in 0 .. n /\ m - 1 \notin Bad
    <3> HIDE DEF Bad
    <3>1. QED
      BY <2>3, <2>4, <2>5, <1>2, SMT
  <2>7. QED
    BY <1>4, <2>4, <2>6
<1>6. Right(n)
  BY <1>2, <1>5
<1>7. QED
  BY <1>1, <1>6 DEF Right, n

\* Sequences of one element each are strung together to the sequence of these.
LEMMA ConcatSingles ==
  ASSUME NEW S, NEW s \in Seq(S)
  PROVE  Concat([i \in 1 .. Len(s) |-> <<s[i]>>]) = s
<1> DEFINE n == Len(s)
           ss == [i \in 1 .. n |-> <<s[i]>>]
<1>1. n \in Nat /\ n \in 0 .. n /\ \A i \in 1 .. n : s[i] \in S /\ i - 1 \in 0 .. n
  BY SMT
<1>2. ss \in Seq(Seq(S)) /\ Len(ss) = n
  BY SMT
<1>3. \A i \in 1 .. n : ss[i] = <<s[i]>>
  OBVIOUS
<1> HIDE DEF ss
<1>4. PICK f : Concatenates(f, ss, n, S) /\ Concat(ss) = f[n]
  <2>1. \E f : Concatenates(f, ss, Len(ss), S) /\ Concat(ss) = f[Len(ss)]
    BY <1>2, ConcatUnfolds
  <2>2. QED
    BY <1>2, <2>1
<1> DEFINE Right(i) == Len(f[i]) = i /\ \A k \in 1 .. i : f[i][k] = s[k]
           Bad == {i \in 0 .. n : ~Right(i)}
<1>5. Right(0)
  <2>1. f[0] = <<>>
    BY <1>4 DEF Concatenates
  <2>2. QED
    BY <2>1, SMT
<1>6. ASSUME NEW i \in 1 .. n, Right(i - 1)
      PROVE  Right(i)
  <2>1. f[i] = f[i - 1] \o <<s[i]>> /\ f[i - 1] \in Seq(S) /\ s[i] \in S
    BY <1>1, <1>3, <1>4 DEF Concatenates
  <2> DEFINE g == f[i - 1]
  <2>2. g \in Seq(S) /\ Len(g) = i - 1 /\ \A k \in 1 .. i - 1 : g[k] = s[k]
    BY <1>6, <2>1
  <2>3. f[i] = g \o <<s[i]>>
    BY <2>1
  <2> HIDE DEF g
  <2>4. Len(g \o <<s[i]>>) = i
    BY <2>1, <2>2, SMT
  <2>5. \A k \in 1 .. i : (g \o <<s[i]>>)[k] = s[k]
    <3>1. \A k \in 1 .. i : k \in 1 .. i - 1 \/ k = i
      BY SMT
    <3>2. \A k \in 1 .. i - 1 : (g \o <<s[i]>>)[k] = g[k]
      BY <2>1, <2>2, SMT
    <3>3. (g \o <<s[i]>>)[i] = s[i]
      BY <2>1, <2>2, SMT
    <3>4. QED
      BY <2>2, <3>1, <3>2, <3>3
  <2>6. QED
    BY <2>3, <2>4, <2>5
<1> HIDE DEF n, Right
<1>7. Bad = {}
  <2>1. SUFFICES ASSUME Bad # {} PROVE FALSE
    BY SMT
  <2>2. Bad \in SUBSET Nat
    BY <1>1, SMT
  <2>3. PICK m \in Bad : \A k \in Bad : m <= k
    <3> HIDE DEF Bad
    <3>1. QED
      BY <2>1, <2>2, LeastNumber
  <2>4. m \in 0 .. n /\ ~Right(m)
    BY <2>3
  <2>5. m # 0
    BY <1>5, <2>4
  <2>6. m \in 1 .. n /\ m - 1 \in 0 .. n /\ m - 1 \notin Bad
    <3> HIDE DEF Bad
    <3>1. QED
      BY <2>3, <2>4, <2>5, <1>1, SMT
  <2>7. QED
    BY <1>6, <2>4, <2>6
<1>8. Right(n)
  BY <1>1, <1>7
<1>9. Concat(ss) \in Seq(S) /\ Len(Concat(ss)) = n /\ \A k \in 1 .. n : Concat(ss)[k] = s[k]
  <2>1. Concat(ss) \in Seq(S)
    BY <1>2, ConcatType
  <2>2. QED
    BY <1>4, <1>8, <2>1 DEF Right
<1>10. Concat(ss) = s
  BY <1>1, <1>9, SMT DEF n
<1>11. QED
  BY <1>10 DEF ss, n

\* A sequence with one element replaced, or with all of them.
LEMMA SeqReplaced ==
  ASSUME NEW S, NEW s \in Seq(S)
  PROVE  /\ \A i \in 1 .. Len(s), x \in S : /\ [s EXCEPT ![i] = x] \in Seq(S)
                                            /\ Len([s EXCEPT ![i] = x]) = Len(s)
         /\ \A f \in [1 .. Len(s) -> S] : f \in Seq(S) /\ Len(f) = Len(s)
<1>1. \A f \in [1 .. Len(s) -> S] : f \in Seq(S) /\ Len(f) = Len(s)
  BY SMT
<1>2. \A i \in 1 .. Len(s), x \in S : [s EXCEPT ![i] = x] \in [1 .. Len(s) -> S]
  BY SMT
<1>3. QED
  BY <1>1, <1>2

\* k counts the elements of S.
Counts(k, S) ==
  /\ k \in Nat
  /\ \E f \in [1 .. k -> S] : /\ \A i, j \in 1 .. k : f[i] = f[j] => i = j
                              /\ \A x \in S : \E i \in 1 .. k : f[i] = x

\* One more element, one less, and none.
LEMMA CountsMore ==
  ASSUME NEW k, NEW S, Counts(k, S), NEW x, x \notin S
  PROVE  Counts(k + 1, S \cup {x})
<1>1. k \in Nat
  BY DEF Counts
<1>2. PICK f \in [1 .. k -> S] : /\ \A i, j \in 1 .. k : f[i] = f[j] => i = j
                                 /\ \A y \in S : \E i \in 1 .. k : f[i] = y
  BY DEF Counts
<1> DEFINE g == [i \in 1 .. k + 1 |-> IF i = k + 1 THEN x ELSE f[i]]
<1>3. \A i \in 1 .. k + 1 : i = k + 1 \/ i \in 1 .. k
  BY <1>1, SMT
<1>4. g \in [1 .. k + 1 -> S \cup {x}]
  BY <1>2, <1>3
<1>5. g[k + 1] = x /\ \A i \in 1 .. k : i \in 1 .. k + 1 /\ i # k + 1 /\ g[i] = f[i]
  BY <1>1, SMT
<1> HIDE DEF g
<1>6. \A i \in 1 .. k : g[i] # x
  BY <1>2, <1>5
<1>7. \A i, j \in 1 .. k + 1 : g[i] = g[j] => i = j
  BY <1>2, <1>3, <1>5, <1>6
<1>8. \A y \in S \cup {x} : \E i \in 1 .. k + 1 : g[i] = y
  <2>1. k + 1 \in 1 .. k + 1
    BY <1>1, SMT
  <2>2. QED
    BY <1>2, <1>5, <2>1
<1>9. k + 1 \in Nat
  BY <1>1, SMT
<1>10. QED
  BY <1>4, <1>7, <1>8, <1>9 DEF Counts

LEMMA CountsLess ==
  ASSUME NEW k, NEW S, Counts(k, S), NEW x \in S
  PROVE  Counts(k - 1, S \ {x})
<1>1. k \in Nat
  BY DEF Counts
<1>2. PICK f \in [1 .. k -> S] : /\ \A i, j \in 1 .. k : f[i] = f[j] => i = j
                                 /\ \A y \in S : \E i \in 1 .. k : f[i] = y
  BY DEF Counts
<1>3. PICK n \in 1 .. k : f[n] = x
  BY <1>2
<1> DEFINE g == [i \in 1 .. k - 1 |-> IF i = n THEN f[k] ELSE f[i]]
<1>4. k \in 1 .. k /\ k - 1 \in Nat /\ k \notin 1 .. k - 1
  BY <1>1, SMT
<1>5. \A i \in 1 .. k - 1 : i \in 1 .. k /\ i # k
  BY <1>1, SMT
<1>6. \A i \in 1 .. k : i = k \/ i \in 1 .. k - 1
  BY <1>1, SMT
<1>7. \A i \in 1 .. k - 1 : g[i] = IF i = n THEN f[k] ELSE f[i]
  BY SMT
<1>8. \A i \in 1 .. k - 1 : g[i] \in S \ {x}
  BY <1>2, <1>3, <1>4, <1>5, <1>7
<1>9. g \in [1 .. k - 1 -> S \ {x}]
  BY <1>8
<1> HIDE DEF g
<1>10. ASSUME NEW i \in 1 .. k - 1, NEW j \in 1 .. k - 1, g[i] = g[j]
       PROVE  i = j
  <2>1. i \in 1 .. k /\ j \in 1 .. k /\ i # k /\ j # k
    BY <1>5, SMT
  <2>2. CASE i = n
    BY <1>2, <1>4, <1>7, <1>10, <2>1, <2>2
  <2>3. CASE i # n
    BY <1>2, <1>4, <1>7, <1>10, <2>1, <2>3
  <2>4. QED
    BY <2>2, <2>3, SMT
<1>11. ASSUME NEW y \in S \ {x}
       PROVE  \E i \in 1 .. k - 1 : g[i] = y
  <2>1. PICK i \in 1 .. k : f[i] = y
    BY <1>2
  <2>2. i # n
    BY <1>3, <2>1, SMT
  <2>3. CASE i = k
    <3>1. n \in 1 .. k - 1
      BY <1>6, <2>2, <2>3
    <3>2. QED
      BY <1>7, <2>1, <2>3, <3>1
  <2>4. CASE i # k
    BY <1>6, <1>7, <2>1, <2>2, <2>4
  <2>5. QED
    BY <2>3, <2>4
<1>12. QED
  BY <1>4, <1>9, <1>10, <1>11 DEF Counts

LEMMA CountsNone ==
  ASSUME NEW k, NEW S, Counts(k, S)
  PROVE  k \in Nat /\ (k > 0 <=> S # {})
<1>1. k \in Nat
  BY DEF Counts
<1>2. PICK f \in [1 .. k -> S] : \A x \in S : \E i \in 1 .. k : f[i] = x
  BY DEF Counts
<1>3. k > 0 => 1 \in 1 .. k
  BY <1>1, SMT
<1>4. k = 0 => 1 .. k = {}
  BY <1>1, SMT
<1>5. k > 0 => S # {}
  BY <1>2, <1>3
<1>6. k = 0 => S = {}
  BY <1>2, <1>4
<1>7. QED
  BY <1>1, <1>5, <1>6, SMT

LEMMA CountsEmpty == Counts(0, {})
<1>1. [i \in 1 .. 0 |-> 0] \in [1 .. 0 -> {}] /\ 1 .. 0 = {}
  BY SMT
<1>2. QED
  BY <1>1 DEF Counts

\* The version that an edit makes: a version, with its tables in their places
\* if the edit drops none.
LEMMA EditType ==
  ASSUME NEW v \in Version, NEW e, e.add \in Seq(SUBSET Entry), e.below \in SUBSET Entry
  PROVE  /\ ApplyEdit(v, e) \in Version
         /\ e.drop = {} => ApplyEdit(v, e).level0 = v.level0 \o e.add
<1> DEFINE T == SUBSET Entry
           kept == [i \in DOMAIN v.level0 |-> IF i \in e.drop THEN <<>> ELSE <<v.level0[i]>>]
<1>1. v.level0 \in Seq(T) /\ DOMAIN v.level0 = 1 .. Len(v.level0) /\ v.below \in T
  BY SMT DEF Version
<1>2. Len(v.level0) \in Nat /\ \A i \in 1 .. Len(v.level0) : kept[i] \in Seq(T)
  <2> HIDE DEF T
  <2>1. Len(v.level0) \in Nat /\ \A i \in 1 .. Len(v.level0) : v.level0[i] \in T
    BY <1>1, SMT
  <2>2. <<>> \in Seq(T) /\ \A x \in T : <<x>> \in Seq(T)
    BY SMT
  <2>3. QED
    BY <1>1, <2>1, <2>2
<1>3. kept \in Seq(Seq(T))
  <2>1. kept \in [1 .. Len(v.level0) -> Seq(T)]
    BY <1>1, <1>2
  <2> HIDE DEF kept
  <2>2. QED
    BY <1>2, <2>1, SMT
<1>4. ApplyEdit(v, e) = [level0 |-> Concat(kept) \o e.add,
                         below |-> (v.below \ e.old) \cup e.below]
  BY DEF ApplyEdit
<1>5. Concat(kept) \in Seq(T)
  <2> HIDE DEF kept
  <2>1. QED
    BY <1>3, ConcatType
<1>6. ASSUME e.drop = {}
      PROVE  Concat(kept) = v.level0
  <2>1. kept = [i \in 1 .. Len(v.level0) |-> <<v.level0[i]>>]
    BY <1>1, <1>6
  <2>2. QED
    BY <1>1, <2>1, ConcatSingles
<1> HIDE DEF kept
<1>7. Concat(kept) \o e.add \in Seq(T)
  BY <1>5, SMT
<1>8. (v.below \ e.old) \cup e.below \in T
  BY <1>1, SMT
<1> DEFINE l == Concat(kept) \o e.add
           b == (v.below \ e.old) \cup e.below
<1>9. ApplyEdit(v, e) = [level0 |-> l, below |-> b] /\ l \in Seq(T) /\ b \in T
  BY <1>4, <1>7, <1>8
<1>10. e.drop = {} => l = v.level0 \o e.add
  BY <1>6
<1> HIDE DEF l, b
<1>11. ApplyEdit(v, e) \in Version
  BY <1>9, SMT DEF Version
<1>12. ApplyEdit(v, e).level0 = l
  BY <1>9, SMT
<1>13. QED
  BY <1>10, <1>11, <1>12

\* The entries of some tables of level 0 with those below, and what a
\* compaction keeps of them.
LEMMA InputsType ==
  ASSUME NEW v \in Version, NEW S \in SUBSET (1 .. Len(v.level0))
  PROVE  /\ InputEntries(v, S) \in SUBSET Entry /\ Below(v, S) \in SUBSET Entry
         /\ \A n : Kept(InputEntries(v, S) \cup Below(v, S), n) \in SUBSET Entry
<1>1. v.level0 \in Seq(SUBSET Entry) /\ v.below \in SUBSET Entry
  BY SMT DEF Version
<1>2. \A i \in S : v.level0[i] \in SUBSET Entry
  BY <1>1, SMT
<1>3. InputEntries(v, S) \in SUBSET Entry
  BY <1>2, SMT DEF InputEntries
<1>4. Below(v, S) \in SUBSET Entry
  BY <1>1, SMT DEF Below
<1>5. \A s \in SUBSET Entry : \A n : Kept(s, n) \in SUBSET Entry
  BY SMT DEF Kept
<1>6. QED
  BY <1>3, <1>4, <1>5, SMT

\* Two views of one reader differ in what does not matter to a lookup.
SameView(v, w) == w.mem = v.mem /\ w.imm = v.imm /\ w.version = v.version /\ w.seq = v.seq

\* One operation of a WriteBatch, before it has a sequence number.
Update == [key : Keys, val : Values \cup {Deleted}]

\* What a sequence of entries holds.
LEMMA RangeHas ==
  ASSUME NEW s \in Seq(Entry)
  PROVE  /\ \A x : x \in Range(s) <=> \E i \in 1 .. Len(s) : x = s[i]
         /\ Range(s) \subseteq Entry
<1>1. DOMAIN s = 1 .. Len(s) /\ \A i \in 1 .. Len(s) : s[i] \in Entry
  BY SMT
<1>2. QED
  BY <1>1 DEF Range

\* The entries u are those of the batch b, in its order.
Matches(u, b) == Len(u) = Len(b) /\ \A i \in 1 .. Len(u) : u[i].key = b[i].key /\ u[i].val = b[i].val

-----------------------------------------------------------------------------
(* The queue of writers, the groups, the versions and the memtables.        *)

\* The group is the first part of the queue.
GroupInFront ==
  /\ group = [members |-> group.members, updates |-> group.updates,
              todo |-> group.todo, ok |-> group.ok]
  /\ group.members \in Seq(Threads)
  /\ Len(group.members) <= Len(writers_)
  /\ \A i \in 1 .. Len(group.members) : group.members[i] = writers_[i]

\* A writer past the wait is at the front, and one that waits and is not done
\* is in the queue: it cannot have been forgotten there by a leader's group.
QueueInv ==
  /\ writers_ \in Seq(Threads)
  /\ pc \in [Threads -> Labels]
  /\ GroupInFront
  /\ \A t \in Threads : pc[t] \in Leading => writers_ # <<>> /\ writers_[1] = t
  /\ \A t \in Threads : pc[t] = "w.wait" /\ t \notin done =>
       \E i \in 1 .. Len(writers_) : writers_[i] = t

\* BuildBatchGroup takes a first part of a queue that is not empty, and numbers
\* its entries after the last sequence number.
LEMMA GroupChosen ==
  ASSUME writers_ \in Seq(Threads), writers_ # <<>>, BuildBatchGroup
  PROVE  \E n \in 1 .. Len(writers_) :
           /\ \A i \in 2 .. n : Joins(i)
           /\ LET updates == [i \in 1 .. Len(Updates(n)) |->
                                [key |-> Updates(n)[i].key, val |-> Updates(n)[i].val,
                                 seq |-> lastSequence + i]]
              IN  group' = [members |-> SubSeq(writers_, 1, n), updates |-> updates,
                            todo |-> updates, ok |-> TRUE]
<1> DEFINE fits == {n \in 1 .. Len(writers_) : \A i \in 2 .. n : Joins(i)}
           last == CHOOSE n \in fits : \A m \in fits : m <= n
<1>1. Len(writers_) \in Nat /\ fits \in SUBSET (1 .. Len(writers_)) /\ 1 \in fits
  BY SMT
<1>2. last \in fits
  <2>1. \E n \in fits : \A m \in fits : m <= n
    <3> HIDE DEF fits
    <3>1. fits # {}
      BY <1>1, SMT
    <3>2. QED
      BY <1>1, <3>1, GreatestNumber
  <2>2. QED
    BY <2>1
<1>3. LET updates == [i \in 1 .. Len(Updates(last)) |->
                        [key |-> Updates(last)[i].key, val |-> Updates(last)[i].val,
                         seq |-> lastSequence + i]]
      IN  group' = [members |-> SubSeq(writers_, 1, last), updates |-> updates,
                    todo |-> updates, ok |-> TRUE]
  BY DEF BuildBatchGroup
<1>4. last \in 1 .. Len(writers_) /\ \A i \in 2 .. last : Joins(i)
  BY <1>2
<1> HIDE DEF last
<1>5. QED
  BY <1>3, <1>4

LEMMA GroupBuilt ==
  ASSUME writers_ \in Seq(Threads), writers_ # <<>>, BuildBatchGroup
  PROVE  /\ group' = [members |-> group'.members, updates |-> group'.updates,
                      todo |-> group'.todo, ok |-> group'.ok]
         /\ group'.members \in Seq(Threads)
         /\ Len(group'.members) >= 1 /\ Len(group'.members) <= Len(writers_)
         /\ \A i \in 1 .. Len(group'.members) : group'.members[i] = writers_[i]
<1>1. PICK n \in 1 .. Len(writers_) :
        LET updates == [i \in 1 .. Len(Updates(n)) |->
                          [key |-> Updates(n)[i].key, val |-> Updates(n)[i].val,
                           seq |-> lastSequence + i]]
        IN  group' = [members |-> SubSeq(writers_, 1, n), updates |-> updates,
                      todo |-> updates, ok |-> TRUE]
  BY GroupChosen
<1>2. /\ group'.members = SubSeq(writers_, 1, n)
      /\ group' = [members |-> group'.members, updates |-> group'.updates,
                   todo |-> group'.todo, ok |-> group'.ok]
  BY <1>1
<1>3. QED
  BY <1>2, SMT

\* Writers that leave the queue are the front one and its group.
LEMMA QueueLeft ==
  ASSUME QueueInv, NEW t \in Threads, pc[t] \in Leading, NEW members \in Seq(Threads),
         Len(members) <= Len(writers_),
         \A i \in 1 .. Len(members) : members[i] = writers_[i],
         LeaveQueue(t, members)
  PROVE  QueueInv'
<1> DEFINE n == Len(members)
           rest == SubSeq(writers_, n + 1, Len(writers_))
<1>1. /\ writers_' = rest /\ done' = done \cup (Range(members) \ {t})
      /\ group' = NoGroup /\ pc' = [pc EXCEPT ![t] = "idle"]
  BY SMT DEF LeaveQueue, Goto
<1>2. writers_ \in Seq(Threads) /\ n \in Nat /\ Len(writers_) \in Nat /\ n <= Len(writers_)
  BY SMT DEF QueueInv
<1>3. /\ rest \in Seq(Threads) /\ Len(rest) = Len(writers_) - n
      /\ \A i \in 1 .. Len(rest) : rest[i] = writers_[i + n]
  <2> HIDE DEF n
  <2>1. QED
    BY <1>2, SMT
<1>4. pc' \in [Threads -> Labels]
  BY <1>1, SMT DEF QueueInv, Labels
<1>5. GroupInFront'
  BY <1>1, <1>2, <1>3, SMT DEF GroupInFront, NoGroup
<1>6. \A u \in Threads : pc'[u] \notin Leading
  <2>1. \A u \in Threads : pc[u] \in Leading => u = t
    BY SMT DEF QueueInv
  <2>2. QED
    BY <2>1, <1>1, SMT DEF QueueInv, Leading, Writing
<1>7. ASSUME NEW u \in Threads, pc'[u] = "w.wait", u \notin done'
      PROVE  \E i \in 1 .. Len(rest) : rest[i] = u
  <2>1. pc[u] = "w.wait" /\ u # t
    BY <1>1, <1>7, SMT DEF QueueInv
  <2>2. u \notin done /\ u \notin Range(members)
    BY <2>1, <1>1, <1>7, SMT
  <2>3. PICK i \in 1 .. Len(writers_) : writers_[i] = u
    BY <2>1, <2>2, SMT DEF QueueInv
  <2>4. ~(i <= n)
    BY <2>2, <2>3, SMT DEF Range
  <2> HIDE DEF rest, n
  <2>5. i - n \in 1 .. Len(rest)
    BY <2>3, <2>4, <1>2, <1>3, SMT
  <2>6. rest[i - n] = u
    BY <2>3, <2>5, <1>2, <1>3, SMT
  <2>7. QED
    BY <2>5, <2>6, SMT
<1>8. QED
  BY <1>1, <1>3, <1>4, <1>5, <1>6, <1>7 DEF QueueInv

\* A step that leaves the queue and the group alone, and moves at most one
\* thread from one place of a leader to another, or between other places.
LEMMA QueueKept ==
  ASSUME QueueInv, UNCHANGED <<writers_, done, group>>, pc' \in [Threads -> Labels],
         \A u \in Threads : pc'[u] \in Leading => pc[u] \in Leading,
         \A u \in Threads : pc'[u] = "w.wait" => pc[u] = "w.wait"
  PROVE  QueueInv'
  BY SMT DEF QueueInv, GroupInFront

\* One step of Write.
LEMMA WriteKeepsQueue ==
  ASSUME QueueInv, NEW t \in Threads, NEW b \in Batches, NEW s \in Syncs, Write(t, b, s)
  PROVE  QueueInv'
<1>1. /\ writers_' = Append(writers_, t) /\ done' = done \ {t} /\ group' = group
      /\ pc[t] = "idle"
  BY SMT DEF Write
<1>2. /\ writers_ \in Seq(Threads) /\ writers_' \in Seq(Threads)
      /\ Len(writers_') = Len(writers_) + 1 /\ writers_'[Len(writers_) + 1] = t
      /\ \A i \in 1 .. Len(writers_) : writers_'[i] = writers_[i]
  BY <1>1, SMT DEF QueueInv
<1>3. GroupInFront'
  BY <1>1, <1>2, SMT DEF QueueInv, GroupInFront
<1>4. CASE writers_ = <<>>
  <2>1. pc' = [pc EXCEPT ![t] = "w.room"] /\ writers_'[1] = t
    BY <1>2, <1>4, SMT DEF Write, EnterMakeRoom, Goto
  <2>2. \A u \in Threads : pc[u] \notin Leading
    BY <1>4, SMT DEF QueueInv
  <2>3. pc' \in [Threads -> Labels]
    BY <2>1, SMT DEF QueueInv, Labels, Writing
  <2>4. \A u \in Threads : pc'[u] \in Leading => writers_' # <<>> /\ writers_'[1] = u
    BY <2>1, <2>2, <1>2, SMT DEF QueueInv
  <2>5. \A u \in Threads : pc'[u] = "w.wait" /\ u \notin done' =>
          pc[u] = "w.wait" /\ u \notin done
    BY <2>1, <1>1, SMT DEF QueueInv
  <2>6. QED
    BY <2>3, <2>4, <2>5, <1>2, <1>3, SMT DEF QueueInv
<1>5. CASE writers_ # <<>>
  <2>1. pc' = [pc EXCEPT ![t] = "w.wait"] /\ writers_'[1] = writers_[1]
    BY <1>2, <1>5, SMT DEF Write, Goto
  <2>2. pc' \in [Threads -> Labels]
    BY <2>1, SMT DEF QueueInv, Labels, Writing
  <2>3. \A u \in Threads : pc'[u] \in Leading => pc[u] \in Leading
    BY <2>1, SMT DEF QueueInv, Leading
  <2>4. \A u \in Threads : pc'[u] \in Leading => writers_' # <<>> /\ writers_'[1] = u
    BY <2>1, <2>3, <1>2, <1>5, SMT DEF QueueInv
  <2>5. \A u \in Threads : pc'[u] = "w.wait" /\ u \notin done' =>
          u = t \/ (pc[u] = "w.wait" /\ u \notin done)
    BY <2>1, <1>1, SMT DEF QueueInv
  <2>6. \E i \in 1 .. Len(writers_') : writers_'[i] = t
    BY <1>2, SMT
  <2>7. QED
    BY <2>2, <2>4, <2>5, <2>6, <1>2, <1>3, SMT DEF QueueInv
<1>6. QED
  BY <1>4, <1>5, SMT

\* One step of a writer in the queue.
LEMMA WriterKeepsQueue ==
  ASSUME QueueInv, NEW t \in Threads, WriterStep(t)
  PROVE  QueueInv'
<1> USE DEF Goto, Leading, Labels, Writing
<1>1. CASE WriterWakes(t)
  <2>1. UNCHANGED <<writers_, done, group>> /\ pc[t] = "w.wait"
    BY <1>1, SMT DEF WriterWakes, queue
  <2>2. CASE t \in done
    <3>1. pc' = [pc EXCEPT ![t] = "idle"]
      BY <1>1, <2>2, SMT DEF WriterWakes
    <3>2. QED
      BY <2>1, <3>1, QueueKept, SMT DEF QueueInv
  <2>3. CASE t \notin done /\ Head(writers_) = t
    <3>1. pc' = [pc EXCEPT ![t] = "w.room"]
      BY <1>1, <2>3, SMT DEF WriterWakes, EnterMakeRoom
    <3>2. writers_ # <<>> /\ writers_[1] = t
      BY <2>1, <2>3, SMT DEF QueueInv
    <3>3. QED
      BY <2>1, <3>1, <3>2 DEF QueueInv, GroupInFront
  <2>4. CASE t \notin done /\ Head(writers_) # t
    <3>1. pc' = pc
      BY <1>1, <2>4, SMT DEF WriterWakes
    <3>2. QED
      BY <2>1, <3>1, QueueKept, SMT DEF QueueInv
  <2>5. QED
    BY <2>2, <2>3, <2>4, SMT
<1>2. CASE RoomDelay(t) \/ DelayEnds(t) \/ RoomWait(t) \/ RoomWakes(t)
  <2>1. /\ UNCHANGED <<writers_, done, group>> /\ pc[t] \in Leading
        /\ \E l \in {"w.sleep", "w.room", "w.bgwait"} : pc' = [pc EXCEPT ![t] = l]
    BY <1>2, SMT DEF RoomDelay, DelayEnds, RoomWait, RoomWakes, InRoom, queue
  <2>2. QED
    BY <2>1, QueueKept, SMT DEF QueueInv
<1>3. CASE RoomFound(t)
  <2>1. pc[t] \in Leading /\ writers_ # <<>> /\ writers_[1] = t
    BY <1>3, SMT DEF RoomFound, InRoom, QueueInv
  <2>2. CASE IsNull(t)
    <3>1. LeaveQueue(t, <<t>>)
      BY <1>3, <2>2 DEF RoomFound
    <3>2. <<t>> \in Seq(Threads) /\ Len(<<t>>) = 1 /\ 1 <= Len(writers_)
          /\ \A i \in 1 .. 1 : <<t>>[i] = writers_[i]
      BY <2>1, SMT DEF QueueInv
    <3>3. QED
      BY <2>1, <3>1, <3>2, QueueLeft
  <2>3. CASE ~IsNull(t)
    <3>1. /\ BuildBatchGroup /\ UNCHANGED <<writers_, done>>
          /\ pc' = [pc EXCEPT ![t] = "w.log"]
      BY <1>3, <2>3, SMT DEF RoomFound
    <3>2. GroupInFront'
      BY <2>1, <3>1, GroupBuilt, SMT DEF GroupInFront, QueueInv
    <3>3. QED
      BY <2>1, <3>1, <3>2, SMT DEF QueueInv
  <2>4. QED
    BY <2>2, <2>3, SMT
<1>4. CASE SwitchMemTable(t)
  <2>1. UNCHANGED <<writers_, done, group, pc>>
    BY <1>4, SMT DEF SwitchMemTable, queue
  <2>2. QED
    BY <2>1, QueueKept, SMT DEF QueueInv
<1>5. CASE SwitchFails(t)
  <2>1. /\ LeaveQueue(t, <<t>>)
        /\ pc[t] \in Leading
    BY <1>5, SMT DEF SwitchFails, InRoom
  <2>2. <<t>> \in Seq(Threads) /\ Len(<<t>>) = 1 /\ 1 <= Len(writers_)
        /\ \A i \in 1 .. 1 : <<t>>[i] = writers_[i]
    BY <2>1, SMT DEF QueueInv
  <2>3. QED
    BY <2>1, <2>2, QueueLeft
<1>6. CASE AddRecord(t)
  <2>1. /\ UNCHANGED <<writers_, done, group>> /\ pc[t] \in Leading
        /\ pc' = [pc EXCEPT ![t] = "w.insert"]
    BY <1>6, SMT DEF AddRecord, queue
  <2>2. QED
    BY <2>1, QueueKept, SMT DEF QueueInv
<1>7. CASE AddRecordFails(t) \/ InsertInto(t)
  <2>1. /\ UNCHANGED <<writers_, done>> /\ pc[t] \in Leading
        /\ \E l \in {"w.insert", "w.finish"} : pc' = [pc EXCEPT ![t] = l]
    BY <1>7, SMT DEF AddRecordFails, InsertInto
  <2>2. /\ group'.members = group.members
        /\ group' = [members |-> group'.members, updates |-> group'.updates,
                     todo |-> group'.todo, ok |-> group'.ok]
    BY <1>7 DEF AddRecordFails, InsertInto, QueueInv, GroupInFront
  <2>3. QED
    BY <2>1, <2>2, SMT DEF QueueInv, GroupInFront
<1>8. CASE WriteEnds(t)
  <2>1. LeaveQueue(t, group.members) /\ pc[t] \in Leading
    BY <1>8, SMT DEF WriteEnds
  <2>2. QED
    BY <2>1, QueueLeft, SMT DEF QueueInv, GroupInFront
<1>9. QED
  BY <1>1, <1>2, <1>3, <1>4, <1>5, <1>6, <1>7, <1>8, SMT DEF WriterStep

\* The readers, the background thread and the destructor leave the queue alone,
\* and move no thread into or out of Write.
LEMMA OthersKeepQueue ==
  ASSUME QueueInv, NEW t \in Threads,
         \/ Get(t) \/ NewIterator(t) \/ RecordReadSample(t)
         \/ \E k \in Keys : IteratorReads(t, k)
         \/ ReaderStep(t) \/ Close(t) \/ CloseWakes(t)
  PROVE  QueueInv'
<1>1. /\ UNCHANGED <<writers_, done, group>>
      /\ \/ pc' = pc
         \/ \E l \in {"idle", "g.read", "g.end", "i.open", "c.wait", "closed"} :
              pc' = [pc EXCEPT ![t] = l]
  <2>1. CASE Get(t) \/ NewIterator(t)
    BY <2>1 DEF Get, NewIterator, StartReader, Goto, queue
  <2>2. CASE RecordReadSample(t) \/ \E k \in Keys : IteratorReads(t, k)
    BY <2>2, SMT DEF RecordReadSample, IteratorReads, Returns, queue
  <2>3. CASE ReaderStep(t)
    BY <2>3 DEF ReaderStep, GetReads, GetEnds, CleanupIteratorState, EndReader, Returns,
                Goto, queue
  <2>4. CASE Close(t) \/ CloseWakes(t)
    BY <2>4 DEF Close, CloseWakes, CloseFrame, FinishClose, Goto, queue
  <2>5. QED
    BY <2>1, <2>2, <2>3, <2>4, SMT
<1>2. QED
  BY <1>1, QueueKept, SMT DEF QueueInv, Leading, Labels, Writing

\* Nor does the background thread.
LEMMA BackgroundKeepsQueue ==
  ASSUME QueueInv, BackgroundStep
  PROVE  QueueInv'
<1>1. UNCHANGED <<writers_, done, group, pc>>
  <2>1. CASE BackgroundCall
    BY <2>1 DEF BackgroundCall, queue
  <2>2. CASE BuildTable \/ WorkMeetsImm \/ WorkEnds \/ WriteManifest \/ BackgroundFails
    BY <2>2 DEF BuildTable, WorkMeetsImm, WorkEnds, WriteManifest, BackgroundFails,
                BgQuiet, BgFrame, queue
  <2>3. CASE InstallVersion \/ BackgroundError \/ BackgroundRetries
    BY <2>3, SMT DEF InstallVersion, BackgroundError, BackgroundRetries, BgFrame, queue
  <2>4. QED
    BY <2>1, <2>2, <2>3, SMT DEF BackgroundStep
<1>2. QED
  BY <1>1, QueueKept, SMT DEF QueueInv

\* The queue is in order in every state.
LEMMA QueueAlways == Spec => []QueueInv
<1>1. Init => QueueInv
  <2>1. SUFFICES ASSUME Init PROVE QueueInv
    BY SMT
  <2>2. writers_ = <<>> /\ group = NoGroup /\ pc = [t \in Threads |-> "idle"]
    BY <2>1, SMT DEF Init
  <2>3. QED
    BY <2>2, SMT DEF QueueInv, GroupInFront, NoGroup, Leading, Labels, Writing
<1>2. QueueInv /\ [Next]_vars => QueueInv'
  <2>1. SUFFICES ASSUME QueueInv, [Next]_vars PROVE QueueInv'
    BY SMT
  <2>2. CASE UNCHANGED vars \/ Closed
    BY <2>1, <2>2, SMT DEF Closed, vars, queue, QueueInv, GroupInFront
  <2>3. ASSUME NEW t \in Threads, NEW b \in Batches, NEW s \in Syncs, Write(t, b, s)
        PROVE  QueueInv'
    BY <2>1, <2>3, WriteKeepsQueue, SMT
  <2>4. ASSUME NEW t \in Threads, WriterStep(t)
        PROVE  QueueInv'
    BY <2>1, <2>4, WriterKeepsQueue, SMT
  <2>5. ASSUME NEW t \in Threads,
               \/ Get(t) \/ NewIterator(t) \/ RecordReadSample(t)
               \/ \E k \in Keys : IteratorReads(t, k)
               \/ ReaderStep(t) \/ Close(t) \/ CloseWakes(t)
        PROVE  QueueInv'
    BY <2>1, <2>5, OthersKeepQueue
  <2>6. CASE BackgroundStep
    BY <2>1, <2>6, BackgroundKeepsQueue, SMT
  <2>7. QED
    BY <2>1, <2>2, <2>3, <2>4, <2>5, <2>6 DEF Next
<1> HIDE DEF QueueInv
<1>3. QED
  BY <1>1, <1>2, PTL DEF Spec

\* DBImpl::Write: mem_ and log_ are used without mutex_ by one thread only, the
\* writer at the front of the queue, whose group is the first part of it.
THEOREM LeaderIsAlone == Spec => []LoneLeader
<1>1. QueueInv => LoneLeader
  <2>1. SUFFICES ASSUME QueueInv PROVE LoneLeader
    BY SMT
  <2>2. group.members = SubSeq(writers_, 1, Len(group.members))
    BY <2>1, SMT DEF QueueInv, GroupInFront
  <2>3. \A t \in Threads : pc[t] \in Leading => writers_ # <<>> /\ Head(writers_) = t
    BY <2>1, SMT DEF QueueInv
  <2>4. QED
    BY <2>2, <2>3, SMT DEF LoneLeader
<1>2. QED
  BY <1>1, QueueAlways, PTL
------------------------------------------------------------------------------
\* The background thread at work has been scheduled, and stays so until its
\* call ends and looks for more work.
ScheduleInv ==
  /\ WorkScheduled
  /\ bg = [at |-> bg.at, inner |-> bg.inner, inputs |-> bg.inputs, smallest |-> bg.smallest]
  /\ bg.at # "idle" => scheduled

\* MaybeScheduleCompaction leaves nothing undone, whatever it is called with.
LEMMA MaybeScheduleDoes ==
  ASSUME NEW already, NEW imm, NEW c, MaybeSchedule(already, imm, c)
  PROVE  /\ (imm # 0 \/ NeedsCompaction(c)) /\ ~shutting_down_ => scheduled'
         /\ already => scheduled'
  BY DEF MaybeSchedule

\* A step without a say in the schedule.
LEMMA ScheduleKept ==
  ASSUME ScheduleInv, UNCHANGED <<imm_, current, scheduled>>,
         shutting_down_ => shutting_down_',
         bg' = [at |-> bg'.at, inner |-> bg'.inner, inputs |-> bg'.inputs,
                smallest |-> bg'.smallest],
         bg'.at # "idle" => scheduled
  PROVE  ScheduleInv'
  BY SMT DEF ScheduleInv, WorkScheduled, NeedsCompaction

\* The end of BackgroundCall looks for work in the state it leaves.
LEMMA EndsScheduled ==
  ASSUME ScheduleInv, BackgroundEnds(imm_', current'), UNCHANGED shutting_down_
  PROVE  ScheduleInv'
<1>1. MaybeSchedule(FALSE, imm_', current')
  BY DEF BackgroundEnds
<1>2. (imm_' # 0 \/ NeedsCompaction(current')) /\ ~shutting_down_ => scheduled'
  BY <1>1, MaybeScheduleDoes
<1>3. WorkScheduled'
  BY <1>2, SMT DEF WorkScheduled, NeedsCompaction
<1>4. /\ bg' = [at |-> bg'.at, inner |-> bg'.inner, inputs |-> bg'.inputs,
                smallest |-> bg'.smallest]
      /\ bg'.at = "idle"
  BY DEF BackgroundEnds, ScheduleInv
<1>5. QED
  BY <1>3, <1>4, SMT DEF ScheduleInv

\* One step of a writer.
LEMMA WriterKeepsSchedule ==
  ASSUME ScheduleInv, NEW t \in Threads,
         WriterStep(t) \/ \E b \in Batches, s \in Syncs : Write(t, b, s)
  PROVE  ScheduleInv'
<1>1. CASE SwitchMemTable(t)
  <2>1. MaybeSchedule(scheduled, imm_', current) /\ UNCHANGED <<bg, current, shutting_down_>>
    BY <1>1 DEF SwitchMemTable, WriterFrame, background
  <2>2. /\ (imm_' # 0 \/ NeedsCompaction(current)) /\ ~shutting_down_ => scheduled'
        /\ scheduled => scheduled'
    BY <2>1, MaybeScheduleDoes
  <2>3. QED
    BY <2>1, <2>2, SMT DEF ScheduleInv, WorkScheduled, NeedsCompaction
<1>2. CASE ~SwitchMemTable(t)
  <2>1. UNCHANGED <<imm_, current, scheduled, bg, shutting_down_>>
    <3>1. CASE \E b \in Batches, s \in Syncs : Write(t, b, s)
      BY <3>1, SMT DEF Write, WriterFrame, memory, background
    <3>2. CASE \/ WriterWakes(t) \/ RoomDelay(t) \/ DelayEnds(t) \/ RoomFound(t)
               \/ RoomWait(t) \/ RoomWakes(t) \/ SwitchFails(t)
      BY <3>2 DEF WriterWakes, RoomDelay, DelayEnds, RoomFound, RoomWait, RoomWakes,
                  SwitchFails, RoomFrame, WriterFrame, memory, background
    <3>3. CASE AddRecord(t) \/ AddRecordFails(t) \/ InsertInto(t) \/ WriteEnds(t)
      BY <3>3, SMT DEF AddRecord, AddRecordFails, InsertInto, WriteEnds, WriterFrame, memory,
                  background
    <3>4. QED
      BY <1>2, <3>1, <3>2, <3>3, SMT DEF WriterStep
  <2>2. QED
    BY <2>1, ScheduleKept, SMT DEF ScheduleInv
<1>3. QED
  BY <1>1, <1>2, SMT

\* One step of a reader or of the destructor: a seek charged to a table may
\* make work, and MaybeScheduleCompaction follows it.
LEMMA OthersKeepSchedule ==
  ASSUME ScheduleInv, NEW t \in Threads,
         \/ Get(t) \/ NewIterator(t) \/ RecordReadSample(t)
         \/ \E k \in Keys : IteratorReads(t, k)
         \/ ReaderStep(t) \/ Close(t) \/ CloseWakes(t)
  PROVE  ScheduleInv'
<1>1. CASE \/ Get(t) \/ NewIterator(t) \/ \E k \in Keys : IteratorReads(t, k)
           \/ \E k \in Keys : GetReads(t, k)
  <2>1. UNCHANGED <<imm_, current, scheduled, bg, shutting_down_>>
    BY <1>1 DEF Get, NewIterator, StartReader, IteratorReads, GetReads, Returns, memory,
                versions, background
  <2>2. QED
    BY <2>1, ScheduleKept, SMT DEF ScheduleInv
<1>2. CASE CleanupIteratorState(t)
  <2>1. UNCHANGED <<imm_, current, scheduled, bg, shutting_down_>>
    BY <1>2 DEF CleanupIteratorState, EndReader, background
  <2>2. QED
    BY <2>1, ScheduleKept, SMT DEF ScheduleInv
<1>3. CASE Close(t) \/ CloseWakes(t)
  <2>1. UNCHANGED <<imm_, current, scheduled, bg>> /\ (shutting_down_ => shutting_down_')
    BY <1>3, SMT DEF Close, CloseWakes, CloseFrame, versions, background
  <2>2. QED
    BY <2>1, ScheduleKept, SMT DEF ScheduleInv
<1>4. CASE RecordReadSample(t)
  <2>1. MaybeSchedule(scheduled, imm_, current') /\ UNCHANGED <<imm_, bg, shutting_down_>>
    BY <1>4 DEF RecordReadSample, memory, background
  <2>2. /\ (imm_ # 0 \/ NeedsCompaction(current')) /\ ~shutting_down_ => scheduled'
        /\ scheduled => scheduled'
    BY <2>1, MaybeScheduleDoes
  <2>3. QED
    BY <2>1, <2>2, SMT DEF ScheduleInv, WorkScheduled, NeedsCompaction
<1>5. ASSUME NEW exhausted \in BOOLEAN, GetEnds(t, exhausted)
      PROVE  ScheduleInv'
  <2>1. UNCHANGED <<imm_, bg, shutting_down_>>
    BY <1>5, SMT DEF GetEnds, EndReader, background
  <2>2. CASE exhausted
    <3>1. MaybeSchedule(scheduled, imm_, current')
      BY <1>5, <2>2 DEF GetEnds
    <3>2. /\ (imm_ # 0 \/ NeedsCompaction(current')) /\ ~shutting_down_ => scheduled'
          /\ scheduled => scheduled'
      BY <3>1, MaybeScheduleDoes
    <3>3. QED
      BY <2>1, <3>2, SMT DEF ScheduleInv, WorkScheduled, NeedsCompaction
  <2>3. CASE ~exhausted
    <3>1. scheduled' = scheduled
      BY <1>5, <2>3 DEF GetEnds
    <3>2. current' = [current EXCEPT !.seek = @ \/ (exhausted /\ view[t].isCurrent)]
      BY <1>5 DEF GetEnds
    <3>3. NeedsCompaction(current') => NeedsCompaction(current)
      BY <3>2, <2>3, SMT DEF NeedsCompaction
    <3>4. QED
      BY <2>1, <3>1, <3>3, SMT DEF ScheduleInv, WorkScheduled, NeedsCompaction
  <2>4. QED
    BY <2>2, <2>3, SMT
<1>6. QED
  BY <1>1, <1>2, <1>3, <1>4, <1>5 DEF ReaderStep

\* One step of the background thread.
LEMMA BackgroundKeepsSchedule ==
  ASSUME ScheduleInv, BackgroundStep
  PROVE  ScheduleInv'
<1> DEFINE BgRecord == bg' = [at |-> bg'.at, inner |-> bg'.inner, inputs |-> bg'.inputs,
                              smallest |-> bg'.smallest]
<1>1. CASE BackgroundCall
  <2>1. UNCHANGED <<imm_, current, shutting_down_>> /\ scheduled /\ bg.at = "idle"
    BY <1>1 DEF BackgroundCall, memory, versions
  <2>2. CASE BackgroundEnds(imm_, current)
    BY <2>1, <2>2, EndsScheduled, SMT
  <2>3. CASE ~BackgroundEnds(imm_, current)
    <3>1. scheduled' = scheduled /\ BgRecord
      BY <1>1, <2>3 DEF BackgroundCall, ScheduleInv
    <3>2. QED
      BY <2>1, <3>1, ScheduleKept, SMT
  <2>4. QED
    BY <2>2, <2>3, SMT
<1>2. CASE BuildTable \/ WorkMeetsImm \/ WorkEnds \/ WriteManifest \/ BackgroundFails
  <2>1. UNCHANGED <<imm_, current, scheduled, shutting_down_>>
    BY <1>2 DEF BuildTable, WorkMeetsImm, WorkEnds, WriteManifest, BackgroundFails, BgQuiet,
                BgFrame
  <2>2. BgRecord /\ bg.at # "idle"
    BY <1>2 DEF BuildTable, WorkMeetsImm, WorkEnds, WriteManifest, BackgroundFails, FaultAt,
                ScheduleInv
  <2>3. QED
    BY <2>1, <2>2, ScheduleKept, SMT DEF ScheduleInv
<1>3. CASE InstallVersion
  <2>1. shutting_down_' = shutting_down_ /\ bg.at = "install"
    BY <1>3, SMT DEF InstallVersion, BgFrame
  <2>2. CASE bg.inner
    <3>1. scheduled' = scheduled /\ BgRecord
      BY <1>3, <2>2, SMT DEF InstallVersion, BackToWork, ScheduleInv
    <3>2. QED
      BY <2>1, <3>1, SMT DEF ScheduleInv, WorkScheduled
  <2>3. CASE ~bg.inner
    <3>1. BackgroundEnds(imm_', current')
      BY <1>3, <2>3 DEF InstallVersion
    <3>2. QED
      BY <2>1, <3>1, EndsScheduled, SMT
  <2>4. QED
    BY <2>2, <2>3, SMT
<1>4. CASE BackgroundError
  <2>1. UNCHANGED <<imm_, current, shutting_down_>> /\ bg.at = "error"
    BY <1>4, SMT DEF BackgroundError, BgFrame
  <2>2. CASE BackgroundEnds(imm_, current)
    BY <2>1, <2>2, EndsScheduled, SMT
  <2>3. CASE ~BackgroundEnds(imm_, current)
    <3>1. scheduled' = scheduled /\ BgRecord
      BY <1>4, <2>3 DEF BackgroundError, BackToWork, ScheduleInv
    <3>2. QED
      BY <2>1, <3>1, ScheduleKept, SMT DEF ScheduleInv
  <2>4. QED
    BY <2>2, <2>3, SMT
<1>5. CASE BackgroundRetries
  <2>1. UNCHANGED <<imm_, current, shutting_down_>> /\ BackgroundEnds(imm_, current)
    BY <1>5, SMT DEF BackgroundRetries, BgFrame
  <2>2. QED
    BY <2>1, EndsScheduled, SMT
<1>6. QED
  BY <1>1, <1>2, <1>3, <1>4, <1>5, SMT DEF BackgroundStep

\* The schedule is in order in every state.
LEMMA ScheduleAlways == Spec => []ScheduleInv
<1>1. Init => ScheduleInv
  <2>1. SUFFICES ASSUME Init PROVE ScheduleInv
    OBVIOUS
  <2>2. /\ imm_ = 0 /\ current = [version |-> NoVersion, seek |-> FALSE]
        /\ bg = [at |-> "idle", inner |-> FALSE, inputs |-> {}, smallest |-> 0]
    BY <2>1 DEF Init
  <2>3. ~NeedsCompaction(current)
    <3>1. CompactTrigger \in Nat \ {0}
      BY WriteAssumption, SMT
    <3>2. QED
      BY <2>2, <3>1, SMT DEF NeedsCompaction, NoVersion
  <2>4. QED
    BY <2>2, <2>3, SMT DEF ScheduleInv, WorkScheduled
<1>2. ScheduleInv /\ [Next]_vars => ScheduleInv'
  <2>1. SUFFICES ASSUME ScheduleInv, [Next]_vars PROVE ScheduleInv'
    BY SMT
  <2>2. CASE UNCHANGED vars \/ Closed
    <3>1. UNCHANGED <<imm_, current, scheduled, bg, shutting_down_>>
      BY <2>2, SMT DEF Closed, vars, memory, versions, background
    <3>2. QED
      BY <2>1, <3>1, ScheduleKept, SMT DEF ScheduleInv
  <2>3. ASSUME NEW t \in Threads,
               WriterStep(t) \/ \E b \in Batches, s \in Syncs : Write(t, b, s)
        PROVE  ScheduleInv'
    BY <2>1, <2>3, WriterKeepsSchedule
  <2>4. ASSUME NEW t \in Threads,
               \/ Get(t) \/ NewIterator(t) \/ RecordReadSample(t)
               \/ \E k \in Keys : IteratorReads(t, k)
               \/ ReaderStep(t) \/ Close(t) \/ CloseWakes(t)
        PROVE  ScheduleInv'
    BY <2>1, <2>4, OthersKeepSchedule
  <2>5. CASE BackgroundStep
    BY <2>1, <2>5, BackgroundKeepsSchedule, SMT
  <2>6. QED
    BY <2>1, <2>2, <2>3, <2>4, <2>5 DEF Next
<1> HIDE DEF ScheduleInv
<1>3. QED
  BY <1>1, <1>2, PTL DEF Spec

\* MaybeScheduleCompaction: as long as the database is open, an immutable
\* memtable or a version that needs a compaction has a background call coming.
THEOREM WorkIsScheduled == Spec => []WorkScheduled
<1>1. ScheduleInv => WorkScheduled
  BY SMT DEF ScheduleInv
<1>2. QED
  BY <1>1, ScheduleAlways, PTL
------------------------------------------------------------------------------

\* Between BuildBatchGroup and the end of Write.
Grouped == {"w.log", "w.insert", "w.finish"}

\* A log, what is synced of it and a memtable have one number.
DataInv ==
  /\ lastSequence \in Nat /\ mem_ \in Nat \ {0} /\ imm_ \in {0, mem_ - 1}
  /\ log \in Seq(SUBSET Entry) /\ Len(log) = mem_
  /\ synced \in Seq(SUBSET Entry) /\ Len(synced) = mem_
  /\ table \in Seq(SUBSET Entry) /\ Len(table) = mem_
  /\ batch \in [Threads -> Seq(Update)]
  /\ group.updates \in Seq(Entry) /\ group.todo \in Seq(Entry)

\* The steps of a writer that change what is written.
WritesData(t) ==
  \/ \E b \in Batches, s \in Syncs : Write(t, b, s)
  \/ RoomFound(t) \/ SwitchMemTable(t) \/ SwitchFails(t)
  \/ AddRecord(t) \/ AddRecordFails(t) \/ InsertInto(t) \/ WriteEnds(t)

\* Every other step but the installation of a version leaves it alone, except
\* that a memtable may be freed.
Frees == table' = [m \in DOMAIN table |-> IF refs_'[m] = 0 THEN {} ELSE table[m]]
Quiet ==
  /\ UNCHANGED <<lastSequence, mem_, imm_, log, synced, logFiles, batch, sync, group, acked>>
  /\ table' = table \/ Frees
  /\ \A u \in Threads : pc[u] \in Grouped \/ pc'[u] \in Grouped => pc'[u] = pc[u]

LEMMA DataSteps ==
  ASSUME QueueInv, [Next]_vars
  PROVE  (\E t \in Threads : WritesData(t)) \/ InstallVersion \/ Quiet
<1>1. ASSUME NEW t \in Threads, NEW l, l \notin Grouped, pc[t] \notin Grouped,
             pc' = [pc EXCEPT ![t] = l]
      PROVE  \A u \in Threads : pc[u] \in Grouped \/ pc'[u] \in Grouped => pc'[u] = pc[u]
  BY <1>1 DEF QueueInv
<1>2. CASE UNCHANGED vars \/ Closed
  BY <1>2 DEF Closed, vars, memory, logs, versions, queue, Quiet
<1>3. ASSUME NEW t \in Threads,
             \/ WriterWakes(t) \/ RoomDelay(t) \/ DelayEnds(t) \/ RoomWait(t) \/ RoomWakes(t)
      PROVE  Quiet
  <2>1. /\ UNCHANGED <<lastSequence, mem_, imm_, log, synced, logFiles, batch, sync, group,
                       acked, table>>
    BY <1>3 DEF WriterWakes, RoomDelay, DelayEnds, RoomWait, RoomWakes, RoomFrame, memory,
         logs, queue
  <2>2. /\ pc[t] \notin Grouped
        /\ pc' = pc \/ \E l \in {"idle", "w.room", "w.sleep", "w.bgwait"} :
                         pc' = [pc EXCEPT ![t] = l]
    BY <1>3, SMT DEF WriterWakes, RoomDelay, DelayEnds, RoomWait, RoomWakes, InRoom, EnterMakeRoom,
         Goto, Grouped
  <2>3. \A l \in {"idle", "w.room", "w.sleep", "w.bgwait"} : l \notin Grouped
    BY SMT DEF Grouped
  <2>4. QED
    BY <1>1, <2>1, <2>2, <2>3 DEF Quiet
<1>4. ASSUME NEW t \in Threads,
             \/ Get(t) \/ NewIterator(t) \/ RecordReadSample(t)
             \/ \E k \in Keys : IteratorReads(t, k)
             \/ ReaderStep(t) \/ Close(t) \/ CloseWakes(t)
      PROVE  Quiet
  <2>1. UNCHANGED <<lastSequence, mem_, imm_, log, synced, logFiles, batch, sync, group, acked>>
    <3>1. CASE Get(t) \/ NewIterator(t) \/ RecordReadSample(t)
      BY <3>1 DEF Get, NewIterator, StartReader, RecordReadSample, memory, logs, versions,
           queue
    <3>2. CASE (\E k \in Keys : IteratorReads(t, k)) \/ ReaderStep(t)
      BY <3>2 DEF IteratorReads, ReaderStep, GetReads, GetEnds, CleanupIteratorState,
           EndReader, Returns, memory, logs, versions, queue
    <3>3. CASE Close(t) \/ CloseWakes(t)
      BY <3>3 DEF Close, CloseWakes, CloseFrame, logs, versions, queue
    <3>4. QED
      BY <1>4, <3>1, <3>2, <3>3
  <2>2. table' = table \/ Frees
    <3>1. CASE Get(t) \/ NewIterator(t) \/ RecordReadSample(t)
      BY <3>1 DEF Get, NewIterator, StartReader, RecordReadSample, memory
    <3>2. CASE (\E k \in Keys : IteratorReads(t, k)) \/ ReaderStep(t)
      BY <3>2 DEF IteratorReads, ReaderStep, GetReads, GetEnds, CleanupIteratorState,
           EndReader, Returns, Unref, Frees, memory
    <3>3. CASE Close(t) \/ CloseWakes(t)
      BY <3>3 DEF Close, CloseWakes, FinishClose, Unref, Frees
    <3>4. QED
      BY <1>4, <3>1, <3>2, <3>3
  <2>3. \/ pc' = pc
        \/ /\ pc[t] \in {"idle", "g.read", "g.end", "i.open", "c.wait"}
           /\ \E l \in {"idle", "g.read", "g.end", "i.open", "c.wait", "closed"} :
                pc' = [pc EXCEPT ![t] = l]
    <3>1. CASE Get(t) \/ NewIterator(t) \/ RecordReadSample(t)
      BY <3>1 DEF Get, NewIterator, StartReader, RecordReadSample, Goto
    <3>2. CASE (\E k \in Keys : IteratorReads(t, k)) \/ ReaderStep(t)
      BY <3>2 DEF IteratorReads, ReaderStep, GetReads, GetEnds, CleanupIteratorState,
           EndReader, Goto
    <3>3. CASE Close(t) \/ CloseWakes(t)
      BY <3>3 DEF Close, CloseWakes, FinishClose, Goto
    <3>4. QED
      BY <1>4, <3>1, <3>2, <3>3
  <2>4. \A l \in {"idle", "g.read", "g.end", "i.open", "c.wait", "closed"} : l \notin Grouped
    BY SMT DEF Grouped
  <2>5. QED
    BY <1>1, <2>1, <2>2, <2>3, <2>4 DEF Quiet
<1>5. CASE BackgroundStep /\ ~InstallVersion
  <2>1. UNCHANGED <<lastSequence, mem_, imm_, log, synced, logFiles, batch, sync, group, acked,
                    table, pc>>
    <3>1. CASE BackgroundCall
      BY <3>1 DEF BackgroundCall, memory, logs, versions, queue
    <3>2. CASE BuildTable \/ WorkMeetsImm \/ WorkEnds \/ WriteManifest \/ BackgroundFails
      BY <3>2 DEF BuildTable, WorkMeetsImm, WorkEnds, WriteManifest, BackgroundFails,
           BgQuiet, BgFrame, logs, queue
    <3>3. CASE BackgroundError \/ BackgroundRetries
      BY <3>3 DEF BackgroundError, BackgroundRetries, BgFrame, logs, queue
    <3>4. QED
      BY <1>5, <3>1, <3>2, <3>3 DEF BackgroundStep
  <2>2. QED
    BY <2>1 DEF Quiet
<1>6. QED
  BY <1>2, <1>3, <1>4, <1>5 DEF Next, WriterStep, WritesData

\* The entries of the first writers of the queue.
LEMMA UpdatesType ==
  ASSUME QueueInv, DataInv, NEW n \in 1 .. Len(writers_)
  PROVE  Updates(n) \in Seq(Update)
<1> DEFINE ss == [i \in 1 .. n |-> batch[writers_[i]]]
<1>1. /\ writers_ \in Seq(Threads) /\ Len(writers_) \in Nat
      /\ batch \in [Threads -> Seq(Update)]
  BY SMT DEF QueueInv, DataInv
<1>2. \A i \in 1 .. n : i \in 1 .. Len(writers_)
  BY <1>1, SMT
<1>3. \A i \in 1 .. n : writers_[i] \in Threads
  BY <1>1, <1>2, SMT
<1>4. \A i \in 1 .. n : batch[writers_[i]] \in Seq(Update)
  BY <1>1, <1>3
<1>5. ss \in [1 .. n -> Seq(Update)] /\ n \in Nat
  BY <1>1, <1>4, SMT
<1> HIDE DEF ss
<1>6. ss \in Seq(Seq(Update))
  BY <1>5, SMT
<1>7. Concat(ss) \in Seq(Update)
  BY <1>6, ConcatType
<1>8. QED
  BY <1>7 DEF Updates, ss

\* BuildBatchGroup: the entries are numbered in order, and no writer of the
\* group asks for sync unless its leader does.
LEMMA GroupFilled ==
  ASSUME QueueInv, DataInv, writers_ # <<>>, BuildBatchGroup
  PROVE  /\ group'.updates \in Seq(Entry)
         /\ \A i \in 1 .. Len(group'.updates) : group'.updates[i].seq = lastSequence + i
         /\ group'.todo = group'.updates /\ group'.ok = TRUE
         /\ \A i \in 1 .. Len(group'.members) :
              sync[group'.members[i]] => sync[writers_[1]]
<1>1. writers_ \in Seq(Threads) /\ lastSequence \in Nat
  BY SMT DEF QueueInv, DataInv
<1>2. PICK n \in 1 .. Len(writers_) :
        /\ \A i \in 2 .. n : Joins(i)
        /\ LET updates == [i \in 1 .. Len(Updates(n)) |->
                             [key |-> Updates(n)[i].key, val |-> Updates(n)[i].val,
                              seq |-> lastSequence + i]]
           IN  group' = [members |-> SubSeq(writers_, 1, n), updates |-> updates,
                         todo |-> updates, ok |-> TRUE]
  BY <1>1, GroupChosen
<1> DEFINE u == Updates(n)
           updates == [i \in 1 .. Len(u) |->
                         [key |-> u[i].key, val |-> u[i].val, seq |-> lastSequence + i]]
<1>3. /\ group'.members = SubSeq(writers_, 1, n) /\ group'.updates = updates
      /\ group'.todo = updates /\ group'.ok = TRUE
  BY <1>2
<1>4. u \in Seq(Update)
  BY UpdatesType
<1> HIDE DEF u
<1>5. Len(u) \in Nat /\ \A i \in 1 .. Len(u) : u[i] \in Update
  BY <1>4, SMT
<1>6. \A i \in 1 .. Len(u) :
        [key |-> u[i].key, val |-> u[i].val, seq |-> lastSequence + i] \in Entry
  BY <1>1, <1>5, SMT DEF Entry, Update
<1>7. updates \in [1 .. Len(u) -> Entry]
  BY <1>6
<1>8. \A i \in 1 .. Len(u) : updates[i].seq = lastSequence + i
  OBVIOUS
<1> HIDE DEF updates
<1>9. updates \in Seq(Entry) /\ Len(updates) = Len(u)
  BY <1>5, <1>7, SMT
<1>10. /\ Len(group'.members) = n
       /\ \A i \in 1 .. n : group'.members[i] = writers_[i]
  BY <1>1, <1>3, SMT
<1>11. \A i \in 1 .. n : i = 1 \/ i \in 2 .. n
  BY SMT
<1>12. \A i \in 2 .. n : sync[writers_[i]] => sync[writers_[1]]
  BY <1>2 DEF Joins
<1>13. \A i \in 1 .. Len(group'.members) : sync[group'.members[i]] => sync[writers_[1]]
  BY <1>10, <1>11, <1>12
<1>14. QED
  BY <1>3, <1>8, <1>9, <1>13

\* What LeaveQueue leaves of the batches.
LEMMA QueueLeftData ==
  ASSUME DataInv, NEW t, NEW members, LeaveQueue(t, members)
  PROVE  /\ batch' \in [Threads -> Seq(Update)]
         /\ group' = NoGroup
         /\ group'.updates \in Seq(Entry) /\ group'.todo \in Seq(Entry)
<1>1. batch' = [u \in Threads |-> IF u \in Range(members) THEN <<>> ELSE batch[u]]
  BY DEF LeaveQueue
<1>2. batch \in [Threads -> Seq(Update)]
  BY DEF DataInv
<1>3. <<>> \in Seq(Update)
  BY SMT
<1>4. batch' \in [Threads -> Seq(Update)]
  BY <1>1, <1>2, <1>3
<1>5. group' = NoGroup
  BY DEF LeaveQueue
<1>6. QED
  BY <1>4, <1>5, SMT DEF NoGroup

\* A log or a memtable whose contents are replaced.
LEMMA FileReplaced ==
  ASSUME NEW s \in Seq(SUBSET Entry), Len(s) = mem_, NEW f \in [1 .. Len(s) -> SUBSET Entry]
  PROVE  f \in Seq(SUBSET Entry) /\ Len(f) = mem_
BY SMT

LEMMA DataNext ==
  ASSUME QueueInv, DataInv, [Next]_vars
  PROVE  DataInv'
<1>a. /\ lastSequence \in Nat /\ mem_ \in Nat \ {0} /\ mem_ \in 1 .. mem_
      /\ log \in Seq(SUBSET Entry) /\ Len(log) = mem_
      /\ synced \in Seq(SUBSET Entry) /\ Len(synced) = mem_
      /\ table \in Seq(SUBSET Entry) /\ Len(table) = mem_
      /\ group.updates \in Seq(Entry) /\ group.todo \in Seq(Entry)
  BY SMT DEF DataInv
<1>1. CASE Quiet
  <2>1. CASE table' = table
    BY <1>1, <2>1 DEF Quiet, DataInv
  <2>2. CASE Frees
    <3>1. table' \in [1 .. Len(table) -> SUBSET Entry]
      BY <1>a, <2>2, SMT DEF Frees
    <3>2. table' \in Seq(SUBSET Entry) /\ Len(table') = mem_
      BY <1>a, <3>1, FileReplaced
    <3>3. QED
      BY <1>1, <3>2 DEF Quiet, DataInv
  <2>3. QED
    BY <1>1, <2>1, <2>2 DEF Quiet
<1>2. CASE InstallVersion
  <2>1. /\ UNCHANGED <<lastSequence, mem_, batch, group>> /\ imm_' \in {0, imm_}
        /\ table' = table \/ Frees
    BY <1>2 DEF InstallVersion, BgFrame, queue, Unref, Frees
  <2>2. PICK keep : /\ log' = [n \in DOMAIN log |-> IF n \in keep THEN log[n] ELSE {}]
                    /\ synced' = [n \in DOMAIN synced |-> IF n \in keep THEN synced[n] ELSE {}]
    BY <1>2 DEF InstallVersion, DeleteObsoleteFiles
  <2>3. log' \in Seq(SUBSET Entry) /\ Len(log') = mem_
    <3>1. log' \in [1 .. Len(log) -> SUBSET Entry]
      BY <1>a, <2>2, SMT
    <3>2. QED
      BY <1>a, <3>1, FileReplaced
  <2>4. synced' \in Seq(SUBSET Entry) /\ Len(synced') = mem_
    <3>1. synced' \in [1 .. Len(synced) -> SUBSET Entry]
      BY <1>a, <2>2, SMT
    <3>2. QED
      BY <1>a, <3>1, FileReplaced
  <2>5. table' \in Seq(SUBSET Entry) /\ Len(table') = mem_
    <3>1. CASE table' = table
      BY <1>a, <3>1, SMT
    <3>2. CASE Frees
      <4>1. table' \in [1 .. Len(table) -> SUBSET Entry]
        BY <1>a, <3>2, SMT DEF Frees
      <4>2. QED
        BY <1>a, <4>1, FileReplaced
    <3>3. QED
      BY <2>1, <3>1, <3>2
  <2>6. QED
    BY <2>1, <2>3, <2>4, <2>5 DEF DataInv
<1>3. ASSUME NEW t \in Threads, NEW b \in Batches, NEW s \in Syncs, Write(t, b, s)
      PROVE  DataInv'
  <2>1. /\ UNCHANGED <<lastSequence, mem_, imm_, log, synced, table, group>>
        /\ batch' = [batch EXCEPT ![t] = b]
    BY <1>3 DEF Write, memory, logs
  <2>2. b \in Seq(Update)
    BY WriteAssumption DEF Update
  <2>3. batch' \in [Threads -> Seq(Update)]
    BY <2>1, <2>2, SMT DEF DataInv
  <2>4. QED
    BY <2>1, <2>3 DEF DataInv
<1>4. ASSUME NEW t \in Threads, RoomFound(t)
      PROVE  DataInv'
  <2>1. UNCHANGED <<lastSequence, mem_, imm_, log, synced, table>>
    BY <1>4 DEF RoomFound, RoomFrame, memory, logs
  <2>2. CASE IsNull(t)
    <3>1. LeaveQueue(t, <<t>>)
      BY <1>4, <2>2 DEF RoomFound
    <3>2. QED
      BY <2>1, <3>1, QueueLeftData DEF DataInv
  <2>3. CASE ~IsNull(t)
    <3>1. BuildBatchGroup /\ batch' = batch /\ pc[t] = "w.room"
      BY <1>4, <2>3 DEF RoomFound, InRoom
    <3>2. writers_ # <<>>
      BY <3>1, SMT DEF QueueInv, Leading, Writing
    <3>3. group'.updates \in Seq(Entry) /\ group'.todo \in Seq(Entry)
      BY <3>1, <3>2, GroupFilled
    <3>4. QED
      BY <2>1, <3>1, <3>3 DEF DataInv
  <2>4. QED
    BY <2>2, <2>3
<1>5. ASSUME NEW t \in Threads, SwitchMemTable(t)
      PROVE  DataInv'
  <2>1. /\ UNCHANGED <<lastSequence, batch, group>> /\ mem_' = Len(log) + 1 /\ imm_' = mem_
        /\ table' = Append(table, {}) /\ log' = Append(log, {}) /\ synced' = Append(synced, {})
    BY <1>5 DEF SwitchMemTable, queue
  <2>2. mem_' = mem_ + 1 /\ mem_' \in Nat \ {0} /\ imm_' \in {0, mem_' - 1}
    BY <1>a, <2>1, SMT
  <2>3. log' \in Seq(SUBSET Entry) /\ Len(log') = mem_'
    BY <1>a, <2>1, <2>2, SMT
  <2>4. synced' \in Seq(SUBSET Entry) /\ Len(synced') = mem_'
    BY <1>a, <2>1, <2>2, SMT
  <2>5. table' \in Seq(SUBSET Entry) /\ Len(table') = mem_'
    BY <1>a, <2>1, <2>2, SMT
  <2>6. QED
    BY <2>1, <2>2, <2>3, <2>4, <2>5 DEF DataInv
<1>6. ASSUME NEW t \in Threads, SwitchFails(t)
      PROVE  DataInv'
  <2>1. /\ UNCHANGED <<lastSequence, mem_, imm_, log, synced, table>>
        /\ LeaveQueue(t, <<t>>)
    BY <1>6 DEF SwitchFails, RoomFrame, memory, logs
  <2>2. QED
    BY <2>1, QueueLeftData DEF DataInv
<1>b. log[mem_] \cup Range(group.updates) \in SUBSET Entry
  BY <1>a, SMT DEF Range
<1>c. /\ [log EXCEPT ![mem_] = @ \cup Range(group.updates)] \in Seq(SUBSET Entry)
      /\ Len([log EXCEPT ![mem_] = @ \cup Range(group.updates)]) = mem_
  <2>1. [log EXCEPT ![mem_] = @ \cup Range(group.updates)] \in [1 .. Len(log) -> SUBSET Entry]
    BY <1>a, <1>b, SMT
  <2>2. QED
    BY <1>a, <2>1, FileReplaced
<1>7. ASSUME NEW t \in Threads, AddRecord(t)
      PROVE  DataInv'
  <2>1. /\ UNCHANGED <<lastSequence, mem_, imm_, table, batch, group>>
        /\ log' = [log EXCEPT ![mem_] = @ \cup Range(group.updates)]
        /\ synced' = synced \/ synced' = [synced EXCEPT ![mem_] = log'[mem_]]
    BY <1>7 DEF AddRecord, memory, queue
  <2>2. log' \in Seq(SUBSET Entry) /\ Len(log') = mem_
    BY <1>c, <2>1
  <2>3. log'[mem_] \in SUBSET Entry
    BY <1>a, <2>2, SMT
  <2>4. synced' \in Seq(SUBSET Entry) /\ Len(synced') = mem_
    <3>1. [synced EXCEPT ![mem_] = log'[mem_]] \in [1 .. Len(synced) -> SUBSET Entry]
      BY <1>a, <2>3, SMT
    <3>2. CASE synced' = [synced EXCEPT ![mem_] = log'[mem_]]
      BY <1>a, <3>1, <3>2, FileReplaced
    <3>3. CASE synced' = synced
      BY <1>a, <3>3
    <3>4. QED
      BY <2>1, <3>2, <3>3
  <2>5. QED
    BY <2>1, <2>2, <2>4 DEF DataInv
<1>8. ASSUME NEW t \in Threads, AddRecordFails(t)
      PROVE  DataInv'
  <2>1. /\ UNCHANGED <<lastSequence, mem_, imm_, table, batch, synced>>
        /\ log' = log \/ log' = [log EXCEPT ![mem_] = @ \cup Range(group.updates)]
        /\ group' = [group EXCEPT !.ok = FALSE, !.todo = <<>>]
    BY <1>8 DEF AddRecordFails, memory
  <2>2. log' \in Seq(SUBSET Entry) /\ Len(log') = mem_
    BY <1>a, <1>c, <2>1
  <2>3. group'.updates = group.updates /\ group'.todo \in Seq(Entry)
    BY <2>1, SMT DEF QueueInv, GroupInFront
  <2>4. QED
    BY <2>1, <2>2, <2>3 DEF DataInv
<1>9. ASSUME NEW t \in Threads, InsertInto(t)
      PROVE  DataInv'
  <2>1. /\ UNCHANGED <<lastSequence, mem_, imm_, log, synced, batch>>
        /\ table' = [table EXCEPT ![mem_] = @ \cup {Head(group.todo)}]
        /\ group' = [group EXCEPT !.todo = Tail(@)]
    BY <1>9 DEF InsertInto, logs
  <2>2. group.todo # <<>>
    BY <1>9 DEF InsertInto
  <2>3. group'.updates = group.updates /\ group'.todo = Tail(group.todo)
    BY <2>1, SMT DEF QueueInv, GroupInFront
  <2>4. Head(group.todo) \in Entry /\ Tail(group.todo) \in Seq(Entry)
    BY <1>a, <2>2, SMT
  <2>5. [table EXCEPT ![mem_] = @ \cup {Head(group.todo)}] \in [1 .. Len(table) -> SUBSET Entry]
    BY <1>a, <2>4, SMT
  <2>6. table' \in Seq(SUBSET Entry) /\ Len(table') = mem_
    BY <1>a, <2>1, <2>5, FileReplaced
  <2>7. QED
    BY <2>1, <2>3, <2>4, <2>6 DEF DataInv
<1>10. ASSUME NEW t \in Threads, WriteEnds(t)
       PROVE  DataInv'
  <2>1. /\ UNCHANGED <<mem_, imm_, log, synced, table>>
        /\ lastSequence' = lastSequence + Len(group.updates)
        /\ LeaveQueue(t, group.members)
    BY <1>10 DEF WriteEnds, memory, logs
  <2>2. lastSequence' \in Nat
    BY <1>a, <2>1, SMT
  <2>3. QED
    BY <2>1, <2>2, QueueLeftData DEF DataInv
<1>11. QED
  BY <1>1, <1>2, <1>3, <1>4, <1>5, <1>6, <1>7, <1>8, <1>9, <1>10, DataSteps
     DEF WritesData
-----------------------------------------------------------------------------
LoggedUpTo(s) == \A n \in 1 .. mem_ : \A e \in log[n] : e.seq <= s

\* The group has the numbers after the last one, and nothing logged is above
\* them; while the group has still to be logged, nothing is above the last one.
SeqInv ==
  /\ \A i \in 1 .. Len(group.updates) : group.updates[i].seq = lastSequence + i
  /\ LoggedUpTo(lastSequence + Len(group.updates))
  /\ (\E t \in Threads : pc[t] = "w.log") => LoggedUpTo(lastSequence)
  /\ (\A t \in Threads : pc[t] \notin Grouped) => group.updates = <<>>
  /\ SequencesUnique

LEMMA OneLeads ==
  ASSUME QueueInv, NEW t \in Threads, pc[t] \in Leading
  PROVE  /\ \A u \in Threads : pc[u] \in Leading => u = t
         /\ \A u \in Threads : pc[u] \in Grouped => u = t
<1>1. Grouped \subseteq Leading
  BY SMT DEF Grouped, Leading, Writing
<1>2. \A u \in Threads : pc[u] \in Leading => u = writers_[1]
  BY DEF QueueInv
<1>3. t = writers_[1]
  BY <1>2
<1>4. QED
  BY <1>1, <1>2, <1>3

\* A leader that has not built its group yet: everything logged has a number
\* that was used.
LEMMA NoGroupYet ==
  ASSUME QueueInv, DataInv, SeqInv, NEW t \in Threads, pc[t] \in Leading, pc[t] \notin Grouped
  PROVE  /\ \A u \in Threads : pc[u] \notin Grouped
         /\ LoggedUpTo(lastSequence)
<1>1. \A u \in Threads : pc[u] \notin Grouped
  BY OneLeads
<1>2. group.updates = <<>> /\ lastSequence \in Nat
  BY <1>1 DEF SeqInv, DataInv
<1>3. lastSequence + Len(group.updates) = lastSequence
  BY <1>2, SMT
<1>4. QED
  BY <1>1, <1>3 DEF SeqInv

\* The record of the group is appended.
LEMMA RecordAdded ==
  ASSUME DataInv, SeqInv, LoggedUpTo(lastSequence), mem_' = mem_,
         log' = [log EXCEPT ![mem_] = @ \cup Range(group.updates)]
  PROVE  /\ \A n \in 1 .. mem_ : \A e \in log'[n] : e.seq <= lastSequence + Len(group.updates)
         /\ SequencesUnique'
<1>1. /\ lastSequence \in Nat /\ mem_ \in 1 .. mem_ /\ log \in Seq(SUBSET Entry)
      /\ DOMAIN log = 1 .. mem_ /\ DOMAIN log' = 1 .. mem_ /\ group.updates \in Seq(Entry)
  BY SMT DEF DataInv
<1>2. \A n \in 1 .. mem_ : \A e \in log'[n] :
        \/ e \in log[n]
        \/ n = mem_ /\ \E i \in 1 .. Len(group.updates) : e = group.updates[i]
  BY <1>1, SMT DEF Range
<1>3. \A n \in 1 .. mem_ : \A e \in log[n] : e.seq \in Nat /\ e.seq <= lastSequence
  BY <1>1, SMT DEF LoggedUpTo, Entry
<1>4. \A i \in 1 .. Len(group.updates) : /\ group.updates[i].seq = lastSequence + i
                                         /\ lastSequence < group.updates[i].seq
                                         /\ group.updates[i].seq <= lastSequence + Len(group.updates)
  BY <1>1, SMT DEF SeqInv
<1>5. \A n \in 1 .. mem_ : \A e \in log'[n] : e.seq <= lastSequence + Len(group.updates)
  <2>1. \A n \in 1 .. mem_ : \A e \in log[n] : e.seq <= lastSequence + Len(group.updates)
    BY <1>1, <1>3, SMT
  <2>2. QED
    BY <1>2, <1>4, <2>1
<1>6. ASSUME NEW m \in 1 .. mem_, NEW n \in 1 .. mem_, NEW e \in log'[m], NEW f \in log'[n],
             e.seq = f.seq
      PROVE  m = n /\ e = f
  <2>1. CASE e \in log[m] /\ f \in log[n]
    BY <1>1, <1>6, <2>1 DEF SeqInv, SequencesUnique
  <2>2. CASE e \in log[m] /\ ~(f \in log[n])
    <3>1. PICK i \in 1 .. Len(group.updates) : f = group.updates[i]
      BY <1>2, <2>2
    <3>2. e.seq \in Nat /\ e.seq <= lastSequence /\ lastSequence < f.seq
      BY <1>3, <1>4, <2>2, <3>1
    <3>3. QED
      BY <1>1, <1>6, <3>2, SMT
  <2>3. CASE f \in log[n] /\ ~(e \in log[m])
    <3>1. PICK i \in 1 .. Len(group.updates) : e = group.updates[i]
      BY <1>2, <2>3
    <3>2. f.seq \in Nat /\ f.seq <= lastSequence /\ lastSequence < e.seq
      BY <1>3, <1>4, <2>3, <3>1
    <3>3. QED
      BY <1>1, <1>6, <3>2, SMT
  <2>4. CASE ~(e \in log[m]) /\ ~(f \in log[n])
    <3>1. PICK i \in 1 .. Len(group.updates) : e = group.updates[i] /\ m = mem_
      BY <1>2, <2>4
    <3>2. PICK j \in 1 .. Len(group.updates) : f = group.updates[j] /\ n = mem_
      BY <1>2, <2>4
    <3>3. lastSequence + i = lastSequence + j
      BY <1>4, <1>6, <3>1, <3>2
    <3>4. i = j
      BY <1>1, <3>3, SMT
    <3>5. QED
      BY <3>1, <3>2, <3>4
  <2>5. QED
    BY <2>1, <2>2, <2>3, <2>4
<1>7. SequencesUnique'
  <2>1. \A m, n \in 1 .. mem_ : \A e \in log'[m], f \in log'[n] :
          e.seq = f.seq => m = n /\ e = f
    BY <1>6
  <2>2. DOMAIN log' = 1 .. mem_
    BY <1>1
  <2>3. QED
    BY <2>1, <2>2, SMT DEF SequencesUnique
<1>8. QED
  BY <1>5, <1>7

LEMMA SeqNext ==
  ASSUME QueueInv, QueueInv', DataInv, DataInv', SeqInv, [Next]_vars
  PROVE  SeqInv'
<1>a. /\ lastSequence \in Nat /\ mem_ \in Nat \ {0} /\ DOMAIN log = 1 .. mem_
      /\ log \in Seq(SUBSET Entry) /\ Len(log) = mem_ /\ Len(group.updates) \in Nat
      /\ pc \in [Threads -> Labels]
  BY SMT DEF DataInv, QueueInv
<1>b. /\ \A i \in 1 .. Len(group.updates) : group.updates[i].seq = lastSequence + i
      /\ \A n \in 1 .. mem_ : \A e \in log[n] : e.seq <= lastSequence + Len(group.updates)
      /\ (\E t \in Threads : pc[t] = "w.log") =>
           \A n \in 1 .. mem_ : \A e \in log[n] : e.seq <= lastSequence
      /\ (\A t \in Threads : pc[t] \notin Grouped) => group.updates = <<>>
      /\ SequencesUnique
  BY DEF SeqInv, LoggedUpTo
<1>c. "w.log" \in Grouped /\ "w.insert" \in Grouped /\ "w.finish" \in Grouped
  BY SMT DEF Grouped
<1>u. ASSUME log' = log
      PROVE  SequencesUnique'
  BY <1>b, <1>u, SMT DEF SequencesUnique
\* A step that leaves the logs and the group alone.
<1>d. ASSUME UNCHANGED <<lastSequence, mem_, log, group>>,
             \A u \in Threads : pc[u] \in Grouped \/ pc'[u] \in Grouped => pc'[u] = pc[u]
      PROVE  SeqInv'
  <2>1. (\E u \in Threads : pc'[u] = "w.log") => \E u \in Threads : pc[u] = "w.log"
    BY <1>c, <1>d
  <2>2. (\A u \in Threads : pc'[u] \notin Grouped) => \A u \in Threads : pc[u] \notin Grouped
    BY <1>d
  <2>3. SequencesUnique'
    BY <1>u, <1>d
  <2>4. QED
    BY <1>b, <1>d, <2>1, <2>2, <2>3 DEF SeqInv, LoggedUpTo
\* A writer leaves the queue and its group's numbers are used.
<1>e. ASSUME UNCHANGED <<mem_, log>>, group' = NoGroup,
             \A n \in 1 .. mem_ : \A e \in log[n] : e.seq <= lastSequence',
             \A u \in Threads : pc'[u] \notin Grouped
      PROVE  SeqInv'
  <2>1. /\ group'.updates = <<>> /\ Len(group'.updates) = 0
        /\ lastSequence' + Len(group'.updates) = lastSequence'
    <3>1. group'.updates = <<>>
      BY <1>e, SMT DEF NoGroup
    <3>2. lastSequence' \in Nat
      BY SMT DEF DataInv
    <3>3. Len(group'.updates) = 0
      BY <3>1, SMT
    <3>4. \A x \in Nat : x + 0 = x
      BY SMT
    <3>5. QED
      BY <3>1, <3>2, <3>3, <3>4
  <2>2. SequencesUnique'
    BY <1>u, <1>e
  <2>3. \A i \in 1 .. Len(group'.updates) : FALSE
    BY <2>1, SMT
  <2>4. LoggedUpTo(lastSequence + Len(group.updates))'
    BY <1>e, <2>1 DEF LoggedUpTo
  <2>5. QED
    BY <1>c, <1>e, <2>1, <2>2, <2>3, <2>4 DEF SeqInv
<1>1. CASE Quiet
  BY <1>1, <1>d DEF Quiet
<1>2. CASE InstallVersion
  <2>1. UNCHANGED <<lastSequence, mem_, group, pc>>
    BY <1>2 DEF InstallVersion, BgFrame, queue
  <2>2. PICK keep : log' = [n \in DOMAIN log |-> IF n \in keep THEN log[n] ELSE {}]
    BY <1>2 DEF InstallVersion, DeleteObsoleteFiles
  <2>3. DOMAIN log' = DOMAIN log /\ \A n \in 1 .. mem_ : \A e \in log'[n] : e \in log[n]
    BY <1>a, <2>2, SMT
  <2>4. SequencesUnique'
    BY <1>a, <1>b, <2>3, ZenonT(30) DEF SequencesUnique
  <2>5. QED
    BY <1>b, <2>1, <2>3, <2>4 DEF SeqInv, LoggedUpTo
<1>3. ASSUME NEW t \in Threads, NEW b \in Batches, NEW s \in Syncs, Write(t, b, s)
      PROVE  SeqInv'
  <2>1. UNCHANGED <<lastSequence, mem_, log, group>>
    BY <1>3 DEF Write, memory, logs
  <2>2. pc[t] \notin Grouped /\ \E l \in Labels \ Grouped : pc' = [pc EXCEPT ![t] = l]
    BY <1>3, SMT DEF Write, EnterMakeRoom, Goto, Labels, Writing, Grouped
  <2>3. \A u \in Threads : pc[u] \in Grouped \/ pc'[u] \in Grouped => pc'[u] = pc[u]
    BY <1>a, <2>2, SMT
  <2>4. QED
    BY <1>d, <2>1, <2>3
<1>f. ASSUME NEW t \in Threads, InRoom(t)
      PROVE  /\ pc[t] \in Leading /\ \A u \in Threads : pc[u] \notin Grouped
             /\ \A n \in 1 .. mem_ : \A e \in log[n] : e.seq <= lastSequence
  <2>1. pc[t] \in Leading /\ pc[t] \notin Grouped
    BY <1>f, SMT DEF InRoom, Leading, Writing, Grouped
  <2>2. QED
    BY <2>1, NoGroupYet DEF LoggedUpTo
<1>g. ASSUME NEW t \in Threads, NEW members, LeaveQueue(t, members),
             \A u \in Threads : pc[u] \in Grouped => u = t
      PROVE  \A u \in Threads : pc'[u] \notin Grouped
  <2>1. pc' = [pc EXCEPT ![t] = "idle"] /\ "idle" \notin Grouped
    BY <1>g, SMT DEF LeaveQueue, Goto, Grouped
  <2>2. QED
    BY <1>a, <1>g, <2>1
<1>4. ASSUME NEW t \in Threads, RoomFound(t)
      PROVE  SeqInv'
  <2>1. InRoom(t) /\ UNCHANGED <<lastSequence, mem_, log>>
    BY <1>4 DEF RoomFound, RoomFrame, memory, logs
  <2>2. CASE IsNull(t)
    <3>1. LeaveQueue(t, <<t>>) /\ group' = NoGroup
      BY <1>4, <2>2 DEF RoomFound, LeaveQueue
    <3>2. QED
      BY <1>e, <1>f, <1>g, <2>1, <3>1
  <2>3. CASE ~IsNull(t)
    <3>1. BuildBatchGroup /\ pc' = [pc EXCEPT ![t] = "w.log"] /\ writers_ # <<>>
      BY <1>4, <1>f, <2>1, <2>3 DEF RoomFound, Goto, QueueInv
    <3>2. \A i \in 1 .. Len(group'.updates) : group'.updates[i].seq = lastSequence + i
      BY <3>1, GroupFilled
    <3>3. \A n \in 1 .. mem_ : \A e \in log[n] : e.seq <= lastSequence
      BY <1>f, <2>1
    <3>4. Len(group'.updates) \in Nat
      BY SMT DEF DataInv
    <3>5. \A n \in 1 .. mem_ : \A e \in log[n] : e.seq <= lastSequence + Len(group'.updates)
      <4>1. ASSUME NEW n \in 1 .. mem_, NEW e \in log[n]
            PROVE  e.seq <= lastSequence + Len(group'.updates)
        <5>1. e.seq \in Nat /\ e.seq <= lastSequence
          BY <1>a, <3>3, SMT DEF Entry
        <5>2. QED
          BY <1>a, <3>4, <5>1, SMT
      <4>2. QED
        BY <4>1
    <3>6. pc'[t] \in Grouped
      BY <1>a, <1>c, <3>1, SMT
    <3>7. SequencesUnique'
      BY <1>u, <2>1
    <3>8. QED
      BY <2>1, <3>2, <3>3, <3>5, <3>6, <3>7 DEF SeqInv, LoggedUpTo
  <2>4. QED
    BY <2>2, <2>3
<1>5. ASSUME NEW t \in Threads, SwitchMemTable(t)
      PROVE  SeqInv'
  <2>1. /\ InRoom(t) /\ UNCHANGED <<lastSequence, group, pc>>
        /\ mem_' = Len(log) + 1 /\ log' = Append(log, {})
    BY <1>5 DEF SwitchMemTable, queue
  <2>2. /\ DOMAIN log' = 1 .. mem_' /\ \A n \in 1 .. mem_ : n \in 1 .. mem_'
        /\ \A n \in 1 .. mem_' : \A e \in log'[n] : n \in 1 .. mem_ /\ e \in log[n]
    BY <1>a, <2>1, SMT
  <2>3. SequencesUnique'
    BY <1>a, <1>b, <2>2, SMT DEF SequencesUnique
  <2>4. QED
    BY <1>b, <2>1, <2>2, <2>3 DEF SeqInv, LoggedUpTo
<1>6. ASSUME NEW t \in Threads, SwitchFails(t)
      PROVE  SeqInv'
  <2>1. /\ InRoom(t) /\ UNCHANGED <<lastSequence, mem_, log>>
        /\ LeaveQueue(t, <<t>>) /\ group' = NoGroup
    BY <1>6 DEF SwitchFails, RoomFrame, memory, logs, LeaveQueue
  <2>2. QED
    BY <1>e, <1>f, <1>g, <2>1
\* The writer that logs, and nobody else.
<1>h. ASSUME NEW t \in Threads, pc[t] \in Grouped, NEW l \in Grouped \ {"w.log"},
             pc' = [pc EXCEPT ![t] = l]
      PROVE  /\ ~\E u \in Threads : pc'[u] = "w.log"
             /\ ~\A u \in Threads : pc'[u] \notin Grouped
  <2>1. pc[t] \in Leading
    BY <1>h, SMT DEF Grouped, Leading, Writing
  <2>2. \A u \in Threads : pc[u] \in Grouped => u = t
    BY <2>1, OneLeads
  <2>3. QED
    BY <1>a, <1>c, <1>h, <2>2, SMT
<1>i. ASSUME NEW t \in Threads, pc[t] = "w.log", NEW l \in Grouped \ {"w.log"},
             pc' = [pc EXCEPT ![t] = l], UNCHANGED <<lastSequence, mem_>>,
             group'.updates = group.updates,
             log' = log \/ log' = [log EXCEPT ![mem_] = @ \cup Range(group.updates)]
      PROVE  SeqInv'
  <2>1. /\ ~\E u \in Threads : pc'[u] = "w.log"
        /\ ~\A u \in Threads : pc'[u] \notin Grouped
    BY <1>c, <1>h, <1>i
  <2>2. LoggedUpTo(lastSequence)
    BY <1>i DEF SeqInv
  <2>3. CASE log' = log
    <3>1. SequencesUnique'
      BY <1>u, <2>3
    <3>2. QED
      BY <1>b, <1>i, <2>1, <2>3, <3>1 DEF SeqInv, LoggedUpTo
  <2>4. CASE log' = [log EXCEPT ![mem_] = @ \cup Range(group.updates)]
    <3>1. /\ \A n \in 1 .. mem_ : \A e \in log'[n] : e.seq <= lastSequence + Len(group.updates)
          /\ SequencesUnique'
      BY <1>i, <2>2, <2>4, RecordAdded
    <3>2. QED
      BY <1>b, <1>i, <2>1, <3>1 DEF SeqInv, LoggedUpTo
  <2>5. QED
    BY <1>i, <2>3, <2>4
<1>7. ASSUME NEW t \in Threads, AddRecord(t)
      PROVE  SeqInv'
  <2>1. /\ pc[t] = "w.log" /\ pc' = [pc EXCEPT ![t] = "w.insert"]
        /\ UNCHANGED <<lastSequence, mem_, group>>
        /\ log' = [log EXCEPT ![mem_] = @ \cup Range(group.updates)]
    BY <1>7 DEF AddRecord, memory, queue, Goto
  <2>2. "w.insert" # "w.log" /\ group'.updates = group.updates
    BY <2>1, SMT
  <2>3. QED
    BY <1>c, <1>i, <2>1, <2>2
<1>8. ASSUME NEW t \in Threads, AddRecordFails(t)
      PROVE  SeqInv'
  <2>1. /\ pc[t] = "w.log" /\ pc' = [pc EXCEPT ![t] = "w.finish"]
        /\ UNCHANGED <<lastSequence, mem_>>
        /\ log' = log \/ log' = [log EXCEPT ![mem_] = @ \cup Range(group.updates)]
        /\ group' = [group EXCEPT !.ok = FALSE, !.todo = <<>>]
    BY <1>8 DEF AddRecordFails, memory, Goto
  <2>2. "w.finish" # "w.log" /\ group'.updates = group.updates
    BY <2>1, SMT DEF QueueInv, GroupInFront
  <2>3. QED
    BY <1>c, <1>i, <2>1, <2>2
<1>9. ASSUME NEW t \in Threads, InsertInto(t)
      PROVE  SeqInv'
  <2>1. /\ pc[t] = "w.insert" /\ UNCHANGED <<lastSequence, mem_, log>>
        /\ group' = [group EXCEPT !.todo = Tail(@)]
    BY <1>9 DEF InsertInto, logs
  <2>2. \E l \in Grouped \ {"w.log"} : pc' = [pc EXCEPT ![t] = l]
    BY <1>9 DEF InsertInto, Goto, Grouped
  <2>3. group'.updates = group.updates
    BY <2>1, SMT DEF QueueInv, GroupInFront
  <2>4. /\ ~\E u \in Threads : pc'[u] = "w.log"
        /\ ~\A u \in Threads : pc'[u] \notin Grouped
    BY <1>c, <1>h, <2>1, <2>2
  <2>5. SequencesUnique'
    BY <1>u, <2>1
  <2>6. QED
    BY <1>b, <2>1, <2>3, <2>4, <2>5 DEF SeqInv, LoggedUpTo
<1>10. ASSUME NEW t \in Threads, WriteEnds(t)
       PROVE  SeqInv'
  <2>1. /\ pc[t] = "w.finish" /\ UNCHANGED <<mem_, log>>
        /\ lastSequence' = lastSequence + Len(group.updates)
        /\ LeaveQueue(t, group.members) /\ group' = NoGroup
    BY <1>10 DEF WriteEnds, memory, logs, LeaveQueue
  <2>2. pc[t] \in Leading
    BY <2>1, SMT DEF Leading, Writing
  <2>3. \A u \in Threads : pc'[u] \notin Grouped
    BY <1>g, <2>1, <2>2, OneLeads
  <2>4. QED
    BY <1>b, <1>e, <2>1, <2>3
<1>11. QED
  BY <1>1, <1>2, <1>3, <1>4, <1>5, <1>6, <1>7, <1>8, <1>9, <1>10, DataSteps
     DEF WritesData

LEMMA SeqAlways == Spec => [](DataInv /\ SeqInv)
<1>1. Init => DataInv /\ SeqInv
  <2> SUFFICES ASSUME Init PROVE DataInv /\ SeqInv
    BY SMT
  <2>1. DataInv
    <3>1. /\ lastSequence = 0 /\ mem_ = 1 /\ imm_ = 0
          /\ log = <<{}>> /\ synced = <<{}>> /\ table = <<{}>>
          /\ batch = [t \in Threads |-> <<>>]
          /\ group = NoGroup
      BY DEF Init
    <3>2. NoGroup.updates = <<>> /\ NoGroup.todo = <<>>
      BY SMT DEF NoGroup
    <3>3. <<{}>> \in Seq(SUBSET Entry) /\ Len(<<{}>>) = 1
      BY SMTT(20)
    <3>4. [t \in Threads |-> <<>>] \in [Threads -> Seq(Update)]
      BY SMTT(20)
    <3> QED
      BY <3>1, <3>2, <3>3, <3>4, SMTT(20) DEF DataInv
  <2>2. group.updates = <<>> /\ Len(group.updates) = 0 /\ log = <<{}>> /\ mem_ = 1
    BY SMT DEF Init, NoGroup
  <2>3. SeqInv
    <3>1. 1 .. Len(group.updates) = {} /\ 1 .. mem_ = {1} /\ DOMAIN log = {1} /\ log[1] = {}
      BY <2>2, SMT
    <3>2. (\E t \in Threads : pc[t] = "w.log") => LoggedUpTo(lastSequence)
      BY <3>1 DEF LoggedUpTo
    <3>3. LoggedUpTo(lastSequence + Len(group.updates)) /\ SequencesUnique
      BY <3>1 DEF LoggedUpTo, SequencesUnique
    <3>4. QED
      BY <2>2, <3>1, <3>2, <3>3 DEF SeqInv
  <2>4. QED
    BY <2>1, <2>3, SMT
<1>2. QueueInv /\ QueueInv' /\ DataInv /\ SeqInv /\ [Next]_vars => DataInv' /\ SeqInv'
  BY DataNext, SeqNext
<1>3. QED
  BY <1>1, <1>2, QueueAlways, PTL DEF Spec

\* SetLastSequence and AddRecord: no two entries are ever logged with one
\* sequence number, for every number of writers, with failing appends and syncs
\* and whatever groups they form.
THEOREM SequenceNumbersOnce == Spec => []SequencesUnique
<1>1. SeqInv => SequencesUnique
  BY SMT DEF SeqInv
<1>2. QED
  BY <1>1, SeqAlways, PTL

------------------------------------------------------------------------------
\* The version and the edit in the making are well formed.  A flush in the
\* middle of a compaction only adds a table, so the inputs of the compaction
\* stay where they are.
VersionInv ==
  /\ current = [version |-> current.version, seek |-> current.seek]
  /\ current.version \in Version
  /\ edit.add \in Seq(SUBSET Entry) /\ edit.below \in SUBSET Entry
  /\ bg.at \in {"idle", "build", "work"} \/ bg.inner => edit.drop = {}
  /\ bg.inner => bg.at \in {"build", "manifest", "install", "error"}
  /\ bg.at = "build" => imm_ # 0
  /\ bg.at = "work" \/ bg.inner => bg.inputs \in SUBSET (1 .. Len(current.version.level0))

\* Every other step leaves the version and the background thread alone.
LEMMA VersionSteps ==
  ASSUME VersionInv, DataInv, [Next]_vars
  PROVE  \/ BackgroundStep
         \/ /\ UNCHANGED <<bg, edit, logNumber, manifest, durable>>
            /\ current' = [version |-> current.version, seek |-> current'.seek]
            /\ current'.version = current.version
            /\ imm_ # 0 => imm_' = imm_
<1> DEFINE Alike == /\ UNCHANGED <<bg, edit, logNumber, manifest, durable>>
                    /\ current' = [version |-> current.version, seek |-> current'.seek]
                    /\ current'.version = current.version
                    /\ imm_ # 0 => imm_' = imm_
<1>a. ASSUME UNCHANGED <<bg, edit, logNumber, manifest, durable, current>>,
             imm_ # 0 => imm_' = imm_
      PROVE  Alike
  BY <1>a DEF VersionInv
<1>b. ASSUME UNCHANGED <<bg, edit, logNumber, manifest, durable, imm_>>,
             \E x : current' = [current EXCEPT !.seek = x]
      PROVE  Alike
  BY <1>b, SMT DEF VersionInv
<1>1. ASSUME UNCHANGED vars \/ Closed
      PROVE  Alike
  BY <1>1, <1>a DEF Closed, vars, memory, versions, background, disk
<1>2. ASSUME NEW t \in Threads, \E b \in Batches, s \in Syncs : Write(t, b, s)
      PROVE  Alike
  BY <1>2, <1>a DEF Write, WriterFrame, memory, background, disk
<1>3. ASSUME NEW t \in Threads,
             \/ WriterWakes(t) \/ RoomDelay(t) \/ DelayEnds(t) \/ RoomFound(t) \/ RoomWait(t)
             \/ RoomWakes(t) \/ SwitchFails(t)
      PROVE  Alike
  BY <1>3, <1>a DEF WriterWakes, RoomDelay, DelayEnds, RoomFound, RoomWait, RoomWakes,
       SwitchFails, RoomFrame, WriterFrame, memory, background, disk
<1>4. ASSUME NEW t \in Threads, SwitchMemTable(t)
      PROVE  Alike
  <2>1. imm_ = 0
    BY <1>4 DEF SwitchMemTable, MustWait
  <2>2. QED
    BY <1>4, <1>a, <2>1 DEF SwitchMemTable, WriterFrame, background, disk
<1>5. ASSUME NEW t \in Threads,
             AddRecord(t) \/ AddRecordFails(t) \/ InsertInto(t) \/ WriteEnds(t)
      PROVE  Alike
  BY <1>5, <1>a DEF AddRecord, AddRecordFails, InsertInto, WriteEnds, WriterFrame, memory,
       background, disk
<1>6. ASSUME NEW t \in Threads,
             \/ Get(t) \/ NewIterator(t) \/ RecordReadSample(t)
             \/ \E k \in Keys : IteratorReads(t, k)
      PROVE  Alike
  <2>1. CASE RecordReadSample(t)
    BY <1>b, <2>1 DEF RecordReadSample, memory, background, disk
  <2>2. CASE Get(t) \/ NewIterator(t)
    BY <1>a, <2>2 DEF Get, NewIterator, StartReader, versions, background, disk
  <2>3. CASE \E k \in Keys : IteratorReads(t, k)
    BY <1>a, <2>3 DEF IteratorReads, Returns, memory, versions, background, disk
  <2>4. QED
    BY <1>6, <2>1, <2>2, <2>3
<1>7. ASSUME NEW t \in Threads, ReaderStep(t)
      PROVE  Alike
  <2>1. CASE \E k \in Keys : GetReads(t, k)
    BY <1>a, <2>1 DEF GetReads, Returns, memory, versions, background, disk
  <2>2. CASE CleanupIteratorState(t)
    BY <1>a, <2>2 DEF CleanupIteratorState, EndReader, background, disk
  <2>3. ASSUME NEW exhausted \in BOOLEAN, GetEnds(t, exhausted)
        PROVE  Alike
    BY <1>b, <2>3 DEF GetEnds, EndReader, background, disk
  <2>4. QED
    BY <1>7, <2>1, <2>2, <2>3 DEF ReaderStep
<1>8. ASSUME NEW t \in Threads, Close(t) \/ CloseWakes(t)
      PROVE  Alike
  BY <1>8, <1>a DEF Close, CloseWakes, CloseFrame, versions, background, disk
<1> HIDE DEF Alike
<1>9. ASSUME NEW t \in Threads, WriterStep(t)
      PROVE  Alike
  BY <1>9, <1>3, <1>4, <1>5 DEF WriterStep
<1>10. ASSUME Next
       PROVE  BackgroundStep \/ Alike
  BY <1>10, <1>1, <1>2, <1>6, <1>7, <1>8, <1>9 DEF Next
<1>11. QED
  BY <1>1, <1>10 DEF Alike

\* A background call that ends, or goes back to its compaction.
LEMMA CallEnds ==
  ASSUME ScheduleInv
  PROVE  /\ \A imm, c : BackgroundEnds(imm, c) =>
              /\ bg'.at = "idle" /\ bg'.inner = FALSE /\ edit' = NoEdit
              /\ bg'.inputs = {}
         /\ BackToWork => /\ bg'.at = "work" /\ bg'.inner = FALSE /\ edit' = NoEdit
                          /\ bg'.inputs = bg.inputs /\ bg'.smallest = bg.smallest
BY DEF ScheduleInv, BackgroundEnds, BackToWork

LEMMA VersionNext ==
  ASSUME DataInv, ScheduleInv, VersionInv, [Next]_vars
  PROVE  VersionInv'
<1>a. /\ current = [version |-> current.version, seek |-> current.seek]
      /\ current.version \in Version
      /\ edit.add \in Seq(SUBSET Entry) /\ edit.below \in SUBSET Entry
      /\ bg.at \in {"idle", "build", "work"} \/ bg.inner => edit.drop = {}
      /\ bg.inner => bg.at \in {"build", "manifest", "install", "error"}
      /\ bg.at = "build" => imm_ # 0
      /\ bg.at = "work" \/ bg.inner =>
           bg.inputs \in SUBSET (1 .. Len(current.version.level0))
  BY DEF VersionInv
<1>b. /\ bg = [at |-> bg.at, inner |-> bg.inner, inputs |-> bg.inputs, smallest |-> bg.smallest]
      /\ current.version.level0 \in Seq(SUBSET Entry)
      /\ DOMAIN current.version.level0 = 1 .. Len(current.version.level0)
  BY <1>a, SMT DEF ScheduleInv, Version
<1>c. /\ NoEdit.add \in Seq(SUBSET Entry) /\ NoEdit.below \in SUBSET Entry /\ NoEdit.drop = {}
  BY SMT DEF NoEdit
<1>1. ASSUME UNCHANGED <<bg, edit>>,
             current' = [version |-> current.version, seek |-> current'.seek],
             current'.version = current.version, imm_ # 0 => imm_' = imm_
      PROVE  VersionInv'
  BY <1>1, <1>a DEF VersionInv
\* A call that ends with the version it has, or goes back to its compaction.
<1>d. ASSUME NEW imm, NEW c, BackgroundEnds(imm, c),
             current' = [version |-> current'.version, seek |-> current'.seek],
             current'.version \in Version
      PROVE  VersionInv'
  <2>1. bg'.at = "idle" /\ bg'.inner = FALSE /\ edit' = NoEdit
    BY <1>d, CallEnds
  <2>2. "idle" # "build" /\ "idle" # "work"
    BY SMT
  <2>3. QED
    BY <1>c, <1>d, <2>1, <2>2 DEF VersionInv
<1>e. ASSUME BackToWork,
             current' = [version |-> current'.version, seek |-> current'.seek],
             current'.version \in Version,
             bg.inputs \in SUBSET (1 .. Len(current'.version.level0))
      PROVE  VersionInv'
  <2>1. bg'.at = "work" /\ bg'.inner = FALSE /\ edit' = NoEdit /\ bg'.inputs = bg.inputs
    BY <1>e, CallEnds
  <2>2. "work" # "build"
    BY SMT
  <2>3. QED
    BY <1>c, <1>e, <2>1, <2>2 DEF VersionInv
\* A step that writes an edit.
<1>i. bg.at \in {"idle", "work"} => ~bg.inner
  BY <1>a, SMT
<1>f. ASSUME UNCHANGED <<current, imm_>>, bg' = [bg EXCEPT !.at = "manifest"],
             edit'.add \in Seq(SUBSET Entry), edit'.below \in SUBSET Entry,
             bg.inner => edit'.drop = {}
      PROVE  VersionInv'
  <2>1. bg'.at = "manifest" /\ bg'.inner = bg.inner /\ bg'.inputs = bg.inputs
    BY <1>b, <1>f
  <2>2. /\ "manifest" \notin {"idle", "build", "work"}
        /\ "manifest" \in {"build", "manifest", "install", "error"}
    BY SMT
  <2>3. "manifest" # "work" /\ "manifest" # "build"
    BY SMT
  <2>4. QED
    BY <1>a, <1>f, <2>1, <2>2, <2>3 DEF VersionInv
<1>2. CASE BackgroundCall
  <2>1. UNCHANGED <<current, imm_>> /\ bg.at = "idle" /\ ~bg.inner
    BY <1>2, <1>i DEF BackgroundCall, memory, versions
  <2>2. CASE BackgroundEnds(imm_, current)
    BY <1>a, <1>d, <2>1, <2>2
  <2>3. CASE imm_ # 0 /\ bg' = [bg EXCEPT !.at = "build"] /\ UNCHANGED edit
    <3>1. bg'.at = "build" /\ bg'.inner = bg.inner /\ bg'.inputs = bg.inputs
      BY <1>b, <2>3, SMT
    <3>2. "build" # "work" /\ "build" \in {"idle", "build", "work"}
      BY SMT
    <3>3. edit.drop = {}
      BY <1>a, <2>1, SMT
    <3>4. QED
      BY <1>a, <2>1, <2>3, <3>1, <3>2, <3>3 DEF VersionInv
  <2>4. ASSUME NEW S \in Inputs(current.version), bg' = [bg EXCEPT !.at = "manifest"],
               edit' = [NoEdit EXCEPT !.drop = S, !.log = logNumber,
                          !.below = InputEntries(current.version, S)]
        PROVE  VersionInv'
    <3>1. S \in SUBSET (1 .. Len(current.version.level0))
      BY <1>b, SMT DEF Inputs
    <3>2. InputEntries(current.version, S) \in SUBSET Entry
      BY <1>a, <3>1, InputsType
    <3>3. edit'.add = <<>> /\ edit'.below = InputEntries(current.version, S)
      BY <2>4, SMT DEF NoEdit
    <3>4. <<>> \in Seq(SUBSET Entry)
      BY SMT
    <3>5. QED
      BY <1>f, <2>1, <2>4, <3>2, <3>3, <3>4
  <2>5. ASSUME NEW S \in Inputs(current.version), UNCHANGED edit,
               bg' = [bg EXCEPT !.at = "work", !.inputs = S, !.smallest = lastSequence]
        PROVE  VersionInv'
    <3>1. bg'.at = "work" /\ bg'.inner = bg.inner /\ bg'.inputs = S
      BY <1>b, <2>5, SMT
    <3>2. S \in SUBSET (1 .. Len(current.version.level0))
      BY <1>b, SMT DEF Inputs
    <3>3. edit.drop = {}
      BY <1>a, <2>1, SMT
    <3>4. "build" # "work"
      BY SMT
    <3>5. QED
      BY <1>a, <2>1, <2>5, <3>1, <3>2, <3>3, <3>4 DEF VersionInv
  <2>6. QED
    BY <1>2, <2>2, <2>3, <2>4, <2>5 DEF BackgroundCall
<1>3. CASE BuildTable
  <2>1. /\ UNCHANGED <<current, imm_>> /\ bg.at = "build" /\ imm_ # 0
    BY <1>3, <1>a DEF BuildTable, BgQuiet
  <2>2. CASE bg' = [bg EXCEPT !.at = "error"] /\ UNCHANGED edit
    <3>1. bg'.at = "error" /\ bg'.inner = bg.inner /\ bg'.inputs = bg.inputs
      BY <1>b, <2>2, SMT
    <3>2. "error" # "work" /\ "error" # "build" /\ "error" \notin {"idle", "build", "work"}
          /\ "error" \in {"build", "manifest", "install", "error"}
      BY SMT
    <3>3. QED
      BY <1>a, <2>1, <2>2, <3>1, <3>2 DEF VersionInv
  <2>3. CASE ~(bg' = [bg EXCEPT !.at = "error"] /\ UNCHANGED edit)
    <3>1. bg' = [bg EXCEPT !.at = "manifest"]
      BY <1>3, <2>3 DEF BuildTable
    <3>2. table[imm_] \in SUBSET Entry
      BY <2>1, SMT DEF DataInv
    <3>3. \/ edit' = [NoEdit EXCEPT !.log = mem_]
          \/ edit' = [NoEdit EXCEPT !.add = <<table[imm_]>>, !.log = mem_]
          \/ edit' = [NoEdit EXCEPT !.below = table[imm_], !.log = mem_]
      BY <1>3, <2>3 DEF BuildTable
    <3>4. /\ edit'.add = <<>> \/ edit'.add = <<table[imm_]>>
          /\ edit'.below = {} \/ edit'.below = table[imm_]
          /\ edit'.drop = {}
      BY <3>3 DEF NoEdit
    <3>5. edit'.add \in Seq(SUBSET Entry) /\ edit'.below \in SUBSET Entry
      <4>1. /\ <<>> \in Seq(SUBSET Entry) /\ {} \in SUBSET Entry
            /\ \A x \in SUBSET Entry : <<x>> \in Seq(SUBSET Entry)
        BY SMT
      <4>2. QED
        BY <3>2, <3>4, <4>1
    <3>6. QED
      BY <1>f, <2>1, <3>1, <3>4, <3>5
  <2>4. QED
    BY <2>2, <2>3, SMT
<1>4. CASE WorkMeetsImm
  <2>1. /\ UNCHANGED <<current, imm_, edit>> /\ bg.at = "work" /\ imm_ # 0
        /\ bg' = [bg EXCEPT !.at = "build", !.inner = TRUE]
    BY <1>4 DEF WorkMeetsImm, BgQuiet
  <2>2. bg'.at = "build" /\ bg'.inputs = bg.inputs
    BY <1>b, <2>1, SMT
  <2>3. "build" \in {"build", "manifest", "install", "error"}
        /\ "work" \in {"idle", "build", "work"}
    BY SMT
  <2>4. QED
    BY <1>a, <2>1, <2>2, <2>3 DEF VersionInv
<1>5. CASE WorkEnds
  <2>1. UNCHANGED <<current, imm_>> /\ bg.at = "work" /\ ~bg.inner
    BY <1>5, <1>i, SMT DEF WorkEnds, BgQuiet
  <2>2. CASE shutting_down_
    <3>1. bg' = [bg EXCEPT !.at = "error"] /\ UNCHANGED edit
      BY <1>5, <2>2 DEF WorkEnds
    <3>2. bg'.at = "error" /\ bg'.inner = bg.inner
      BY <1>b, <3>1, SMT
    <3>3. "error" # "work" /\ "error" # "build" /\ "error" \notin {"idle", "build", "work"}
      BY SMT
    <3>4. QED
      BY <1>a, <2>1, <3>1, <3>2, <3>3 DEF VersionInv
  <2>3. CASE ~shutting_down_
    <3> DEFINE v == current.version
    <3>1. /\ bg' = [bg EXCEPT !.at = "manifest"]
          /\ edit' = [drop |-> bg.inputs, old |-> Below(v, bg.inputs), add |-> <<>>,
                      below |-> Kept(InputEntries(v, bg.inputs) \cup Below(v, bg.inputs),
                                     bg.smallest),
                      log |-> logNumber]
      BY <1>5, <2>3 DEF WorkEnds
    <3>2. bg.inputs \in SUBSET (1 .. Len(v.level0))
      BY <1>a, <2>1
    <3>3. /\ edit'.add = <<>>
          /\ edit'.below = Kept(InputEntries(v, bg.inputs) \cup Below(v, bg.inputs), bg.smallest)
      BY <3>1
    <3>4. edit'.below \in SUBSET Entry
      <4>1. v \in Version
        BY <1>a
      <4> HIDE DEF v
      <4>2. Kept(InputEntries(v, bg.inputs) \cup Below(v, bg.inputs), bg.smallest)
              \in SUBSET Entry
        BY <3>2, <4>1, InputsType
      <4>3. QED
        BY <3>3, <4>2
    <3>5. edit'.add \in Seq(SUBSET Entry)
      BY <3>3, SMT
    <3>6. QED
      BY <1>f, <2>1, <3>1, <3>4, <3>5
  <2>4. QED
    BY <2>2, <2>3, SMT
<1>6. CASE WriteManifest \/ BackgroundFails
  <2>1. /\ UNCHANGED <<current, imm_, edit>>
        /\ \E l \in {"install", "error"} : bg' = [bg EXCEPT !.at = l]
        /\ bg.inner => bg.inputs \in SUBSET (1 .. Len(current.version.level0))
    BY <1>6, <1>a DEF WriteManifest, BackgroundFails, BgQuiet
  <2>2. bg'.at \in {"install", "error"} /\ bg'.inner = bg.inner /\ bg'.inputs = bg.inputs
    BY <1>b, <2>1, SMT
  <2>3. \A l \in {"install", "error"} :
          /\ l # "work" /\ l # "build" /\ l \notin {"idle", "build", "work"}
          /\ l \in {"build", "manifest", "install", "error"}
    BY SMT
  <2>4. QED
    BY <1>a, <2>1, <2>2, <2>3 DEF VersionInv
<1>7. CASE InstallVersion
  <2>1. current' = [version |-> ApplyEdit(current.version, edit), seek |-> FALSE]
    BY <1>7 DEF InstallVersion
  <2>2. /\ current' = [version |-> current'.version, seek |-> current'.seek]
        /\ current'.version = ApplyEdit(current.version, edit)
    BY <2>1
  <2>3. /\ current'.version \in Version
        /\ edit.drop = {} => current'.version.level0 = current.version.level0 \o edit.add
    BY <1>a, <2>2, EditType
  <2>4. CASE bg.inner
    <3>1. BackToWork /\ edit.drop = {}
      BY <1>7, <1>a, <2>4 DEF InstallVersion
    <3>2. bg.inputs \in SUBSET (1 .. Len(current.version.level0))
      BY <1>a, <2>4
    <3>3. current'.version.level0 = current.version.level0 \o edit.add
      BY <2>3, <3>1
    <3>4. \A a, b \in Seq(SUBSET Entry) :
            Len(a) \in Nat /\ Len(a \o b) \in Nat /\ Len(a) <= Len(a \o b)
      BY SMT
    <3>5. bg.inputs \in SUBSET (1 .. Len(current'.version.level0))
      <4>1. \A m, n \in Nat : m <= n => \A S \in SUBSET (1 .. m) : S \in SUBSET (1 .. n)
        BY SMT
      <4> DEFINE m == Len(current.version.level0)
                 n == Len(current'.version.level0)
      <4>2. m \in Nat /\ n \in Nat /\ m <= n
        BY <1>a, <1>b, <3>3, <3>4
      <4>3. bg.inputs \in SUBSET (1 .. m)
        BY <3>2
      <4> HIDE DEF m, n
      <4>4. bg.inputs \in SUBSET (1 .. n)
        BY <4>1, <4>2, <4>3
      <4>5. QED
        BY <4>4 DEF n
    <3>6. QED
      BY <1>e, <2>2, <2>3, <3>1, <3>5
  <2>5. CASE ~bg.inner
    BY <1>7, <1>d, <2>2, <2>3, <2>5 DEF InstallVersion
  <2>6. QED
    BY <2>4, <2>5, SMT
<1>8. CASE BackgroundError \/ BackgroundRetries
  <2>1. UNCHANGED <<current, imm_>> /\ bg.at \in {"error", "sleep"}
    BY <1>8, SMT DEF BackgroundError, BackgroundRetries
  <2>2. CASE BackgroundEnds(imm_, current)
    BY <1>a, <1>d, <2>1, <2>2
  <2>3. CASE BackToWork /\ bg.inner
    BY <1>a, <1>e, <2>1, <2>3
  <2>4. CASE bg' = [bg EXCEPT !.at = "sleep"] /\ ~bg.inner /\ UNCHANGED edit
    <3>1. bg'.at = "sleep" /\ bg'.inner = bg.inner
      BY <1>b, <2>4, SMT
    <3>2. "sleep" # "work" /\ "sleep" # "build" /\ "sleep" \notin {"idle", "build", "work"}
      BY SMT
    <3>3. QED
      BY <1>a, <2>1, <2>4, <3>1, <3>2 DEF VersionInv
  <2>5. QED
    BY <1>8, <2>2, <2>3, <2>4 DEF BackgroundError, BackgroundRetries
<1>9. CASE BackgroundStep
  BY <1>9, <1>2, <1>3, <1>4, <1>5, <1>6, <1>7, <1>8 DEF BackgroundStep
<1>10. QED
  BY <1>1, <1>9, VersionSteps

LEMMA VersionAlways == Spec => []VersionInv
<1>1. Init => VersionInv
  <2> SUFFICES ASSUME Init PROVE VersionInv
    BY SMT
  <2>1. /\ current = [version |-> NoVersion, seek |-> FALSE] /\ edit = NoEdit
        /\ bg = [at |-> "idle", inner |-> FALSE, inputs |-> {}, smallest |-> 0]
    BY DEF Init
  <2>2. NoVersion \in Version
    BY SMT DEF NoVersion, Version
  <2>3. NoEdit.add \in Seq(SUBSET Entry) /\ NoEdit.below \in SUBSET Entry /\ NoEdit.drop = {}
    BY SMT DEF NoEdit
  <2>4. current.version = NoVersion /\ bg.at = "idle" /\ bg.inner = FALSE
    BY <2>1, SMT
  <2>5. "idle" # "build" /\ "idle" # "work"
    BY SMT
  <2>6. QED
    BY <2>1, <2>2, <2>3, <2>4, <2>5 DEF VersionInv
<1>2. DataInv /\ ScheduleInv /\ VersionInv /\ [Next]_vars => VersionInv'
  BY VersionNext
<1>3. QED
  BY <1>1, <1>2, SeqAlways, ScheduleAlways, PTL DEF Spec
-----------------------------------------------------------------------------
Holding == {"g.read", "g.end", "i.open"}
Ending == {"c.wait", "closed"}

\* Every step but those of readers, of SwitchMemTable, of InstallVersion and of
\* the destructor leaves the references alone.
Still ==
  /\ UNCHANGED <<refs_, view, mem_, imm_, shutting_down_>>
  /\ scheduled' => scheduled \/ ~shutting_down_
  /\ \/ pc' = pc
     \/ \E t \in Threads, l \in Labels \ (Holding \cup Ending) :
          /\ pc[t] \notin Holding \cup Ending /\ pc' = [pc EXCEPT ![t] = l]
          /\ pc[t] = "idle" => ~shutting_down_

LEMMA Labelled ==
  /\ Writing \subseteq Labels \ (Holding \cup Ending) /\ "idle" \in Labels \ (Holding \cup Ending)
  /\ "idle" \notin Writing
BY SMT DEF Writing, Labels, Holding, Ending

\* MaybeScheduleCompaction schedules nothing once the database is closing.
LEMMA MaybeScheduleOnly ==
  ASSUME NEW imm, NEW c, MaybeSchedule(scheduled, imm, c) \/ MaybeSchedule(FALSE, imm, c),
         scheduled'
  PROVE  scheduled \/ ~shutting_down_
BY DEF MaybeSchedule

LEMMA RefSteps ==
  ASSUME [Next]_vars
  PROVE  \/ \E t \in Threads : \/ Get(t) \/ NewIterator(t)
                               \/ ReaderStep(t) \/ SwitchMemTable(t) \/ Close(t) \/ CloseWakes(t)
         \/ InstallVersion
         \/ Still
<1>a. ASSUME NEW t \in Threads, NEW l \in Writing \cup {"idle"}, pc[t] \in Writing,
             pc' = pc \/ pc' = [pc EXCEPT ![t] = l],
             UNCHANGED <<refs_, view, mem_, imm_, shutting_down_, scheduled>>
      PROVE  Still
  BY <1>a, Labelled DEF Still
<1>1. CASE UNCHANGED vars \/ Closed
  BY <1>1 DEF Closed, vars, memory, readers, Still
<1>2. ASSUME NEW t \in Threads, NEW b \in Batches, NEW s \in Syncs, Write(t, b, s)
      PROVE  Still
  <2>1. /\ UNCHANGED <<refs_, view, mem_, imm_, shutting_down_, scheduled>>
        /\ pc[t] = "idle" /\ ~shutting_down_
    BY <1>2 DEF Write, WriterFrame, memory, readers
  <2>2. \E l \in {"w.room", "w.wait"} : pc' = [pc EXCEPT ![t] = l]
    BY <1>2 DEF Write, EnterMakeRoom, Goto
  <2>3. "w.room" \in Writing /\ "w.wait" \in Writing
    BY SMT DEF Writing
  <2>4. QED
    BY <2>1, <2>2, <2>3, Labelled DEF Still
<1>3. ASSUME NEW t \in Threads,
             \/ WriterWakes(t) \/ RoomDelay(t) \/ DelayEnds(t) \/ RoomFound(t) \/ RoomWait(t)
             \/ RoomWakes(t) \/ SwitchFails(t)
      PROVE  Still
  <2>1. UNCHANGED <<refs_, view, mem_, imm_, shutting_down_, scheduled>>
    BY <1>3 DEF WriterWakes, RoomDelay, DelayEnds, RoomFound, RoomWait, RoomWakes,
       SwitchFails, RoomFrame, WriterFrame, memory, readers
  <2>2. /\ pc[t] \in {"w.wait", "w.room", "w.sleep", "w.bgwait"}
        /\ pc' = pc \/ \E l \in {"idle", "w.room", "w.sleep", "w.bgwait", "w.log"} :
                         pc' = [pc EXCEPT ![t] = l]
    BY <1>3 DEF WriterWakes, RoomDelay, DelayEnds, RoomFound, RoomWait, RoomWakes,
       SwitchFails, InRoom, EnterMakeRoom, LeaveQueue, Goto
  <2>3. /\ {"w.wait", "w.room", "w.sleep", "w.bgwait"} \subseteq Writing
        /\ {"idle", "w.room", "w.sleep", "w.bgwait", "w.log"} \subseteq Writing \cup {"idle"}
    BY SMT DEF Writing
  <2>4. QED
    BY <1>a, <2>1, <2>2, <2>3
<1>4. ASSUME NEW t \in Threads,
             AddRecord(t) \/ AddRecordFails(t) \/ InsertInto(t) \/ WriteEnds(t)
      PROVE  Still
  <2>1. UNCHANGED <<refs_, view, mem_, imm_, shutting_down_, scheduled>>
    BY <1>4 DEF AddRecord, AddRecordFails, InsertInto, WriteEnds, WriterFrame, memory,
       readers
  <2>2. /\ pc[t] \in {"w.log", "w.insert", "w.finish"}
        /\ \E l \in {"idle", "w.insert", "w.finish"} : pc' = [pc EXCEPT ![t] = l]
    BY <1>4 DEF AddRecord, AddRecordFails, InsertInto, WriteEnds, LeaveQueue, Goto
  <2>3. /\ {"w.log", "w.insert", "w.finish"} \subseteq Writing
        /\ {"idle", "w.insert", "w.finish"} \subseteq Writing \cup {"idle"}
    BY SMT DEF Writing
  <2>4. QED
    BY <1>a, <2>1, <2>2, <2>3
<1>5. ASSUME NEW t \in Threads, RecordReadSample(t) \/ \E k \in Keys : IteratorReads(t, k)
      PROVE  Still
  <2>1. UNCHANGED <<refs_, view, mem_, imm_, shutting_down_, pc>>
    BY <1>5 DEF RecordReadSample, IteratorReads, Returns, memory, readers
  <2>2. scheduled' = scheduled \/ MaybeSchedule(scheduled, imm_, current')
    BY <1>5 DEF RecordReadSample, IteratorReads, Returns
  <2>3. scheduled' => scheduled \/ ~shutting_down_
    BY <2>2, MaybeScheduleOnly
  <2>4. QED
    BY <2>1, <2>3 DEF Still
<1>6. ASSUME BackgroundStep, ~InstallVersion
      PROVE  Still
  <2>1. CASE BackgroundCall
    <3>1. UNCHANGED <<refs_, view, mem_, imm_, shutting_down_, pc>>
      BY <2>1 DEF BackgroundCall, memory, readers
    <3>2. scheduled' = scheduled \/ MaybeSchedule(FALSE, imm_, current)
      BY <2>1 DEF BackgroundCall, BackgroundEnds
    <3>3. scheduled' => scheduled \/ ~shutting_down_
      BY <3>2, MaybeScheduleOnly
    <3>4. QED
      BY <3>1, <3>3 DEF Still
  <2>2. CASE BuildTable \/ WorkMeetsImm \/ WorkEnds \/ WriteManifest \/ BackgroundFails
    <3>1. UNCHANGED <<refs_, view, mem_, imm_, shutting_down_, pc, scheduled>>
      BY <2>2 DEF BuildTable, WorkMeetsImm, WorkEnds, WriteManifest, BackgroundFails,
           BgQuiet, BgFrame
    <3>2. QED
      BY <3>1 DEF Still
  <2>3. CASE BackgroundError \/ BackgroundRetries
    <3>1. UNCHANGED <<refs_, view, mem_, imm_, shutting_down_, pc>>
      BY <2>3 DEF BackgroundError, BackgroundRetries, BgFrame
    <3>2. scheduled' = scheduled \/ MaybeSchedule(FALSE, imm_, current)
      BY <2>3 DEF BackgroundError, BackgroundRetries, BackgroundEnds, BackToWork
    <3>3. scheduled' => scheduled \/ ~shutting_down_
      BY <3>2, MaybeScheduleOnly
    <3>4. QED
      BY <3>1, <3>3 DEF Still
  <2>4. QED
    BY <1>6, <2>1, <2>2, <2>3 DEF BackgroundStep
<1>7. ASSUME NEW t \in Threads, WriterStep(t), ~SwitchMemTable(t)
      PROVE  Still
  BY <1>7, <1>3, <1>4 DEF WriterStep
<1>8. QED
  BY <1>1, <1>2, <1>5, <1>6, <1>7 DEF Next

\* The destructor runs alone: its caller has ended every other call, and the
\* memtables are released after the last background call.
CloseInv ==
  /\ shutting_down_ => \A t \in Threads : pc[t] = "idle" \/ pc[t] \in Ending
  /\ \A t, u \in Threads : pc[t] \in Ending /\ pc[u] \in Ending => t = u
  /\ \A t \in Threads : pc[t] \in Ending => shutting_down_
  /\ IsClosed => ~scheduled

LEMMA CloseNext ==
  ASSUME QueueInv, CloseInv, [Next]_vars
  PROVE  CloseInv'
<1>a. /\ pc \in [Threads -> Labels]
      /\ "closed" \in Ending /\ "c.wait" \in Ending /\ Ending = {"c.wait", "closed"}
      /\ "idle" \notin Ending /\ "idle" \notin Holding
      /\ \A l \in Holding : l # "idle" /\ l \notin Ending
  BY SMT DEF QueueInv, Ending, Holding
<1>b. IsClosed => shutting_down_
  BY <1>a DEF IsClosed, CloseInv
\* A thread that goes on while the database is open.
<1>1. ASSUME NEW t \in Threads, NEW l, l \notin Ending, pc[t] \notin Ending,
             pc[t] = "idle" => ~shutting_down_,
             pc' = pc \/ pc' = [pc EXCEPT ![t] = l], UNCHANGED shutting_down_,
             scheduled' => scheduled \/ ~shutting_down_
      PROVE  CloseInv'
  <2>1. CASE pc' = pc
    BY <1>1, <1>b, <2>1 DEF CloseInv, IsClosed
  <2>2. CASE pc' = [pc EXCEPT ![t] = l]
    <3>1. ~shutting_down_
      BY <1>1 DEF CloseInv
    <3>2. \A u \in Threads : pc'[u] \notin Ending
      <4>1. \A u \in Threads : pc[u] \notin Ending
        BY <3>1 DEF CloseInv
      <4>2. QED
        BY <1>1, <1>a, <2>2, <4>1, SMT
    <3>3. ~IsClosed'
      BY <1>a, <3>2 DEF IsClosed
    <3>4. QED
      BY <1>1, <3>1, <3>2, <3>3 DEF CloseInv
  <2>3. QED
    BY <1>1, <2>1, <2>2, SMT
<1>2. ASSUME NEW t \in Threads, Get(t) \/ NewIterator(t)
      PROVE  CloseInv'
  <2>1. /\ pc[t] = "idle" /\ ~shutting_down_ /\ UNCHANGED shutting_down_
        /\ \E l \in {"g.read", "i.open"} : pc' = [pc EXCEPT ![t] = l]
    BY <1>2 DEF Get, NewIterator, StartReader, Goto
  <2>2. {"g.read", "i.open"} \subseteq Holding
    BY SMT DEF Holding
  <2>3. QED
    BY <1>1, <1>a, <2>1, <2>2
<1>3. ASSUME NEW t \in Threads, ReaderStep(t)
      PROVE  CloseInv'
  <2>1. /\ pc[t] \in {"g.read", "g.end", "i.open"} /\ UNCHANGED shutting_down_
        /\ \E l \in {"g.end", "idle"} : pc' = [pc EXCEPT ![t] = l]
    BY <1>3 DEF ReaderStep, GetReads, GetEnds, CleanupIteratorState, EndReader, Returns,
         Goto
  <2>2. pc[t] \in Holding /\ "g.end" \in Holding
    BY <2>1, SMT DEF Holding
  <2>3. ~shutting_down_
    BY <1>a, <2>2 DEF CloseInv
  <2>4. QED
    BY <1>1, <1>a, <2>1, <2>2, <2>3
<1>4. ASSUME NEW t \in Threads, SwitchMemTable(t)
      PROVE  CloseInv'
  <2>1. pc[t] = "w.room" /\ UNCHANGED <<shutting_down_, pc>>
    BY <1>4 DEF SwitchMemTable, WriterFrame, InRoom
  <2>2. pc[t] \notin Ending /\ pc[t] # "idle"
    BY <2>1, SMT DEF Ending
  <2>3. ~shutting_down_
    BY <2>2 DEF CloseInv
  <2>4. QED
    BY <1>1, <1>a, <2>1, <2>2, <2>3
<1>5. ASSUME NEW t \in Threads, Close(t) \/ CloseWakes(t)
      PROVE  CloseInv'
  <2>1. /\ UNCHANGED scheduled /\ FinishClose(t)
        /\ (\A u \in Threads : pc[u] = "idle") \/ pc[t] = "c.wait"
    BY <1>5 DEF Close, CloseWakes, CloseFrame
  <2>2. shutting_down_'
    <3>1. CASE Close(t)
      BY <3>1 DEF Close
    <3>2. CASE CloseWakes(t)
      <4>1. pc[t] = "c.wait" /\ UNCHANGED shutting_down_
        BY <3>2 DEF CloseWakes
      <4>2. shutting_down_
        BY <1>a, <4>1 DEF CloseInv
      <4>3. QED
        BY <4>1, <4>2, SMT
    <3>3. QED
      BY <1>5, <3>1, <3>2, SMT
  <2>3. \A u \in Threads : u # t => pc[u] = "idle"
    <3>1. CASE \A u \in Threads : pc[u] = "idle"
      BY <3>1
    <3>2. CASE pc[t] = "c.wait"
      BY <1>a, <3>2 DEF CloseInv
    <3>3. QED
      BY <2>1, <3>1, <3>2
  <2>4. \/ scheduled /\ pc' = [pc EXCEPT ![t] = "c.wait"]
        \/ ~scheduled /\ pc' = [pc EXCEPT ![t] = "closed"]
    BY <2>1 DEF FinishClose, Goto
  <2>5. /\ \A u \in Threads : u # t => pc'[u] = "idle"
        /\ pc'[t] \in Ending /\ (pc'[t] = "closed" => ~scheduled)
    BY <1>a, <2>3, <2>4, SMT
  <2>6. IsClosed' => ~scheduled'
    <3>1. "idle" # "closed"
      BY SMT
    <3>2. QED
      BY <2>1, <2>5, <3>1 DEF IsClosed
  <2>7. QED
    BY <1>a, <2>2, <2>5, <2>6 DEF CloseInv
<1>6. CASE InstallVersion
  <2>1. UNCHANGED <<pc, shutting_down_>>
    BY <1>6 DEF InstallVersion, BgFrame
  <2>2. UNCHANGED scheduled \/ MaybeSchedule(FALSE, imm_', current')
    BY <1>6 DEF InstallVersion, BackToWork, BackgroundEnds
  <2>3. scheduled' => scheduled \/ ~shutting_down_
    BY <2>2, MaybeScheduleOnly
  <2>4. QED
    BY <1>b, <2>1, <2>3 DEF CloseInv, IsClosed
<1>7. CASE Still
  <2>1. CASE pc' = pc
    BY <1>7, <1>b, <2>1 DEF Still, CloseInv, IsClosed
  <2>2. CASE pc' # pc
    BY <1>1, <1>7, <2>2 DEF Still
  <2>3. QED
    BY <2>1, <2>2, SMT
<1>8. QED
  BY <1>2, <1>3, <1>4, <1>5, <1>6, <1>7, RefSteps

LEMMA CloseAlways == Spec => []CloseInv
<1>1. Init => CloseInv
  <2> SUFFICES ASSUME Init PROVE CloseInv
    BY SMT
  <2>1. ~shutting_down_ /\ \A t \in Threads : pc[t] = "idle"
    BY DEF Init
  <2>2. "idle" \notin Ending /\ "idle" # "closed"
    BY SMT DEF Ending
  <2>3. QED
    BY <2>1, <2>2 DEF CloseInv, IsClosed
<1>2. QueueInv /\ CloseInv /\ [Next]_vars => CloseInv'
  BY CloseNext
<1>3. QED
  BY <1>1, <1>2, QueueAlways, PTL DEF Spec
-----------------------------------------------------------------------------
\* Who can read the memtable m: the readers that hold it, and the database,
\* which NULL stands for.
Readers(m) == {t \in Threads : view[t] # NULL /\ m \in {view[t].mem, view[t].imm}}
Owners(m) == IF ~IsClosed /\ m \in {mem_, imm_} THEN {NULL} ELSE {}
Holders(m) == Readers(m) \cup Owners(m)

\* A thread has a view exactly while it reads, and the reference count of a
\* memtable counts those who can read it.
RefInv ==
  /\ \A t \in Threads :
       IF pc[t] \in Holding
       THEN view[t] \in View /\ view[t].mem <= mem_ /\ view[t].imm <= mem_
       ELSE view[t] = NULL
  /\ view \in [Threads -> View \cup {NULL}]
  /\ refs_ \in Seq(Nat) /\ Len(refs_) = mem_
  /\ \A m \in 1 .. mem_ : Counts(refs_[m], Holders(m))

\* The holders after a step, when one holder has come or gone or none has.
LEMMA HolderCame ==
  ASSUME NEW m, Counts(refs_[m], Holders(m)), NEW x, x \notin Holders(m),
         Holders(m)' = Holders(m) \cup {x}, refs_'[m] = refs_[m] + 1
  PROVE  Counts(refs_'[m], Holders(m)')
<1>1. Counts(refs_[m] + 1, Holders(m) \cup {x})
  BY CountsMore
<1>2. QED
  BY <1>1, SMT

LEMMA HolderWent ==
  ASSUME NEW m, Counts(refs_[m], Holders(m)), NEW x \in Holders(m),
         Holders(m)' = Holders(m) \ {x}, refs_'[m] = refs_[m] - 1
  PROVE  Counts(refs_'[m], Holders(m)')
<1>1. Counts(refs_[m] - 1, Holders(m) \ {x})
  BY CountsLess
<1>2. QED
  BY <1>1, SMT

\* What Ref and Unref do to the counts.
LEMMA RefsChange ==
  ASSUME NEW ms, refs_ \in Seq(Nat)
  PROVE  /\ Ref(ms) =>
              /\ DOMAIN refs_' = 1 .. Len(refs_) /\ refs_' = [m \in 1 .. Len(refs_) |-> refs_'[m]]
              /\ \A m \in 1 .. Len(refs_) : IF m \in ms THEN refs_'[m] = refs_[m] + 1
                                            ELSE refs_'[m] = refs_[m]
         /\ Unref(ms) =>
              /\ DOMAIN refs_' = 1 .. Len(refs_) /\ refs_' = [m \in 1 .. Len(refs_) |-> refs_'[m]]
              /\ \A m \in 1 .. Len(refs_) : IF m \in ms THEN refs_'[m] = refs_[m] - 1
                                            ELSE refs_'[m] = refs_[m]
<1>1. DOMAIN refs_ = 1 .. Len(refs_) /\ \A m \in 1 .. Len(refs_) : refs_[m] \in Nat
  BY SMT
<1>2. \A x \in Nat : x + 0 = x /\ x - 0 = x
  BY SMT
<1>3. ASSUME Ref(ms)
      PROVE  /\ refs_' = [m \in 1 .. Len(refs_) |-> refs_'[m]]
             /\ \A m \in 1 .. Len(refs_) : IF m \in ms THEN refs_'[m] = refs_[m] + 1
                                           ELSE refs_'[m] = refs_[m]
  BY <1>1, <1>2, <1>3 DEF Ref
<1>4. ASSUME Unref(ms)
      PROVE  /\ refs_' = [m \in 1 .. Len(refs_) |-> refs_'[m]]
             /\ \A m \in 1 .. Len(refs_) : IF m \in ms THEN refs_'[m] = refs_[m] - 1
                                           ELSE refs_'[m] = refs_[m]
  BY <1>1, <1>2, <1>4 DEF Unref
<1>5. QED
  BY <1>3, <1>4

\* Counts are natural numbers.
LEMMA CountedType ==
  ASSUME NEW n \in Nat, refs_' = [m \in 1 .. n |-> refs_'[m]],
         \A m \in 1 .. n : Counts(refs_'[m], Holders(m)')
  PROVE  refs_' \in Seq(Nat) /\ Len(refs_') = n
<1>1. \A m \in 1 .. n : refs_'[m] \in Nat
  BY CountsNone
<1>2. refs_' \in [1 .. n -> Nat]
  BY <1>1
<1>3. QED
  BY <1>2, SMT

LEMMA RefNext ==
  ASSUME QueueInv, DataInv, DataInv', ScheduleInv, VersionInv, CloseInv, RefInv, [Next]_vars
  PROVE  RefInv'
<1>a. /\ mem_ \in Nat \ {0} /\ imm_ \in {0, mem_ - 1} /\ imm_ \in Nat /\ imm_ # mem_
      /\ imm_ <= mem_ /\ mem_ \in 1 .. mem_ /\ lastSequence \in Nat
  BY SMT DEF DataInv
<1>b. /\ \A t \in Threads : pc[t] \in Holding => /\ view[t] \in View
                                                 /\ view[t].mem <= mem_ /\ view[t].imm <= mem_
      /\ \A t \in Threads : pc[t] \notin Holding => view[t] = NULL
      /\ view \in [Threads -> View \cup {NULL}]
      /\ refs_ \in Seq(Nat) /\ Len(refs_) = mem_ /\ DOMAIN refs_ = 1 .. mem_
      /\ refs_ = [m \in 1 .. mem_ |-> refs_[m]]
      /\ \A m \in 1 .. mem_ : Counts(refs_[m], Holders(m))
  <2>1. refs_ \in Seq(Nat) /\ Len(refs_) = mem_
    BY DEF RefInv
  <2>2. DOMAIN refs_ = 1 .. mem_ /\ refs_ = [m \in 1 .. mem_ |-> refs_[m]]
    BY <1>a, <2>1, SMT
  <2>3. QED
    BY <2>1, <2>2 DEF RefInv
<1>c. /\ pc \in [Threads -> Labels] /\ NULL \notin Threads /\ NULL \notin View
      /\ \A l \in Holding : l # "idle" /\ l # "closed"
      /\ \A t \in Threads : pc[t] \in Holding <=> view[t] # NULL
  <2>1. pc \in [Threads -> Labels] /\ NULL \notin Threads /\ NULL \notin View
    BY WriteAssumption, ViewAssumption DEF QueueInv
  <2>2. \A l \in Holding : l # "idle" /\ l # "closed"
    BY SMT DEF Holding
  <2>3. QED
    BY <1>b, <2>1, <2>2
\* The same readers and the same owner.
<1>d. ASSUME NEW m, Owners(m)' = Owners(m),
             \A t \in Threads : \/ view'[t] = view[t]
                                \/ /\ view[t] # NULL /\ view'[t] # NULL
                                   /\ view'[t].mem = view[t].mem /\ view'[t].imm = view[t].imm
      PROVE  Holders(m)' = Holders(m)
  <2>1. Readers(m)' = Readers(m)
    <3>1. \A t \in Threads : t \in Readers(m)' <=> t \in Readers(m)
      BY <1>d DEF Readers
    <3>2. Readers(m) \subseteq Threads /\ Readers(m)' \subseteq Threads
      BY DEF Readers
    <3>3. QED
      BY <3>1, <3>2
  <2>2. QED
    BY <1>d, <2>1 DEF Holders
<1>e. ASSUME UNCHANGED <<mem_, imm_>>, IsClosed' <=> IsClosed, NEW m
      PROVE  Owners(m)' = Owners(m)
  BY <1>e DEF Owners
<1>1. CASE Still
  <2>1. /\ UNCHANGED <<refs_, view, mem_, imm_>>
        /\ pc' = pc \/ \E t \in Threads, l \in Labels \ (Holding \cup Ending) :
                         pc[t] \notin Holding \cup Ending /\ pc' = [pc EXCEPT ![t] = l]
    BY <1>1 DEF Still
  <2>2. /\ \A t \in Threads : pc'[t] \in Holding <=> pc[t] \in Holding
        /\ \A t \in Threads : pc'[t] = "closed" <=> pc[t] = "closed"
    <3>1. CASE pc' = pc
      BY <3>1
    <3>2. ASSUME NEW t \in Threads, NEW l \in Labels \ (Holding \cup Ending),
                 pc[t] \notin Holding \cup Ending, pc' = [pc EXCEPT ![t] = l]
          PROVE  /\ \A u \in Threads : pc'[u] \in Holding <=> pc[u] \in Holding
                 /\ \A u \in Threads : pc'[u] = "closed" <=> pc[u] = "closed"
      <4>1. /\ pc'[t] \notin Holding /\ pc'[t] # "closed"
            /\ pc[t] \notin Holding /\ pc[t] # "closed"
            /\ \A u \in Threads : u # t => pc'[u] = pc[u]
        BY <1>c, <3>2, SMT DEF Ending
      <4>2. QED
        BY <4>1
    <3>3. QED
      BY <2>1, <3>1, <3>2
  <2>3. \A m : Holders(m)' = Holders(m)
    BY <1>d, <1>e, <2>1, <2>2 DEF IsClosed
  <2>4. \A m \in 1 .. mem_ : Counts(refs_'[m], Holders(m)')
    BY <1>b, <2>1, <2>3
  <2>5. QED
    BY <1>b, <2>1, <2>2, <2>4 DEF RefInv
\* A reader takes its references.
<1>2. ASSUME NEW t \in Threads, Get(t) \/ NewIterator(t)
      PROVE  RefInv'
  <2>1. /\ pc[t] = "idle" /\ UNCHANGED <<mem_, imm_>>
        /\ view' = [view EXCEPT ![t] = Now] /\ Ref({mem_, imm_})
        /\ \E l \in {"g.read", "i.open"} : pc' = [pc EXCEPT ![t] = l]
    BY <1>2 DEF Get, NewIterator, StartReader, Goto
  <2>2. /\ Now \in View /\ Now.mem = mem_ /\ Now.imm = imm_
    <3>1. current.version \in Version
      BY DEF VersionInv
    <3>2. QED
      BY <1>a, <3>1, SMT DEF Now, View
  <2>3. /\ pc'[t] \in Holding /\ pc'[t] # "closed" /\ pc[t] # "closed"
        /\ \A u \in Threads : u # t => pc'[u] = pc[u]
    BY <1>c, <2>1 DEF Holding
  <2>4. view[t] = NULL /\ view'[t] = Now /\ \A u \in Threads : u # t => view'[u] = view[u]
    BY <1>b, <1>c, <2>1
  <2>5. view' \in [Threads -> View \cup {NULL}]
    BY <1>b, <2>1, <2>2, SMT
  <2>6. IsClosed' <=> IsClosed
    BY <2>3 DEF IsClosed
  <2>7. \A m \in 1 .. mem_ : Counts(refs_'[m], Holders(m)')
    <3>1. SUFFICES ASSUME NEW m \in 1 .. mem_
                   PROVE  Counts(refs_'[m], Holders(m)')
      OBVIOUS
    <3>2. Owners(m)' = Owners(m)
      BY <1>e, <2>1, <2>6
    <3>3. t \notin Holders(m)
      <4>1. t \notin Readers(m)
        BY <2>4 DEF Readers
      <4>2. t \notin Owners(m)
        BY <1>c, SMT DEF Owners
      <4>3. QED
        BY <4>1, <4>2 DEF Holders
    <3>4. IF m \in {mem_, imm_} THEN refs_'[m] = refs_[m] + 1 ELSE refs_'[m] = refs_[m]
      BY <1>b, <2>1, RefsChange
    <3>5. \A u \in Threads : u \in Readers(m)' <=>
                               u \in Readers(m) \/ (u = t /\ m \in {mem_, imm_})
      <4>1. t \in Readers(m)' <=> m \in {mem_, imm_}
        <5>1. view'[t] # NULL /\ view'[t].mem = mem_ /\ view'[t].imm = imm_
          BY <1>c, <2>2, <2>4
        <5>2. QED
          BY <5>1 DEF Readers
      <4>2. t \notin Readers(m)
        BY <2>4 DEF Readers
      <4>3. \A u \in Threads : u # t => (u \in Readers(m)' <=> u \in Readers(m))
        BY <2>4 DEF Readers
      <4>4. QED
        BY <4>1, <4>2, <4>3
    <3>6. Readers(m) \subseteq Threads /\ Readers(m)' \subseteq Threads
      BY DEF Readers
    <3>7. CASE m \in {mem_, imm_}
      <4>1. Readers(m)' = Readers(m) \cup {t}
        BY <3>5, <3>6, <3>7
      <4>2. Holders(m)' = Holders(m) \cup {t}
        BY <3>2, <4>1 DEF Holders
      <4>3. QED
        BY <1>b, <3>3, <3>4, <3>7, <4>2, HolderCame
    <3>8. CASE m \notin {mem_, imm_}
      <4>1. Readers(m)' = Readers(m)
        <5>1. \A u \in Threads : u \in Readers(m)' <=> u \in Readers(m)
          BY <3>5, <3>8
        <5>2. QED
          BY <3>6, <5>1
      <4>2. Holders(m)' = Holders(m)
        BY <3>2, <4>1 DEF Holders
      <4>3. QED
        BY <1>b, <3>4, <3>8, <4>2
    <3>9. QED
      BY <3>7, <3>8, SMT
  <2>8. refs_' = [m \in 1 .. mem_ |-> refs_'[m]]
    BY <1>b, <2>1, RefsChange
  <2>9. refs_' \in Seq(Nat) /\ Len(refs_') = mem_
    BY <1>a, <2>7, <2>8, CountedType
  <2>10. \A u \in Threads : IF pc'[u] \in Holding
                            THEN view'[u] \in View /\ view'[u].mem <= mem_ /\ view'[u].imm <= mem_
                            ELSE view'[u] = NULL
    <3>1. mem_ <= mem_
      BY <1>a, SMT
    <3>2. QED
      BY <1>a, <1>b, <2>2, <2>3, <2>4, <3>1
  <2>11. QED
    BY <2>1, <2>5, <2>7, <2>9, <2>10 DEF RefInv
\* A reader searches: it goes on holding what it holds.
<1>3. ASSUME NEW t \in Threads, NEW k \in Keys, GetReads(t, k)
      PROVE  RefInv'
  <2>1. /\ pc[t] = "g.read" /\ UNCHANGED <<mem_, imm_, refs_>>
        /\ \E x \in BOOLEAN : view' = [view EXCEPT ![t].searched = x]
        /\ pc' = [pc EXCEPT ![t] = "g.end"]
    BY <1>3 DEF GetReads, Returns, Goto, memory
  <2>2. view[t] \in View /\ view[t].mem <= mem_ /\ view[t].imm <= mem_
    BY <1>b, <2>1, SMT DEF Holding
  <2>3. /\ view'[t] \in View /\ view'[t].mem = view[t].mem /\ view'[t].imm = view[t].imm
        /\ \A u \in Threads : u # t => view'[u] = view[u]
    <3>1. PICK x \in BOOLEAN : view' = [view EXCEPT ![t].searched = x]
      BY <2>1
    <3>2. /\ view'[t] = [view[t] EXCEPT !.searched = x]
          /\ \A u \in Threads : u # t => view'[u] = view[u]
      BY <1>b, <3>1
    <3>3. \A w \in View : LET v == [w EXCEPT !.searched = x]
                          IN  v \in View /\ v.mem = w.mem /\ v.imm = w.imm
      BY SMT DEF View
    <3>4. QED
      BY <2>2, <3>2, <3>3
  <2>4. /\ pc'[t] \in Holding /\ pc'[t] # "closed" /\ pc[t] # "closed"
        /\ \A u \in Threads : u # t => pc'[u] = pc[u]
    BY <1>c, <2>1, SMT DEF Holding
  <2>5. IsClosed' <=> IsClosed
    BY <2>4 DEF IsClosed
  <2>6. view[t] # NULL /\ view'[t] # NULL
    BY <1>c, <2>2, <2>3
  <2>7. \A m : Holders(m)' = Holders(m)
    BY <1>d, <1>e, <2>1, <2>3, <2>5, <2>6
  <2>8. view' \in [Threads -> View \cup {NULL}]
    <3>1. view' = [u \in Threads |-> view'[u]]
      BY <1>b, <2>1
    <3>2. \A u \in Threads : view'[u] \in View \cup {NULL}
      BY <1>b, <2>3
    <3>3. QED
      BY <3>1, <3>2
  <2>9. \A u \in Threads : IF pc'[u] \in Holding
                           THEN view'[u] \in View /\ view'[u].mem <= mem_ /\ view'[u].imm <= mem_
                           ELSE view'[u] = NULL
    BY <1>b, <2>2, <2>3, <2>4
  <2>10. QED
    BY <1>b, <2>1, <2>7, <2>8, <2>9 DEF RefInv
\* A reader gives its references back.
<1>4. ASSUME NEW t \in Threads, pc[t] \in Holding, EndReader(t)
      PROVE  RefInv'
  <2>1. /\ UNCHANGED <<mem_, imm_>> /\ Unref({view[t].mem, view[t].imm})
        /\ view' = [view EXCEPT ![t] = NULL] /\ pc' = [pc EXCEPT ![t] = "idle"]
    BY <1>4 DEF EndReader, Goto
  <2>2. /\ pc'[t] \notin Holding /\ pc'[t] # "closed" /\ pc[t] # "closed"
        /\ \A u \in Threads : u # t => pc'[u] = pc[u]
    BY <1>4, <1>c, <2>1 DEF Holding
  <2>3. view[t] # NULL /\ view'[t] = NULL /\ \A u \in Threads : u # t => view'[u] = view[u]
    BY <1>4, <1>b, <1>c, <2>1
  <2>4. view' \in [Threads -> View \cup {NULL}]
    BY <1>b, <2>1, SMT
  <2>5. IsClosed' <=> IsClosed
    BY <2>2 DEF IsClosed
  <2>6. \A m \in 1 .. mem_ : Counts(refs_'[m], Holders(m)')
    <3>1. SUFFICES ASSUME NEW m \in 1 .. mem_
                   PROVE  Counts(refs_'[m], Holders(m)')
      OBVIOUS
    <3>2. Owners(m)' = Owners(m) /\ t \notin Owners(m)
      <4>1. t \notin Owners(m)
        BY <1>c, SMT DEF Owners
      <4>2. QED
        BY <1>e, <2>1, <2>5, <4>1
    <3>3. IF m \in {view[t].mem, view[t].imm} THEN refs_'[m] = refs_[m] - 1
          ELSE refs_'[m] = refs_[m]
      BY <1>b, <2>1, RefsChange, ZenonT(30)
    <3>4. t \in Readers(m) <=> m \in {view[t].mem, view[t].imm}
      BY <2>3 DEF Readers
    <3>5. Readers(m)' = Readers(m) \ {t}
      <4>1. \A u \in Threads : u \in Readers(m)' <=> u \in Readers(m) /\ u # t
        BY <2>3 DEF Readers
      <4>2. Readers(m) \subseteq Threads /\ Readers(m)' \subseteq Threads
        BY DEF Readers
      <4>3. QED
        BY <4>1, <4>2
    <3>6. Holders(m)' = Holders(m) \ {t}
      BY <3>2, <3>5 DEF Holders
    <3>7. CASE m \in {view[t].mem, view[t].imm}
      <4>1. t \in Holders(m)
        BY <3>4, <3>7 DEF Holders
      <4>2. QED
        BY <1>b, <3>3, <3>6, <3>7, <4>1, HolderWent
    <3>8. CASE m \notin {view[t].mem, view[t].imm}
      <4>1. Holders(m)' = Holders(m)
        BY <3>2, <3>4, <3>6, <3>8 DEF Holders
      <4>2. QED
        BY <1>b, <3>3, <3>8, <4>1
    <3>9. QED
      BY <3>7, <3>8, SMT
  <2>7. refs_' = [m \in 1 .. mem_ |-> refs_'[m]]
    BY <1>b, <2>1, RefsChange
  <2>8. refs_' \in Seq(Nat) /\ Len(refs_') = mem_
    BY <1>a, <2>6, <2>7, CountedType
  <2>9. \A u \in Threads : IF pc'[u] \in Holding
                           THEN view'[u] \in View /\ view'[u].mem <= mem_ /\ view'[u].imm <= mem_
                           ELSE view'[u] = NULL
    BY <1>b, <2>2, <2>3
  <2>10. QED
    BY <2>1, <2>4, <2>6, <2>8, <2>9 DEF RefInv
<1>5. ASSUME NEW t \in Threads, ReaderStep(t)
      PROVE  RefInv'
  <2>1. CASE \E k \in Keys : GetReads(t, k)
    BY <1>3, <2>1
  <2>2. CASE ~\E k \in Keys : GetReads(t, k)
    <3>1. EndReader(t) /\ pc[t] \in {"g.end", "i.open"}
      BY <1>5, <2>2 DEF ReaderStep, GetEnds, CleanupIteratorState
    <3>2. pc[t] \in Holding
      BY <3>1, SMT DEF Holding
    <3>3. QED
      BY <1>4, <3>1, <3>2
  <2>3. QED
    BY <2>1, <2>2, SMT
\* The database takes a new memtable and keeps the full one.
<1>6. ASSUME NEW t \in Threads, SwitchMemTable(t)
      PROVE  RefInv'
  <2>1. /\ InRoom(t) /\ imm_ = 0 /\ UNCHANGED <<view, pc>> /\ imm_' = mem_
        /\ refs_' = Append(refs_, 1) /\ mem_' = Len(log) + 1
    BY <1>6 DEF SwitchMemTable, WriterFrame, readers, MustWait
  <2>2. mem_' = mem_ + 1
    BY <2>1, SMT DEF DataInv
  <2>a. \A s \in Seq(Nat) : /\ Append(s, 1) \in Seq(Nat) /\ Len(Append(s, 1)) = Len(s) + 1
                            /\ Append(s, 1)[Len(s) + 1] = 1
                            /\ \A m \in 1 .. Len(s) : Append(s, 1)[m] = s[m]
    BY SMT
  <2>3. refs_' \in Seq(Nat) /\ Len(refs_') = mem_'
    BY <1>b, <2>1, <2>2, <2>a
  <2>4. refs_'[mem_ + 1] = 1 /\ \A m \in 1 .. mem_ : refs_'[m] = refs_[m]
    BY <1>b, <2>1, <2>a
  <2>5. ~IsClosed /\ ~IsClosed'
    <3>1. pc[t] \notin Ending /\ pc[t] # "idle" /\ "closed" \in Ending
      BY <2>1, SMT DEF InRoom, Ending
    <3>2. ~shutting_down_
      BY <3>1 DEF CloseInv
    <3>3. QED
      BY <2>1, <3>1, <3>2 DEF CloseInv, IsClosed
  <2>6. ASSUME NEW m \in 1 .. mem_
        PROVE  Counts(refs_'[m], Holders(m)')
    <3>1. m \in {mem_', imm_'} <=> m \in {mem_, imm_}
      BY <1>a, <2>1, <2>2, SMT
    <3>2. Owners(m)' = Owners(m)
      BY <2>5, <3>1 DEF Owners
    <3>3. Holders(m)' = Holders(m)
      BY <1>d, <2>1, <3>2
    <3>4. QED
      BY <1>b, <2>4, <3>3
  <2>7. ASSUME NEW m, m = mem_ + 1
        PROVE  Counts(refs_'[m], Holders(m)')
    <3>1. \A u \in Threads : view[u] # NULL => view[u].mem # m /\ view[u].imm # m
      <4>1. SUFFICES ASSUME NEW u \in Threads, view[u] # NULL
                     PROVE  view[u].mem # m /\ view[u].imm # m
        OBVIOUS
      <4>2. view[u] \in View /\ view[u].mem <= mem_ /\ view[u].imm <= mem_
        BY <1>b, <1>c, <4>1
      <4>3. view[u].mem \in Nat /\ view[u].imm \in Nat
        BY <4>2, SMT DEF View
      <4>4. QED
        BY <1>a, <2>7, <4>2, <4>3, SMT
    <3>2. Readers(m)' = {}
      BY <2>1, <3>1 DEF Readers
    <3>3. Owners(m)' = {NULL}
      BY <2>2, <2>5, <2>7 DEF Owners
    <3>4. Holders(m)' = {NULL}
      BY <3>2, <3>3 DEF Holders
    <3>5. Counts(0 + 1, {} \cup {NULL})
      BY CountsEmpty, CountsMore
    <3>6. 0 + 1 = 1 /\ {} \cup {NULL} = {NULL}
      BY SMT
    <3>7. QED
      BY <2>4, <2>7, <3>4, <3>5, <3>6
  <2>8. \A m \in 1 .. mem_' : m \in 1 .. mem_ \/ m = mem_ + 1
    BY <1>a, <2>2, SMT
  <2>9. \A m \in 1 .. mem_' : Counts(refs_'[m], Holders(m)')
    BY <2>6, <2>7, <2>8
  <2>10. ASSUME NEW u \in Threads
         PROVE  IF pc'[u] \in Holding
                THEN view'[u] \in View /\ view'[u].mem <= mem_' /\ view'[u].imm <= mem_'
                ELSE view'[u] = NULL
    <3>1. CASE pc[u] \in Holding
      <4>1. view[u] \in View /\ view[u].mem <= mem_ /\ view[u].imm <= mem_
        BY <1>b, <3>1
      <4>2. view[u].mem \in Nat /\ view[u].imm \in Nat
        BY <4>1, SMT DEF View
      <4>3. view[u].mem <= mem_' /\ view[u].imm <= mem_'
        BY <1>a, <2>2, <4>1, <4>2, SMT
      <4>4. QED
        BY <2>1, <3>1, <4>1, <4>3
    <3>2. CASE pc[u] \notin Holding
      BY <1>b, <2>1, <3>2
    <3>3. QED
      BY <3>1, <3>2, SMT
  <2>11. view' \in [Threads -> View \cup {NULL}]
    BY <1>b, <2>1
  <2>12. QED
    BY <2>3, <2>9, <2>10, <2>11 DEF RefInv
\* The flushed memtable leaves the database.
<1>7. CASE InstallVersion
  <2>1. /\ UNCHANGED <<mem_, pc>> /\ bg.at = "install"
        /\ view' = [u \in Threads |-> IF view[u] = NULL THEN NULL
                                      ELSE [view[u] EXCEPT !.isCurrent = FALSE]]
        /\ \/ imm_' = 0 /\ Unref({imm_})
           \/ UNCHANGED <<imm_, refs_>>
    BY <1>7 DEF InstallVersion, BgFrame
  <2>2. ~IsClosed /\ ~IsClosed'
    <3>1. scheduled
      BY <2>1, SMT DEF ScheduleInv
    <3>2. QED
      BY <2>1, <3>1 DEF CloseInv, IsClosed
  <2>3. ASSUME NEW u \in Threads
        PROVE  /\ view[u] = NULL => view'[u] = NULL
               /\ view[u] # NULL => /\ view'[u] \in View
                                    /\ view'[u].mem = view[u].mem /\ view'[u].imm = view[u].imm
    <3>1. \A w \in View : LET v == [w EXCEPT !.isCurrent = FALSE]
                          IN  v \in View /\ v.mem = w.mem /\ v.imm = w.imm
      BY DEF View
    <3>2. view[u] # NULL => view[u] \in View
      BY <1>b
    <3>3. QED
      BY <2>1, <3>1, <3>2
  <2>4. view' \in [Threads -> View \cup {NULL}]
    BY <2>1, <2>3
  <2>5. \A u \in Threads : IF pc'[u] \in Holding
                           THEN view'[u] \in View /\ view'[u].mem <= mem_ /\ view'[u].imm <= mem_
                           ELSE view'[u] = NULL
    BY <1>b, <1>c, <2>1, <2>3
  <2>6. \A u \in Threads : \/ view'[u] = view[u]
                           \/ /\ view[u] # NULL /\ view'[u] # NULL
                              /\ view'[u].mem = view[u].mem /\ view'[u].imm = view[u].imm
    BY <1>c, <2>3
  <2>7. CASE UNCHANGED <<imm_, refs_>>
    <3>1. \A m : Holders(m)' = Holders(m)
      BY <1>d, <1>e, <2>1, <2>2, <2>6, <2>7
    <3>2. QED
      BY <1>b, <2>1, <2>4, <2>5, <2>7, <3>1 DEF RefInv
  <2>8. CASE imm_' = 0 /\ Unref({imm_})
    <3>1. \A m \in 1 .. mem_ : Counts(refs_'[m], Holders(m)')
      <4>1. SUFFICES ASSUME NEW m \in 1 .. mem_
                     PROVE  Counts(refs_'[m], Holders(m)')
        OBVIOUS
      <4>2. IF m \in {imm_} THEN refs_'[m] = refs_[m] - 1 ELSE refs_'[m] = refs_[m]
        BY <1>b, <2>8, RefsChange
      <4>3. m # 0
        BY SMT
      <4>4. CASE m # imm_
        <5>1. m \in {mem_', imm_'} <=> m \in {mem_, imm_}
          BY <2>1, <2>8, <4>3, <4>4, SMT
        <5>2. Owners(m)' = Owners(m)
          BY <2>2, <5>1 DEF Owners
        <5>3. Holders(m)' = Holders(m)
          BY <1>d, <2>6, <5>2
        <5>4. QED
          BY <1>b, <4>2, <4>4, <5>3
      <4>5. CASE m = imm_
        <5>1. Owners(m) = {NULL}
          BY <2>2, <4>5 DEF Owners
        <5>2. Owners(m)' = {}
          <6>1. m \notin {mem_', imm_'}
            BY <1>a, <2>1, <2>8, <4>3, <4>5, SMT
          <6>2. QED
            BY <6>1 DEF Owners
        <5>3. Readers(m)' = Readers(m) /\ NULL \notin Readers(m)
          <6>1. \A t \in Threads : t \in Readers(m)' <=> t \in Readers(m)
            BY <2>6 DEF Readers
          <6>2. Readers(m) \subseteq Threads /\ Readers(m)' \subseteq Threads
            BY DEF Readers
          <6>3. QED
            BY <1>c, <6>1, <6>2
        <5>4. NULL \in Holders(m) /\ Holders(m)' = Holders(m) \ {NULL}
          BY <5>1, <5>2, <5>3 DEF Holders
        <5>5. refs_'[m] = refs_[m] - 1
          BY <4>2, <4>5
        <5>6. QED
          BY <1>b, <5>4, <5>5, HolderWent
      <4>6. QED
        BY <4>4, <4>5
    <3>2. refs_' = [m \in 1 .. mem_ |-> refs_'[m]]
      BY <1>b, <2>8, RefsChange
    <3>3. refs_' \in Seq(Nat) /\ Len(refs_') = mem_
      BY <1>a, <3>1, <3>2, CountedType
    <3>4. QED
      BY <2>1, <2>4, <2>5, <3>1, <3>3 DEF RefInv
  <2>9. QED
    BY <2>1, <2>7, <2>8
\* The destructor waits, or gives both memtables back.
<1>8. ASSUME NEW t \in Threads, Close(t) \/ CloseWakes(t)
      PROVE  RefInv'
  <2>1. UNCHANGED <<mem_, imm_, view>> /\ FinishClose(t)
    BY <1>8 DEF Close, CloseWakes, CloseFrame, readers
  <2>2. pc[t] = "idle" \/ pc[t] = "c.wait"
    BY <1>8 DEF Close, CloseWakes
  <2>3. ~IsClosed
    <3>1. "c.wait" \in Ending /\ "closed" \in Ending /\ "c.wait" # "closed" /\ "idle" # "closed"
      BY SMT DEF Ending
    <3>2. CASE Close(t)
      BY <3>1, <3>2 DEF Close, IsClosed
    <3>3. CASE CloseWakes(t)
      <4>1. pc[t] = "c.wait"
        BY <3>3 DEF CloseWakes
      <4>2. \A u \in Threads : pc[u] = "closed" => u = t
        BY <3>1, <4>1 DEF CloseInv
      <4>3. QED
        BY <3>1, <4>1, <4>2 DEF IsClosed
    <3>4. QED
      BY <1>8, <3>2, <3>3, SMT
  <2>4. /\ "c.wait" \notin Holding /\ "closed" \notin Holding /\ "idle" \notin Holding
        /\ "c.wait" # "closed"
    BY SMT DEF Holding
  <2>5. ASSUME NEW l, l \notin Holding, pc' = [pc EXCEPT ![t] = l]
        PROVE  \A u \in Threads : IF pc'[u] \in Holding
                                  THEN /\ view'[u] \in View
                                       /\ view'[u].mem <= mem_ /\ view'[u].imm <= mem_
                                  ELSE view'[u] = NULL
    <3>1. pc'[t] \notin Holding /\ \A u \in Threads : u # t => pc'[u] = pc[u]
      BY <1>c, <2>5, SMT
    <3>2. view[t] = NULL
      BY <1>b, <2>2, <2>4
    <3>3. QED
      BY <1>b, <2>1, <3>1, <3>2
  <2>6. CASE scheduled
    <3>1. pc' = [pc EXCEPT ![t] = "c.wait"] /\ UNCHANGED refs_
      BY <2>1, <2>6 DEF FinishClose, Goto
    <3>2. ~IsClosed'
      <4>1. \A u \in Threads : pc'[u] = "closed" => pc[u] = "closed"
        BY <1>c, <2>4, <3>1, SMT
      <4>2. QED
        BY <2>3, <4>1 DEF IsClosed
    <3>3. \A m : Holders(m)' = Holders(m)
      BY <1>d, <1>e, <2>1, <2>3, <3>2
    <3>4. QED
      BY <1>b, <2>1, <2>4, <2>5, <3>1, <3>3 DEF RefInv
  <2>7. CASE ~scheduled
    <3>1. pc' = [pc EXCEPT ![t] = "closed"] /\ Unref({mem_, imm_})
      BY <2>1, <2>7 DEF FinishClose, Goto
    <3>2. IsClosed'
      <4>1. pc'[t] = "closed"
        BY <1>c, <3>1, SMT
      <4>2. QED
        BY <4>1 DEF IsClosed
    <3>3. \A m \in 1 .. mem_ : Counts(refs_'[m], Holders(m)')
      <4>1. SUFFICES ASSUME NEW m \in 1 .. mem_
                     PROVE  Counts(refs_'[m], Holders(m)')
        OBVIOUS
      <4>2. IF m \in {mem_, imm_} THEN refs_'[m] = refs_[m] - 1 ELSE refs_'[m] = refs_[m]
        BY <1>b, <3>1, RefsChange
      <4>3. Owners(m)' = {} /\ Owners(m) = IF m \in {mem_, imm_} THEN {NULL} ELSE {}
        BY <2>3, <3>2 DEF Owners
      <4>4. Readers(m)' = Readers(m) /\ NULL \notin Readers(m)
        BY <1>c, <2>1 DEF Readers
      <4>5. CASE m \in {mem_, imm_}
        <5>1. NULL \in Holders(m) /\ Holders(m)' = Holders(m) \ {NULL}
          BY <4>3, <4>4, <4>5 DEF Holders
        <5>2. QED
          BY <1>b, <4>2, <4>5, <5>1, HolderWent
      <4>6. CASE m \notin {mem_, imm_}
        <5>1. Holders(m)' = Holders(m)
          BY <4>3, <4>4, <4>6 DEF Holders
        <5>2. QED
          BY <1>b, <4>2, <4>6, <5>1
      <4>7. QED
        BY <4>5, <4>6, SMT
    <3>4. refs_' = [m \in 1 .. mem_ |-> refs_'[m]]
      BY <1>b, <3>1, RefsChange
    <3>5. refs_' \in Seq(Nat) /\ Len(refs_') = mem_
      BY <1>a, <3>3, <3>4, CountedType
    <3>6. QED
      BY <1>b, <2>1, <2>4, <2>5, <3>1, <3>3, <3>5 DEF RefInv
  <2>8. QED
    BY <2>6, <2>7, SMT
<1>9. QED
  BY <1>1, <1>2, <1>5, <1>6, <1>7, <1>8, RefSteps

LEMMA RefAlways == Spec => []RefInv
<1>1. Init => RefInv
  <2> SUFFICES ASSUME Init PROVE RefInv
    BY SMT
  <2>1. /\ view = [t \in Threads |-> NULL] /\ pc = [t \in Threads |-> "idle"]
        /\ refs_ = <<1>> /\ mem_ = 1 /\ imm_ = 0
    BY DEF Init
  <2>2. "idle" \notin Holding /\ "idle" # "closed"
    BY SMT DEF Holding
  <2>3. refs_ \in Seq(Nat) /\ Len(refs_) = mem_ /\ refs_[1] = 1 /\ 1 .. mem_ = {1}
    BY <2>1, SMT
  <2>4. Holders(1) = {NULL}
    <3>1. Readers(1) = {} /\ ~IsClosed
      BY <2>1, <2>2 DEF Readers, IsClosed
    <3>2. Owners(1) = {NULL}
      BY <2>1, <3>1 DEF Owners
    <3>3. QED
      BY <3>1, <3>2 DEF Holders
  <2>5. Counts(refs_[1], Holders(1))
    <3>1. Counts(0 + 1, {} \cup {NULL})
      BY CountsEmpty, CountsMore
    <3>2. 0 + 1 = 1 /\ {} \cup {NULL} = {NULL}
      BY SMT
    <3>3. QED
      BY <2>3, <2>4, <3>1, <3>2
  <2>6. \A m \in 1 .. mem_ : Counts(refs_[m], Holders(m))
    BY <2>3, <2>5
  <2>7. view \in [Threads -> View \cup {NULL}]
    BY <2>1
  <2>8. QED
    BY <2>1, <2>2, <2>3, <2>6, <2>7 DEF RefInv
<1>2. (/\ QueueInv /\ DataInv /\ DataInv' /\ ScheduleInv /\ VersionInv /\ CloseInv
       /\ RefInv /\ [Next]_vars)
      => RefInv'
  BY RefNext
<1>3. QED
  BY <1>1, <1>2, QueueAlways, SeqAlways, ScheduleAlways, VersionAlways, CloseAlways, PTL DEF Spec

\* MemTable::Ref and Unref: for every number of readers, iterators and writers,
\* a memtable has references exactly as long as the open database or a reader
\* can read it.
THEOREM MemTablesFreedInTime == Spec => []MemTablesExact
<1>1. CloseInv /\ RefInv => MemTablesExact
  <2> SUFFICES ASSUME CloseInv, RefInv, NEW m \in DOMAIN refs_
               PROVE  refs_[m] > 0 <=> ~IsClosed /\ m \in InUse
    BY DEF MemTablesExact
  <2>1. m \in 1 .. mem_
    BY SMT DEF RefInv
  <2>2. refs_[m] > 0 <=> Holders(m) # {}
    BY <2>1, CountsNone DEF RefInv
  <2>3. m \in InUse <=> m \in {mem_, imm_} \/ Readers(m) # {}
    <3>1. m \in InUse <=> \/ m \in {mem_, imm_}
                          \/ \E t \in Threads : view[t] # NULL /\ m \in {view[t].mem, view[t].imm}
      BY SMT DEF InUse
    <3>2. Readers(m) # {} <=> \E t \in Threads : view[t] # NULL /\ m \in {view[t].mem, view[t].imm}
      BY DEF Readers
    <3>3. QED
      BY <3>1, <3>2
  <2>4. IsClosed => Readers(m) = {}
    <3>1. "closed" \in Ending /\ "idle" \notin Holding /\ \A l \in Ending : l \notin Holding
      BY SMT DEF Ending, Holding
    <3>2. IsClosed => \A t \in Threads : pc[t] \notin Holding
      BY <3>1 DEF CloseInv, IsClosed
    <3>3. IsClosed => \A t \in Threads : view[t] = NULL
      BY <3>2 DEF RefInv
    <3>4. QED
      BY <3>3 DEF Readers
  <2>5. Holders(m) # {} <=> ~IsClosed /\ m \in InUse
    BY <2>3, <2>4 DEF Holders, Owners
  <2>6. QED
    BY <2>2, <2>5
<1>2. QED
  BY <1>1, CloseAlways, RefAlways, PTL
==============================================================================
