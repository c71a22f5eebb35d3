--------------------------- MODULE WritePathTables ---------------------------
(* What the operators of WritePath do to tables, versions and lookups: a    *)
(* flush and a compaction keep what decides a key and the order of the      *)
(* levels, and a lookup finds the newest entry.                             *)
EXTENDS WritePathProofs

\* A leaf that names no other prover is left to Zenon.
USE Zenon

\* e or a later entry of its key is in s, or the key is gone from s after a
\* deletion in A.
Stands(e, s, A) ==
  \/ \E f \in s : f.key = e.key /\ f.seq >= e.seq
  \/ /\ \A f \in s : f.key # e.key
     /\ \E d \in A : d.key = e.key /\ d.seq >= e.seq /\ d.val = Deleted

\* The tables V and the logs L behind them hold all of A: the tables nothing
\* else, and what is not in the logs is older than they are.
Covers(V, L, A) ==
  /\ V \subseteq A
  /\ \A e \in V, f \in L : e.seq < f.seq
  /\ \A e \in A : \/ e \in L
                  \/ Stands(e, V, A) /\ \A f \in L : e.seq < f.seq

\* Newer records in a log: AddRecord.
LEMMA CoversMoreLogs ==
  ASSUME NEW V, NEW L, NEW A, NEW U, NEW M, Covers(V, L, A),
         L \subseteq M, M \subseteq L \cup U, \A e \in A, f \in U : e.seq < f.seq
  PROVE  Covers(V, M, A)
<1>1. /\ V \subseteq A /\ \A e \in V, f \in L : e.seq < f.seq
      /\ \A e \in A : e \in L \/ (Stands(e, V, A) /\ \A f \in L : e.seq < f.seq)
  BY DEF Covers
<1>2. \A f \in M : f \in L \/ f \in U
  OBVIOUS
<1>3. \A e \in V, f \in M : e.seq < f.seq
  BY <1>1, <1>2
<1>4. ASSUME NEW e \in A
      PROVE  e \in M \/ (Stands(e, V, A) /\ \A f \in M : e.seq < f.seq)
  <2>1. CASE e \in L
    BY <2>1
  <2>2. CASE Stands(e, V, A) /\ \A f \in L : e.seq < f.seq
    BY <1>2, <2>2
  <2>3. QED
    BY <1>1, <2>1, <2>2
<1>5. QED
  BY <1>1, <1>3, <1>4 DEF Covers

\* What is in the logs is acknowledged: the end of Write.
LEMMA CoversMoreWrites ==
  ASSUME NEW V, NEW L, NEW A, NEW U, Covers(V, L, A), U \subseteq L
  PROVE  Covers(V, L, A \cup U)
<1>1. /\ V \subseteq A /\ \A e \in V, f \in L : e.seq < f.seq
      /\ \A e \in A : e \in L \/ (Stands(e, V, A) /\ \A f \in L : e.seq < f.seq)
  BY DEF Covers
<1>2. \A e : Stands(e, V, A) => Stands(e, V, A \cup U)
  BY DEF Stands
<1>3. \A e \in A \cup U : e \in L \/ (Stands(e, V, A \cup U) /\ \A f \in L : e.seq < f.seq)
  BY <1>1, <1>2
<1>4. V \subseteq A \cup U
  BY <1>1
<1>5. QED
  BY <1>1, <1>3, <1>4 DEF Covers

\* A memtable becomes a table and its log is not needed any more.
LEMMA CoversFlush ==
  ASSUME NEW V, NEW A \in SUBSET Entry, NEW I \in SUBSET Entry, NEW M \in SUBSET Entry, NEW T,
         Covers(V, I \cup M, A), T \subseteq A, T \subseteq I, A \cap I \subseteq T,
         \A e \in I, f \in M : e.seq < f.seq
  PROVE  Covers(V \cup T, M, A)
<1>1. /\ V \subseteq A /\ \A e \in V, f \in I \cup M : e.seq < f.seq
      /\ \A e \in A : \/ e \in I \cup M
                      \/ Stands(e, V, A) /\ \A f \in I \cup M : e.seq < f.seq
  BY DEF Covers
<1>2. \A e \in V \cup T, f \in M : e.seq < f.seq
  BY <1>1
<1>3. \A e \in A : e.seq \in Nat
  BY SMT DEF Entry
<1>4. ASSUME NEW e \in A, e \notin M
      PROVE  Stands(e, V \cup T, A) /\ \A f \in M : e.seq < f.seq
  <2>1. CASE e \in I
    <3>1. e \in T /\ \A f \in M : e.seq < f.seq
      BY <2>1
    <3>2. e.seq >= e.seq
      BY <1>3, SMT
    <3>3. QED
      BY <3>1, <3>2 DEF Stands
  <2>2. CASE Stands(e, V, A) /\ \A f \in I \cup M : e.seq < f.seq
    <3>1. CASE \E f \in V : f.key = e.key /\ f.seq >= e.seq
      BY <2>2, <3>1 DEF Stands
    <3>2. CASE /\ \A f \in V : f.key # e.key
               /\ \E d \in A : d.key = e.key /\ d.seq >= e.seq /\ d.val = Deleted
      <4>1. CASE \A f \in T : f.key # e.key
        BY <2>2, <3>2, <4>1 DEF Stands
      <4>2. ASSUME NEW f \in T, f.key = e.key
            PROVE  Stands(e, V \cup T, A)
        <5>1. f \in A /\ e.seq < f.seq
          BY <2>2
        <5>2. f.seq >= e.seq
          BY <1>3, <5>1, SMT
        <5>3. QED
          BY <4>2, <5>2 DEF Stands
      <4>3. QED
        BY <2>2, <4>1, <4>2
    <3>3. QED
      BY <2>2, <3>1, <3>2 DEF Stands
  <2>3. QED
    BY <1>1, <1>4, <2>1, <2>2
<1>5. V \cup T \subseteq A
  BY <1>1
<1>6. QED
  BY <1>2, <1>4, <1>5 DEF Covers

\* Among entries up to a number one of a key is the newest.
LEMMA NewestOfKey ==
  ASSUME NEW S \in SUBSET Entry, NEW f \in S, NEW n \in Nat, \A g \in S : g.seq <= n
  PROVE  \E g \in S : g.key = f.key /\ \A h \in S : h.key = f.key => h.seq <= g.seq
<1> DEFINE Q == {g.seq : g \in {h \in S : h.key = f.key}}
<1>1. \A g \in S : g.seq \in 1 .. n
  BY SMT DEF Entry
<1>2. Q \in SUBSET (1 .. n) /\ f.seq \in Q
  BY <1>1
<1>3. PICK m \in Q : \A k \in Q : k <= m
  <2> HIDE DEF Q
  <2>1. QED
    BY <1>2, GreatestNumber
<1>4. PICK g \in S : g.key = f.key /\ g.seq = m
  OBVIOUS
<1>5. \A h \in S : h.key = f.key => h.seq <= g.seq
  BY <1>3, <1>4
<1>6. QED
  BY <1>4, <1>5

\* A compaction of S, which is older than the rest R of the tables and which no
\* snapshot divides.
LEMMA CoversWork ==
  ASSUME NEW R, NEW S, NEW L, NEW A \in SUBSET Entry, NEW smallest \in Nat,
         Covers(R \cup S, L, A), \A g \in S : g.seq <= smallest,
         \A f \in R, g \in S : f.key = g.key => g.seq < f.seq
  PROVE  Covers(R \cup Kept(S, smallest), L, A)
<1> DEFINE K == Kept(S, smallest)
<1>1. /\ R \cup S \subseteq A /\ \A e \in R \cup S, f \in L : e.seq < f.seq
      /\ \A e \in A : e \in L \/ (Stands(e, R \cup S, A) /\ \A f \in L : e.seq < f.seq)
  BY DEF Covers
<1>2. K \subseteq S
  BY DEF Kept
<1>3. S \in SUBSET Entry /\ R \in SUBSET Entry
  BY <1>1
<1>4. \A e \in A : e.seq \in Nat
  BY SMT DEF Entry
<1>5. ASSUME NEW e \in A, NEW f \in S, f.key = e.key, f.seq >= e.seq
      PROVE  Stands(e, R \cup K, A)
  <2>1. CASE \E r \in R : r.key = e.key
    <3>1. PICK r \in R : r.key = e.key
      BY <2>1
    <3>2. f.seq < r.seq /\ f.seq \in Nat /\ r.seq \in Nat
      BY <1>1, <1>4, <1>5, <3>1
    <3>3. r.seq >= e.seq
      BY <1>4, <1>5, <3>2, SMT
    <3>4. QED
      BY <3>1, <3>3 DEF Stands
  <2>2. CASE \E h \in K : h.key = e.key /\ h.seq >= e.seq
    BY <2>2 DEF Stands
  <2>3. CASE /\ \A r \in R : r.key # e.key
             /\ ~\E h \in K : h.key = e.key /\ h.seq >= e.seq
    <3>1. PICK g \in S : g.key = f.key /\ \A h \in S : h.key = f.key => h.seq <= g.seq
      BY <1>3, NewestOfKey
    <3>2. /\ g.key = e.key /\ f.seq <= g.seq /\ g.seq <= smallest
          /\ \A h \in S : h.key = e.key => h.seq <= g.seq
      BY <1>5, <3>1
    <3>3. g \in A /\ \A h \in S : h.seq \in Nat
      BY <1>1, <1>4
    <3>4. g.seq >= e.seq
      BY <1>4, <1>5, <3>2, <3>3, SMT
    <3>5. ~\E h \in S : h.key = g.key /\ h.seq > g.seq /\ h.seq <= smallest
      BY <3>2, <3>3, SMT
    <3>6. g.val = Deleted
      BY <2>3, <3>2, <3>4, <3>5 DEF Kept
    <3>7. ASSUME NEW h \in K, h.key = e.key
          PROVE  FALSE
      <4>1. ~(h.seq >= e.seq) /\ h \in S
        BY <1>2, <2>3, <3>7
      <4>2. g.seq > h.seq
        BY <1>4, <3>3, <3>4, <4>1, SMT
      <4>3. QED
        BY <3>2, <3>7, <4>2 DEF Kept
    <3>8. \A h \in R \cup K : h.key # e.key
      BY <2>3, <3>7
    <3>9. QED
      BY <3>2, <3>3, <3>4, <3>6, <3>8 DEF Stands
  <2>4. QED
    BY <2>1, <2>2, <2>3
<1>6. ASSUME NEW e \in A, Stands(e, R \cup S, A)
      PROVE  Stands(e, R \cup K, A)
  <2>1. CASE \E f \in S : f.key = e.key /\ f.seq >= e.seq
    BY <1>5, <2>1
  <2>2. CASE \E f \in R : f.key = e.key /\ f.seq >= e.seq
    BY <2>2 DEF Stands
  <2>3. CASE /\ \A f \in R \cup S : f.key # e.key
             /\ \E d \in A : d.key = e.key /\ d.seq >= e.seq /\ d.val = Deleted
    <3>1. \A f \in R \cup K : f.key # e.key
      BY <1>2, <2>3
    <3>2. QED
      BY <2>3, <3>1 DEF Stands
  <2>4. QED
    BY <1>6, <2>1, <2>2, <2>3 DEF Stands
<1>7. R \cup K \subseteq A /\ \A e \in R \cup K, f \in L : e.seq < f.seq
  BY <1>1, <1>2
<1> HIDE DEF K
<1>8. Covers(R \cup K, L, A)
  BY <1>1, <1>6, <1>7 DEF Covers
<1>9. QED
  BY <1>8 DEF K

\* What is covered survives, even if the logs lose entries that are not
\* acknowledged.
LEMMA CoveredSurvives ==
  ASSUME NEW V, NEW L \in SUBSET Entry, acked.all \in SUBSET Entry, Covers(V, L, acked.all),
         NEW e \in acked.all, NEW M \in SUBSET L, e \in L => e \in M
  PROVE  Survives(e, V \cup M)
<1>1. V \subseteq acked.all /\ (e \in L \/ (Stands(e, V, acked.all) /\ \A f \in L : e.seq < f.seq))
  BY DEF Covers
<1>2. e.seq \in Nat /\ \A f \in L : f.seq \in Nat
  BY SMT DEF Entry
<1>3. \A f \in V : f.seq \in Nat
  BY <1>1, SMT DEF Entry
<1>4. ASSUME NEW f \in V \cup M, f.key = e.key, f.seq >= e.seq
      PROVE  Survives(e, V \cup M)
  BY <1>4 DEF Survives
<1>5. CASE e \in L
  <2>1. e \in V \cup M /\ e.seq >= e.seq
    BY <1>2, <1>5, SMT
  <2>2. QED
    BY <1>4, <2>1
<1>6. CASE Stands(e, V, acked.all) /\ \A f \in L : e.seq < f.seq
  <2>1. CASE \E f \in V : f.key = e.key /\ f.seq >= e.seq
    BY <1>4, <2>1
  <2>2. CASE \E f \in M : f.key = e.key
    <3>1. PICK f \in M : f.key = e.key
      BY <2>2
    <3>2. f.seq >= e.seq
      BY <1>2, <1>6, <3>1, SMT
    <3>3. QED
      BY <1>4, <3>1, <3>2
  <2>3. CASE /\ \A f \in V : f.key # e.key
             /\ \A f \in M : f.key # e.key
             /\ \E d \in acked.all : d.key = e.key /\ d.seq >= e.seq /\ d.val = Deleted
    <3>1. {f \in V \cup M : f.key = e.key /\ f.seq < e.seq} = {}
      BY <2>3
    <3>2. QED
      BY <2>3, <3>1 DEF Survives
  <2>4. QED
    BY <1>6, <2>1, <2>2, <2>3 DEF Stands
<1>7. QED
  BY <1>1, <1>5, <1>6, SMT

------------------------------------------------------------------------------
\* x is in a table of v.
InTables(v, x) == x \in v.below \/ \E i \in 1 .. Len(v.level0) : x \in v.level0[i]

LEMMA TableEntriesHas ==
  ASSUME NEW v \in Version
  PROVE  \A x : x \in TableEntries(v) <=> InTables(v, x)
<1> DEFINE n == Len(v.level0)
           up == [i \in 1 .. n |-> v.level0[n + 1 - i]]
           ts == up \o <<v.below>>
<1>1. v.level0 \in Seq(SUBSET Entry) /\ v.below \in SUBSET Entry
  BY SMT DEF Version
<1>2. n \in Nat
  BY <1>1, SMT
<1>3. up \in [1 .. n -> SUBSET Entry]
  BY <1>1, SMT
<1>4. /\ up \in Seq(SUBSET Entry) /\ Len(up) = n
      /\ \A i \in 1 .. n : n + 1 - i \in 1 .. n /\ n + 1 - (n + 1 - i) = i
  BY <1>2, <1>3, SMT
<1>5. \A i \in 1 .. n : up[n + 1 - i] = v.level0[i]
  BY <1>4
<1> DEFINE b == v.below
<1>6. b \in SUBSET Entry
  BY <1>1, SMT
<1>7. /\ Len(ts) = n + 1 /\ DOMAIN ts = 1 .. n + 1 /\ ts[n + 1] = b
      /\ \A i \in 1 .. n : ts[i] = up[i] /\ i \in 1 .. n + 1
  <2> HIDE DEF up, n, b
  <2>1. QED
    BY <1>2, <1>4, <1>6, SMT DEF b
<1>8. n + 1 \in 1 .. n + 1 /\ \A i \in 1 .. n + 1 : i \in 1 .. n \/ i = n + 1
  BY <1>2, SMT
<1>9. \A i \in 1 .. n : up[i] = v.level0[n + 1 - i]
  BY SMT
<1>10. TableEntries(v) = UNION Range(ts)
  BY DEF TableEntries, Tables
<1> HIDE DEF up, n, b, ts
<1>11. Range(ts) = {ts[i] : i \in 1 .. n + 1}
  BY <1>7 DEF Range
<1>12. ASSUME NEW x, x \in TableEntries(v)
       PROVE  InTables(v, x)
  <2>1. PICK i \in 1 .. n + 1 : x \in ts[i]
    BY <1>10, <1>11, <1>12
  <2>2. CASE i = n + 1
    BY <1>7, <2>1, <2>2 DEF InTables, b
  <2>3. CASE i \in 1 .. n
    <3>1. x \in v.level0[n + 1 - i] /\ n + 1 - i \in 1 .. Len(v.level0)
      BY <1>4, <1>7, <1>9, <2>1, <2>3 DEF n
    <3>2. QED
      BY <3>1 DEF InTables
  <2>4. QED
    BY <1>8, <2>2, <2>3
<1>13. ASSUME NEW x, InTables(v, x)
       PROVE  x \in TableEntries(v)
  <2>1. CASE x \in v.below
    <3>1. x \in ts[n + 1]
      BY <1>7, <2>1 DEF b
    <3>2. QED
      BY <1>8, <1>10, <1>11, <3>1
  <2>2. CASE \E i \in 1 .. Len(v.level0) : x \in v.level0[i]
    <3>1. PICK i \in 1 .. n : x \in v.level0[i]
      BY <2>2 DEF n
    <3>2. x \in ts[n + 1 - i] /\ n + 1 - i \in 1 .. n + 1
      BY <1>4, <1>5, <1>7, <3>1
    <3>3. QED
      BY <1>10, <1>11, <3>2
  <2>3. QED
    BY <1>13, <2>1, <2>2 DEF InTables
<1>14. QED
  BY <1>12, <1>13

\* What the tables of the version that an edit makes hold.
EditHas(v, e, x) ==
  \/ x \in (v.below \ e.old) \cup e.below
  \/ \E i \in 1 .. Len(v.level0) : i \notin e.drop /\ x \in v.level0[i]
  \/ \E k \in 1 .. Len(e.add) : x \in e.add[k]

LEMMA EditTables ==
  ASSUME NEW v \in Version, NEW e, e.add \in Seq(SUBSET Entry), e.below \in SUBSET Entry
  PROVE  /\ \A x : x \in TableEntries(ApplyEdit(v, e)) <=> EditHas(v, e, x)
         /\ ApplyEdit(v, e).below = (v.below \ e.old) \cup e.below
<1> DEFINE T == SUBSET Entry
           kept == [i \in DOMAIN v.level0 |-> IF i \in e.drop THEN <<>> ELSE <<v.level0[i]>>]
           l == Concat(kept) \o e.add
           b == (v.below \ e.old) \cup e.below
<1>1. /\ v.level0 \in Seq(T) /\ DOMAIN v.level0 = 1 .. Len(v.level0)
      /\ Len(v.level0) \in Nat
  BY SMT DEF Version
<1>2. \A i \in 1 .. Len(v.level0) : kept[i] \in Seq(T)
  <2> HIDE DEF T
  <2>1. \A i \in 1 .. Len(v.level0) : v.level0[i] \in T
    BY <1>1, SMT
  <2>2. <<>> \in Seq(T) /\ \A x \in T : <<x>> \in Seq(T)
    BY SMT
  <2>3. QED
    BY <1>1, <2>1, <2>2
<1>3. kept \in Seq(Seq(T)) /\ Len(kept) = Len(v.level0)
  <2>1. kept \in [1 .. Len(v.level0) -> Seq(T)]
    BY <1>1, <1>2
  <2> HIDE DEF kept
  <2>2. QED
    BY <1>1, <2>1, SMT
<1>4. ApplyEdit(v, e) = [level0 |-> l, below |-> b]
  BY DEF ApplyEdit
<1>5. ApplyEdit(v, e).level0 = l /\ ApplyEdit(v, e).below = b
  <2> HIDE DEF l, b
  <2>1. QED
    BY <1>4, SMT
<1>6. \A i \in 1 .. Len(v.level0) : kept[i] = IF i \in e.drop THEN <<>> ELSE <<v.level0[i]>>
  BY <1>1
<1>7. \A i \in 1 .. Len(v.level0) : \A X : Has(kept[i], X) <=> i \notin e.drop /\ X = v.level0[i]
  <2>1. \A y : Len(<<y>>) = 1 /\ <<y>>[1] = y
    BY SMT
  <2>2. Len(<<>>) = 0 /\ 1 .. 0 = {} /\ 1 .. 1 = {1}
    BY SMT
  <2>3. \A X, y : Has(<<y>>, X) <=> X = y
    BY <2>1, <2>2 DEF Has
  <2>4. \A X : ~Has(<<>>, X)
    BY <2>2 DEF Has
  <2> HIDE DEF kept
  <2>5. TAKE i \in 1 .. Len(v.level0)
  <2>6. CASE i \in e.drop
    <3>1. kept[i] = <<>>
      BY <1>6, <2>6
    <3>2. QED
      BY <2>4, <2>6, <3>1
  <2>7. CASE i \notin e.drop
    <3>1. kept[i] = <<v.level0[i]>>
      BY <1>6, <2>7
    <3>2. \A X : Has(<<v.level0[i]>>, X) <=> X = v.level0[i]
      BY <2>3
    <3>3. \A X : Has(kept[i], X) <=> X = v.level0[i]
      BY <3>1, <3>2, SMT
    <3>4. QED
      BY <2>7, <3>3
  <2>8. QED
    BY <2>6, <2>7, SMT
<1>8. \A X : Has(l, X) <=> \/ \E i \in 1 .. Len(v.level0) : i \notin e.drop /\ X = v.level0[i]
                           \/ Has(e.add, X)
  <2> HIDE DEF kept, T
  <2>1. TAKE X
  <2>2. Has(Concat(kept), X) <=> \E i \in 1 .. Len(kept) : Has(kept[i], X)
    BY <1>3, ConcatElements
  <2>3. Has(Concat(kept) \o e.add, X) <=> Has(Concat(kept), X) \/ Has(e.add, X)
    BY <1>3, ConcatType, HasJoined DEF T
  <2>4. QED
    BY <1>3, <1>7, <2>2, <2>3
<1> DEFINE w == ApplyEdit(v, e)
<1>9. w \in Version
  BY EditType
<1>10. \A x : x \in TableEntries(w) <=> InTables(w, x)
  BY <1>9, TableEntriesHas
<1> HIDE DEF l, b, kept, T
<1>11. \A x : InTables(w, x) <=> x \in b \/ \E X : Has(l, X) /\ x \in X
  BY <1>5 DEF InTables, Has
<1>12. \A x : (\E X : Has(l, X) /\ x \in X) <=>
                \/ \E i \in 1 .. Len(v.level0) : i \notin e.drop /\ x \in v.level0[i]
                \/ \E k \in 1 .. Len(e.add) : x \in e.add[k]
  <2>1. \A X : Has(e.add, X) <=> \E k \in 1 .. Len(e.add) : e.add[k] = X
    BY DEF Has
  <2>2. TAKE x
  <2>3. ASSUME NEW X, Has(l, X), x \in X
        PROVE  \/ \E i \in 1 .. Len(v.level0) : i \notin e.drop /\ x \in v.level0[i]
               \/ \E k \in 1 .. Len(e.add) : x \in e.add[k]
    <3>1. CASE \E i \in 1 .. Len(v.level0) : i \notin e.drop /\ X = v.level0[i]
      BY <2>3, <3>1
    <3>2. CASE Has(e.add, X)
      BY <2>1, <2>3, <3>2
    <3>3. QED
      BY <1>8, <2>3, <3>1, <3>2
  <2>4. ASSUME NEW i \in 1 .. Len(v.level0), i \notin e.drop, x \in v.level0[i]
        PROVE  \E X : Has(l, X) /\ x \in X
    <3>1. Has(l, v.level0[i])
      BY <1>8, <2>4
    <3>2. QED
      BY <2>4, <3>1
  <2>5. ASSUME NEW k \in 1 .. Len(e.add), x \in e.add[k]
        PROVE  \E X : Has(l, X) /\ x \in X
    <3>1. Has(l, e.add[k])
      BY <1>8, <2>1, <2>5
    <3>2. QED
      BY <2>5, <3>1
  <2>6. QED
    BY <2>3, <2>4, <2>5
<1>13. \A x : InTables(w, x) <=> EditHas(v, e, x)
  BY <1>11, <1>12 DEF EditHas, b
<1>14. QED
  BY <1>5, <1>10, <1>13 DEF b

\* A flush adds the memtable to the tables.
LEMMA FlushTables ==
  ASSUME NEW v \in Version, NEW e, NEW T \in SUBSET Entry, e.drop = {}, e.old = {},
         \/ e.add = <<>> /\ e.below = {} /\ T = {}
         \/ e.add = <<T>> /\ e.below = {}
         \/ e.add = <<>> /\ e.below = T
  PROVE  TableEntries(ApplyEdit(v, e)) = TableEntries(v) \cup T
<1>1. /\ <<>> \in Seq(SUBSET Entry) /\ <<T>> \in Seq(SUBSET Entry) /\ {} \in SUBSET Entry
      /\ Len(<<>>) = 0 /\ 1 .. 0 = {} /\ 1 .. 1 = {1} /\ Len(<<T>>) = 1 /\ <<T>>[1] = T
  BY SMT
<1>2. \A x : x \in TableEntries(ApplyEdit(v, e)) <=> EditHas(v, e, x)
  BY <1>1, EditTables
<1>3. \A x : x \in TableEntries(v) <=> InTables(v, x)
  BY TableEntriesHas
<1>a. \A x : x \in e.below \/ (\E k \in 1 .. Len(e.add) : x \in e.add[k]) <=> x \in T
  <2>1. CASE e.add = <<>> /\ e.below = {} /\ T = {}
    BY <1>1, <2>1
  <2>2. CASE e.add = <<T>> /\ e.below = {}
    BY <1>1, <2>2
  <2>3. CASE e.add = <<>> /\ e.below = T
    BY <1>1, <2>3
  <2>4. QED
    BY <2>1, <2>2, <2>3, SMT
<1>4. \A x : EditHas(v, e, x) <=> InTables(v, x) \/ x \in T
  <2>1. \A i : i \notin e.drop
    BY SMT
  <2>2. \A x : x \in (v.below \ e.old) \cup e.below <=> x \in v.below \/ x \in e.below
    BY SMT
  <2>3. QED
    BY <1>a, <2>1, <2>2 DEF EditHas, InTables
<1>5. \A x : x \in TableEntries(ApplyEdit(v, e)) <=> x \in TableEntries(v) \/ x \in T
  BY <1>2, <1>3, <1>4
<1>6. QED
  BY <1>5

\* A move leaves the entries as they are.
LEMMA MoveTables ==
  ASSUME NEW v \in Version, NEW n, NEW S \in Inputs(v)
  PROVE  TableEntries(ApplyEdit(v, [NoEdit EXCEPT !.drop = S, !.log = n,
                                      !.below = InputEntries(v, S)])) = TableEntries(v)
<1> DEFINE e == [NoEdit EXCEPT !.drop = S, !.log = n, !.below = InputEntries(v, S)]
<1>1. v.level0 \in Seq(SUBSET Entry) /\ DOMAIN v.level0 = 1 .. Len(v.level0)
  BY SMT DEF Version
<1>2. S \subseteq 1 .. Len(v.level0)
  BY <1>1 DEF Inputs
<1>3. e.drop = S /\ e.old = {} /\ e.add = <<>> /\ e.below = InputEntries(v, S)
  BY SMT DEF NoEdit
<1>4. \A i \in S : v.level0[i] \in SUBSET Entry
  BY <1>1, <1>2, SMT
<1>5. \A x : x \in InputEntries(v, S) <=> \E i \in S : x \in v.level0[i]
  BY DEF InputEntries
<1>6. InputEntries(v, S) \in SUBSET Entry
  BY <1>4, <1>5
<1>7. <<>> \in Seq(SUBSET Entry) /\ Len(<<>>) = 0 /\ 1 .. 0 = {}
  BY SMT
<1> HIDE DEF e
<1>8. \A x : x \in TableEntries(ApplyEdit(v, e)) <=> EditHas(v, e, x)
  BY <1>3, <1>6, <1>7, EditTables
<1>9. \A x : x \in TableEntries(v) <=> InTables(v, x)
  BY TableEntriesHas
<1>10. \A x : EditHas(v, e, x) <=> InTables(v, x)
  BY <1>2, <1>3, <1>5, <1>7 DEF EditHas, InTables
<1>11. \A x : x \in TableEntries(ApplyEdit(v, e)) <=> x \in TableEntries(v)
  BY <1>8, <1>9, <1>10
<1>12. QED
  BY <1>11 DEF e

------------------------------------------------------------------------------
\* The entries that a compaction of the tables S of level 0 merges.  No other
\* table of level 0 has an entry of one of their keys that is older, and no
\* snapshot is before the compaction.
Compacted(v, S) == InputEntries(v, S) \cup Below(v, S)
Workable(v, S, smallest) ==
  /\ smallest \in Nat /\ \A g \in Compacted(v, S) : g.seq <= smallest
  /\ \A j \in 1 .. Len(v.level0) : j \notin S =>
       \A f \in v.level0[j], g \in Compacted(v, S) : f.key = g.key => g.seq < f.seq

LEMMA CompactedHas ==
  ASSUME NEW v \in Version, NEW S \in SUBSET (1 .. Len(v.level0))
  PROVE  /\ \A x : x \in InputEntries(v, S) <=> \E i \in S : x \in v.level0[i]
         /\ \A x \in Compacted(v, S) : \E y \in InputEntries(v, S) : y.key = x.key
         /\ \A x \in Compacted(v, S) : x \in TableEntries(v)
         /\ Below(v, S) \subseteq v.below
         /\ \A x \in v.below \ Below(v, S), y \in Compacted(v, S) : x.key # y.key
<1>1. \A x : x \in InputEntries(v, S) <=> \E i \in S : x \in v.level0[i]
  BY DEF InputEntries
<1>2. \A x : x \in Below(v, S) <=> x \in v.below /\ \E y \in InputEntries(v, S) : y.key = x.key
  BY DEF Below, KeysOf
<1>3. \A x \in Compacted(v, S) : x \in InputEntries(v, S) \/ x \in Below(v, S)
  BY DEF Compacted
<1>4. \A x \in Compacted(v, S) : \E y \in InputEntries(v, S) : y.key = x.key
  BY <1>2, <1>3
<1>5. \A x \in Compacted(v, S) : InTables(v, x)
  BY <1>1, <1>2, <1>3 DEF InTables
<1>6. ASSUME NEW x \in v.below, x \notin Below(v, S), NEW y \in Compacted(v, S), x.key = y.key
      PROVE  FALSE
  <2>1. PICK z \in InputEntries(v, S) : z.key = y.key
    BY <1>4
  <2>2. z.key = x.key
    BY <1>6, <2>1
  <2>3. QED
    BY <1>2, <1>6, <2>2
<1>7. QED
  BY <1>1, <1>2, <1>4, <1>5, <1>6, TableEntriesHas

LEMMA WorkTables ==
  ASSUME NEW v \in Version, NEW S \in SUBSET (1 .. Len(v.level0)), NEW smallest, NEW n,
         Workable(v, S, smallest), NEW L, NEW A \in SUBSET Entry, Covers(TableEntries(v), L, A)
  PROVE  Covers(TableEntries(ApplyEdit(v, [drop |-> S, old |-> Below(v, S), add |-> <<>>,
                               below |-> Kept(InputEntries(v, S) \cup Below(v, S), smallest),
                               log |-> n])), L, A)
<1> DEFINE E == Compacted(v, S)
           K == Kept(E, smallest)
           R == {x \in TableEntries(v) : \/ x \in v.below \ Below(v, S)
                                         \/ \E i \in 1 .. Len(v.level0) : i \notin S /\ x \in v.level0[i]}
           e == [drop |-> S, old |-> Below(v, S), add |-> <<>>, below |-> K, log |-> n]
<1>1. /\ \A x : x \in InputEntries(v, S) <=> \E i \in S : x \in v.level0[i]
      /\ \A x \in E : x \in TableEntries(v)
      /\ Below(v, S) \subseteq v.below
      /\ \A x \in v.below \ Below(v, S), y \in E : x.key # y.key
  BY CompactedHas
<1>2. /\ smallest \in Nat /\ \A g \in E : g.seq <= smallest
      /\ \A j \in 1 .. Len(v.level0) : j \notin S =>
           \A f \in v.level0[j], g \in E : f.key = g.key => g.seq < f.seq
  BY DEF Workable
<1>3. \A x : x \in TableEntries(v) <=> InTables(v, x)
  BY TableEntriesHas
<1>4. TableEntries(v) \subseteq A
  BY DEF Covers
<1>5. TableEntries(v) = R \cup E
  <2>1. \A x : InTables(v, x) => \/ x \in v.below \ Below(v, S)
                                 \/ \E i \in 1 .. Len(v.level0) : i \notin S /\ x \in v.level0[i]
                                 \/ x \in E
    BY <1>1 DEF InTables, Compacted
  <2> HIDE DEF E
  <2>2. QED
    BY <1>1, <1>3, <2>1
<1>6. \A f \in R, g \in E : f.key = g.key => g.seq < f.seq
  <2> HIDE DEF E
  <2>1. QED
    BY <1>1, <1>2
<1>7. K \subseteq E
  BY DEF Kept
<1>8. K \in SUBSET Entry
  BY <1>1, <1>4, <1>7
<1>9. e.drop = S /\ e.old = Below(v, S) /\ e.add = <<>> /\ e.below = K
  <2> HIDE DEF K
  <2>1. QED
    BY SMT
<1>10. <<>> \in Seq(SUBSET Entry) /\ Len(<<>>) = 0 /\ 1 .. 0 = {}
  BY SMT
<1> HIDE DEF e, E, K
<1>11. \A x : x \in TableEntries(ApplyEdit(v, e)) <=> EditHas(v, e, x)
  BY <1>8, <1>9, <1>10, EditTables
<1>12. \A x : EditHas(v, e, x) <=> x \in R \/ x \in K
  <2>1. \A x : EditHas(v, e, x) <=>
                 \/ x \in v.below \ Below(v, S) \/ x \in K
                 \/ \E i \in 1 .. Len(v.level0) : i \notin S /\ x \in v.level0[i]
    BY <1>9, <1>10 DEF EditHas
  <2>2. \A x \in v.below : x \in TableEntries(v)
    BY <1>3 DEF InTables
  <2>3. \A i \in 1 .. Len(v.level0) : \A x \in v.level0[i] : x \in TableEntries(v)
    BY <1>3 DEF InTables
  <2>4. QED
    BY <2>1, <2>2, <2>3
<1> HIDE DEF R
<1>13. TableEntries(ApplyEdit(v, e)) = R \cup K
  BY <1>11, <1>12
<1>14. Covers(R \cup K, L, A)
  <2>1. Covers(R \cup E, L, A)
    BY <1>5
  <2>2. QED
    BY <1>2, <1>6, <2>1, CoversWork DEF K
<1>15. Covers(TableEntries(ApplyEdit(v, e)), L, A)
  BY <1>13, <1>14
<1>16. QED
  BY <1>15 DEF e, K, E, Compacted

\* A compaction that starts.
LEMMA WorkStarts ==
  ASSUME NEW v \in Version, NEW S \in Inputs(v), NEW n \in Nat, \A e \in TableEntries(v) : e.seq <= n
  PROVE  S \in SUBSET (1 .. Len(v.level0)) /\ Workable(v, S, n)
<1>1. DOMAIN v.level0 = 1 .. Len(v.level0)
  BY SMT DEF Version
<1>2. /\ S \in SUBSET (1 .. Len(v.level0))
      /\ \A i \in S, j \in (1 .. Len(v.level0)) \ S : ~Overlap(v.level0[i], v.level0[j])
  BY <1>1 DEF Inputs
<1>3. /\ \A x : x \in InputEntries(v, S) <=> \E i \in S : x \in v.level0[i]
      /\ \A x \in Compacted(v, S) : \E y \in InputEntries(v, S) : y.key = x.key
      /\ \A x \in Compacted(v, S) : x \in TableEntries(v)
  BY <1>2, CompactedHas
<1>4. ASSUME NEW j \in 1 .. Len(v.level0), j \notin S, NEW f \in v.level0[j],
             NEW g \in Compacted(v, S), f.key = g.key
      PROVE  FALSE
  <2>1. PICK i \in S : \E y \in v.level0[i] : y.key = g.key
    BY <1>3
  <2>2. Overlap(v.level0[i], v.level0[j])
    BY <1>4, <2>1 DEF Overlap, KeysOf
  <2>3. QED
    BY <1>2, <1>4, <2>2
<1>5. QED
  BY <1>2, <1>3, <1>4 DEF Workable

\* A memtable that is flushed in the middle of a compaction is newer than what
\* is compacted, and if it goes below level 0 it has none of its keys.
LEMMA WorkFlush ==
  ASSUME NEW v \in Version, NEW S \in SUBSET (1 .. Len(v.level0)), NEW smallest,
         Workable(v, S, smallest), NEW e, NEW T \in SUBSET Entry, e.drop = {}, e.old = {},
         \/ e.add = <<>> /\ e.below = {}
         \/ e.add = <<T>> /\ e.below = {}
         \/ e.add = <<>> /\ e.below = T /\ \A i \in DOMAIN v.level0 : ~Overlap(v.level0[i], T),
         \A f \in TableEntries(v), g \in T : f.seq < g.seq
  PROVE  Workable(ApplyEdit(v, e), S, smallest)
<1> DEFINE w == ApplyEdit(v, e)
<1>1. /\ v.level0 \in Seq(SUBSET Entry) /\ DOMAIN v.level0 = 1 .. Len(v.level0)
      /\ Len(v.level0) \in Nat
  BY SMT DEF Version
<1>2. /\ <<>> \in Seq(SUBSET Entry) /\ <<T>> \in Seq(SUBSET Entry) /\ {} \in SUBSET Entry
  BY SMT
<1>3. /\ w \in Version /\ w.level0 = v.level0 \o e.add
      /\ w.below = (v.below \ e.old) \cup e.below
  BY <1>2, EditType, EditTables
<1>4. /\ \A i \in 1 .. Len(v.level0) : i \in 1 .. Len(w.level0) /\ w.level0[i] = v.level0[i]
      /\ \A i \in 1 .. Len(w.level0) : i \in 1 .. Len(v.level0) \/ w.level0[i] = T
  <2> HIDE DEF w
  <2>1. CASE e.add = <<>>
    <3>1. w.level0 = v.level0
      BY <1>1, <1>3, <2>1, SMT
    <3>2. QED
      BY <3>1
  <2>2. CASE e.add = <<T>>
    <3>1. w.level0 = Append(v.level0, T)
      BY <1>1, <1>3, <2>2, SMT
    <3>2. \A s \in Seq(SUBSET Entry) :
            /\ \A i \in 1 .. Len(s) : i \in 1 .. Len(Append(s, T)) /\ Append(s, T)[i] = s[i]
            /\ \A i \in 1 .. Len(Append(s, T)) : i \in 1 .. Len(s) \/ Append(s, T)[i] = T
      BY SMT
    <3> DEFINE x == v.level0
               y == Append(x, T)
    <3>3. /\ \A i \in 1 .. Len(x) : i \in 1 .. Len(y) /\ y[i] = x[i]
          /\ \A i \in 1 .. Len(y) : i \in 1 .. Len(x) \/ y[i] = T
      BY <1>1, <3>2
    <3> HIDE DEF y
    <3>4. w.level0 = y
      BY <3>1 DEF y
    <3>5. QED
      BY <3>3, <3>4
  <2>3. QED
    BY <2>1, <2>2, SMT
<1> HIDE DEF w
<1>5. \A x : x \in InputEntries(v, S) <=> \E i \in S : x \in v.level0[i]
  BY DEF InputEntries
<1>6. InputEntries(w, S) = InputEntries(v, S)
  <2>1. \A i \in S : w.level0[i] = v.level0[i]
    BY <1>4
  <2>2. {w.level0[i] : i \in S} = {v.level0[i] : i \in S}
    BY <2>1, SMT
  <2>3. QED
    BY <2>2 DEF InputEntries
<1>7. ASSUME NEW x \in w.below, x.key \in KeysOf(InputEntries(v, S))
      PROVE  x \in v.below
  <2>1. x \in v.below \/ x \in e.below
    BY <1>3
  <2>2. ASSUME x \in e.below
        PROVE  FALSE
    <3>1. e.below = T /\ \A i \in 1 .. Len(v.level0) : ~Overlap(v.level0[i], T)
      BY <1>1, <2>2
    <3>2. PICK i \in S : \E y \in v.level0[i] : y.key = x.key
      BY <1>5, <1>7 DEF KeysOf
    <3>3. Overlap(v.level0[i], T)
      BY <2>2, <3>1, <3>2 DEF Overlap, KeysOf
    <3>4. QED
      BY <3>1, <3>3
  <2>3. QED
    BY <2>1, <2>2
<1>8. \A x \in Compacted(w, S) : x \in Compacted(v, S)
  BY <1>6, <1>7 DEF Compacted, Below
<1>9. \A x \in Compacted(v, S) : x \in TableEntries(v)
  BY CompactedHas
<1>10. /\ smallest \in Nat /\ \A g \in Compacted(v, S) : g.seq <= smallest
       /\ \A j \in 1 .. Len(v.level0) : j \notin S =>
            \A f \in v.level0[j], g \in Compacted(v, S) : f.key = g.key => g.seq < f.seq
  BY DEF Workable
<1>11. ASSUME NEW j \in 1 .. Len(w.level0), j \notin S, NEW f \in w.level0[j],
              NEW g \in Compacted(w, S), f.key = g.key
       PROVE  g.seq < f.seq
  <2>1. CASE j \in 1 .. Len(v.level0)
    BY <1>4, <1>8, <1>10, <1>11, <2>1
  <2>2. CASE w.level0[j] = T
    BY <1>8, <1>9, <1>11, <2>2
  <2>3. QED
    BY <1>4, <2>1, <2>2
<1>12. \A g \in Compacted(w, S) : g.seq <= smallest
  BY <1>8, <1>10
<1>13. Workable(w, S, smallest)
  BY <1>10, <1>11, <1>12 DEF Workable
<1>14. QED
  BY <1>13 DEF w

------------------------------------------------------------------------------
\* x is an entry of k up to q in one of the sources.
Shows(ss, k, q, x) == x.key = k /\ x.seq <= q /\ \E i \in 1 .. Len(ss) : x \in ss[i]

LEMMA MergedHas ==
  ASSUME NEW ss \in Seq(SUBSET Entry), NEW k, NEW q
  PROVE  /\ \A x : x \in Visible(UNION Range(ss), k, q) <=> Shows(ss, k, q, x)
         /\ Visible(UNION Range(ss), k, q) \in SUBSET Entry
<1>1. DOMAIN ss = 1 .. Len(ss) /\ \A i \in 1 .. Len(ss) : ss[i] \in SUBSET Entry
  BY SMT
<1>2. \A x : x \in UNION Range(ss) <=> \E i \in 1 .. Len(ss) : x \in ss[i]
  BY <1>1 DEF Range
<1>3. \A x : x \in Visible(UNION Range(ss), k, q) <=> Shows(ss, k, q, x)
  BY <1>2 DEF Visible, Shows
<1>4. \A x : Shows(ss, k, q, x) => x \in Entry
  BY <1>1 DEF Shows
<1>5. QED
  BY <1>3, <1>4

\* The newest entry of a set in which no two have one sequence number.
LEMMA NewestChosen ==
  ASSUME NEW s \in SUBSET Entry, NEW e \in s, \A f \in s : f.seq <= e.seq,
         \A f \in s : f.seq = e.seq => f = e
  PROVE  Newest(s) = e
<1> DEFINE x == Newest(s)
<1>1. x \in s /\ \A f \in s : f.seq <= x.seq
  BY DEF Newest
<1> HIDE DEF x
<1>2. x.seq \in Nat /\ e.seq \in Nat
  BY <1>1, SMT DEF Entry
<1>3. e.seq <= x.seq /\ x.seq <= e.seq
  BY <1>1
<1>4. x.seq = e.seq
  BY <1>2, <1>3, SMT
<1>5. QED
  BY <1>1, <1>4 DEF x

LEMMA MergedFinds ==
  ASSUME NEW ss \in Seq(SUBSET Entry), NEW k, NEW q, NEW e, Shows(ss, k, q, e),
         \A f : Shows(ss, k, q, f) => f.seq <= e.seq,
         \A f : Shows(ss, k, q, f) /\ f.seq = e.seq => f = e
  PROVE  MergedLookUp(ss, k, q) = e.val
<1> DEFINE all == Visible(UNION Range(ss), k, q)
<1>1. all \in SUBSET Entry /\ \A x : x \in all <=> Shows(ss, k, q, x)
  BY MergedHas
<1>2. MergedLookUp(ss, k, q) = IF all = {} THEN Deleted ELSE Newest(all).val
  BY DEF MergedLookUp
<1> HIDE DEF all
<1>3. e \in all /\ \A f \in all : f.seq <= e.seq /\ (f.seq = e.seq => f = e)
  BY <1>1
<1>4. Newest(all) = e
  BY <1>1, <1>3, NewestChosen
<1>5. QED
  BY <1>2, <1>3, <1>4

\* T has a newer entry than U of every key that both have.
Newer(T, U) == \A e \in T, f \in U : e.key = f.key => f.seq < e.seq
\* Sources from the newest to the oldest.
Down(ss) == \A i, j \in 1 .. Len(ss) : i < j => Newer(ss[i], ss[j])

\* A lookup that stops at the first source with the key finds the newest entry.
LEMMA LookUpFinds ==
  ASSUME NEW ss \in Seq(SUBSET Entry), Down(ss), NEW k, NEW q, NEW e, Shows(ss, k, q, e),
         \A f : Shows(ss, k, q, f) => f.seq <= e.seq,
         \A f : Shows(ss, k, q, f) /\ f.seq = e.seq => f = e
  PROVE  LookUp(ss, k, q) = e.val
<1> DEFINE hits == {i \in DOMAIN ss : Visible(ss[i], k, q) # {}}
           first == CHOOSE i \in hits : \A j \in hits : i <= j
<1>1. /\ DOMAIN ss = 1 .. Len(ss) /\ \A i \in 1 .. Len(ss) : i \in Nat /\ ss[i] \in SUBSET Entry
  BY SMT
<1>2. PICK i \in 1 .. Len(ss) : e \in ss[i]
  BY DEF Shows
<1>3. e \in Visible(ss[i], k, q)
  BY <1>2 DEF Visible, Shows
<1>4. \A j \in 1 .. Len(ss) : \A f : f \in Visible(ss[j], k, q) => f \in ss[j] /\ Shows(ss, k, q, f)
  BY DEF Visible, Shows
<1>5. LookUp(ss, k, q) = IF hits = {} THEN Deleted ELSE Newest(Visible(ss[first], k, q)).val
  BY DEF LookUp
<1>6. \A j \in hits : j \in 1 .. Len(ss) /\ \E f \in ss[j] : Shows(ss, k, q, f)
  BY <1>1, <1>4
<1>7. i \in hits
  BY <1>1, <1>3
<1>8. e.seq \in Nat /\ \A f : Shows(ss, k, q, f) => f.seq \in Nat
  <2>1. \A f : Shows(ss, k, q, f) => f \in Entry
    BY <1>1 DEF Shows
  <2>2. QED
    BY <2>1, SMT DEF Entry
<1>9. ASSUME NEW j \in hits
      PROVE  i <= j
  <2>1. PICK f \in ss[j] : Shows(ss, k, q, f)
    BY <1>6, <1>9
  <2>2. j \in 1 .. Len(ss)
    BY <1>6, <1>9
  <2>3. f.key = e.key
    BY <2>1 DEF Shows
  <2>4. j < i => e.seq < f.seq
    BY <1>2, <2>1, <2>2, <2>3 DEF Down, Newer
  <2>5. f.seq <= e.seq /\ f.seq \in Nat
    BY <1>8, <2>1
  <2>6. ~(j < i)
    BY <1>8, <2>4, <2>5, SMT
  <2>7. QED
    BY <1>1, <2>2, <2>6, SMT
<1>10. first = i
  <2>1. first \in hits /\ \A j \in hits : first <= j
    <3> HIDE DEF hits
    <3>1. QED
      BY <1>7, <1>9
  <2> HIDE DEF first
  <2>2. i <= first /\ first <= i /\ first \in Nat
    BY <1>1, <1>6, <1>7, <1>9, <2>1
  <2>3. QED
    BY <1>1, <2>2, SMT
<1> HIDE DEF hits, first
<1>11. Visible(ss[i], k, q) \in SUBSET Entry
  BY <1>1 DEF Visible
<1>12. Newest(Visible(ss[i], k, q)) = e
  BY <1>3, <1>4, <1>11, NewestChosen
<1>13. QED
  BY <1>5, <1>7, <1>10, <1>12

LEMMA NothingFound ==
  ASSUME NEW ss \in Seq(SUBSET Entry), NEW k, NEW q, \A f : ~Shows(ss, k, q, f)
  PROVE  LookUp(ss, k, q) = Deleted /\ MergedLookUp(ss, k, q) = Deleted
<1>1. DOMAIN ss = 1 .. Len(ss)
  BY SMT
<1>2. \A j \in 1 .. Len(ss) : \A f : f \in Visible(ss[j], k, q) => Shows(ss, k, q, f)
  BY DEF Visible, Shows
<1>3. {i \in DOMAIN ss : Visible(ss[i], k, q) # {}} = {}
  BY <1>1, <1>2
<1>4. Visible(UNION Range(ss), k, q) = {}
  BY MergedHas
<1>5. QED
  BY <1>3, <1>4 DEF LookUp, MergedLookUp

\* A lookup depends on what is visible only.
SameVisible(ss, tt, k, q) ==
  /\ ss \in Seq(SUBSET Entry) /\ tt \in Seq(SUBSET Entry)
  /\ Len(tt) = Len(ss)
  /\ \A i \in 1 .. Len(ss) : Visible(tt[i], k, q) = Visible(ss[i], k, q)

LEMMA LookUpSame ==
  ASSUME NEW ss, NEW tt, NEW k, NEW q, SameVisible(ss, tt, k, q)
  PROVE  LookUp(tt, k, q) = LookUp(ss, k, q) /\ MergedLookUp(tt, k, q) = MergedLookUp(ss, k, q)
<1>b. ss \in Seq(SUBSET Entry) /\ tt \in Seq(SUBSET Entry)
  BY DEF SameVisible
<1>a. Len(tt) = Len(ss) /\ \A i \in 1 .. Len(ss) : Visible(tt[i], k, q) = Visible(ss[i], k, q)
  BY DEF SameVisible
<1>1. DOMAIN ss = 1 .. Len(ss) /\ DOMAIN tt = 1 .. Len(ss)
  BY <1>a, <1>b, SMT
<1> DEFINE hits == {i \in DOMAIN ss : Visible(ss[i], k, q) # {}}
           first == CHOOSE i \in hits : \A j \in hits : i <= j
<1>2. {i \in DOMAIN tt : Visible(tt[i], k, q) # {}} = hits
  BY <1>a, <1>1
<1>3. hits # {} => first \in hits \/ \A i \in hits : ~\A j \in hits : i <= j
  <2> HIDE DEF hits
  <2>1. QED
    OBVIOUS
<1>4. LookUp(ss, k, q) = IF hits = {} THEN Deleted ELSE Newest(Visible(ss[first], k, q)).val
  BY DEF LookUp
<1>5. LookUp(tt, k, q) = IF hits = {} THEN Deleted ELSE Newest(Visible(tt[first], k, q)).val
  <2> DEFINE own == {i \in DOMAIN tt : Visible(tt[i], k, q) # {}}
  <2>1. LookUp(tt, k, q) = IF own = {} THEN Deleted
                           ELSE Newest(Visible(tt[CHOOSE i \in own : \A j \in own : i <= j], k, q)).val
    BY DEF LookUp
  <2>2. own = hits
    BY <1>2
  <2> HIDE DEF own, hits
  <2>3. QED
    BY <2>1, <2>2
<1>6. hits # {} => first \in 1 .. Len(ss)
  <2>1. hits \in SUBSET Nat
    BY <1>1, SMT
  <2>2. hits # {} => \E i \in hits : \A j \in hits : i <= j
    <3> HIDE DEF hits
    <3>1. QED
      BY <2>1, LeastNumber
  <2>3. hits # {} => first \in hits
    BY <1>3, <2>2
  <2>4. QED
    BY <1>1, <2>3
<1>7. LookUp(tt, k, q) = LookUp(ss, k, q)
  <2> HIDE DEF hits, first
  <2>1. CASE hits = {}
    BY <1>4, <1>5, <2>1
  <2>2. CASE hits # {}
    BY <1>a, <1>4, <1>5, <1>6, <2>2
  <2>3. QED
    BY <2>1, <2>2, SMT
<1>8. \A x : Shows(tt, k, q, x) <=> Shows(ss, k, q, x)
  BY <1>a DEF Shows, Visible
<1>9. Visible(UNION Range(tt), k, q) = Visible(UNION Range(ss), k, q)
  <2> DEFINE a == Visible(UNION Range(tt), k, q)
             b == Visible(UNION Range(ss), k, q)
  <2>1. \A x : x \in a <=> Shows(tt, k, q, x)
    BY <1>b, MergedHas
  <2>2. \A x : x \in b <=> Shows(ss, k, q, x)
    BY <1>b, MergedHas
  <2> HIDE DEF a, b
  <2>3. a = b
    BY <1>8, <2>1, <2>2
  <2>4. QED
    BY <2>3 DEF a, b
<1>10. MergedLookUp(tt, k, q) = MergedLookUp(ss, k, q)
  <2> DEFINE a == Visible(UNION Range(tt), k, q)
             b == Visible(UNION Range(ss), k, q)
  <2>1. MergedLookUp(tt, k, q) = IF a = {} THEN Deleted ELSE Newest(a).val
    BY DEF MergedLookUp
  <2>2. MergedLookUp(ss, k, q) = IF b = {} THEN Deleted ELSE Newest(b).val
    BY DEF MergedLookUp
  <2> HIDE DEF a, b
  <2>3. a = b
    BY <1>9 DEF a, b
  <2>4. QED
    BY <2>1, <2>2, <2>3, SMT
<1>11. QED
  BY <1>7, <1>10


------------------------------------------------------------------------------
\* Tables from the oldest to the newest.
Up(ss) == \A i, j \in 1 .. Len(ss) : i < j => Newer(ss[j], ss[i])
\* Per key, level 0 goes from the oldest table to the newest and the levels
\* below it are older than all of it.
LevelsOrdered(v) ==
  /\ Up(v.level0)
  /\ \A i \in 1 .. Len(v.level0) : Newer(v.level0[i], v.below)

\* The tables of s without those at the places of D.
Without(s, D) == Concat([i \in DOMAIN s |-> IF i \in D THEN <<>> ELSE <<s[i]>>])

StayIn(r, s, D) ==
  \A p \in 1 .. Len(r) : \E a \in 1 .. Len(s) : a \notin D /\ r[p] = s[a]

LEMMA KeptType ==
  ASSUME NEW s \in Seq(SUBSET Entry), NEW D
  PROVE  Without(s, D) \in Seq(SUBSET Entry)
<1> DEFINE T == SUBSET Entry
           ss == [i \in DOMAIN s |-> IF i \in D THEN <<>> ELSE <<s[i]>>]
<1>1. Len(s) \in Nat /\ DOMAIN s = 1 .. Len(s) /\ \A i \in 1 .. Len(s) : s[i] \in T
  BY SMT
<1> HIDE DEF T
<1>2. ss \in [1 .. Len(s) -> Seq(T)]
  <2>1. <<>> \in Seq(T) /\ \A x \in T : <<x>> \in Seq(T)
    BY SMT
  <2>2. QED
    BY <1>1, <2>1
<1> HIDE DEF ss
<1>3. ss \in Seq(Seq(T))
  BY <1>1, <1>2, SMT
<1>4. Concat(ss) \in Seq(T)
  BY <1>3, ConcatType
<1>5. QED
  BY <1>4 DEF ss, T, Without

\* The tables of level 0 that an edit leaves keep their order.
LEMMA KeptOrdered ==
  ASSUME NEW s \in Seq(SUBSET Entry), Up(s), NEW D
  PROVE  Up(Without(s, D)) /\ StayIn(Without(s, D), s, D)
<1> DEFINE T == SUBSET Entry
           n == Len(s)
           ss == [i \in DOMAIN s |-> IF i \in D THEN <<>> ELSE <<s[i]>>]
<1>1. /\ n \in Nat /\ n \in 0 .. n /\ DOMAIN s = 1 .. n
      /\ \A i \in 1 .. n : s[i] \in T /\ i - 1 \in 0 .. n /\ i \in 0 .. n
  BY SMT
<1>2. ss \in Seq(Seq(T)) /\ Len(ss) = n
  <2>1. ss \in [1 .. n -> Seq(T)]
    <3> HIDE DEF T
    <3>1. <<>> \in Seq(T) /\ \A x \in T : <<x>> \in Seq(T)
      BY SMT
    <3>2. QED
      BY <1>1, <3>1
  <2> HIDE DEF ss, T
  <2>2. QED
    BY <1>1, <2>1, SMT
<1>3. \A i \in 1 .. n : ss[i] = <<>> \/ (i \notin D /\ ss[i] = <<s[i]>>)
  BY <1>1, SMT
<1> HIDE DEF ss, T
<1>4. PICK f : Concatenates(f, ss, n, T) /\ Concat(ss) = f[n]
  BY <1>2, ConcatUnfolds
<1> DEFINE Right(i) == Up(f[i]) /\ \A p \in 1 .. Len(f[i]) : \E a \in 1 .. i : a \notin D /\ f[i][p] = s[a]
           Bad == {i \in 0 .. n : ~Right(i)}
<1>5. Right(0)
  <2>1. Len(<<>>) = 0 /\ 1 .. 0 = {}
    BY SMT
  <2>2. f[0] = <<>>
    BY <1>4 DEF Concatenates
  <2>3. QED
    BY <2>1, <2>2 DEF Up
<1>6. ASSUME NEW i \in 1 .. n, Right(i - 1)
      PROVE  Right(i)
  <2> DEFINE g == f[i - 1]
             x == s[i]
  <2>1. f[i] = g \o ss[i] /\ g \in Seq(T)
    BY <1>1, <1>4 DEF Concatenates
  <2>2. /\ \A a \in 1 .. i - 1 : a \in 1 .. i /\ a \in 1 .. n /\ a < i
        /\ i \in 1 .. i
    BY <1>1, SMT
  <2>3. Up(g) /\ \A p \in 1 .. Len(g) : \E a \in 1 .. i - 1 : a \notin D /\ g[p] = s[a]
    BY <1>6
  <2>4. CASE ss[i] = <<>>
    <3>1. f[i] = g
      <4> HIDE DEF g
      <4>1. QED
        BY <2>1, <2>4, SMT
    <3>2. QED
      BY <2>2, <2>3, <3>1
  <2>5. CASE i \notin D /\ ss[i] = <<s[i]>>
    <3> DEFINE h == Append(g, x)
    <3>1. f[i] = h
      <4> HIDE DEF g, x
      <4>1. QED
        BY <2>1, <2>5, SMT DEF x
    <3>2. /\ Len(h) = Len(g) + 1 /\ Len(g) \in Nat /\ h[Len(g) + 1] = x
          /\ \A p \in 1 .. Len(g) : h[p] = g[p]
      <4> HIDE DEF g, x
      <4>1. QED
        BY <2>1, SMT
    <3> HIDE DEF h, g
    <3>3. \A p \in 1 .. Len(h) : p \in 1 .. Len(g) \/ p = Len(g) + 1
      BY <3>2, SMT
    <3>4. \A p \in 1 .. Len(g) : Newer(x, g[p])
      BY <2>2, <2>3 DEF Up
    <3>5. ASSUME NEW p \in 1 .. Len(h), NEW q \in 1 .. Len(h), p < q
          PROVE  Newer(h[q], h[p])
      <4>1. p \in 1 .. Len(g)
        BY <3>2, <3>5, SMT
      <4>2. CASE q \in 1 .. Len(g)
        BY <2>3, <3>2, <3>5, <4>1, <4>2 DEF Up
      <4>3. CASE q = Len(g) + 1
        BY <3>2, <3>4, <4>1, <4>3
      <4>4. QED
        BY <3>3, <4>2, <4>3
    <3>6. Up(h)
      BY <3>5 DEF Up
    <3>7. \A p \in 1 .. Len(h) : \E a \in 1 .. i : a \notin D /\ h[p] = s[a]
      BY <2>2, <2>3, <2>5, <3>2, <3>3
    <3>8. QED
      BY <3>1, <3>6, <3>7
  <2>6. QED
    BY <1>3, <2>4, <2>5
<1> HIDE DEF n, Right
<1>7. Bad = {}
  <2>1. SUFFICES ASSUME Bad # {} PROVE FALSE
    BY SMT
  <2>2. Bad \in SUBSET Nat
    BY <1>1, SMT
  <2>3. PICK m \in Bad : \A k \in Bad : m <= k
    <3> HIDE DEF Bad
    <3>1. QED
      BY <2>1, <2>2, LeastNumber
  <2>4. m \in 0 .. n /\ ~Right(m)
    BY <2>3
  <2>5. m # 0
    BY <1>5, <2>4
  <2>6. m \in 1 .. n /\ m - 1 \in 0 .. n /\ m - 1 \notin Bad
    <3> HIDE DEF Bad
    <3>1. QED
      BY <2>3, <2>4, <2>5, <1>1, SMT
  <2>7. QED
    BY <1>6, <2>4, <2>6
<1>8. Right(n)
  BY <1>1, <1>7
<1>9. Without(s, D) = f[n]
  BY <1>4 DEF Without, ss
<1>10. QED
  BY <1>8, <1>9 DEF Right, n, StayIn

\* An edit that adds no table to level 0, and nothing below it that is not
\* older than what stays there.
LEMMA DropOrdered ==
  ASSUME NEW v \in Version, LevelsOrdered(v), NEW e, e.add = <<>>, e.below \in SUBSET Entry,
         \A j \in 1 .. Len(v.level0) : j \notin e.drop => Newer(v.level0[j], e.below)
  PROVE  LevelsOrdered(ApplyEdit(v, e))
<1> DEFINE s == v.level0
           r == Without(s, e.drop)
           b == (v.below \ e.old) \cup e.below
           w == ApplyEdit(v, e)
<1>1. s \in Seq(SUBSET Entry)
  BY SMT DEF Version
<1>2. <<>> \in Seq(SUBSET Entry)
  BY SMT
<1>3. w = [level0 |-> r \o <<>>, below |-> b]
  BY DEF ApplyEdit, Without
<1>4. Up(s) /\ \A i \in 1 .. Len(s) : Newer(s[i], v.below)
  BY DEF LevelsOrdered
<1> HIDE DEF s
<1>5. Up(r) /\ StayIn(r, s, e.drop)
  BY <1>1, <1>4, KeptOrdered
<1>6. r \in Seq(SUBSET Entry)
  BY <1>1, KeptType
<1> HIDE DEF r, b, w
<1>7. w.level0 = r /\ w.below = b
  BY <1>3, <1>6, SMT
<1>8. \A a \in 1 .. Len(s) : a \notin e.drop => Newer(s[a], b)
  <2>1. \A a \in 1 .. Len(s) : a \notin e.drop => Newer(s[a], e.below)
    BY DEF s
  <2>2. QED
    BY <1>4, <2>1 DEF Newer, b
<1>9. \A p \in 1 .. Len(r) : Newer(r[p], b)
  BY <1>5, <1>8 DEF StayIn
<1>10. QED
  BY <1>5, <1>7, <1>9 DEF LevelsOrdered, w

\* A table that is newer than all others comes to level 0.
LEMMA AddOrdered ==
  ASSUME NEW v \in Version, LevelsOrdered(v), NEW e, NEW T \in SUBSET Entry,
         e.drop = {}, e.add = <<T>>, e.below = {},
         \A f \in TableEntries(v), g \in T : f.seq < g.seq
  PROVE  LevelsOrdered(ApplyEdit(v, e))
<1> DEFINE s == v.level0
           h == Append(s, T)
           w == ApplyEdit(v, e)
<1>1. s \in Seq(SUBSET Entry) /\ <<T>> \in Seq(SUBSET Entry) /\ {} \in SUBSET Entry
  BY SMT DEF Version
<1>2. w.level0 = s \o <<T>> /\ w.below = (v.below \ e.old) \cup {}
  BY <1>1, EditType, EditTables
<1>3. Up(s) /\ \A i \in 1 .. Len(s) : Newer(s[i], v.below)
  BY DEF LevelsOrdered
<1>4. /\ \A f \in v.below, g \in T : f.seq < g.seq
      /\ \A i \in 1 .. Len(s) : \A f \in s[i], g \in T : f.seq < g.seq
  BY TableEntriesHas DEF InTables
<1> HIDE DEF s, w
<1>5. w.level0 = h
  BY <1>1, <1>2, SMT
<1>6. /\ Len(h) = Len(s) + 1 /\ Len(s) \in Nat /\ h[Len(s) + 1] = T
      /\ \A p \in 1 .. Len(s) : h[p] = s[p]
  BY <1>1, SMT
<1> HIDE DEF h
<1>7. \A p \in 1 .. Len(h) : p \in 1 .. Len(s) \/ p = Len(s) + 1
  BY <1>6, SMT
<1>8. Newer(T, v.below) /\ \A p \in 1 .. Len(s) : Newer(T, s[p])
  BY <1>4 DEF Newer
<1>9. ASSUME NEW p \in 1 .. Len(h), NEW q \in 1 .. Len(h), p < q
      PROVE  Newer(h[q], h[p])
  <2>1. p \in 1 .. Len(s)
    BY <1>6, <1>9, SMT
  <2>2. CASE q \in 1 .. Len(s)
    BY <1>3, <1>6, <1>9, <2>1, <2>2 DEF Up
  <2>3. CASE q = Len(s) + 1
    BY <1>6, <1>8, <2>1, <2>3
  <2>4. QED
    BY <1>7, <2>2, <2>3
<1>10. \A p \in 1 .. Len(h) : Newer(h[p], v.below)
  BY <1>3, <1>6, <1>7, <1>8
<1>11. Up(h) /\ \A p \in 1 .. Len(h) : Newer(h[p], w.below)
  BY <1>2, <1>9, <1>10 DEF Up, Newer
<1>12. QED
  BY <1>5, <1>11 DEF LevelsOrdered, w

LEMMA MoveOrdered ==
  ASSUME NEW v \in Version, LevelsOrdered(v), NEW n, NEW S \in Inputs(v)
  PROVE  LevelsOrdered(ApplyEdit(v, [NoEdit EXCEPT !.drop = S, !.log = n,
                                       !.below = InputEntries(v, S)]))
<1> DEFINE e == [NoEdit EXCEPT !.drop = S, !.log = n, !.below = InputEntries(v, S)]
<1>1. DOMAIN v.level0 = 1 .. Len(v.level0)
  BY SMT DEF Version
<1>2. /\ S \in SUBSET (1 .. Len(v.level0))
      /\ \A i \in S, j \in (1 .. Len(v.level0)) \ S : ~Overlap(v.level0[i], v.level0[j])
  BY <1>1 DEF Inputs
<1>3. e.drop = S /\ e.add = <<>> /\ e.below = InputEntries(v, S)
  BY SMT DEF NoEdit
<1>4. InputEntries(v, S) \in SUBSET Entry
  BY <1>2, InputsType
<1>5. \A x : x \in InputEntries(v, S) <=> \E i \in S : x \in v.level0[i]
  BY DEF InputEntries
<1>6. ASSUME NEW j \in 1 .. Len(v.level0), j \notin S, NEW x \in v.level0[j],
             NEW y \in InputEntries(v, S), x.key = y.key
      PROVE  FALSE
  <2>1. PICK i \in S : y \in v.level0[i]
    BY <1>5
  <2>2. Overlap(v.level0[i], v.level0[j])
    BY <1>6, <2>1 DEF Overlap, KeysOf
  <2>3. QED
    BY <1>2, <1>6, <2>2
<1>7. \A j \in 1 .. Len(v.level0) : j \notin S => Newer(v.level0[j], InputEntries(v, S))
  BY <1>6 DEF Newer
<1> HIDE DEF e
<1>8. LevelsOrdered(ApplyEdit(v, e))
  BY <1>3, <1>4, <1>7, DropOrdered
<1>9. QED
  BY <1>8 DEF e

LEMMA WorkOrdered ==
  ASSUME NEW v \in Version, LevelsOrdered(v), NEW S \in SUBSET (1 .. Len(v.level0)), NEW smallest,
         NEW n, Workable(v, S, smallest)
  PROVE  LevelsOrdered(ApplyEdit(v, [drop |-> S, old |-> Below(v, S), add |-> <<>>,
                               below |-> Kept(InputEntries(v, S) \cup Below(v, S), smallest),
                               log |-> n]))
<1> DEFINE K == Kept(InputEntries(v, S) \cup Below(v, S), smallest)
           o == Below(v, S)
           e == [drop |-> S, old |-> o, add |-> <<>>, below |-> K, log |-> n]
<1>1. K \in SUBSET Entry
  BY InputsType
<1>2. K \subseteq Compacted(v, S)
  BY DEF Kept, Compacted
<1>3. \A j \in 1 .. Len(v.level0) : j \notin S =>
        \A f \in v.level0[j], g \in Compacted(v, S) : f.key = g.key => g.seq < f.seq
  BY DEF Workable
<1> HIDE DEF K, o
<1>4. e.drop = S /\ e.add = <<>> /\ e.below = K
  BY SMT
<1> HIDE DEF e
<1>5. \A j \in 1 .. Len(v.level0) : j \notin S => Newer(v.level0[j], K)
  BY <1>2, <1>3 DEF Newer
<1>6. LevelsOrdered(ApplyEdit(v, e))
  BY <1>1, <1>4, <1>5, DropOrdered
<1>7. QED
  BY <1>6 DEF e, K, o

LEMMA FlushOrdered ==
  ASSUME NEW v \in Version, LevelsOrdered(v), NEW e, NEW T \in SUBSET Entry, e.drop = {},
         \/ e.add = <<>> /\ e.below = {}
         \/ e.add = <<T>> /\ e.below = {}
         \/ e.add = <<>> /\ e.below = T /\ \A i \in DOMAIN v.level0 : ~Overlap(v.level0[i], T),
         \A f \in TableEntries(v), g \in T : f.seq < g.seq
  PROVE  LevelsOrdered(ApplyEdit(v, e))
<1>1. DOMAIN v.level0 = 1 .. Len(v.level0)
  BY SMT DEF Version
<1>2. CASE e.add = <<T>> /\ e.below = {}
  BY <1>2, AddOrdered
<1>3. CASE e.add = <<>> /\ e.below = {}
  <2>1. {} \in SUBSET Entry /\ \A j \in 1 .. Len(v.level0) : Newer(v.level0[j], {})
    BY DEF Newer
  <2>2. QED
    BY <1>3, <2>1, DropOrdered
<1>4. CASE e.add = <<>> /\ e.below = T /\ \A i \in DOMAIN v.level0 : ~Overlap(v.level0[i], T)
  <2>1. \A j \in 1 .. Len(v.level0) : Newer(v.level0[j], T)
    <3>1. ASSUME NEW j \in 1 .. Len(v.level0), NEW x \in v.level0[j], NEW y \in T, x.key = y.key
          PROVE  FALSE
      <4>1. x.key \in KeysOf(v.level0[j]) /\ x.key \in KeysOf(T)
        BY <3>1 DEF KeysOf
      <4>2. Overlap(v.level0[j], T)
        BY <4>1 DEF Overlap
      <4>3. QED
        BY <1>1, <1>4, <4>2
    <3>2. QED
      BY <3>1 DEF Newer
  <2>2. QED
    BY <1>4, <2>1, DropOrdered
<1>5. QED
  BY <1>2, <1>3, <1>4, SMT


------------------------------------------------------------------------------
\* The value of a key after the writes of A.
Latest(A, k) == LET s == {e \in A : e.key = k} IN IF s = {} THEN Deleted ELSE Newest(s).val
Held(A) == [k \in Keys |-> Latest(A, k)]
Once(A) == \A e, f \in A : e.seq = f.seq => e = f

\* The last write e of a key.
Last(A, k, e) ==
  /\ A \in SUBSET Entry /\ Once(A) /\ e \in A /\ e.key = k
  /\ \A f \in A : f.key = k => f.seq <= e.seq

LEMMA LatestIs ==
  ASSUME NEW A, NEW k, NEW e, Last(A, k, e)
  PROVE  Latest(A, k) = e.val
<1>0. /\ A \in SUBSET Entry /\ Once(A) /\ e \in A /\ e.key = k
      /\ \A f \in A : f.key = k => f.seq <= e.seq
  BY DEF Last
<1> DEFINE s == {f \in A : f.key = k}
<1>1. s \in SUBSET Entry /\ e \in s /\ s # {} /\ \A f \in s : f.seq <= e.seq /\ (f.seq = e.seq => f = e)
  BY <1>0 DEF Once
<1>2. Latest(A, k) = IF s = {} THEN Deleted ELSE Newest(s).val
  BY DEF Latest
<1> HIDE DEF s
<1>3. Newest(s) = e
  BY <1>1, NewestChosen
<1>4. QED
  BY <1>1, <1>2, <1>3

LEMMA LatestNone ==
  ASSUME NEW A, NEW k, \A f \in A : f.key # k
  PROVE  Latest(A, k) = Deleted
<1>1. {f \in A : f.key = k} = {}
  OBVIOUS
<1>2. QED
  BY <1>1 DEF Latest

LEMMA LatestType ==
  ASSUME NEW A \in SUBSET Entry, Once(A), NEW n \in Nat, \A e \in A : e.seq <= n, NEW k
  PROVE  Latest(A, k) \in Values \cup {Deleted}
<1>1. CASE \A f \in A : f.key # k
  BY <1>1, LatestNone
<1>2. ASSUME NEW f \in A, f.key = k
      PROVE  Latest(A, k) \in Values \cup {Deleted}
  <2>1. PICK g \in A : g.key = k /\ \A h \in A : h.key = k => h.seq <= g.seq
    BY <1>2, NewestOfKey
  <2>2. Last(A, k, g)
    BY <2>1 DEF Last
  <2>3. g \in Entry
    BY <2>1
  <2>4. g.val \in Values \cup {Deleted}
    BY <2>3, SMT DEF Entry
  <2>5. QED
    BY <2>2, <2>4, LatestIs
<1>3. QED
  BY <1>1, <1>2

\* The sources ss show, of the key k, tables V and logs L that cover the writes A.
Readable(ss, k, q, V, L, A) ==
  /\ A \in SUBSET Entry /\ Once(A) /\ q \in Nat /\ \A e \in A : e.seq <= q
  /\ Covers(V, L, A) /\ L \subseteq A /\ ss \in Seq(SUBSET Entry)
  /\ \A x : Shows(ss, k, q, x) <=> x.key = k /\ (x \in V \/ x \in L)

\* A lookup in tables and logs that cover the acknowledged writes finds the
\* latest of them.
LEMMA FoundIsLatest ==
  ASSUME NEW ss, NEW k, NEW q, NEW V, NEW L, NEW A, Readable(ss, k, q, V, L, A)
  PROVE  /\ MergedLookUp(ss, k, q) = Latest(A, k)
         /\ Down(ss) => LookUp(ss, k, q) = Latest(A, k)
<1>0. /\ A \in SUBSET Entry /\ Once(A) /\ q \in Nat /\ \A e \in A : e.seq <= q
      /\ Covers(V, L, A) /\ L \subseteq A /\ ss \in Seq(SUBSET Entry)
      /\ \A x : Shows(ss, k, q, x) <=> x.key = k /\ (x \in V \/ x \in L)
  BY DEF Readable
<1> USE <1>0
<1>1. V \subseteq A
  BY DEF Covers
<1>2. CASE \A f \in A : f.key # k
  <2>1. \A f : ~Shows(ss, k, q, f)
    BY <1>1, <1>2
  <2>2. QED
    BY <1>2, <2>1, NothingFound, LatestNone
<1>3. ASSUME NEW f \in A, f.key = k
      PROVE  /\ MergedLookUp(ss, k, q) = Latest(A, k)
             /\ Down(ss) => LookUp(ss, k, q) = Latest(A, k)
  <2>1. PICK e \in A : e.key = k /\ \A h \in A : h.key = k => h.seq <= e.seq
    BY <1>3, NewestOfKey
  <2>a. Last(A, k, e)
    BY <2>1 DEF Last
  <2>2. Latest(A, k) = e.val
    BY <2>a, LatestIs
  <2>3. \A x : Shows(ss, k, q, x) => x \in A /\ x.seq <= e.seq /\ (x.seq = e.seq => x = e)
    BY <1>1, <2>1 DEF Once
  <2>4. CASE e \in V \/ e \in L
    <3>1. Shows(ss, k, q, e)
      BY <2>1, <2>4
    <3>2. QED
      BY <2>2, <2>3, <3>1, MergedFinds, LookUpFinds
  <2>5. CASE ~(e \in V \/ e \in L)
    <3>1. Stands(e, V, A) /\ \A g \in L : e.seq < g.seq
      BY <2>5 DEF Covers
    <3>2. \A g \in A : g.key = k /\ g.seq >= e.seq => g = e
      <4>1. \A g \in A : g.seq \in Nat
        BY SMT DEF Entry
      <4>2. \A g \in A : g.key = k /\ g.seq >= e.seq => g.seq = e.seq
        BY <2>1, <4>1, SMT
      <4>3. QED
        BY <4>2 DEF Once
    <3>3. \A g \in L : g.key # k
      <4>1. \A g \in L : g.key = k => g \in A /\ e.seq < g.seq /\ g.seq <= e.seq
        BY <2>1, <3>1
      <4>2. \A g \in A : g.seq \in Nat
        BY SMT DEF Entry
      <4>3. QED
        BY <4>1, <4>2, SMT
    <3>4. (\A g \in V : g.key # k) /\ e.val = Deleted
      <4>1. ASSUME NEW g \in V, g.key = e.key, g.seq >= e.seq
            PROVE  FALSE
        BY <1>1, <2>1, <2>5, <3>2, <4>1
      <4>2. /\ \A g \in V : g.key # e.key
            /\ \E d \in A : d.key = e.key /\ d.seq >= e.seq /\ d.val = Deleted
        BY <3>1, <4>1 DEF Stands
      <4>3. QED
        BY <2>1, <3>2, <4>2
    <3>5. \A x : ~Shows(ss, k, q, x)
      BY <3>3, <3>4
    <3>6. QED
      BY <2>2, <3>4, <3>5, NothingFound
  <2>6. QED
    BY <2>4, <2>5, SMT
<1>4. QED
  BY <1>2, <1>3

------------------------------------------------------------------------------
\* The sources of a reader w, with tb the memtables.
Stack(tb, w) ==
  (IF w.imm = 0 THEN <<tb[w.mem]>> ELSE <<tb[w.mem], tb[w.imm]>>) \o Tables(w.version)
\* What w reads is there.
Stacked(tb, w) ==
  /\ tb \in Seq(SUBSET Entry) /\ w.version \in Version
  /\ w.mem \in 1 .. Len(tb) /\ (w.imm = 0 \/ w.imm \in 1 .. Len(tb))
StackHas(tb, w, x) == x \in tb[w.mem] \/ (w.imm # 0 /\ x \in tb[w.imm]) \/ InTables(w.version, x)

Memtables(w) == IF w.imm = 0 THEN 1 ELSE 2
\* In ss come m memtables and then the tables ts.
Piled(tb, w, ss, ts, m) ==
  /\ Len(ss) = m + Len(ts) /\ ss[1] = tb[w.mem]
  /\ w.imm # 0 => ss[2] = tb[w.imm]
  /\ \A i \in 1 .. Len(ts) : ss[m + i] = ts[i]

LEMMA TablesType ==
  ASSUME NEW v \in Version
  PROVE  /\ Tables(v) \in Seq(SUBSET Entry)
         /\ Len(v.level0) \in Nat /\ Len(Tables(v)) = Len(v.level0) + 1
         /\ \A i \in 1 .. Len(v.level0) :
              /\ Tables(v)[i] = v.level0[Len(v.level0) + 1 - i]
              /\ Len(v.level0) + 1 - i \in 1 .. Len(v.level0)
         /\ Tables(v)[Len(v.level0) + 1] = v.below
<1> DEFINE s == v.level0
           b == v.below
           n == Len(s)
           r == [i \in 1 .. n |-> s[n + 1 - i]]
<1>1. s \in Seq(SUBSET Entry) /\ b \in SUBSET Entry
  BY SMT DEF Version
<1>2. Tables(v) = r \o <<b>>
  BY DEF Tables
<1> HIDE DEF s, b
<1>3. n \in Nat /\ \A i \in 1 .. n : n + 1 - i \in 1 .. n
  BY <1>1, SMT
<1>4. r \in Seq(SUBSET Entry) /\ Len(r) = n /\ \A i \in 1 .. n : r[i] = s[n + 1 - i]
  BY <1>1, <1>3, SMT
<1> HIDE DEF r
<1>5. /\ r \o <<b>> \in Seq(SUBSET Entry) /\ Len(r \o <<b>>) = n + 1
      /\ (r \o <<b>>)[n + 1] = b /\ \A i \in 1 .. n : (r \o <<b>>)[i] = r[i]
  BY <1>1, <1>3, <1>4, SMT
<1>6. QED
  BY <1>2, <1>3, <1>4, <1>5 DEF s, b

LEMMA StackType ==
  ASSUME NEW tb, NEW w, Stacked(tb, w)
  PROVE  /\ Stack(tb, w) \in Seq(SUBSET Entry)
         /\ Piled(tb, w, Stack(tb, w), Tables(w.version), Memtables(w))
<1> DEFINE ts == Tables(w.version)
           a == tb[w.mem]
           b == tb[w.imm]
<1>1. ts \in Seq(SUBSET Entry)
  BY TablesType DEF Stacked
<1>2. a \in SUBSET Entry /\ (w.imm # 0 => b \in SUBSET Entry)
  BY SMT DEF Stacked
<1>3. Stack(tb, w) = (IF w.imm = 0 THEN <<a>> ELSE <<a, b>>) \o ts
  BY DEF Stack
<1> HIDE DEF ts, a, b
<1>4. CASE w.imm = 0
  <2>1. /\ <<a>> \o ts \in Seq(SUBSET Entry) /\ Len(<<a>> \o ts) = 1 + Len(ts)
        /\ (<<a>> \o ts)[1] = a /\ \A i \in 1 .. Len(ts) : (<<a>> \o ts)[1 + i] = ts[i]
    BY <1>1, <1>2, SMT
  <2>2. Memtables(w) = 1
    BY <1>4 DEF Memtables
  <2>3. QED
    BY <1>3, <1>4, <2>1, <2>2 DEF ts, a, b, Piled
<1>5. CASE w.imm # 0
  <2>1. /\ <<a, b>> \o ts \in Seq(SUBSET Entry) /\ Len(<<a, b>> \o ts) = 2 + Len(ts)
        /\ (<<a, b>> \o ts)[1] = a /\ (<<a, b>> \o ts)[2] = b
        /\ \A i \in 1 .. Len(ts) : (<<a, b>> \o ts)[2 + i] = ts[i]
    BY <1>1, <1>2, <1>5, SMT
  <2>2. Memtables(w) = 2
    BY <1>5 DEF Memtables
  <2>3. QED
    BY <1>3, <1>5, <2>1, <2>2 DEF ts, a, b, Piled
<1>6. QED
  BY <1>4, <1>5, SMT

\* The places of a stack ss: m memtables, then the tables ts.
Laid(tb, w, ss, ts, m) ==
  /\ \A i \in 1 .. Len(ss) : \/ i = 1
                             \/ w.imm # 0 /\ i = 2
                             \/ \E j \in 1 .. Len(ts) : i = m + j
  /\ \A j \in 1 .. Len(ts) : m + j \in 1 .. Len(ss) /\ ss[m + j] = ts[j] /\ m + j > 1
  /\ 1 \in 1 .. Len(ss) /\ ss[1] = tb[w.mem]
  /\ w.imm # 0 => /\ 2 \in 1 .. Len(ss) /\ ss[2] = tb[w.imm]
                  /\ \A j \in 1 .. Len(ts) : m + j > 2
  /\ \A i, j \in 1 .. Len(ts) : m + i < m + j => i < j

LEMMA StackPlaces ==
  ASSUME NEW tb, NEW w, Stacked(tb, w)
  PROVE  Laid(tb, w, Stack(tb, w), Tables(w.version), Memtables(w))
<1> DEFINE ss == Stack(tb, w)
           ts == Tables(w.version)
           m == Memtables(w)
<1>0. Piled(tb, w, ss, ts, m)
  BY StackType
<1>1. /\ Len(ss) = m + Len(ts) /\ ss[1] = tb[w.mem]
      /\ w.imm # 0 => ss[2] = tb[w.imm]
      /\ \A i \in 1 .. Len(ts) : ss[m + i] = ts[i]
  BY <1>0 DEF Piled
<1>2. Len(ts) \in Nat
  <2>1. ts \in Seq(SUBSET Entry)
    BY TablesType DEF Stacked
  <2> HIDE DEF ts
  <2>2. QED
    BY <2>1, SMT
<1> HIDE DEF ss, ts
<1>3. m \in {1, 2} /\ (w.imm = 0 => m = 1) /\ (w.imm # 0 => m = 2)
  BY SMT DEF Memtables
<1> HIDE DEF m
<1>4. ASSUME NEW i \in 1 .. Len(ss), i # 1, ~(w.imm # 0 /\ i = 2)
      PROVE  \E j \in 1 .. Len(ts) : i = m + j
  <2>1. i - m \in 1 .. Len(ts) /\ i = m + (i - m)
    BY <1>1, <1>2, <1>3, <1>4, SMT
  <2>2. QED
    BY <2>1
<1>5. /\ \A j \in 1 .. Len(ts) : m + j \in 1 .. Len(ss) /\ m + j > 1
      /\ 1 \in 1 .. Len(ss)
      /\ w.imm # 0 => 2 \in 1 .. Len(ss) /\ \A j \in 1 .. Len(ts) : m + j > 2
      /\ \A i, j \in 1 .. Len(ts) : m + i < m + j => i < j
  BY <1>1, <1>2, <1>3, SMT
<1>6. Laid(tb, w, ss, ts, m)
  BY <1>1, <1>4, <1>5 DEF Laid
<1>7. QED
  BY <1>6 DEF ss, ts, m

LEMMA StackElements ==
  ASSUME NEW tb, NEW w, Stacked(tb, w)
  PROVE  \A x : (\E i \in 1 .. Len(Stack(tb, w)) : x \in Stack(tb, w)[i]) <=> StackHas(tb, w, x)
<1> DEFINE ss == Stack(tb, w)
           ts == Tables(w.version)
           v == w.version
           m == Memtables(w)
<1>1. Laid(tb, w, ss, ts, m)
  BY StackPlaces
<1>2. v \in Version
  BY DEF Stacked
<1>3. ts \in Seq(SUBSET Entry)
  BY <1>2, TablesType
<1>4. \A x : InTables(v, x) <=> \E j \in 1 .. Len(ts) : x \in ts[j]
  <2>1. DOMAIN ts = 1 .. Len(ts)
    <3> HIDE DEF ts
    <3>1. QED
      BY <1>3, SMT
  <2>2. \A x : x \in UNION Range(ts) <=> \E j \in 1 .. Len(ts) : x \in ts[j]
    BY <2>1 DEF Range
  <2>3. TableEntries(v) = UNION Range(ts)
    BY DEF TableEntries
  <2>4. \A x : x \in TableEntries(v) <=> InTables(v, x)
    BY <1>2, TableEntriesHas
  <2>5. QED
    BY <2>2, <2>3, <2>4
<1> HIDE DEF ss, ts, m
<1>a. /\ \A i \in 1 .. Len(ss) : \/ i = 1
                                 \/ w.imm # 0 /\ i = 2
                                 \/ \E j \in 1 .. Len(ts) : i = m + j
      /\ \A j \in 1 .. Len(ts) : m + j \in 1 .. Len(ss) /\ ss[m + j] = ts[j] /\ m + j > 1
      /\ 1 \in 1 .. Len(ss) /\ ss[1] = tb[w.mem]
      /\ w.imm # 0 => /\ 2 \in 1 .. Len(ss) /\ ss[2] = tb[w.imm]
                      /\ \A j \in 1 .. Len(ts) : m + j > 2
      /\ \A i, j \in 1 .. Len(ts) : m + i < m + j => i < j
  BY <1>1 DEF Laid
<1>5. ASSUME NEW x, NEW i \in 1 .. Len(ss), x \in ss[i]
      PROVE  StackHas(tb, w, x)
  <2>1. CASE i = 1
    BY <1>a, <1>5, <2>1 DEF StackHas
  <2>2. CASE w.imm # 0 /\ i = 2
    BY <1>a, <1>5, <2>2 DEF StackHas
  <2>3. ASSUME NEW j \in 1 .. Len(ts), i = m + j
        PROVE  StackHas(tb, w, x)
    BY <1>a, <1>4, <1>5, <2>3 DEF StackHas
  <2>4. QED
    BY <1>a, <2>1, <2>2, <2>3
<1>6. ASSUME NEW x, StackHas(tb, w, x)
      PROVE  \E i \in 1 .. Len(ss) : x \in ss[i]
  <2>1. CASE InTables(v, x)
    <3>1. PICK j \in 1 .. Len(ts) : x \in ts[j]
      BY <1>4, <2>1
    <3>2. m + j \in 1 .. Len(ss) /\ ss[m + j] = ts[j]
      BY <1>a
    <3>3. QED
      BY <3>1, <3>2
  <2>2. CASE ~InTables(v, x)
    BY <1>a, <1>6, <2>2 DEF StackHas
  <2>3. QED
    BY <2>1, <2>2, SMT
<1>7. QED
  BY <1>5, <1>6 DEF ss

LEMMA TablesDown ==
  ASSUME NEW v \in Version, LevelsOrdered(v)
  PROVE  Down(Tables(v))
<1> DEFINE ts == Tables(v)
           s == v.level0
           n == Len(s)
<1>1. /\ n \in Nat /\ Len(ts) = n + 1 /\ ts[n + 1] = v.below
      /\ \A i \in 1 .. n : ts[i] = s[n + 1 - i] /\ n + 1 - i \in 1 .. n
  BY TablesType
<1>2. /\ \A i, j \in 1 .. n : i < j => Newer(s[j], s[i])
      /\ \A i \in 1 .. n : Newer(s[i], v.below)
  BY DEF LevelsOrdered, Up
<1> HIDE DEF ts, s, n
<1>3. ASSUME NEW i \in 1 .. Len(ts), NEW j \in 1 .. Len(ts), i < j
      PROVE  Newer(ts[i], ts[j])
  <2>1. i \in 1 .. n /\ (j \in 1 .. n \/ j = n + 1) /\ n + 1 - j < n + 1 - i
    BY <1>1, <1>3, SMT
  <2>2. CASE j = n + 1
    BY <1>1, <1>2, <2>1, <2>2
  <2>3. CASE j \in 1 .. n
    BY <1>1, <1>2, <2>1, <2>3
  <2>4. QED
    BY <2>1, <2>2, <2>3, SMT
<1>4. QED
  BY <1>3 DEF Down, ts

LEMMA StackDown ==
  ASSUME NEW tb, NEW w, Stacked(tb, w), LevelsOrdered(w.version),
         \A x, y : InTables(w.version, x) /\ y \in tb[w.mem] => x.seq < y.seq,
         w.imm # 0 => \A x, y : InTables(w.version, x) /\ y \in tb[w.imm] => x.seq < y.seq,
         w.imm # 0 => \A x \in tb[w.imm], y \in tb[w.mem] : x.seq < y.seq
  PROVE  Down(Stack(tb, w))
<1> DEFINE ss == Stack(tb, w)
           ts == Tables(w.version)
           v == w.version
           m == Memtables(w)
<1>1. Laid(tb, w, ss, ts, m)
  BY StackPlaces
<1>2. v \in Version
  BY DEF Stacked
<1>3. ts \in Seq(SUBSET Entry) /\ Down(ts)
  BY <1>2, TablesType, TablesDown
<1>4. \A j \in 1 .. Len(ts) : \A x \in ts[j] : InTables(v, x)
  <2>1. DOMAIN ts = 1 .. Len(ts)
    <3> HIDE DEF ts
    <3>1. QED
      BY <1>3, SMT
  <2>2. \A j \in 1 .. Len(ts) : \A x \in ts[j] : x \in UNION Range(ts)
    BY <2>1 DEF Range
  <2>3. TableEntries(v) = UNION Range(ts)
    BY DEF TableEntries
  <2>4. \A x : x \in TableEntries(v) <=> InTables(v, x)
    BY <1>2, TableEntriesHas
  <2>5. QED
    BY <2>2, <2>3, <2>4
<1> HIDE DEF ss, ts, m
<1>a. /\ \A i \in 1 .. Len(ss) : \/ i = 1
                                 \/ w.imm # 0 /\ i = 2
                                 \/ \E j \in 1 .. Len(ts) : i = m + j
      /\ \A j \in 1 .. Len(ts) : m + j \in 1 .. Len(ss) /\ ss[m + j] = ts[j] /\ m + j > 1
      /\ 1 \in 1 .. Len(ss) /\ ss[1] = tb[w.mem]
      /\ w.imm # 0 => /\ 2 \in 1 .. Len(ss) /\ ss[2] = tb[w.imm]
                      /\ \A j \in 1 .. Len(ts) : m + j > 2
      /\ \A i, j \in 1 .. Len(ts) : m + i < m + j => i < j
  BY <1>1 DEF Laid
<1>5. \A j \in 1 .. Len(ts) : /\ Newer(tb[w.mem], ts[j])
                              /\ w.imm # 0 => Newer(tb[w.imm], ts[j])
  BY <1>4 DEF Newer
<1>6. w.imm # 0 => Newer(tb[w.mem], tb[w.imm])
  BY DEF Newer
<1>7. ASSUME NEW i \in 1 .. Len(ss), NEW j \in 1 .. Len(ss), i < j
      PROVE  Newer(ss[i], ss[j])
  <2>1. i \in Nat /\ j \in Nat /\ j # 1
    BY <1>7, SMT
  <2>2. CASE i = 1
    <3>1. CASE w.imm # 0 /\ j = 2
      BY <1>a, <1>6, <2>2, <3>1
    <3>2. ASSUME NEW b \in 1 .. Len(ts), j = m + b
          PROVE  Newer(ss[i], ss[j])
      BY <1>a, <1>5, <2>2, <3>2
    <3>3. QED
      BY <1>a, <2>1, <3>1, <3>2
  <2>3. CASE w.imm # 0 /\ i = 2
    <3>1. j # 2
      BY <1>7, <2>1, <2>3, SMT
    <3>2. ASSUME NEW b \in 1 .. Len(ts), j = m + b
          PROVE  Newer(ss[i], ss[j])
      BY <1>a, <1>5, <2>3, <3>2
    <3>3. QED
      BY <1>a, <2>1, <3>1, <3>2
  <2>4. ASSUME NEW a \in 1 .. Len(ts), i = m + a
        PROVE  Newer(ss[i], ss[j])
    <3>1. m + a > 1 /\ (w.imm # 0 => m + a > 2)
      BY <1>a
    <3>2. ~(w.imm # 0 /\ j = 2)
      BY <1>7, <2>1, <2>4, <3>1, SMT
    <3>3. PICK b \in 1 .. Len(ts) : j = m + b
      BY <1>a, <2>1, <3>2
    <3>4. a < b
      BY <1>a, <1>7, <2>4, <3>3
    <3>5. Newer(ts[a], ts[b])
      BY <1>3, <3>4 DEF Down
    <3>6. QED
      BY <1>a, <2>4, <3>3, <3>5
  <2>5. QED
    BY <1>a, <2>2, <2>3, <2>4
<1>8. QED
  BY <1>7 DEF Down, ss

\* The memtables td show the reader v what tb does.
SameMemtables(tb, td, v, k) ==
  /\ Stacked(tb, v) /\ td \in Seq(SUBSET Entry) /\ Len(tb) <= Len(td)
  /\ Visible(td[v.mem], k, v.seq) = Visible(tb[v.mem], k, v.seq)
  /\ v.imm # 0 => Visible(td[v.imm], k, v.seq) = Visible(tb[v.imm], k, v.seq)

\* A reader does not see what happens to its memtables.
LEMMA SameLookUps ==
  ASSUME NEW tb, NEW td, NEW v, NEW w, NEW k, SameMemtables(tb, td, v, k), SameView(v, w)
  PROVE  /\ Stacked(td, w)
         /\ LookUp(Stack(td, w), k, w.seq) = LookUp(Stack(tb, v), k, v.seq)
         /\ MergedLookUp(Stack(td, w), k, w.seq) = MergedLookUp(Stack(tb, v), k, v.seq)
<1> DEFINE m == Memtables(v)
           ts == Tables(v.version)
           ss == Stack(tb, v)
           sd == Stack(td, w)
<1>0. /\ Stacked(tb, v) /\ td \in Seq(SUBSET Entry) /\ Len(tb) <= Len(td)
      /\ Visible(td[v.mem], k, v.seq) = Visible(tb[v.mem], k, v.seq)
      /\ v.imm # 0 => Visible(td[v.imm], k, v.seq) = Visible(tb[v.imm], k, v.seq)
  BY DEF SameMemtables
<1> USE <1>0
<1>1. w.mem = v.mem /\ w.imm = v.imm /\ w.version = v.version /\ w.seq = v.seq
  BY DEF SameView
<1>2. Stacked(td, w)
  <2>1. /\ v.version \in Version /\ v.mem \in 1 .. Len(tb) /\ (v.imm = 0 \/ v.imm \in 1 .. Len(tb))
        /\ tb \in Seq(SUBSET Entry)
    BY DEF Stacked
  <2>2. \A i \in 1 .. Len(tb) : i \in 1 .. Len(td)
    BY <2>1, SMT
  <2>3. QED
    BY <1>1, <2>1, <2>2 DEF Stacked
<1>3. ss \in Seq(SUBSET Entry) /\ sd \in Seq(SUBSET Entry)
  BY <1>2, StackType
<1>4. Len(sd) = Len(ss)
  <2>1. Memtables(w) = Memtables(v)
    BY <1>1 DEF Memtables
  <2>2. Len(sd) = Memtables(w) + Len(Tables(w.version))
    BY <1>2, StackType DEF Piled
  <2>3. Len(ss) = Memtables(v) + Len(Tables(v.version))
    BY StackType DEF Piled
  <2>4. QED
    BY <1>1, <2>1, <2>2, <2>3
<1>5. Laid(tb, v, ss, ts, m)
  BY StackPlaces
<1>6. Laid(td, w, sd, ts, m)
  <2>1. Laid(td, w, sd, Tables(w.version), Memtables(w))
    BY <1>2, StackPlaces
  <2>2. Memtables(w) = m
    BY <1>1 DEF Memtables
  <2>3. QED
    BY <1>1, <2>1, <2>2
<1> HIDE DEF ss, sd, ts, m
<1>a. /\ \A i \in 1 .. Len(ss) : \/ i = 1
                                 \/ v.imm # 0 /\ i = 2
                                 \/ \E j \in 1 .. Len(ts) : i = m + j
      /\ \A j \in 1 .. Len(ts) : ss[m + j] = ts[j]
      /\ ss[1] = tb[v.mem] /\ (v.imm # 0 => ss[2] = tb[v.imm])
  BY <1>5 DEF Laid
<1>b. /\ \A j \in 1 .. Len(ts) : sd[m + j] = ts[j]
      /\ sd[1] = td[v.mem] /\ (v.imm # 0 => sd[2] = td[v.imm])
  BY <1>1, <1>6 DEF Laid
<1>7. ASSUME NEW i \in 1 .. Len(ss)
      PROVE  Visible(sd[i], k, v.seq) = Visible(ss[i], k, v.seq)
  <2>1. CASE i = 1
    BY <1>a, <1>b, <2>1
  <2>2. CASE v.imm # 0 /\ i = 2
    BY <1>a, <1>b, <2>2
  <2>3. ASSUME NEW j \in 1 .. Len(ts), i = m + j
        PROVE  sd[i] = ss[i]
    BY <1>a, <1>b, <2>3
  <2>4. QED
    BY <1>a, <2>1, <2>2, <2>3
<1>8. /\ LookUp(sd, k, v.seq) = LookUp(ss, k, v.seq)
      /\ MergedLookUp(sd, k, v.seq) = MergedLookUp(ss, k, v.seq)
  <2>1. SameVisible(ss, sd, k, v.seq)
    BY <1>3, <1>4, <1>7 DEF SameVisible
  <2>2. QED
    BY <2>1, LookUpSame, SMT
<1>9. QED
  BY <1>1, <1>2, <1>8 DEF ss, sd

\* The map m after the updates b: the last one of a key counts.
AfterBatch(m, b) ==
  [k \in Keys |->
     LET hits == {i \in DOMAIN b : b[i].key = k}
     IN  IF hits = {} THEN m[k]
         ELSE b[CHOOSE i \in hits : \A j \in hits : j <= i].val]

\* A group of writes on what is acknowledged is its batches on the map.
LEMMA HeldBatch ==
  ASSUME NEW A \in SUBSET Entry, NEW n \in Nat, \A e \in A : e.seq <= n,
         NEW u \in Seq(Entry), \A i \in 1 .. Len(u) : u[i].seq = n + i,
         Once(A \cup Range(u)), NEW b \in Seq(Update), Matches(u, b)
  PROVE  Held(A \cup Range(u)) = AfterBatch(Held(A), b)
<1> DEFINE B == A \cup Range(u)
<1>1. /\ Len(u) \in Nat /\ DOMAIN b = 1 .. Len(b) /\ \A i \in 1 .. Len(u) : u[i] \in Entry
  BY SMT
<1>2. /\ Len(b) = Len(u) /\ \A i \in 1 .. Len(u) : u[i].key = b[i].key /\ u[i].val = b[i].val
  BY DEF Matches
<1>3. /\ \A x : x \in Range(u) <=> \E i \in 1 .. Len(u) : x = u[i]
      /\ Range(u) \subseteq Entry
  BY RangeHas
<1>4. B \in SUBSET Entry
  BY <1>3
<1>5. ASSUME NEW k \in Keys
      PROVE  Latest(B, k) = LET hits == {i \in DOMAIN b : b[i].key = k}
                            IN  IF hits = {} THEN Held(A)[k]
                                ELSE b[CHOOSE i \in hits : \A j \in hits : j <= i].val
  <2> DEFINE hits == {i \in DOMAIN b : b[i].key = k}
             last == CHOOSE i \in hits : \A j \in hits : j <= i
  <2>1. hits \in SUBSET (1 .. Len(u)) /\ \A i \in 1 .. Len(u) : i \in hits <=> u[i].key = k
    BY <1>1, <1>2
  <2>2. Held(A)[k] = Latest(A, k)
    BY DEF Held
  <2> HIDE DEF hits
  <2>3. CASE hits = {}
    <3>1. \A x \in Range(u) : x.key # k
      BY <1>3, <2>1, <2>3
    <3>2. {e \in B : e.key = k} = {e \in A : e.key = k}
      BY <3>1
    <3>3. Latest(B, k) = Latest(A, k)
      BY <3>2 DEF Latest
    <3>4. QED
      BY <2>2, <2>3, <3>3 DEF hits
  <2>4. CASE hits # {}
    <3>1. \E i \in hits : \A j \in hits : j <= i
      BY <1>1, <2>1, <2>4, GreatestNumber
    <3>2. last \in hits /\ \A j \in hits : j <= last
      BY <3>1
    <3> HIDE DEF last
    <3>3. last \in 1 .. Len(u) /\ u[last].key = k
      BY <2>1, <3>2
    <3>4. u[last] \in B
      BY <1>3, <3>3
    <3>5. ASSUME NEW f \in B, f.key = k
          PROVE  f.seq <= u[last].seq
      <4>1. u[last].seq = n + last /\ last \in Nat
        BY <3>3, SMT
      <4>2. CASE f \in A
        <5>1. f.seq <= n /\ f.seq \in Nat
          BY <4>2, SMT DEF Entry
        <5>2. QED
          BY <4>1, <5>1, SMT
      <4>3. CASE f \in Range(u)
        <5>1. PICK i \in 1 .. Len(u) : f = u[i]
          BY <1>3, <4>3
        <5>2. i <= last /\ f.seq = n + i
          BY <2>1, <3>2, <3>5, <5>1
        <5>3. QED
          BY <4>1, <5>1, <5>2, SMT
      <4>4. QED
        BY <3>5, <4>2, <4>3
    <3>6. Latest(B, k) = u[last].val
      <4> HIDE DEF B
      <4>1. Last(B, k, u[last])
        BY <1>4, <3>3, <3>4, <3>5 DEF Last, B
      <4>2. QED
        BY <4>1, LatestIs
    <3>7. u[last].val = b[last].val
      BY <1>2, <3>3
    <3>8. QED
      BY <2>4, <3>6, <3>7 DEF hits, last
  <2>5. QED
    BY <2>3, <2>4, SMT
<1>6. QED
  BY <1>5 DEF Held, AfterBatch
==============================================================================
