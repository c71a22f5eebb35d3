--------------------------- MODULE WritePathStore ---------------------------
(* WritePath implements KVStore: the end of a group of writes is one step  *)
(* on the map, a reader sees the map of the moment it was opened, and      *)
(* nothing else changes what the database holds.                           *)
EXTENDS WritePathDurable, DBStore

\* A leaf that names no other prover is left to Zenon.
USE Zenon

LEMMA SourcesStack == \A w : Sources(w) = Stack(table, w)
  BY DEF Sources, MemTables, Stack

\* The database holds the latest acknowledged value of every key.
StoreInv == Contents = Held(acked.all)

LEMMA StoreHolds ==
  ASSUME Reliable, ErrorsInv, DataInv, SeqInv, VersionInv, NumbersInv, CloseInv, GroupInv, FilesInv,
         CoverInv, OrderInv, AckedOnce, LoggedInv
  PROVE  StoreInv
<1>1. CASE IsClosed
  <2>1. \A k \in Keys : MergedLookUp(<<AfterProcessCrash>>, k, lastSequence) = Latest(acked.all, k)
    BY <1>1, ClosedFinds
  <2>2. QED
    BY <1>1, <2>1 DEF StoreInv, Contents, Held
<1>2. CASE ~IsClosed
  <2>1. \A k \in Keys : LookUp(Sources(Now), k, lastSequence) = Latest(acked.all, k)
    BY <1>2, NowFinds, SourcesStack
  <2>2. QED
    BY <1>2, <2>1 DEF StoreInv, Contents, Held
<1>3. QED
  BY <1>1, <1>2, SMT

LEMMA ViewNext ==
  ASSUME QueueInv, DataInv, DataInv', SeqInv, VersionInv, NumbersInv, CloseInv, GroupInv, FilesInv,
         CoverInv, OrderInv, AckedOnce, LoggedInv, RefInv, RefInv', ViewInv, [Next]_vars
  PROVE  ViewInv'
<1>a. view \in [Threads -> View \cup {NULL}] /\ lastSequence \in Nat
  BY DEF RefInv, DataInv
<1>b. lastSequence <= lastSequence'
  <2>1. CASE lastSequence' = lastSequence
    BY <1>a, <2>1, SMT
  <2>2. ASSUME NEW t \in Threads, WriteEnds(t)
        PROVE  lastSequence <= lastSequence'
    <3>1. lastSequence' = lastSequence + Len(group.updates) /\ group.updates \in Seq(Entry)
      BY <2>2, Acknowledged DEF DataInv
    <3>2. QED
      BY <1>a, <3>1, SMT
  <2>3. QED
    BY <2>1, <2>2, AckedSteps
<1>1. ASSUME NEW t \in Threads, view[t] # NULL, view'[t] # NULL, SameView(view[t], view'[t])
      PROVE  ViewRight(table', view'[t], lastSequence')
  <2>1. ViewRight(table, view[t], lastSequence) /\ view'[t].seq = view[t].seq
    BY <1>1 DEF ViewInv, SameView
  <2>2. view[t].seq \in Nat
    <3>1. view[t] \in View
      BY <1>1, <1>a
    <3>2. QED
      BY <3>1, SMT DEF View
  <2>3. view[t].seq <= lastSequence
    BY <2>1 DEF ViewRight
  <2>4. lastSequence' \in Nat
    BY DEF DataInv
  <2>5. view'[t].seq <= lastSequence'
    BY <1>a, <1>b, <2>1, <2>2, <2>3, <2>4, SMT
  <2>6. /\ Stacked(table', view'[t])
        /\ \A k \in Keys :
              /\ LookUp(Stack(table', view'[t]), k, view'[t].seq) =
                   LookUp(Stack(table, view[t]), k, view[t].seq)
              /\ MergedLookUp(Stack(table', view'[t]), k, view'[t].seq) =
                   MergedLookUp(Stack(table, view[t]), k, view[t].seq)
    BY <1>1, KeptView
  <2>7. QED
    BY <2>1, <2>5, <2>6 DEF ViewRight
<1>2. CASE KeepsViews
  BY <1>1, <1>2 DEF KeepsViews, ViewInv
<1>3. ASSUME NEW t \in Threads, StartsRead(t)
      PROVE  ViewInv'
  <2>1. view'[t] = Now /\ \A u \in Threads : u # t => view'[u] = view[u]
    BY <1>3, <1>a DEF StartsRead
  <2>2. ~IsClosed
    <3>1. "closed" \in Ending
      BY SMT DEF Ending
    <3>2. QED
      BY <1>3, <3>1 DEF StartsRead, CloseInv, IsClosed
  <2>3. Now.seq = lastSequence
    BY SMT DEF Now
  <2>4. \A k \in Keys : Latest(acked.all, k) \in Values \cup {Deleted}
    <3>1. /\ acked.all \in SUBSET Entry /\ Once(acked.all)
          /\ \A e \in acked.all : e.seq <= lastSequence
      BY DEF GroupInv, AckedOnce, Once
    <3>2. QED
      BY <1>a, <3>1, LatestType
  <2>5. lastSequence <= lastSequence
    BY <1>a, SMT
  <2>6. \A k \in Keys :
          /\ Stacked(table, Now)
          /\ LookUp(Stack(table, Now), k, lastSequence) = Latest(acked.all, k)
          /\ MergedLookUp(Stack(table, Now), k, lastSequence) = Latest(acked.all, k)
    BY <2>2, NowFinds
  <2>7. Stacked(table, Now)
    BY <2>2, NowFinds
  <2>8. ViewRight(table, Now, lastSequence)
    BY <2>3, <2>4, <2>5, <2>6, <2>7 DEF ViewRight
  <2>9. table' = table /\ lastSequence' = lastSequence
    BY <1>3 DEF StartsRead
  <2>10. QED
    BY <2>1, <2>8, <2>9 DEF ViewInv
<1>4. ASSUME NEW t \in Threads, EndsRead(t)
      PROVE  ViewInv'
  <2>1. view'[t] = NULL /\ \A u \in Threads : u # t => view'[u] = view[u]
    BY <1>4, <1>a DEF EndsRead
  <2>2. QED
    BY <1>1, <2>1 DEF ViewInv, SameView
<1>5. QED
  BY <1>2, <1>3, <1>4, ViewSteps

\* The four invariants hold, and what the database holds is what was acknowledged.
LEMMA StoreAlways ==
  ASSUME Reliable
  PROVE  Spec => [](OrderInv /\ AckedOnce /\ BatchInv /\ LoggedInv /\ ViewInv /\ StoreInv)
<1> DEFINE Inv == OrderInv /\ AckedOnce /\ BatchInv /\ LoggedInv /\ ViewInv
<1>1. Init => Inv
  <2> SUFFICES ASSUME Init PROVE Inv
    BY SMT
  <2>1. /\ log = <<{}>> /\ logFiles = {1} /\ acked = [all |-> {}, sync |-> {}] /\ group = NoGroup
        /\ current = [version |-> NoVersion, seek |-> FALSE]
        /\ bg = [at |-> "idle", inner |-> FALSE, inputs |-> {}, smallest |-> 0]
        /\ pc = [t \in Threads |-> "idle"] /\ view = [t \in Threads |-> NULL]
    BY DEF Init
  <2>2. log[1] = {} /\ bg.at = "idle" /\ acked.all = {} /\ group.ok
    BY <2>1, SMT DEF NoGroup
  <2>3. "idle" \notin {"manifest", "install"}
    BY SMT
  <2>4. LevelsOrdered(current.version)
    BY <2>1, SMT DEF NoVersion, LevelsOrdered, Up
  <2>5. OrderInv /\ AckedOnce
    BY <2>2, <2>3, <2>4 DEF OrderInv, AckedOnce
  <2>6. BatchInv /\ ViewInv
    BY <2>1, GroupedLabels DEF BatchInv, ViewInv
  <2>7. LoggedInv
    BY <2>1, <2>2 DEF LoggedInv
  <2>8. QED
    BY <2>5, <2>6, <2>7, SMT
<1>2. (/\ QueueInv /\ InQueue /\ DataInv /\ DataInv' /\ SeqInv /\ ScheduleInv /\ VersionInv
       /\ NumbersInv /\ CloseInv /\ GroupInv /\ FilesInv /\ CoverInv /\ WorkInv
       /\ RefInv /\ RefInv' /\ Inv /\ [Next]_vars)
      => Inv'
  BY OrderNext, AckedOnceNext, BatchNext, LoggedNext, ViewNext
<1>3. (/\ ErrorsInv /\ DataInv /\ SeqInv /\ VersionInv /\ NumbersInv /\ CloseInv /\ GroupInv
       /\ FilesInv /\ CoverInv /\ Inv)
      => StoreInv
  BY StoreHolds
<1> HIDE DEF Inv
<1>4. Spec => [](Inv /\ StoreInv)
  BY <1>1, <1>2, <1>3, QueueAlways, InQueueAlways, SeqAlways, ScheduleAlways, VersionAlways,
     ErrorsAlways, NumbersAlways, CloseAlways, RefAlways, GroupAlways, FilesAlways, CoverAlways,
     PTL DEF Spec
<1>5. Inv /\ StoreInv => OrderInv /\ AckedOnce /\ BatchInv /\ LoggedInv /\ ViewInv /\ StoreInv
  BY SMT DEF Inv
<1>6. QED
  BY <1>4, <1>5, PTL

------------------------------------------------------------------------------
\* What a reader v sees in the memtables tb.
Seen(tb, v) == [k \in Keys |-> LookUp(Stack(tb, v), k, v.seq)]

LEMMA SnapshotsAre ==
  /\ Snapshots = [t \in Threads |-> IF view[t] = NULL THEN NULL ELSE Seen(table, view[t])]
  /\ Snapshots' = [t \in Threads |-> IF view'[t] = NULL THEN NULL ELSE Seen(table', view'[t])]
  BY DEF Snapshots, Shown, Sources, MemTables, Stack, Seen

LEMMA SeenKept ==
  ASSUME QueueInv, DataInv, DataInv', SeqInv, NumbersInv, GroupInv, LoggedInv, RefInv, RefInv', ViewInv,
         [Next]_vars, NEW t \in Threads, view[t] # NULL, view'[t] # NULL,
         SameView(view[t], view'[t])
  PROVE  Seen(table', view'[t]) = Seen(table, view[t])
<1>1. \A k \in Keys : LookUp(Stack(table', view'[t]), k, view'[t].seq) =
                        LookUp(Stack(table, view[t]), k, view[t].seq)
  BY KeptView
<1>2. QED
  BY <1>1 DEF Seen

LEMMA SnapshotsKept ==
  ASSUME QueueInv, DataInv, DataInv', SeqInv, NumbersInv, GroupInv, LoggedInv, RefInv, RefInv', ViewInv,
         [Next]_vars, KeepsViews
  PROVE  Snapshots' = Snapshots
<1>1. ASSUME NEW t \in Threads
      PROVE  (IF view'[t] = NULL THEN NULL ELSE Seen(table', view'[t])) =
             (IF view[t] = NULL THEN NULL ELSE Seen(table, view[t]))
  <2>1. CASE view[t] = NULL /\ view'[t] = NULL
    BY <2>1
  <2>2. CASE view[t] # NULL /\ view'[t] # NULL /\ SameView(view[t], view'[t])
    <3>1. Seen(table', view'[t]) = Seen(table, view[t])
      BY <2>2, SeenKept
    <3>2. QED
      BY <2>2, <3>1
  <2>3. QED
    BY <2>1, <2>2 DEF KeepsViews
<1>2. QED
  BY <1>1, SnapshotsAre

\* A reader's snapshot is a map.
LEMMA SeenIsMap ==
  ASSUME ViewInv, NEW t \in Threads, view[t] # NULL
  PROVE  Snapshots[t] = Seen(table, view[t]) /\ Snapshots[t] # NULL
<1>1. Seen(table, view[t]) \in [Keys -> Values \cup {Deleted}]
  BY DEF ViewInv, ViewRight, Seen
<1>2. Snapshots[t] = Seen(table, view[t])
  BY SnapshotsAre
<1>3. QED
  BY <1>1, <1>2, StoreAssumption

LEMMA ContentsKept ==
  ASSUME StoreInv, StoreInv', acked' = acked
  PROVE  Contents' = Contents
  BY DEF StoreInv, Held

LEMMA AskedKept ==
  ASSUME UNCHANGED <<writers_, batch>>
  PROVE  Asked' = Asked
  BY DEF Asked

\* A reader starts: it sees what the database holds.
LEMMA OpensSnap ==
  ASSUME QueueInv, DataInv, DataInv', SeqInv, VersionInv, NumbersInv, CloseInv, GroupInv, LoggedInv,
         RefInv, RefInv', ViewInv, StoreInv, StoreInv', [Next]_vars,
         NEW t \in Threads, StartsRead(t)
  PROVE  KV!OpenSnap(t)
<1>1. /\ pc[t] = "idle" /\ ~shutting_down_ /\ view' = [view EXCEPT ![t] = Now]
      /\ UNCHANGED <<table, lastSequence, writers_, batch, acked, ret>>
  BY DEF StartsRead
<1>2. view \in [Threads -> View \cup {NULL}]
  BY DEF RefInv
<1>3. view[t] = NULL
  <2>1. "idle" \notin Holding
    BY SMT DEF Holding
  <2>2. QED
    BY <1>1, <2>1 DEF RefInv
<1>4. Now # NULL
  <2>1. mem_ \in Nat /\ imm_ \in Nat /\ current.version \in Version /\ lastSequence \in Nat
    BY SMT DEF DataInv, VersionInv
  <2>2. Now \in View
    BY <2>1, SMT DEF Now, View
  <2>3. QED
    BY <2>2, ViewAssumption
<1>5. Seen(table, Now) = Contents
  <2>1. ~IsClosed
    <3>1. "closed" \in Ending
      BY SMT DEF Ending
    <3>2. QED
      BY <1>1, <3>1 DEF CloseInv, IsClosed
  <2>2. Now.seq = lastSequence
    BY SMT DEF Now
  <2>3. Sources(Now) = Stack(table, Now)
    BY SourcesStack
  <2>4. QED
    BY <2>1, <2>2, <2>3 DEF Contents, Seen
<1>6. view'[t] = Now /\ \A u \in Threads : u # t => view'[u] = view[u]
  BY <1>1, <1>2
<1>7. Snapshots[t] = NULL
  BY <1>3, SnapshotsAre
<1>8. Snapshots' = [Snapshots EXCEPT ![t] = Contents]
  <2>1. Snapshots'[t] = Contents
    BY <1>1, <1>4, <1>5, <1>6, SnapshotsAre
  <2>2. ASSUME NEW u \in Threads, u # t
        PROVE  Snapshots'[u] = Snapshots[u]
    <3>1. view'[u] = view[u] /\ Seen(table', view'[u]) = Seen(table, view[u])
      BY <1>1, <1>6, <2>2
    <3>2. QED
      BY <3>1, SnapshotsAre
  <2>3. /\ Snapshots = [u \in Threads |-> Snapshots[u]]
        /\ Snapshots' = [u \in Threads |-> Snapshots'[u]]
    BY SnapshotsAre
  <2>4. QED
    BY <2>1, <2>2, <2>3, SMT
<1>9. UNCHANGED <<Contents, Asked, ret>>
  BY <1>1, ContentsKept, AskedKept
<1>10. QED
  BY <1>7, <1>8, <1>9 DEF KV!OpenSnap

LEMMA ClosesSnap ==
  ASSUME QueueInv, DataInv, DataInv', SeqInv, NumbersInv, GroupInv, LoggedInv,
         RefInv, RefInv', ViewInv, StoreInv, StoreInv', [Next]_vars,
         NEW t \in Threads, EndsRead(t)
  PROVE  KV!CloseSnap(t)
<1>1. /\ pc[t] \in Holding
      /\ view' = [view EXCEPT ![t] = NULL] /\ ret' = [ret EXCEPT ![t] = NULL]
      /\ UNCHANGED <<lastSequence, writers_, batch, acked>>
  BY DEF EndsRead
<1>2. view \in [Threads -> View \cup {NULL}]
  BY DEF RefInv
<1>3. view[t] # NULL
  BY <1>1, ViewAssumption DEF RefInv
<1>4. view'[t] = NULL /\ \A u \in Threads : u # t => view'[u] = view[u]
  BY <1>1, <1>2
<1>5. Snapshots' = [Snapshots EXCEPT ![t] = NULL]
  <2>1. Snapshots'[t] = NULL
    BY <1>4, SnapshotsAre
  <2>2. ASSUME NEW u \in Threads, u # t
        PROVE  Snapshots'[u] = Snapshots[u]
    <3>1. view'[u] = view[u]
      BY <1>4, <2>2
    <3>2. CASE view[u] = NULL
      BY <3>1, <3>2, SnapshotsAre
    <3>3. CASE view[u] # NULL
      <4>1. Seen(table', view'[u]) = Seen(table, view[u])
        BY <3>1, <3>3, SeenKept DEF SameView
      <4>2. QED
        BY <3>1, <3>3, <4>1, SnapshotsAre
    <3>4. QED
      BY <3>2, <3>3, SMT
  <2>3. /\ Snapshots = [u \in Threads |-> Snapshots[u]]
        /\ Snapshots' = [u \in Threads |-> Snapshots'[u]]
    BY SnapshotsAre
  <2>4. QED
    BY <2>1, <2>2, <2>3, SMT
<1>6. Snapshots[t] # NULL
  BY <1>3, SeenIsMap
<1>7. UNCHANGED <<Contents, Asked>>
  BY <1>1, ContentsKept, AskedKept
<1>8. QED
  BY <1>1, <1>5, <1>6, <1>7 DEF KV!CloseSnap

LEMMA ReadsSnap ==
  ASSUME QueueInv, DataInv, DataInv', SeqInv, NumbersInv, GroupInv, LoggedInv,
         RefInv, RefInv', ViewInv, StoreInv, StoreInv', [Next]_vars, KeepsViews,
         NEW t \in Threads, NEW k \in Keys, GetReads(t, k) \/ IteratorReads(t, k)
  PROVE  KV!ReadSnap(t, k)
<1> DEFINE v == view[t]
<1>1. /\ pc[t] \in {"g.read", "i.open"}
      /\ \/ ret' = [ret EXCEPT ![t] = LookUp(Sources(v), k, v.seq)]
         \/ ret' = [ret EXCEPT ![t] = MergedLookUp(Sources(v), k, v.seq)]
      /\ UNCHANGED <<writers_, batch, acked>>
  BY DEF GetReads, IteratorReads, Returns, queue
<1>2. v # NULL
  <2>1. pc[t] \in Holding
    BY <1>1, SMT DEF Holding
  <2>2. QED
    BY <2>1, ViewAssumption DEF RefInv
<1>3. Sources(v) = Stack(table, v)
  BY SourcesStack
<1>4. MergedLookUp(Stack(table, v), k, v.seq) = LookUp(Stack(table, v), k, v.seq)
  BY <1>2 DEF ViewInv, ViewRight
<1>5. Snapshots[t] # NULL /\ Snapshots[t][k] = LookUp(Stack(table, v), k, v.seq)
  BY <1>2, SeenIsMap DEF Seen
<1>6. ret' = [ret EXCEPT ![t] = Snapshots[t][k]]
  BY <1>1, <1>3, <1>4, <1>5
<1>7. UNCHANGED <<Contents, Asked, Snapshots>>
  BY <1>1, ContentsKept, AskedKept, SnapshotsKept
<1>8. QED
  BY <1>5, <1>6, <1>7 DEF KV!ReadSnap

------------------------------------------------------------------------------
LEMMA SeqRange ==
  ASSUME NEW S, NEW s \in Seq(S)
  PROVE  \A x : x \in Range(s) <=> \E i \in 1 .. Len(s) : x = s[i]
<1>1. DOMAIN s = 1 .. Len(s)
  BY SMT
<1>2. QED
  BY <1>1 DEF Range

\* A call of Write asks for its batch.
LEMMA WriteAsks ==
  ASSUME QueueInv, InQueue, NEW t \in Threads, NEW b \in Batches, NEW s \in Syncs, Write(t, b, s),
         batch \in [Threads -> Seq(Update)], Snapshots' = Snapshots, Contents' = Contents
  PROVE  KV!Ask(t, b)
<1>1. /\ pc[t] = "idle" /\ writers_' = Append(writers_, t) /\ batch' = [batch EXCEPT ![t] = b]
      /\ ret' = ret
  BY DEF Write, WriterFrame, readers
<1>2. writers_ \in Seq(Threads)
  BY DEF QueueInv
<1>3. writers_' \in Seq(Threads) /\ Len(writers_') = Len(writers_) + 1 /\ Len(writers_) \in Nat
      /\ writers_'[Len(writers_) + 1] = t /\ \A i \in 1 .. Len(writers_) : writers_'[i] = writers_[i]
  BY <1>1, <1>2, SMT
<1>4. /\ \A i \in 1 .. Len(writers_') : i \in 1 .. Len(writers_) \/ i = Len(writers_) + 1
      /\ \A i \in 1 .. Len(writers_) : i \in 1 .. Len(writers_')
      /\ Len(writers_) + 1 \in 1 .. Len(writers_')
  BY <1>3, SMT
<1>5. /\ \A x : x \in Range(writers_) <=> \E i \in 1 .. Len(writers_) : x = writers_[i]
      /\ \A x : x \in Range(writers_') <=> \E i \in 1 .. Len(writers_') : x = writers_'[i]
  BY <1>2, <1>3, SeqRange
<1>6. \A x : x \in Range(writers_') <=> x \in Range(writers_) \/ x = t
  <2>1. ASSUME NEW x \in Range(writers_')
        PROVE  x \in Range(writers_) \/ x = t
    <3>1. PICK i \in 1 .. Len(writers_') : x = writers_'[i]
      BY <1>5, <2>1
    <3>2. QED
      BY <1>3, <1>4, <1>5, <3>1
  <2>2. ASSUME NEW x \in Range(writers_)
        PROVE  x \in Range(writers_')
    <3>1. PICK i \in 1 .. Len(writers_) : x = writers_[i]
      BY <1>5, <2>2
    <3>2. QED
      BY <1>3, <1>4, <1>5, <3>1
  <2>3. t \in Range(writers_')
    BY <1>3, <1>4, <1>5
  <2>4. QED
    BY <2>1, <2>2, <2>3
<1>7. ASSUME t \in Range(writers_)
      PROVE  FALSE
  <2>1. PICK i \in 1 .. Len(writers_) : t = writers_[i]
    BY <1>5, <1>7
  <2>2. QED
    BY <1>1, <2>1, CallsFromOutside
<1>8. batch'[t] = b /\ \A u \in Threads : u # t => batch'[u] = batch[u]
  BY <1>1
<1>9. Asked[t] = NULL
  BY <1>7 DEF Asked
<1>10. Asked' = [Asked EXCEPT ![t] = b]
  <2>1. Asked'[t] = b
    BY <1>6, <1>8 DEF Asked
  <2>2. \A u \in Threads : u # t => Asked'[u] = Asked[u]
    BY <1>6, <1>8 DEF Asked
  <2>3. Asked = [u \in Threads |-> Asked[u]] /\ Asked' = [u \in Threads |-> Asked'[u]]
    BY DEF Asked
  <2>4. QED
    BY <2>1, <2>2, <2>3, SMT
<1>11. QED
  BY <1>1, <1>9, <1>10 DEF KV!Ask

\* The writers that leave the queue are answered.
LEMMA LeavingAnswers ==
  ASSUME QueueInv, InQueue, DataInv, NEW t, NEW ms \in Seq(Threads), Len(ms) <= Len(writers_),
         \A i \in 1 .. Len(ms) : ms[i] = writers_[i], LeaveQueue(t, ms)
  PROVE  /\ Range(ms) \in SUBSET Threads
         /\ \A u \in Range(ms) : Asked[u] # NULL /\ Asked[u] = batch[u]
         /\ KV!Answered(Range(ms))
<1> DEFINE n == Len(ms)
           rest == SubSeq(writers_, n + 1, Len(writers_))
<1>1. /\ writers_ \in Seq(Threads) /\ batch \in [Threads -> Seq(Update)] /\ n \in Nat
      /\ Len(writers_) \in Nat
  BY SMT DEF QueueInv, DataInv
<1>2. writers_' = rest
  BY DEF LeaveQueue
<1>3. batch' = [u \in Threads |-> IF u \in Range(ms) THEN <<>> ELSE batch[u]]
  BY DEF LeaveQueue
<1>4. /\ rest \in Seq(Threads) /\ Len(rest) = Len(writers_) - n
      /\ \A i \in 1 .. Len(rest) : rest[i] = writers_[n + i]
  BY <1>1, SMT
<1> HIDE DEF rest
<1>5. /\ \A x : x \in Range(writers_) <=> \E i \in 1 .. Len(writers_) : x = writers_[i]
      /\ \A x : x \in Range(rest) <=> \E i \in 1 .. Len(rest) : x = rest[i]
      /\ \A x : x \in Range(ms) <=> \E i \in 1 .. n : x = ms[i]
  BY <1>1, <1>4, SeqRange
<1>6. /\ \A i \in 1 .. Len(rest) : n + i \in 1 .. Len(writers_) /\ n + i \notin 1 .. n
      /\ \A i \in 1 .. n : i \in 1 .. Len(writers_) /\ ms[i] \in Threads
      /\ \A i \in 1 .. Len(writers_) :
           i \in 1 .. n \/ (i - n \in 1 .. Len(rest) /\ n + (i - n) = i)
  BY <1>1, <1>4, SMT
<1>7. \A i, j \in 1 .. Len(writers_) : writers_[i] = writers_[j] => i = j
  BY DEF InQueue
<1> HIDE DEF n
<1>8. ASSUME NEW x \in Range(ms)
      PROVE  x \in Range(writers_) /\ x \in Threads
  <2>1. PICK i \in 1 .. n : x = ms[i]
    BY <1>5, <1>8
  <2>2. i \in 1 .. Len(writers_) /\ ms[i] \in Threads /\ ms[i] = writers_[i]
    BY <1>6 DEF n
  <2>3. QED
    BY <1>5, <2>1, <2>2
<1>9. ASSUME NEW x \in Range(rest)
      PROVE  x \in Range(writers_) /\ x \notin Range(ms)
  <2>1. PICK i \in 1 .. Len(rest) : x = rest[i]
    BY <1>5, <1>9
  <2>2. x = writers_[n + i] /\ n + i \in 1 .. Len(writers_) /\ n + i \notin 1 .. n
    BY <1>4, <1>6, <2>1
  <2>3. ASSUME NEW j \in 1 .. n, x = ms[j]
        PROVE  FALSE
    <3>1. j \in 1 .. Len(writers_) /\ x = writers_[j]
      BY <1>6, <2>3 DEF n
    <3>2. n + i = j
      BY <1>7, <2>2, <3>1
    <3>3. QED
      BY <2>2, <3>2
  <2>4. QED
    BY <1>5, <2>2, <2>3
<1>10. ASSUME NEW x \in Range(writers_), x \notin Range(ms)
       PROVE  x \in Range(rest)
  <2>1. PICK i \in 1 .. Len(writers_) : x = writers_[i]
    BY <1>5, <1>10
  <2>2. i \notin 1 .. n
    BY <1>5, <1>10, <2>1 DEF n
  <2>3. i - n \in 1 .. Len(rest) /\ n + (i - n) = i
    BY <1>6, <2>2
  <2>4. x = rest[i - n]
    BY <1>4, <2>1, <2>3
  <2>5. QED
    BY <1>5, <2>3, <2>4
<1>11. \A u \in Range(ms) : Asked[u] # NULL /\ Asked[u] = batch[u]
  <2>1. \A u \in Range(ms) : Asked[u] = batch[u] /\ batch[u] \in Seq(Update)
    BY <1>1, <1>8 DEF Asked
  <2>2. NULL \notin Seq(Update)
    BY StoreAssumption DEF Update
  <2>3. QED
    BY <2>1, <2>2
<1>12. ASSUME NEW u \in Threads
       PROVE  (IF u \in Range(writers_') THEN batch'[u] ELSE NULL) =
              (IF u \in Range(ms) THEN NULL ELSE Asked[u])
  <2>1. CASE u \in Range(ms)
    BY <1>2, <1>9, <2>1
  <2>2. CASE u \notin Range(ms)
    <3>1. batch'[u] = batch[u] /\ (u \in Range(writers_') <=> u \in Range(writers_))
      BY <1>2, <1>3, <1>9, <1>10, <2>2
    <3>2. QED
      BY <2>2, <3>1 DEF Asked
  <2>3. QED
    BY <2>1, <2>2, SMT
<1>13. KV!Answered(Range(ms))
  BY <1>12 DEF KV!Answered, Asked
<1>14. QED
  BY <1>8, <1>11, <1>13

\* A writer that finds an error in MakeRoomForWrite, or no batch, changes nothing.
LEMMA LeavingAborts ==
  ASSUME QueueInv, InQueue, DataInv, NEW t \in Threads, pc[t] = "w.room", LeaveQueue(t, <<t>>),
         ret' = ret, Snapshots' = Snapshots, Contents' = Contents
  PROVE  \E ts \in (SUBSET Threads) \ {{}} : KV!Abort(ts)
<1> DEFINE ms == <<t>>
<1>1. writers_ \in Seq(Threads) /\ writers_ # <<>> /\ writers_[1] = t
  BY GroupedLabels DEF QueueInv
<1>2. ms \in Seq(Threads) /\ Len(ms) <= Len(writers_) /\ \A i \in 1 .. Len(ms) : ms[i] = writers_[i]
  BY <1>1, SMT
<1>3. t \in Range(ms)
  BY SMT DEF Range
<1>4. LeaveQueue(t, ms)
  BY SMT
<1> HIDE DEF ms
<1>5. /\ Range(ms) \in SUBSET Threads /\ KV!Answered(Range(ms))
      /\ \A u \in Range(ms) : Asked[u] # NULL
  BY <1>2, <1>4, LeavingAnswers
<1>6. KV!Abort(Range(ms))
  BY <1>5 DEF KV!Abort
<1>7. Range(ms) \in (SUBSET Threads) \ {{}}
  BY <1>3, <1>5
<1>8. QED
  BY <1>6, <1>7

------------------------------------------------------------------------------
\* f lists the elements of S, which are n, without repetition.
Lists(f, S, n) ==
  /\ n \in Nat /\ f \in [1 .. n -> S] /\ \A x \in S : \E i \in 1 .. n : f[i] = x
  /\ \A i, j \in 1 .. n : f[i] = f[j] => i = j

\* The end of a group is one step of the store.
LEMMA EndCommits ==
  ASSUME QueueInv, InQueue, DataInv, SeqInv, GroupInv, AckedOnce', BatchInv, LoggedInv,
         StoreInv, StoreInv', NEW t \in Threads, WriteEnds(t), Snapshots' = Snapshots,
         \A f, S, n : Lists(f, S, n) => Cardinality(S) = n
  PROVE  \E ts \in (SUBSET Threads) \ {{}} : KV!Commit(ts)
<1> DEFINE ms == group.members
           ts == Range(ms)
           A == acked.all
           u == group.updates
<1>1. /\ pc[t] = "w.finish" /\ LeaveQueue(t, ms) /\ ret' = ret
  BY DEF WriteEnds, WriterFrame, readers
<1>2. pc[t] \in Grouped
  BY <1>1, GroupedLabels
<1>3. /\ ms \in Seq(Threads) /\ Len(ms) <= Len(writers_) /\ Len(ms) >= 1
      /\ \A i \in 1 .. Len(ms) : ms[i] = writers_[i]
  BY <1>2 DEF QueueInv, GroupInFront, InQueue
<1>4. /\ ts \in SUBSET Threads /\ KV!Answered(ts)
      /\ \A x \in ts : Asked[x] # NULL /\ Asked[x] = batch[x]
  BY <1>1, <1>3, LeavingAnswers
<1>5. acked'.all = A \cup Range(u)
  BY Acknowledged DEF LoggedInv
<1>6. Matches(u, Asks(ms))
  BY <1>2 DEF BatchInv
<1>7. \A x : x \in ts <=> \E i \in 1 .. Len(ms) : x = ms[i]
  BY <1>3, SeqRange
<1>8. /\ lastSequence \in Nat /\ A \in SUBSET Entry /\ \A e \in A : e.seq <= lastSequence
      /\ u \in Seq(Entry) /\ \A i \in 1 .. Len(u) : u[i].seq = lastSequence + i
      /\ batch \in [Threads -> Seq(Update)] /\ writers_ \in Seq(Threads)
  BY DEF DataInv, GroupInv, SeqInv, QueueInv
<1>9. Once(A \cup Range(u))
  BY <1>5 DEF AckedOnce, Once
<1> HIDE DEF ts, ms, A, u
<1>10. /\ DOMAIN ms = 1 .. Len(ms) /\ Len(ms) \in Nat /\ 1 \in 1 .. Len(ms)
       /\ \A i \in 1 .. Len(ms) : ms[i] \in Threads /\ i \in 1 .. Len(writers_)
  BY <1>3, <1>8, SMT
<1>11. \A i \in 1 .. Len(ms) : ms[i] \in ts
  BY <1>7
<1>12. ms \in [1 .. Len(ms) -> ts]
  BY <1>3, <1>10, <1>11, SMT
<1>13. Cardinality(ts) = Len(ms)
  <2>1. \A i, j \in 1 .. Len(ms) : ms[i] = ms[j] => i = j
    <3>1. \A i, j \in 1 .. Len(writers_) : writers_[i] = writers_[j] => i = j
      BY DEF InQueue
    <3>2. QED
      BY <1>3, <1>10, <3>1
  <2>2. Lists(ms, ts, Len(ms))
    BY <1>7, <1>10, <1>12, <2>1 DEF Lists
  <2>3. QED
    BY <2>2
<1>a. KV!Cardinality(ts) = Len(ms)
  <2>1. KV!Cardinality(ts) = Cardinality(ts)
    BY DEF KV!Cardinality, Cardinality
  <2>2. QED
    BY <1>13, <2>1
<1>14. ms \in KV!Orders(ts)
  BY <1>7, <1>12, <1>a DEF KV!Orders
<1>15. KV!Concat([i \in 1 .. KV!Cardinality(ts) |-> Asked[ms[i]]]) = Asks(ms)
  <2>1. [i \in 1 .. KV!Cardinality(ts) |-> Asked[ms[i]]] = [i \in 1 .. Len(ms) |-> batch[ms[i]]]
    BY <1>4, <1>11, <1>a
  <2>2. \A ss : KV!Concat(ss) = Concat(ss)
    BY DEF KV!Concat, Concat
  <2>3. QED
    BY <2>1, <2>2 DEF Asks
<1>16. Asks(ms) \in Seq(Update)
  <2> DEFINE ss == [i \in 1 .. Len(ms) |-> batch[ms[i]]]
  <2>1. ss \in [1 .. Len(ms) -> Seq(Update)]
    BY <1>8, <1>10
  <2> HIDE DEF ss
  <2>2. ss \in Seq(Seq(Update))
    BY <1>10, <2>1, SMT
  <2>3. Concat(ss) \in Seq(Update)
    BY <2>2, ConcatType
  <2>4. QED
    BY <2>3 DEF ss, Asks
<1>17. Held(A \cup Range(u)) = KV!ApplyBatch(Held(A), Asks(ms))
  <2>1. Held(A \cup Range(u)) = AfterBatch(Held(A), Asks(ms))
    BY <1>6, <1>8, <1>9, <1>16, HeldBatch
  <2>2. \A m, b : KV!ApplyBatch(m, b) = AfterBatch(m, b)
    BY DEF KV!ApplyBatch, AfterBatch
  <2>3. QED
    BY <2>1, <2>2
<1>18. Contents = Held(A) /\ Contents' = Held(A \cup Range(u))
  BY <1>5 DEF StoreInv, Held, A
<1>19. Contents' = KV!ApplyBatch(Contents, KV!Concat([i \in 1 .. KV!Cardinality(ts) |-> Asked[ms[i]]]))
  BY <1>15, <1>17, <1>18
<1>20. \E order \in KV!Orders(ts) :
         Contents' =
           KV!ApplyBatch(Contents, KV!Concat([i \in 1 .. KV!Cardinality(ts) |-> Asked[order[i]]]))
  BY <1>14, <1>19
<1>21. KV!Commit(ts)
  BY <1>1, <1>4, <1>20 DEF KV!Commit
<1>22. ts \in (SUBSET Threads) \ {{}}
  BY <1>4, <1>10, <1>11
<1>23. QED
  BY <1>21, <1>22

\* The other steps change neither the queue nor what was returned.
LEMMA OtherSteps ==
  ASSUME [Next]_vars
  PROVE  \/ UNCHANGED <<writers_, batch, ret>>
         \/ \E t \in Threads : \/ \E b \in Batches, s \in Syncs : Write(t, b, s)
                               \/ RoomFound(t) \/ SwitchFails(t) \/ WriteEnds(t)
                               \/ \E k \in Keys : GetReads(t, k) \/ IteratorReads(t, k)
                               \/ StartsRead(t) \/ EndsRead(t)
<1>1. ASSUME NEW t \in Threads,
             \/ WriterWakes(t) \/ RoomDelay(t) \/ DelayEnds(t) \/ RoomWait(t) \/ RoomWakes(t)
             \/ SwitchMemTable(t) \/ AddRecord(t) \/ AddRecordFails(t) \/ InsertInto(t)
      PROVE  UNCHANGED <<writers_, batch, ret>>
  BY <1>1 DEF WriterWakes, RoomDelay, DelayEnds, RoomWait, RoomWakes, SwitchMemTable,
     AddRecord, AddRecordFails, InsertInto, RoomFrame, WriterFrame, queue, readers
<1>2. ASSUME NEW t \in Threads, RecordReadSample(t) \/ Close(t) \/ CloseWakes(t)
      PROVE  UNCHANGED <<writers_, batch, ret>>
  BY <1>2 DEF RecordReadSample, Close, CloseWakes, CloseFrame, queue, readers
<1>3. CASE BackgroundStep
  BY <1>3 DEF BackgroundStep, BackgroundCall, BuildTable, WorkMeetsImm, WorkEnds, WriteManifest,
     BackgroundFails, InstallVersion, BackgroundError, BackgroundRetries, BgQuiet, BgFrame, queue,
     readers
<1>4. CASE UNCHANGED vars
  BY <1>4 DEF vars, queue, readers
<1>5. CASE Closed
  BY <1>4, <1>5 DEF Closed
<1>6. QED
  BY <1>1, <1>2, <1>3, <1>4, <1>5, ReaderCalls DEF Next, WriterStep, ReaderStep

LEMMA StoreInit ==
  ASSUME Init, StoreInv
  PROVE  KV!KVInit
<1>1. /\ writers_ = <<>> /\ acked = [all |-> {}, sync |-> {}]
      /\ view = [t \in Threads |-> NULL] /\ ret = [t \in Threads |-> NULL]
  BY DEF Init
<1>2. acked.all = {}
  BY <1>1, SMT
<1>3. \A k : Latest({}, k) = Deleted
  BY LatestNone
<1>4. Contents = [k \in Keys |-> Deleted]
  BY <1>2, <1>3 DEF StoreInv, Held
<1>5. Range(writers_) = {}
  BY <1>1, SMT DEF Range
<1>6. Asked = [t \in Threads |-> NULL]
  BY <1>5 DEF Asked
<1>7. Snapshots = [t \in Threads |-> NULL]
  BY <1>1 DEF Snapshots
<1>8. QED
  BY <1>1, <1>4, <1>6, <1>7 DEF KV!KVInit

FST == INSTANCE FiniteSetTheorems

------------------------------------------------------------------------------
\* A set that a sequence lists without repetition has as many elements.
LEMMA ListedSize ==
  ASSUME NEW f, NEW S, NEW n, Lists(f, S, n)
  PROVE  Cardinality(S) = n
<1>0. /\ n \in Nat /\ f \in [1 .. n -> S] /\ \A x \in S : \E i \in 1 .. n : f[i] = x
      /\ \A i, j \in 1 .. n : f[i] = f[j] => i = j
  BY DEF Lists
<1> USE <1>0
<1>1. f \in FST!Injection(1 .. n, S)
  BY DEF FST!Injection, FST!IsInjective
<1>2. f \in FST!Surjection(1 .. n, S)
  BY DEF FST!Surjection
<1>3. FST!ExistsBijection(1 .. n, S)
  BY <1>1, <1>2 DEF FST!ExistsBijection, FST!Bijection
<1>4. FST!Cardinality(S) = n
  BY <1>3, FST!FS_CountingElements
<1>5. FST!Cardinality(S) = Cardinality(S)
  BY DEF FST!Cardinality, Cardinality
<1>6. QED
  BY <1>4, <1>5, SMT

LEMMA StoreStep ==
  ASSUME QueueInv, InQueue, DataInv, DataInv', SeqInv, VersionInv, NumbersInv, CloseInv, GroupInv,
         RefInv, RefInv', AckedOnce', BatchInv, LoggedInv, ViewInv, StoreInv, StoreInv', [Next]_vars
  PROVE  KV!KVNext \/ UNCHANGED KV!kvars
<1>1. ASSUME NEW t \in Threads, StartsRead(t)
      PROVE  KV!KVNext
  BY <1>1, OpensSnap DEF KV!KVNext
<1>2. ASSUME NEW t \in Threads, EndsRead(t)
      PROVE  KV!KVNext
  BY <1>2, ClosesSnap DEF KV!KVNext
<1>3. CASE KeepsViews
  <2>1. Snapshots' = Snapshots
    BY <1>3, SnapshotsKept
  <2>2. ASSUME NEW t \in Threads, WriteEnds(t)
        PROVE  KV!KVNext
    BY <2>1, <2>2, EndCommits, ListedSize DEF KV!KVNext
  <2>3. CASE ~\E t \in Threads : WriteEnds(t)
    <3>1. acked' = acked
      BY <2>3, AckedSteps
    <3>2. Contents' = Contents
      BY <3>1, ContentsKept
    <3>3. ASSUME NEW t \in Threads, NEW b \in Batches, NEW s \in Syncs, Write(t, b, s)
          PROVE  KV!KVNext
      <4>1. KV!Ask(t, b)
        BY <2>1, <3>2, <3>3, WriteAsks DEF DataInv
      <4>2. QED
        BY <4>1 DEF KV!KVNext
    <3>4. ASSUME NEW t \in Threads, NEW k \in Keys, GetReads(t, k) \/ IteratorReads(t, k)
          PROVE  KV!KVNext
      <4>1. KV!ReadSnap(t, k)
        BY <1>3, <3>4, ReadsSnap
      <4>2. QED
        BY <4>1 DEF KV!KVNext
    <3>5. CASE UNCHANGED <<writers_, batch, ret>>
      BY <2>1, <3>2, <3>5, AskedKept DEF KV!kvars
    <3>6. ASSUME NEW t \in Threads, RoomFound(t) \/ SwitchFails(t)
          PROVE  KV!KVNext \/ UNCHANGED KV!kvars
      <4>1. CASE LeaveQueue(t, <<t>>)
        <5>1. \E ts \in (SUBSET Threads) \ {{}} : KV!Abort(ts)
          BY <2>1, <3>2, <3>6, <4>1, RoomEnds, LeavingAborts
        <5>2. QED
          BY <5>1 DEF KV!KVNext
      <4>2. CASE UNCHANGED <<writers_, batch>>
        BY <3>5, <3>6, <4>2, RoomEnds
      <4>3. QED
        BY <3>6, <4>1, <4>2, RoomEnds
    <3>7. QED
      BY <1>1, <1>2, <2>3, <3>3, <3>4, <3>5, <3>6, OtherSteps
  <2>4. QED
    BY <2>2, <2>3
<1>4. QED
  BY <1>1, <1>2, <1>3, ViewSteps

(* DBImpl::Write, Get and NewIterator: for every number of threads, keys,   *)
(* batches and triggers, and whatever else fails, the database with logs    *)
(* and MANIFEST records that do not fail is the map of KVStore, up to what  *)
(* a recovery finds after the close: a write takes effect at once and       *)
(* in one step with its group, a reader sees the map of the moment it was   *)
(* opened, and memtable switches, flushes, compactions and the close change *)
(* neither.                                                                 *)
THEOREM WritePathIsStore ==
  ASSUME "append" \notin Faults, "sync" \notin Faults, "manifest" \notin Faults
  PROVE  Spec => LinearizableStore
<1>1. Reliable
  BY SMT DEF Reliable
<1>2. Spec => [](OrderInv /\ AckedOnce /\ BatchInv /\ LoggedInv /\ ViewInv /\ StoreInv)
  BY <1>1, StoreAlways
<1>3. Init /\ StoreInv => KV!KVInit
  BY StoreInit
<1>4. (/\ QueueInv /\ InQueue /\ DataInv /\ DataInv' /\ SeqInv /\ VersionInv /\ NumbersInv /\ CloseInv
       /\ GroupInv /\ RefInv /\ RefInv' /\ AckedOnce' /\ BatchInv /\ LoggedInv /\ ViewInv
       /\ StoreInv /\ StoreInv' /\ [Next]_vars)
      => [KV!KVNext]_(KV!kvars)
  BY StoreStep
<1>5. QED
  BY <1>2, <1>3, <1>4, QueueAlways, InQueueAlways, SeqAlways, VersionAlways, NumbersAlways,
     CloseAlways, RefAlways, GroupAlways, PTL DEF Spec, LinearizableStore, KV!KVSpec
==============================================================================
