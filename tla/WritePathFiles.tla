--------------------------- MODULE WritePathFiles ---------------------------
(* What the files of DBImpl hold, for every number of threads, every batch,  *)
(* bound and fault: which logs and tables exist, which memtable each of them *)
(* covers, and what of the acknowledged writes is in a log and synced there. *)
(* A group's entries are its members' batches in the order of the queue, and *)
(* a reader holds what it was given until it ends.                           *)
EXTENDS WritePathProofs

\* A leaf that names no other prover is left to Zenon.
USE Zenon

\* A writer is in the queue once, from its call until it is done.
InQueue ==
  /\ \A i \in 1 .. Len(writers_) : pc[writers_[i]] \in Writing /\ writers_[i] \notin done
  /\ \A i, j \in 1 .. Len(writers_) : writers_[i] = writers_[j] => i = j
  /\ \A t \in Threads : pc[t] \in Grouped => Len(group.members) >= 1

\* Writers that leave the queue are done, and the others stay.
LEMMA OthersStay ==
  ASSUME QueueInv, InQueue, NEW t \in Threads, pc[t] \in Leading, NEW members \in Seq(Threads),
         Len(members) <= Len(writers_), Len(members) >= 1,
         \A i \in 1 .. Len(members) : members[i] = writers_[i],
         LeaveQueue(t, members)
  PROVE  InQueue'
<1> DEFINE n == Len(members)
           rest == SubSeq(writers_, n + 1, Len(writers_))
<1>1. /\ writers_' = rest /\ done' = done \cup (Range(members) \ {t})
      /\ pc' = [pc EXCEPT ![t] = "idle"]
  BY DEF LeaveQueue, Goto
<1>2. /\ writers_ \in Seq(Threads) /\ n \in Nat /\ Len(writers_) \in Nat
      /\ n <= Len(writers_) /\ n >= 1 /\ pc \in [Threads -> Labels] /\ writers_[1] = t
  BY SMT DEF QueueInv
<1>3. /\ Len(rest) = Len(writers_) - n
      /\ \A i \in 1 .. Len(rest) : rest[i] = writers_[i + n]
  <2> HIDE DEF n
  <2>1. QED
    BY <1>2, SMT
<1>4. \A i \in 1 .. Len(rest) : i + n \in 1 .. Len(writers_) /\ ~(i + n <= n) /\ i + n # 1
  <2> HIDE DEF n, rest
  <2>1. QED
    BY <1>2, <1>3, SMT
<1>5. \A x \in Range(members) : \E k \in 1 .. n : x = writers_[k] /\ k \in 1 .. Len(writers_)
  BY <1>2, SMT DEF Range
<1>6. \A k \in 1 .. n : k <= n
  BY <1>2, SMT
<1>7. \A i \in 1 .. Len(rest) : rest[i] # t /\ rest[i] \notin Range(members)
  <2> HIDE DEF n, rest
  <2>0. 1 \in 1 .. Len(writers_)
    BY <1>2, SMT
  <2>1. \A i \in 1 .. Len(rest) : writers_[i + n] # writers_[1]
    BY <1>4, <2>0 DEF InQueue
  <2>2. \A i \in 1 .. Len(rest) : \A k \in 1 .. n :
           k \in 1 .. Len(writers_) => writers_[i + n] # writers_[k]
    BY <1>4, <1>6 DEF InQueue
  <2>3. \A i \in 1 .. Len(rest) : rest[i] # t
    BY <1>2, <1>3, <2>1
  <2>4. ASSUME NEW i \in 1 .. Len(rest), rest[i] \in Range(members)
        PROVE  FALSE
    <3>1. PICK k \in 1 .. n : rest[i] = writers_[k] /\ k \in 1 .. Len(writers_)
      BY <1>5, <2>4
    <3>2. rest[i] = writers_[i + n]
      BY <1>3
    <3>3. QED
      BY <2>2, <3>1, <3>2
  <2>5. QED
    BY <2>3, <2>4
<1>8. \A i \in 1 .. Len(rest) : rest[i] \in Threads
  <2> HIDE DEF n, rest
  <2>1. QED
    BY <1>2, <1>3, <1>4, SMT
<1>9. \A u \in Threads : u # t => pc'[u] = pc[u]
  BY <1>1, <1>2
<1> HIDE DEF n, rest
<1>10. \A i \in 1 .. Len(rest) : pc'[rest[i]] \in Writing /\ rest[i] \notin done'
  <2>1. SUFFICES ASSUME NEW i \in 1 .. Len(rest)
                 PROVE  pc'[rest[i]] \in Writing /\ rest[i] \notin done'
    OBVIOUS
  <2>2. pc[writers_[i + n]] \in Writing /\ writers_[i + n] \notin done /\ rest[i] = writers_[i + n]
    BY <1>3, <1>4 DEF InQueue
  <2>3. pc[rest[i]] \in Writing /\ rest[i] \notin done
    BY <2>2, SMT
  <2>4. QED
    BY <1>1, <1>7, <1>8, <1>9, <2>3
<1>11. \A i, j \in 1 .. Len(rest) : rest[i] = rest[j] => i = j
  <2>1. \A i, j \in 1 .. Len(rest) : rest[i] = rest[j] => i + n = j + n
    BY <1>3, <1>4, ZenonT(30) DEF InQueue
  <2>2. \A i, j \in 1 .. Len(rest) : i + n = j + n => i = j
    BY <1>2, SMT
  <2>3. QED
    BY <2>1, <2>2
<1>12. \A u \in Threads : pc'[u] \notin Grouped
  <2>1. "idle" \notin Grouped /\ pc'[t] = "idle"
    BY <1>1, <1>2, SMT DEF Grouped
  <2>2. \A u \in Threads : u # t => pc[u] \notin Grouped
    BY OneLeads
  <2>3. QED
    BY <1>9, <2>1, <2>2
<1>13. QED
  BY <1>1, <1>10, <1>11, <1>12 DEF InQueue

\* A step that leaves the queue alone and moves no one out of it.
LEMMA InQueueKept ==
  ASSUME InQueue, UNCHANGED <<writers_, done>>, group'.members = group.members,
         QueueInv,
         \A u \in Threads : pc[u] \in Writing /\ u \notin done => pc'[u] \in Writing,
         \A u \in Threads : pc'[u] \in Grouped => pc[u] \in Grouped
  PROVE  InQueue'
<1>1. \A i \in 1 .. Len(writers_) : writers_[i] \in Threads
  BY SMT DEF QueueInv
<1>2. QED
  BY <1>1 DEF InQueue

LEMMA InQueueNext ==
  ASSUME QueueInv, InQueue, [Next]_vars
  PROVE  InQueue'
<1>a. pc \in [Threads -> Labels] /\ writers_ \in Seq(Threads)
  BY SMT DEF QueueInv
<1>b. /\ \A l \in {"w.wait", "w.room", "w.sleep", "w.bgwait", "w.log", "w.insert", "w.finish"} :
             l \in Writing
      /\ \A l \in {"w.wait", "w.room", "w.sleep", "w.bgwait", "idle", "g.read", "g.end", "i.open",
                   "c.wait", "closed"} : l \notin Grouped
      /\ \A l \in {"idle", "g.read", "g.end", "i.open", "c.wait", "closed"} : l \notin Writing
      /\ Grouped = {"w.log", "w.insert", "w.finish"}
      /\ \A l \in {"w.room", "w.sleep", "w.bgwait", "w.log", "w.insert", "w.finish"} : l \in Leading
  BY SMT DEF Grouped, Writing, Leading
\* A thread outside Write that stays outside, or goes on in it.
<1>c. ASSUME NEW t \in Threads, NEW l, pc' = [pc EXCEPT ![t] = l],
             UNCHANGED <<writers_, done>>, group'.members = group.members,
             l \in Writing \/ pc[t] \notin Writing \/ t \in done,
             l \in Grouped => pc[t] \in Grouped
      PROVE  InQueue'
  <2>1. pc'[t] = l /\ \A u \in Threads : u # t => pc'[u] = pc[u]
    BY <1>a, <1>c
  <2>2. QED
    BY <1>c, <2>1, InQueueKept
<1>1. ASSUME UNCHANGED <<writers_, done, group, pc>>
      PROVE  InQueue'
  BY <1>1 DEF InQueue
<1>2. ASSUME NEW t \in Threads, NEW b \in Batches, NEW s \in Syncs, Write(t, b, s)
      PROVE  InQueue'
  <2>1. /\ writers_' = Append(writers_, t) /\ done' = done \ {t} /\ group' = group
        /\ pc[t] = "idle" /\ \E l \in {"w.room", "w.wait"} : pc' = [pc EXCEPT ![t] = l]
    BY <1>2 DEF Write, EnterMakeRoom, Goto
  <2>2. /\ pc'[t] \in Writing /\ pc'[t] \notin Grouped
        /\ \A u \in Threads : u # t => pc'[u] = pc[u]
    BY <1>a, <1>b, <2>1
  <2>3. \A i \in 1 .. Len(writers_) : writers_[i] # t
    BY <1>b, <2>1, ZenonT(30) DEF InQueue
  <2>4. /\ Len(writers_') = Len(writers_) + 1 /\ writers_'[Len(writers_) + 1] = t
        /\ \A i \in 1 .. Len(writers_) : writers_'[i] = writers_[i] /\ writers_[i] \in Threads
        /\ \A i \in 1 .. Len(writers_') : i \in 1 .. Len(writers_) \/ i = Len(writers_) + 1
    BY <1>a, <2>1, SMT
  <2>5. \A i \in 1 .. Len(writers_') : pc'[writers_'[i]] \in Writing /\ writers_'[i] \notin done'
    <3>1. \A i \in 1 .. Len(writers_) : pc'[writers_[i]] \in Writing /\ writers_[i] \notin done'
      BY <2>1, <2>2, <2>3, <2>4 DEF InQueue
    <3>2. t \notin done'
      BY <2>1
    <3>3. QED
      BY <2>2, <2>4, <3>1, <3>2, SMT
  <2>6. \A i, j \in 1 .. Len(writers_') : writers_'[i] = writers_'[j] => i = j
    BY <2>3, <2>4 DEF InQueue
  <2>7. \A u \in Threads : pc'[u] \in Grouped => Len(group'.members) >= 1
    BY <2>1, <2>2 DEF InQueue
  <2>8. QED
    BY <2>5, <2>6, <2>7 DEF InQueue
<1>3. ASSUME NEW t \in Threads,
             \/ WriterWakes(t) \/ RoomDelay(t) \/ DelayEnds(t) \/ RoomWait(t) \/ RoomWakes(t)
             \/ AddRecord(t) \/ AddRecordFails(t) \/ InsertInto(t)
      PROVE  InQueue'
  <2>1. UNCHANGED <<writers_, done>>
    BY <1>3 DEF WriterWakes, RoomDelay, DelayEnds, RoomWait, RoomWakes, AddRecord,
         AddRecordFails, InsertInto, queue
  <2>2. group'.members = group.members
    BY <1>3 DEF WriterWakes, RoomDelay, DelayEnds, RoomWait, RoomWakes, AddRecord,
         AddRecordFails, InsertInto, queue, QueueInv, GroupInFront
  <2>3. CASE WriterWakes(t)
    <3>1. \/ pc' = pc /\ pc' = [pc EXCEPT ![t] = pc[t]]
          \/ t \in done /\ pc' = [pc EXCEPT ![t] = "idle"]
          \/ pc' = [pc EXCEPT ![t] = "w.room"]
      BY <1>a, <2>3, SMT DEF WriterWakes, EnterMakeRoom, Goto
    <3>2. pc[t] = "w.wait"
      BY <2>3 DEF WriterWakes
    <3>3. QED
      BY <1>b, <1>c, <2>1, <2>2, <3>1, <3>2
  <2>4. CASE RoomDelay(t) \/ DelayEnds(t) \/ RoomWait(t) \/ RoomWakes(t)
    <3>1. \E l \in {"w.sleep", "w.room", "w.bgwait"} : pc' = [pc EXCEPT ![t] = l]
      BY <2>4 DEF RoomDelay, DelayEnds, RoomWait, RoomWakes, Goto
    <3>2. QED
      BY <1>b, <1>c, <2>1, <2>2, <3>1
  <2>5. CASE AddRecord(t) \/ AddRecordFails(t) \/ InsertInto(t)
    <3>1. \E l \in {"w.insert", "w.finish"} : pc' = [pc EXCEPT ![t] = l]
      BY <2>5, SMT DEF AddRecord, AddRecordFails, InsertInto, Goto
    <3>2. pc[t] \in Grouped
      BY <1>b, <2>5 DEF AddRecord, AddRecordFails, InsertInto
    <3>3. QED
      BY <1>b, <1>c, <2>1, <2>2, <3>1, <3>2
  <2>6. QED
    BY <1>3, <2>3, <2>4, <2>5
<1>4. ASSUME NEW t \in Threads, pc[t] \in Leading, LeaveQueue(t, <<t>>)
      PROVE  InQueue'
  <2>1. writers_ # <<>> /\ writers_[1] = t
    BY <1>4 DEF QueueInv
  <2>2. /\ <<t>> \in Seq(Threads) /\ Len(<<t>>) <= Len(writers_) /\ Len(<<t>>) >= 1
        /\ \A i \in 1 .. Len(<<t>>) : <<t>>[i] = writers_[i]
    BY <1>a, <2>1, SMT
  <2>3. QED
    BY <1>4, <2>2, OthersStay
<1>5. ASSUME NEW t \in Threads, RoomFound(t) \/ SwitchFails(t) \/ WriteEnds(t)
      PROVE  InQueue'
  <2>1. pc[t] \in Leading
    BY <1>b, <1>5 DEF RoomFound, SwitchFails, WriteEnds, InRoom
  <2>2. CASE SwitchFails(t) \/ (RoomFound(t) /\ IsNull(t))
    BY <1>4, <2>1, <2>2 DEF SwitchFails, RoomFound
  <2>3. CASE WriteEnds(t)
    <3>1. LeaveQueue(t, group.members) /\ Len(group.members) >= 1
      BY <1>b, <2>3 DEF WriteEnds, InQueue
    <3>2. QED
      BY <2>1, <3>1, OthersStay DEF QueueInv, GroupInFront
  <2>4. CASE RoomFound(t) /\ ~IsNull(t)
    <3>1. /\ BuildBatchGroup /\ UNCHANGED <<writers_, done>> /\ pc' = [pc EXCEPT ![t] = "w.log"]
      BY <2>4 DEF RoomFound, Goto
    <3>2. writers_ # <<>>
      BY <2>1 DEF QueueInv
    <3>4. Len(group'.members) >= 1
      BY <1>a, <3>1, <3>2, GroupBuilt
    <3>5. \A u \in Threads : pc[u] \in Writing => pc'[u] \in Writing
      BY <1>a, <1>b, <3>1
    <3>6. \A i \in 1 .. Len(writers_) : writers_[i] \in Threads
      BY <1>a, SMT
    <3>7. QED
      BY <3>1, <3>4, <3>5, <3>6 DEF InQueue
  <2>5. QED
    BY <1>5, <2>2, <2>3, <2>4
<1>6. ASSUME NEW t \in Threads,
             \/ Get(t) \/ NewIterator(t) \/ RecordReadSample(t)
             \/ \E k \in Keys : IteratorReads(t, k)
             \/ ReaderStep(t) \/ Close(t) \/ CloseWakes(t)
      PROVE  InQueue'
  <2>1. UNCHANGED <<writers_, done, group>>
    <3>1. CASE Get(t) \/ NewIterator(t) \/ RecordReadSample(t)
      BY <3>1 DEF Get, NewIterator, StartReader, RecordReadSample, queue
    <3>2. CASE (\E k \in Keys : IteratorReads(t, k)) \/ ReaderStep(t)
      BY <3>2 DEF IteratorReads, ReaderStep, GetReads, GetEnds, CleanupIteratorState,
           EndReader, Returns, queue
    <3>3. CASE Close(t) \/ CloseWakes(t)
      BY <3>3 DEF Close, CloseWakes, CloseFrame, queue
    <3>4. QED
      BY <1>6, <3>1, <3>2, <3>3
  <2>2. \/ pc' = pc
        \/ /\ pc[t] \in {"idle", "g.read", "g.end", "i.open", "c.wait"}
           /\ \E l \in {"idle", "g.read", "g.end", "i.open", "c.wait", "closed"} :
                pc' = [pc EXCEPT ![t] = l]
    <3>1. CASE Get(t) \/ NewIterator(t) \/ RecordReadSample(t)
      BY <3>1 DEF Get, NewIterator, StartReader, RecordReadSample, Goto
    <3>2. CASE (\E k \in Keys : IteratorReads(t, k)) \/ ReaderStep(t)
      BY <3>2 DEF IteratorReads, ReaderStep, GetReads, GetEnds, CleanupIteratorState,
           EndReader, Goto
    <3>3. CASE Close(t) \/ CloseWakes(t)
      BY <3>3 DEF Close, CloseWakes, FinishClose, Goto
    <3>4. QED
      BY <1>6, <3>1, <3>2, <3>3
  <2>3. QED
    BY <1>1, <1>b, <1>c, <2>1, <2>2
<1>7. ASSUME NEW t \in Threads, SwitchMemTable(t)
      PROVE  InQueue'
  BY <1>1, <1>7 DEF SwitchMemTable, queue
<1>8. ASSUME UNCHANGED vars \/ Closed \/ BackgroundStep
      PROVE  InQueue'
  <2>1. CASE UNCHANGED vars \/ Closed
    BY <1>1, <2>1 DEF Closed, vars, queue
  <2>2. CASE BackgroundCall
    BY <1>1, <2>2 DEF BackgroundCall, queue
  <2>3. CASE BuildTable \/ WorkMeetsImm \/ WorkEnds \/ WriteManifest \/ BackgroundFails
    BY <1>1, <2>3 DEF BuildTable, WorkMeetsImm, WorkEnds, WriteManifest, BackgroundFails,
         BgQuiet, BgFrame, queue
  <2>4. CASE InstallVersion \/ BackgroundError \/ BackgroundRetries
    BY <1>1, <2>4 DEF InstallVersion, BackgroundError, BackgroundRetries, BgFrame, queue
  <2>5. QED
    BY <1>8, <2>1, <2>2, <2>3, <2>4 DEF BackgroundStep
<1>9. QED
  BY <1>2, <1>3, <1>5, <1>6, <1>7, <1>8 DEF Next, WriterStep

LEMMA InQueueAlways == Spec => []InQueue
<1>1. Init => InQueue
  <2> SUFFICES ASSUME Init PROVE InQueue
    BY SMT
  <2>1. writers_ = <<>> /\ pc = [t \in Threads |-> "idle"]
    BY DEF Init
  <2>2. QED
    BY <2>1, SMT DEF InQueue, Grouped
<1>2. QueueInv /\ InQueue /\ [Next]_vars => InQueue'
  BY InQueueNext
<1>3. QED
  BY <1>1, <1>2, QueueAlways, PTL DEF Spec

------------------------------------------------------------------------------
\* Nothing fails but what Faults lists.
ErrorsInv == \A x \in errors : x.op \in Faults

LEMMA ErrorSteps ==
  ASSUME [Next]_vars
  PROVE  errors' = errors \/ \E f : Fault(f)
<1>1. CASE UNCHANGED vars \/ Closed
  BY <1>1 DEF Closed, vars, bounds
<1>2. ASSUME NEW t \in Threads,
             (\E b \in Batches, s \in Syncs : Write(t, b, s)) \/ WriterStep(t)
      PROVE  errors' = errors \/ \E f : Fault(f)
  <2>1. CASE \E b \in Batches, s \in Syncs : Write(t, b, s)
    BY <2>1 DEF Write
  <2>2. CASE \/ WriterWakes(t) \/ RoomDelay(t) \/ DelayEnds(t) \/ RoomFound(t) \/ RoomWait(t)
             \/ RoomWakes(t) \/ SwitchMemTable(t)
    BY <2>2 DEF WriterWakes, RoomDelay, DelayEnds, RoomFound, RoomWait, RoomWakes, SwitchMemTable
  <2>3. CASE SwitchFails(t) \/ AddRecordFails(t)
    BY <2>3 DEF SwitchFails, AddRecordFails
  <2>4. CASE AddRecord(t) \/ InsertInto(t) \/ WriteEnds(t)
    BY <2>4 DEF AddRecord, InsertInto, WriteEnds
  <2>5. QED
    BY <1>2, <2>1, <2>2, <2>3, <2>4 DEF WriterStep
<1>3. ASSUME NEW t \in Threads,
             \/ Get(t) \/ NewIterator(t) \/ RecordReadSample(t)
             \/ \E k \in Keys : IteratorReads(t, k)
             \/ ReaderStep(t) \/ Close(t) \/ CloseWakes(t)
      PROVE  errors' = errors
  <2>1. CASE Get(t) \/ NewIterator(t) \/ RecordReadSample(t)
    BY <2>1 DEF Get, NewIterator, StartReader, RecordReadSample, bounds
  <2>2. CASE (\E k \in Keys : IteratorReads(t, k)) \/ ReaderStep(t)
    BY <2>2 DEF IteratorReads, ReaderStep, GetReads, GetEnds, CleanupIteratorState, EndReader,
         Returns, bounds
  <2>3. CASE Close(t) \/ CloseWakes(t)
    BY <2>3 DEF Close, CloseWakes, CloseFrame, bounds
  <2>4. QED
    BY <1>3, <2>1, <2>2, <2>3
<1>4. CASE BackgroundStep
  <2>1. CASE BackgroundCall \/ BuildTable \/ WorkMeetsImm \/ WorkEnds
    BY <2>1 DEF BackgroundCall, BuildTable, WorkMeetsImm, WorkEnds, bounds
  <2>2. CASE WriteManifest \/ BackgroundFails
    BY <2>2 DEF WriteManifest, BackgroundFails
  <2>3. CASE InstallVersion \/ BackgroundError \/ BackgroundRetries
    BY <2>3 DEF InstallVersion, BackgroundError, BackgroundRetries
  <2>4. QED
    BY <1>4, <2>1, <2>2, <2>3 DEF BackgroundStep
<1>5. QED
  BY <1>1, <1>2, <1>3, <1>4 DEF Next

LEMMA ErrorsAlways == Spec => []ErrorsInv
<1>1. Init => ErrorsInv
  BY DEF Init, ErrorsInv
<1>2. ErrorsInv /\ [Next]_vars => ErrorsInv'
  <2> SUFFICES ASSUME ErrorsInv, [Next]_vars PROVE ErrorsInv'
    OBVIOUS
  <2>1. CASE errors' = errors
    BY <2>1 DEF ErrorsInv
  <2>2. ASSUME NEW f, Fault(f)
        PROVE  ErrorsInv'
    <3> DEFINE x == [nr |-> Cardinality(errors), op |-> f, log |-> mem_,
                     sure |-> IF f = "append" THEN log[mem_] ELSE synced[mem_]]
    <3>1. f \in Faults /\ errors' = errors \cup {x}
      BY <2>2 DEF Fault
    <3>2. x.op = f
      OBVIOUS
    <3> HIDE DEF x
    <3>3. QED
      BY <3>1, <3>2 DEF ErrorsInv
  <2>3. QED
    BY <2>1, <2>2, ErrorSteps
<1>3. QED
  BY <1>1, <1>2, PTL DEF Spec

\* The steps of the background thread but the last: it writes an edit for a
\* flush, a move of tables or a compaction, it starts a compaction, it writes
\* the edit to the MANIFEST, or it goes on without an edit.
Calm == UNCHANGED <<current, logNumber, mem_, imm_, table, log, synced, logFiles, acked,
                    lastSequence, pc>>
Carries == bg'.inner = bg.inner /\ bg'.inputs = bg.inputs /\ bg'.smallest = bg.smallest
FlushOf(e) ==
  /\ e.drop = {} /\ e.old = {} /\ e.log = mem_
  /\ \/ e.add = <<>> /\ e.below = {} /\ table[imm_] = {}
     \/ e.add = <<table[imm_]>> /\ e.below = {}
     \/ /\ e.add = <<>> /\ e.below = table[imm_]
        /\ \A i \in DOMAIN current.version.level0 :
             ~Overlap(current.version.level0[i], table[imm_])
EditsFlush == bg.at = "build" /\ bg'.at = "manifest" /\ Carries /\ FlushOf(edit')
EditsMove ==
  /\ bg.at = "idle" /\ bg'.at = "manifest" /\ ~bg'.inner
  /\ \E S \in Inputs(current.version) :
       edit' = [NoEdit EXCEPT !.drop = S, !.log = logNumber,
                              !.below = InputEntries(current.version, S)]
StartsWork ==
  /\ bg.at = "idle" /\ bg'.at = "work" /\ ~bg'.inner
  /\ bg'.inputs \in Inputs(current.version) /\ bg'.smallest = lastSequence
EditsWork ==
  /\ bg.at = "work" /\ bg'.at = "manifest" /\ ~bg'.inner
  /\ LET v == current.version
         old == Below(v, bg.inputs)
     IN  edit' = [drop |-> bg.inputs, old |-> old, add |-> <<>>,
                  below |-> Kept(InputEntries(v, bg.inputs) \cup old, bg.smallest),
                  log |-> logNumber]
Writes ==
  /\ bg.at = "manifest" /\ bg'.at = "install" /\ Carries /\ UNCHANGED edit
  /\ manifest' = [version |-> ApplyEdit(current.version, edit), log |-> edit.log]
  /\ durable' = manifest' \/ "manifestSync" \in Faults \/ Failed("manifestSync")
GoesOn ==
  /\ bg.at # "install" /\ bg'.at \notin {"manifest", "install"}
  /\ bg'.at = "work" \/ bg'.inner => /\ bg.at = "work" \/ bg.inner
                                     /\ bg'.inputs = bg.inputs /\ bg'.smallest = bg.smallest

LEMMA BackgroundSteps ==
  ASSUME ScheduleInv, VersionInv, BackgroundStep
  PROVE  \/ InstallVersion
         \/ Calm /\ Writes
         \/ /\ Calm /\ UNCHANGED <<manifest, durable>>
            /\ EditsFlush \/ EditsMove \/ StartsWork \/ EditsWork \/ GoesOn
<1> DEFINE Same == Calm /\ UNCHANGED <<manifest, durable>>
<1>a. bg = [at |-> bg.at, inner |-> bg.inner, inputs |-> bg.inputs, smallest |-> bg.smallest]
  BY DEF ScheduleInv
<1>b. bg.at \in {"idle", "work", "sleep"} => ~bg.inner
  BY SMT DEF VersionInv
<1>c. \A imm, c : BackgroundEnds(imm, c) => bg'.at = "idle" /\ bg'.inner = FALSE
  BY CallEnds
<1>d. BackToWork => /\ bg'.at = "work" /\ bg'.inner = FALSE
                    /\ bg'.inputs = bg.inputs /\ bg'.smallest = bg.smallest
  BY CallEnds
<1>e. ASSUME NEW imm, NEW c, BackgroundEnds(imm, c), bg.at # "install"
      PROVE  GoesOn
  BY <1>c, <1>e, SMT DEF GoesOn
<1>f. ASSUME NEW l \in {"build", "error", "sleep"}, bg' = [bg EXCEPT !.at = l], bg.at # "install"
      PROVE  GoesOn
  <2>1. bg'.at = l /\ bg'.inner = bg.inner /\ bg'.inputs = bg.inputs /\ bg'.smallest = bg.smallest
    BY <1>a, <1>f
  <2>2. l \notin {"manifest", "install"} /\ l # "work"
    BY SMT
  <2>3. QED
    BY <1>f, <2>1, <2>2 DEF GoesOn
<1>1. CASE BackgroundCall
  <2>1. Same /\ bg.at = "idle"
    BY <1>1 DEF BackgroundCall, Calm, memory, logs, versions, disk
  <2>2. ~bg.inner /\ bg.at # "install"
    BY <1>b, <2>1, SMT
  <2>3. CASE BackgroundEnds(imm_, current)
    BY <1>e, <2>1, <2>2, <2>3
  <2>4. CASE bg' = [bg EXCEPT !.at = "build"]
    BY <1>f, <2>1, <2>2, <2>4
  <2>5. ASSUME NEW S \in Inputs(current.version), bg' = [bg EXCEPT !.at = "manifest"],
               edit' = [NoEdit EXCEPT !.drop = S, !.log = logNumber,
                          !.below = InputEntries(current.version, S)]
        PROVE  EditsMove
    <3>1. bg'.at = "manifest" /\ ~bg'.inner
      BY <1>a, <2>2, <2>5, SMT
    <3>2. QED
      BY <2>1, <2>5, <3>1 DEF EditsMove
  <2>6. ASSUME NEW S \in Inputs(current.version),
               bg' = [bg EXCEPT !.at = "work", !.inputs = S, !.smallest = lastSequence]
        PROVE  StartsWork
    <3>1. bg'.at = "work" /\ ~bg'.inner /\ bg'.inputs = S /\ bg'.smallest = lastSequence
      BY <1>a, <2>2, <2>6, SMT
    <3>2. QED
      BY <2>1, <2>6, <3>1 DEF StartsWork
  <2>7. QED
    BY <1>1, <2>1, <2>3, <2>4, <2>5, <2>6 DEF BackgroundCall
<1>2. CASE BuildTable
  <2>1. Same /\ bg.at = "build"
    BY <1>2 DEF BuildTable, BgQuiet, BgFrame, Calm, logs, disk
  <2>2. bg.at # "install"
    BY <2>1, SMT
  <2>3. CASE bg' = [bg EXCEPT !.at = "error"]
    BY <1>f, <2>1, <2>2, <2>3
  <2>4. CASE bg' # [bg EXCEPT !.at = "error"]
    <3>1. PICK level \in PickLevelForMemTableOutput(current.version, table[imm_]) :
            edit' = IF table[imm_] = {} THEN [NoEdit EXCEPT !.log = mem_]
                    ELSE IF level = 0
                    THEN [NoEdit EXCEPT !.add = <<table[imm_]>>, !.log = mem_]
                    ELSE [NoEdit EXCEPT !.below = table[imm_], !.log = mem_]
      BY <1>2, <2>4 DEF BuildTable
    <3>2. bg' = [bg EXCEPT !.at = "manifest"]
      BY <1>2, <2>4 DEF BuildTable
    <3>3. bg'.at = "manifest" /\ Carries
      BY <1>a, <3>2, SMT DEF Carries
    <3>4. level # 0 => \A i \in DOMAIN current.version.level0 :
                         ~Overlap(current.version.level0[i], table[imm_])
      BY SMT DEF PickLevelForMemTableOutput
    <3>5. FlushOf(edit')
      <4> DEFINE T == table[imm_]
      <4> HIDE DEF T
      <4>1. CASE T = {}
        BY <3>1, <4>1, SMT DEF FlushOf, NoEdit, T
      <4>2. CASE T # {} /\ level = 0
        <5>1. edit' = [NoEdit EXCEPT !.add = <<T>>, !.log = mem_]
          BY <3>1, <4>2 DEF T
        <5>2. /\ edit'.drop = {} /\ edit'.old = {} /\ edit'.log = mem_ /\ edit'.add = <<T>>
              /\ edit'.below = {}
          BY <5>1, SMT DEF NoEdit
        <5>3. QED
          BY <5>2 DEF FlushOf, T
      <4>3. CASE T # {} /\ level # 0
        <5>1. edit' = [NoEdit EXCEPT !.below = T, !.log = mem_]
          BY <3>1, <4>3 DEF T
        <5>2. /\ edit'.drop = {} /\ edit'.old = {} /\ edit'.log = mem_ /\ edit'.add = <<>>
              /\ edit'.below = T
          BY <5>1, SMT DEF NoEdit
        <5>3. QED
          BY <3>4, <4>3, <5>2 DEF FlushOf, T
      <4>4. QED
        BY <4>1, <4>2, <4>3, SMT
    <3>6. QED
      BY <2>1, <3>3, <3>5 DEF EditsFlush
  <2>5. QED
    BY <2>3, <2>4, SMT
<1>3. CASE WorkMeetsImm
  <2>1. Same /\ bg.at = "work" /\ bg' = [bg EXCEPT !.at = "build", !.inner = TRUE]
    BY <1>3 DEF WorkMeetsImm, BgQuiet, BgFrame, Calm, logs, disk
  <2>2. bg'.at = "build" /\ bg'.inputs = bg.inputs /\ bg'.smallest = bg.smallest
    BY <1>a, <2>1, SMT
  <2>3. GoesOn
    BY <2>1, <2>2, SMT DEF GoesOn
  <2>4. QED
    BY <2>1, <2>3
<1>4. CASE WorkEnds
  <2>1. Same /\ bg.at = "work"
    BY <1>4 DEF WorkEnds, BgQuiet, BgFrame, Calm, logs, disk
  <2>2. bg.at # "install" /\ ~bg.inner
    BY <1>b, <2>1, SMT
  <2>3. CASE bg' = [bg EXCEPT !.at = "error"]
    BY <1>f, <2>1, <2>2, <2>3
  <2>4. CASE bg' # [bg EXCEPT !.at = "error"]
    <3>1. bg' = [bg EXCEPT !.at = "manifest"]
      BY <1>4, <2>4 DEF WorkEnds
    <3>2. bg'.at = "manifest" /\ ~bg'.inner
      BY <1>a, <2>2, <3>1, SMT
    <3>3. EditsWork
      BY <1>4, <2>1, <2>4, <3>2 DEF WorkEnds, EditsWork
    <3>4. QED
      BY <2>1, <3>3
  <2>5. QED
    BY <2>3, <2>4, SMT
<1>5. CASE WriteManifest
  <2>1. /\ Calm /\ UNCHANGED edit /\ bg.at = "manifest" /\ bg' = [bg EXCEPT !.at = "install"]
        /\ manifest' = [version |-> ApplyEdit(current.version, edit), log |-> edit.log]
        /\ durable' = manifest' \/ "manifestSync" \in Faults \/ Failed("manifestSync")
    BY <1>5 DEF WriteManifest, Fault, BgQuiet, BgFrame, Calm, logs
  <2>2. bg'.at = "install" /\ Carries
    BY <1>a, <2>1, SMT DEF Carries
  <2>3. QED
    BY <2>1, <2>2 DEF Writes
<1>6. CASE BackgroundFails
  <2>1. Same /\ bg' = [bg EXCEPT !.at = "error"]
    BY <1>6 DEF BackgroundFails, BgQuiet, BgFrame, Calm, logs, disk
  <2>2. bg.at # "install"
    BY <1>6, SMT DEF BackgroundFails, FaultAt
  <2>3. QED
    BY <1>f, <2>1, <2>2
<1>7. CASE BackgroundError \/ BackgroundRetries
  <2>1. Same
    BY <1>7 DEF BackgroundError, BackgroundRetries, BgFrame, Calm, logs, disk
  <2>2. bg.at # "install"
    BY <1>7, SMT DEF BackgroundError, BackgroundRetries
  <2>3. CASE BackgroundEnds(imm_, current)
    BY <1>e, <2>1, <2>2, <2>3
  <2>4. CASE bg.inner /\ BackToWork
    <3>1. "work" \notin {"manifest", "install"}
      BY SMT
    <3>2. GoesOn
      BY <1>d, <2>2, <2>4, <3>1 DEF GoesOn
    <3>3. QED
      BY <2>1, <3>2
  <2>5. CASE bg' = [bg EXCEPT !.at = "sleep"]
    BY <1>f, <2>1, <2>2, <2>5
  <2>6. QED
    BY <1>7, <2>3, <2>4, <2>5 DEF BackgroundError, BackgroundRetries
<1>8. QED
  BY <1>1, <1>2, <1>3, <1>4, <1>5, <1>6, <1>7 DEF BackgroundStep

\* Which logs there are and which of them the versions need: the memtables'.
\* An edit drops the log of the immutable memtable exactly if it holds its
\* table, and the MANIFEST is ahead of the current version only by an edit that
\* is about to be installed.
NumbersInv ==
  /\ logFiles = {imm_, mem_} \ {0}
  /\ logNumber = IF imm_ = 0 THEN mem_ ELSE imm_
  /\ bg.at \in {"manifest", "install"} =>
       \/ edit.drop = {} /\ imm_ # 0 /\ edit.log = mem_
       \/ edit.drop # {} /\ ~bg.inner /\ edit.log = logNumber
  /\ bg.at = "work" \/ bg.inner => bg.inputs # {}
  /\ manifest = IF bg.at = "install"
                THEN [version |-> ApplyEdit(current.version, edit), log |-> edit.log]
                ELSE [version |-> current.version, log |-> logNumber]
  /\ "manifestSync" \notin Faults => durable = manifest

\* Only a switch of memtables and the installation of a version change which
\* memtables and logs there are.
LEMMA MemSteps ==
  ASSUME QueueInv, [Next]_vars
  PROVE  \/ \E t \in Threads : SwitchMemTable(t)
         \/ InstallVersion
         \/ UNCHANGED <<mem_, imm_, logFiles>>
<1>1. ASSUME NEW t \in Threads, WritesData(t)
      PROVE  SwitchMemTable(t) \/ UNCHANGED <<mem_, imm_, logFiles>>
  <2>1. CASE \E b \in Batches, s \in Syncs : Write(t, b, s)
    BY <2>1 DEF Write, memory, logs
  <2>2. CASE RoomFound(t) \/ SwitchFails(t)
    BY <2>2 DEF RoomFound, SwitchFails, RoomFrame, memory, logs
  <2>3. CASE AddRecord(t) \/ AddRecordFails(t) \/ InsertInto(t) \/ WriteEnds(t)
    BY <2>3 DEF AddRecord, AddRecordFails, InsertInto, WriteEnds, memory, logs
  <2>4. QED
    BY <1>1, <2>1, <2>2, <2>3 DEF WritesData
<1>2. QED
  BY <1>1, DataSteps DEF Quiet

LEMMA NumbersNext ==
  ASSUME QueueInv, DataInv, ScheduleInv, VersionInv, ErrorsInv, NumbersInv, [Next]_vars
  PROVE  NumbersInv'
<1>a. mem_ \in Nat \ {0} /\ imm_ \in {0, mem_ - 1} /\ Len(log) = mem_
  BY DEF DataInv
<1>b. ASSUME ~InstallVersion, BackgroundStep
      PROVE  NumbersInv'
  <2>1. Calm
    BY <1>b, BackgroundSteps
  <2>2. UNCHANGED <<current, logNumber, mem_, imm_, logFiles>>
    BY <2>1 DEF Calm
  <2>3. CASE Writes
    <3>1. /\ bg.at = "manifest" /\ bg'.at = "install" /\ edit' = edit
          /\ bg'.inner = bg.inner /\ bg'.inputs = bg.inputs
          /\ manifest' = [version |-> ApplyEdit(current.version, edit), log |-> edit.log]
          /\ "manifestSync" \notin Faults => durable' = manifest'
      BY <2>3 DEF Writes, Carries, ErrorsInv, Failed
    <3>2. "manifest" \in {"manifest", "install"} /\ "install" # "work"
      BY SMT
    <3>3. QED
      BY <2>2, <3>1, <3>2 DEF NumbersInv
  <2>4. CASE ~Writes
    <3>1. /\ UNCHANGED <<manifest, durable>>
          /\ EditsFlush \/ EditsMove \/ StartsWork \/ EditsWork \/ GoesOn
      BY <1>b, <2>4, BackgroundSteps
    <3>2. bg.at # "install" /\ bg'.at # "install"
      <4>1. /\ "build" # "install" /\ "idle" # "install" /\ "work" # "install"
            /\ "manifest" # "install" /\ "install" \in {"manifest", "install"}
        BY SMT
      <4>2. QED
        BY <3>1, <4>1 DEF EditsFlush, EditsMove, StartsWork, EditsWork, GoesOn
    <3>3. manifest' = [version |-> current'.version, log |-> logNumber']
      BY <2>2, <3>1, <3>2 DEF NumbersInv
    <3>4. "manifestSync" \notin Faults => durable' = manifest'
      BY <3>1 DEF NumbersInv
    <3>5. /\ bg'.at \in {"manifest", "install"} =>
               \/ edit'.drop = {} /\ imm_ # 0 /\ edit'.log = mem_
               \/ edit'.drop # {} /\ ~bg'.inner /\ edit'.log = logNumber
          /\ bg'.at = "work" \/ bg'.inner => bg'.inputs # {}
      <4>1. CASE EditsFlush
        <5>1. "build" # "manifest" /\ "manifest" # "work"
          BY SMT
        <5>2. imm_ # 0
          BY <4>1 DEF EditsFlush, VersionInv
        <5>3. QED
          BY <4>1, <5>1, <5>2 DEF EditsFlush, FlushOf, Carries, NumbersInv
      <4>2. CASE EditsMove
        <5>1. PICK S \in Inputs(current.version) :
                edit' = [NoEdit EXCEPT !.drop = S, !.log = logNumber,
                                       !.below = InputEntries(current.version, S)]
          BY <4>2 DEF EditsMove
        <5>2. S # {}
          BY SMT DEF Inputs
        <5>3. edit'.drop # {} /\ edit'.log = logNumber
          BY <5>1, <5>2, SMT DEF NoEdit
        <5>4. "manifest" # "work"
          BY SMT
        <5>5. QED
          BY <4>2, <5>3, <5>4 DEF EditsMove
      <4>3. CASE StartsWork
        <5>1. bg'.inputs # {}
          BY <4>3 DEF StartsWork, Inputs
        <5>2. "work" \notin {"manifest", "install"}
          BY SMT
        <5>3. QED
          BY <4>3, <5>1, <5>2 DEF StartsWork
      <4>4. CASE EditsWork
        <5>1. edit'.drop = bg.inputs /\ edit'.log = logNumber /\ ~bg'.inner /\ bg.at = "work"
          BY <4>4 DEF EditsWork
        <5>2. "manifest" # "work"
          BY SMT
        <5>3. QED
          BY <4>4, <5>1, <5>2 DEF EditsWork, NumbersInv
      <4>5. CASE GoesOn
        BY <4>5 DEF GoesOn, NumbersInv
      <4>6. QED
        BY <3>1, <4>1, <4>2, <4>3, <4>4, <4>5
    <3>6. QED
      BY <2>2, <3>2, <3>3, <3>4, <3>5 DEF NumbersInv
  <2>5. QED
    BY <2>3, <2>4, SMT
<1>1. CASE ~BackgroundStep
  <2>1. /\ UNCHANGED <<bg, edit, logNumber, manifest, durable>>
        /\ current'.version = current.version
        /\ imm_ # 0 => imm_' = imm_
    BY <1>1, VersionSteps
  <2>2. CASE UNCHANGED <<mem_, imm_, logFiles>>
    BY <2>1, <2>2 DEF NumbersInv
  <2>3. ASSUME NEW t \in Threads, SwitchMemTable(t)
        PROVE  NumbersInv'
    <3>1. /\ mem_' = Len(log) + 1 /\ imm_' = mem_ /\ logFiles' = logFiles \cup {Len(log) + 1}
          /\ imm_ = 0
      BY <2>3 DEF SwitchMemTable, MustWait
    <3>2. logFiles' = {imm_', mem_'} \ {0}
      BY <1>a, <3>1, SMT DEF NumbersInv
    <3>3. logNumber' = imm_' /\ imm_' # 0
      BY <1>a, <2>1, <3>1 DEF NumbersInv
    <3>4. bg.at \in {"manifest", "install"} =>
            edit.drop # {} /\ ~bg.inner /\ edit.log = logNumber
      BY <3>1 DEF NumbersInv
    <3>5. QED
      BY <2>1, <3>2, <3>3, <3>4 DEF NumbersInv
  <2>4. QED
    BY <1>1, <2>2, <2>3, MemSteps DEF BackgroundStep
<1>2. CASE InstallVersion
  <2>1. /\ bg.at = "install" /\ mem_' = mem_ /\ logNumber' = edit.log
        /\ current' = [version |-> ApplyEdit(current.version, edit), seek |-> FALSE]
        /\ logFiles' = {n \in logFiles : n >= logNumber'}
        /\ UNCHANGED <<manifest, durable>>
    BY <1>2 DEF InstallVersion, BgFrame, DeleteObsoleteFiles, disk
  <2>2. IF edit.drop = {} THEN imm_' = 0 ELSE imm_' = imm_
    BY <1>2 DEF InstallVersion
  <2>3. /\ bg'.at \in {"idle", "work"} /\ bg'.inner = FALSE
        /\ bg'.at = "work" => bg.inner /\ bg'.inputs = bg.inputs
    <3>1. CASE bg.inner
      <4>1. BackToWork
        BY <1>2, <3>1 DEF InstallVersion
      <4>2. QED
        BY <3>1, <4>1, CallEnds
    <3>2. CASE ~bg.inner
      <4>1. BackgroundEnds(imm_', current')
        BY <1>2, <3>2 DEF InstallVersion
      <4>2. bg'.at = "idle" /\ bg'.inner = FALSE
        BY <4>1, CallEnds
      <4>3. QED
        BY <4>2, SMT
    <3>3. QED
      BY <3>1, <3>2
  <2>4. bg'.at \notin {"manifest", "install"} /\ "install" \in {"manifest", "install"}
    BY <2>3, SMT
  <2>5. manifest' = [version |-> current'.version, log |-> logNumber']
    BY <2>1 DEF NumbersInv
  <2>6. /\ logFiles = {imm_, mem_} \ {0} /\ logNumber = IF imm_ = 0 THEN mem_ ELSE imm_
        /\ \/ edit.drop = {} /\ imm_ # 0 /\ edit.log = mem_
           \/ edit.drop # {} /\ edit.log = logNumber
    BY <2>1, <2>4 DEF NumbersInv
  <2>7. /\ logFiles' = {imm_', mem_'} \ {0}
        /\ logNumber' = IF imm_' = 0 THEN mem_' ELSE imm_'
    <3>1. CASE edit.drop = {}
      <4>1. imm_' = 0 /\ edit.log = mem_ /\ imm_ # 0
        BY <2>2, <2>6, <3>1
      <4>2. QED
        BY <1>a, <2>1, <2>6, <4>1, SMT
    <3>2. CASE edit.drop # {}
      <4>1. imm_' = imm_ /\ edit.log = logNumber
        BY <2>2, <2>6, <3>2
      <4>2. QED
        BY <1>a, <2>1, <2>6, <4>1, SMT
    <3>3. QED
      BY <3>1, <3>2, SMT
  <2>8. bg'.at = "work" \/ bg'.inner => bg'.inputs # {}
    BY <2>3 DEF NumbersInv
  <2>9. "manifestSync" \notin Faults => durable' = manifest'
    BY <2>1 DEF NumbersInv
  <2>10. bg'.at # "install"
    BY <2>3, SMT
  <2>11. QED
    BY <2>4, <2>5, <2>7, <2>8, <2>9, <2>10 DEF NumbersInv
<1>3. QED
  BY <1>1, <1>2, <1>b, SMT

LEMMA NumbersAlways == Spec => []NumbersInv
<1>1. Init => NumbersInv
  BY SMT DEF Init, NumbersInv
<1>2. (/\ QueueInv /\ DataInv /\ ScheduleInv /\ VersionInv /\ ErrorsInv /\ NumbersInv
       /\ [Next]_vars)
      => NumbersInv'
  BY NumbersNext
<1>3. QED
  BY <1>1, <1>2, QueueAlways, SeqAlways, ScheduleAlways, VersionAlways, ErrorsAlways, PTL DEF Spec

------------------------------------------------------------------------------
\* The database stays closed.
LEMMA StaysClosed ==
  ASSUME QueueInv, CloseInv, IsClosed, [Next]_vars
  PROVE  IsClosed'
<1>1. PICK c \in Threads : pc[c] = "closed"
  BY DEF IsClosed
<1>2. /\ pc \in [Threads -> Labels] /\ "closed" \in Ending /\ "c.wait" \in Ending
      /\ "c.wait" # "closed" /\ \A l \in Holding \cup {"w.room"} : l # "idle" /\ l \notin Ending
  BY SMT DEF QueueInv, Ending, Holding
<1>3. /\ shutting_down_ /\ \A t \in Threads : pc[t] = "idle" \/ pc[t] \in Ending
      /\ \A t \in Threads : pc[t] \in Ending => t = c
  BY <1>1, <1>2 DEF CloseInv
<1>4. ASSUME NEW t \in Threads, \/ Get(t) \/ NewIterator(t) \/ ReaderStep(t)
                                \/ SwitchMemTable(t) \/ Close(t) \/ CloseWakes(t)
      PROVE  FALSE
  <2>1. CASE Get(t) \/ NewIterator(t) \/ Close(t)
    BY <1>3, <2>1 DEF Get, NewIterator, StartReader, Close
  <2>2. CASE ReaderStep(t) \/ SwitchMemTable(t)
    <3>1. pc[t] \in {"g.read", "g.end", "i.open"} \/ pc[t] = "w.room"
      BY <2>2 DEF ReaderStep, GetReads, GetEnds, CleanupIteratorState, SwitchMemTable,
           InRoom
    <3>2. pc[t] \in Holding \cup {"w.room"}
      BY <3>1 DEF Holding
    <3>3. QED
      BY <1>2, <1>3, <3>2
  <2>3. CASE CloseWakes(t)
    BY <1>1, <1>2, <1>3, <2>3 DEF CloseWakes
  <2>4. QED
    BY <1>4, <2>1, <2>2, <2>3
<1>5. CASE InstallVersion
  BY <1>5 DEF InstallVersion, BgFrame, IsClosed
<1>6. CASE Still
  <2>1. CASE pc' = pc
    BY <2>1 DEF IsClosed
  <2>2. ASSUME NEW t \in Threads, NEW l, pc[t] \notin Holding \cup Ending,
               pc' = [pc EXCEPT ![t] = l]
        PROVE  IsClosed'
    BY <1>1, <1>2, <2>2 DEF IsClosed
  <2>3. QED
    BY <1>6, <2>1, <2>2 DEF Still
<1>7. QED
  BY <1>4, <1>5, <1>6, RefSteps

\* A memtable of the open database is not freed.
LEMMA LiveTables ==
  ASSUME DataInv, RefInv', table' = table \/ Frees, mem_' = mem_
  PROVE  /\ \A m \in 1 .. mem_ : table'[m] \subseteq table[m]
         /\ ~IsClosed' => \A m \in 1 .. mem_ : m \in {mem_', imm_'} => table'[m] = table[m]
<1>1. DOMAIN table = 1 .. mem_
  BY SMT DEF DataInv
<1>2. \A m \in 1 .. mem_ : table'[m] \subseteq table[m]
  <2>1. CASE table' = table
    BY <2>1
  <2>2. CASE Frees
    BY <1>1, <2>2, SMT DEF Frees
  <2>3. QED
    BY <2>1, <2>2, SMT
<1>3. ASSUME ~IsClosed', NEW m \in 1 .. mem_, m \in {mem_', imm_'}
      PROVE  table'[m] = table[m]
  <2>1. NULL \in Holders(m)'
    BY <1>3 DEF Holders, Owners
  <2>2. Counts(refs_'[m], Holders(m)')
    BY DEF RefInv
  <2>3. refs_'[m] > 0
    BY <2>1, <2>2, CountsNone
  <2>4. refs_'[m] # 0
    BY <2>3, SMT
  <2>5. Frees => table'[m] = table[m]
    BY <1>1, <2>4 DEF Frees
  <2>6. QED
    BY <2>5
<1>4. QED
  BY <1>2, <1>3

\* What the installation of a version leaves of the logs and memtables in use.
LEMMA Installed ==
  ASSUME DataInv, NumbersInv, InstallVersion
  PROVE  /\ logFiles' \subseteq logFiles /\ mem_ \in logFiles'
         /\ \A n \in logFiles' : log'[n] = log[n] /\ synced'[n] = synced[n]
         /\ edit.drop # {} => logFiles' = logFiles
         /\ UNCHANGED <<lastSequence, mem_, sync, group, acked, pc>>
         /\ imm_' = imm_ \/ imm_' = 0
         /\ table' = table \/ Frees
<1>1. /\ UNCHANGED <<lastSequence, mem_, sync, group, acked, pc>>
      /\ imm_' = imm_ \/ imm_' = 0
      /\ table' = table \/ Frees
      /\ logNumber' = edit.log /\ DeleteObsoleteFiles
  BY DEF InstallVersion, BgFrame, queue, Unref, Frees
<1>2. mem_ \in Nat \ {0} /\ imm_ \in {0, mem_ - 1} /\ DOMAIN log = 1 .. mem_ /\ DOMAIN synced = 1 .. mem_
  BY SMT DEF DataInv
<1>3. /\ edit.drop = {} => imm_ # 0 /\ edit.log = mem_
      /\ edit.drop # {} => edit.log = logNumber
      /\ logFiles = {imm_, mem_} \ {0} /\ logNumber = IF imm_ = 0 THEN mem_ ELSE imm_
  BY SMT DEF NumbersInv, InstallVersion
<1>4. logFiles' = {n \in logFiles : n >= edit.log}
  BY <1>1 DEF DeleteObsoleteFiles
<1>5. mem_ \in logFiles' /\ logFiles' \subseteq logFiles /\ logFiles' \subseteq 1 .. mem_
  <2>1. edit.log \in {imm_, mem_} /\ edit.log # 0
    BY <1>2, <1>3, SMT
  <2>2. QED
    BY <1>2, <1>3, <1>4, <2>1, SMT
<1>6. edit.drop # {} => logFiles' = logFiles
  BY <1>2, <1>3, <1>4, SMT
<1>7. \A n \in logFiles' : log'[n] = log[n] /\ synced'[n] = synced[n]
  <2>1. /\ log' = [n \in DOMAIN log |-> IF n \in logFiles' THEN log[n] ELSE {}]
        /\ synced' = [n \in DOMAIN synced |-> IF n \in logFiles' THEN synced[n] ELSE {}]
    BY <1>1 DEF DeleteObsoleteFiles
  <2>2. QED
    BY <1>2, <1>5, <2>1, SMT
<1>8. QED
  BY <1>1, <1>5, <1>6, <1>7

\* What is acknowledged, and how far the leader's group has come: a group that
\* is inserted has been logged, and synced if one of its writers asked for it.
Inserting(t) ==
  /\ Range(group.updates) \subseteq log[mem_]
  /\ sync[t] => Range(group.updates) \subseteq synced[mem_]
  /\ Range(group.updates) \subseteq table[mem_] \cup Range(group.todo)
  /\ Range(group.todo) \subseteq Range(group.updates)
  /\ pc[t] = "w.finish" => group.todo = <<>>
GroupAt(t) ==
  /\ pc[t] = "w.log" => group.ok /\ group.todo = group.updates
  /\ pc[t] = "w.insert" => group.ok
  /\ pc[t] \in {"w.insert", "w.finish"} /\ group.ok => Inserting(t)
  /\ pc[t] = "w.log" \/ ~group.ok => table[mem_] \subseteq acked.all
  /\ \A i \in 1 .. Len(group.members) : sync[group.members[i]] => sync[t]
GroupInv ==
  /\ acked.all \in SUBSET Entry /\ acked.sync \subseteq acked.all
  /\ \A e \in acked.all : e.seq <= lastSequence
  /\ table[mem_] \subseteq acked.all \cup Range(group.updates)
  /\ \A t \in Threads : pc[t] \in Grouped => GroupAt(t)

\* After a group has left nobody has one.
LEMMA NoneGrouped ==
  ASSUME QueueInv, NEW t \in Threads, pc[t] \in Leading, NEW members, LeaveQueue(t, members)
  PROVE  \A u \in Threads : pc'[u] \notin Grouped
<1>1. pc' = [pc EXCEPT ![t] = "idle"] /\ pc \in [Threads -> Labels]
  BY DEF LeaveQueue, Goto, QueueInv
<1>2. "idle" \notin Grouped
  BY SMT DEF Grouped
<1>3. \A u \in Threads : u # t => pc[u] \notin Grouped
  BY OneLeads
<1>4. QED
  BY <1>1, <1>2, <1>3

\* The labels of a leader with a group.
LEMMA GroupedLabels ==
  /\ "w.log" \in Grouped /\ "w.insert" \in Grouped /\ "w.finish" \in Grouped
  /\ Grouped \subseteq Leading
  /\ "w.room" \notin Grouped /\ "w.room" \in Leading /\ "w.wait" \notin Grouped
  /\ "idle" \notin Grouped /\ "idle" \notin Writing
  /\ "w.log" \notin {"w.insert", "w.finish"}
  /\ \A l \in {"w.insert", "w.finish"} : l # "w.log" /\ l \in Grouped
  /\ "w.insert" # "w.finish"
BY SMT DEF Grouped, Leading, Writing

\* A leader's database is open.
LEMMA LeaderOpen ==
  ASSUME CloseInv, NEW t \in Threads, pc[t] \in Leading
  PROVE  ~IsClosed
<1>1. "closed" \in Ending /\ \A l \in Leading : l # "idle" /\ l \notin Ending
  BY SMT DEF Ending, Leading, Writing
<1>2. QED
  BY <1>1 DEF CloseInv, IsClosed

LEMMA GroupNext ==
  ASSUME QueueInv, QueueInv', InQueue, DataInv, DataInv', SeqInv, NumbersInv, CloseInv', RefInv',
         GroupInv, [Next]_vars
  PROVE  GroupInv'
<1>a. /\ pc \in [Threads -> Labels] /\ mem_ \in 1 .. mem_ /\ writers_ \in Seq(Threads)
      /\ group = [members |-> group.members, updates |-> group.updates,
                  todo |-> group.todo, ok |-> group.ok]
      /\ lastSequence \in Nat /\ group.updates \in Seq(Entry) /\ group.todo \in Seq(Entry)
      /\ log \in Seq(SUBSET Entry) /\ DOMAIN log = 1 .. mem_
      /\ synced \in Seq(SUBSET Entry) /\ DOMAIN synced = 1 .. mem_
      /\ table \in Seq(SUBSET Entry) /\ DOMAIN table = 1 .. mem_
  BY SMT DEF QueueInv, GroupInFront, DataInv
<1>b. Range(<<>>) = {}
  BY SMT DEF Range
\* A step that leaves the log, the memtable and the group of the leader alone.
<1>1. ASSUME UNCHANGED <<lastSequence, mem_, group, acked>>,
             log'[mem_] = log[mem_], synced'[mem_] = synced[mem_], table' = table \/ Frees,
             \A u \in Threads : pc'[u] \in Grouped =>
               /\ pc'[u] = pc[u]
               /\ (\A i \in 1 .. Len(group.members) : sync[group.members[i]] => sync[u])
                  => \A i \in 1 .. Len(group.members) : sync'[group.members[i]] => sync'[u]
               /\ sync'[u] => sync[u]
      PROVE  GroupInv'
  <2>1. table'[mem_] \subseteq table[mem_]
    BY <1>1, <1>a, LiveTables
  <2>2. ASSUME NEW u \in Threads, pc'[u] \in Grouped
        PROVE  GroupAt(u)'
    <3>1. ~IsClosed'
      <4>1. "closed" \in Ending /\ \A l \in Grouped : l # "idle" /\ l \notin Ending
        BY SMT DEF Ending, Grouped
      <4>2. QED
        BY <2>2, <4>1 DEF CloseInv, IsClosed
    <3>2. table'[mem_] = table[mem_]
      BY <1>1, <1>a, <3>1, LiveTables
    <3>3. GroupAt(u) /\ pc'[u] = pc[u]
      BY <1>1, <2>2 DEF GroupInv
    <3>4. Inserting(u) => Inserting(u)'
      BY <1>1, <2>2, <3>2, <3>3 DEF Inserting
    <3>5. QED
      BY <1>1, <2>2, <3>2, <3>3, <3>4 DEF GroupAt
  <2>3. QED
    BY <1>1, <2>1, <2>2 DEF GroupInv
<1>2. CASE Quiet
  BY <1>1, <1>2 DEF Quiet
<1>3. CASE InstallVersion
  BY <1>1, <1>3, Installed
<1>4. ASSUME NEW t \in Threads, NEW b \in Batches, NEW s \in Syncs, Write(t, b, s)
      PROVE  GroupInv'
  <2>1. /\ UNCHANGED <<lastSequence, mem_, group, acked, log, synced, table>>
        /\ pc[t] = "idle" /\ sync' = [sync EXCEPT ![t] = s]
        /\ \E l \in {"w.room", "w.wait"} : pc' = [pc EXCEPT ![t] = l]
    BY <1>4 DEF Write, EnterMakeRoom, Goto, memory, logs
  <2>2. \A u \in Threads : pc'[u] \in Grouped => u # t /\ pc'[u] = pc[u]
    BY <1>a, <2>1, GroupedLabels
  <2>3. \A u : u # t => sync'[u] = sync[u]
    <3>1. \A u \in DOMAIN sync : u # t => sync'[u] = sync[u]
      BY <2>1
    <3>2. QED
      BY <2>1, SMT
  <2>4. \A i \in 1 .. Len(group.members) : group.members[i] # t
    <3>1. \A i \in 1 .. Len(group.members) : i \in 1 .. Len(writers_) /\ group.members[i] = writers_[i]
      BY <1>a, SMT DEF QueueInv, GroupInFront
    <3>2. \A i \in 1 .. Len(writers_) : writers_[i] # t
      <4>1. pc[t] \notin Writing
        BY <2>1, GroupedLabels
      <4>2. \A i \in 1 .. Len(writers_) : pc[writers_[i]] \in Writing
        BY DEF InQueue
      <4>3. QED
        BY <4>1, <4>2
    <3>3. QED
      BY <3>1, <3>2
  <2>5. QED
    BY <1>1, <2>1, <2>2, <2>3, <2>4
\* The group leaves.
<1>5. ASSUME NEW t \in Threads, pc[t] = "w.room", LeaveQueue(t, <<t>>),
             UNCHANGED <<lastSequence, mem_, table, acked>>
      PROVE  GroupInv'
  <2>1. \A u \in Threads : pc'[u] \notin Grouped
    BY <1>5, GroupedLabels, NoneGrouped
  <2>2. group.updates = <<>>
    BY <1>5, GroupedLabels, NoGroupYet DEF SeqInv
  <2>3. group'.updates = <<>>
    BY <1>5, SMT DEF LeaveQueue, NoGroup
  <2>4. QED
    BY <1>5, <2>1, <2>2, <2>3 DEF GroupInv
<1>6. ASSUME NEW t \in Threads, RoomFound(t) \/ SwitchFails(t)
      PROVE  GroupInv'
  <2>1. /\ pc[t] = "w.room" /\ UNCHANGED <<lastSequence, mem_, table, acked>>
        /\ SwitchFails(t) \/ IsNull(t) => LeaveQueue(t, <<t>>)
        /\ ~LeaveQueue(t, <<t>>) => /\ BuildBatchGroup /\ UNCHANGED sync
                                    /\ pc' = [pc EXCEPT ![t] = "w.log"]
    BY <1>6 DEF RoomFound, SwitchFails, InRoom, RoomFrame, Goto, memory
  <2>2. CASE LeaveQueue(t, <<t>>)
    BY <1>5, <2>1, <2>2
  <2>3. CASE ~LeaveQueue(t, <<t>>)
    <3>1. BuildBatchGroup /\ UNCHANGED sync /\ pc' = [pc EXCEPT ![t] = "w.log"]
      BY <2>1, <2>3
    <3>2. group.updates = <<>> /\ \A u \in Threads : pc[u] \notin Grouped
      BY <2>1, GroupedLabels, NoGroupYet DEF SeqInv
    <3>3. table[mem_] \subseteq acked.all
      BY <1>b, <3>2 DEF GroupInv
    <3>4. writers_ # <<>> /\ writers_[1] = t
      BY <2>1, GroupedLabels DEF QueueInv
    <3>5. /\ group'.todo = group'.updates /\ group'.ok = TRUE
          /\ \A i \in 1 .. Len(group'.members) : sync[group'.members[i]] => sync[writers_[1]]
      BY <3>1, <3>4, GroupFilled
    <3>6. pc'[t] = "w.log" /\ \A u \in Threads : u # t => pc'[u] \notin Grouped
      BY <1>a, <3>1, <3>2
    <3>7. \A u \in Threads : pc'[u] \in Grouped => GroupAt(u)'
      BY <2>1, <3>1, <3>3, <3>4, <3>5, <3>6, GroupedLabels DEF GroupAt
    <3>8. QED
      BY <2>1, <3>3, <3>7 DEF GroupInv
  <2>4. QED
    BY <2>2, <2>3, SMT
<1>7. ASSUME NEW t \in Threads, SwitchMemTable(t)
      PROVE  GroupInv'
  <2>1. /\ pc[t] = "w.room" /\ UNCHANGED <<lastSequence, acked, pc, group>>
        /\ mem_' = Len(log) + 1 /\ table' = Append(table, {})
    BY <1>7 DEF SwitchMemTable, InRoom, queue
  <2>2. \A u \in Threads : pc'[u] \notin Grouped
    BY <2>1, GroupedLabels, NoGroupYet
  <2>3. table'[mem_'] = {}
    BY <1>a, <2>1, SMT DEF DataInv
  <2>4. QED
    BY <2>1, <2>2, <2>3 DEF GroupInv
\* The leader is alone with its group.
<1>c. ASSUME NEW t \in Threads, pc[t] \in Grouped, NEW l, pc' = [pc EXCEPT ![t] = l]
      PROVE  pc'[t] = l /\ GroupAt(t) /\ \A u \in Threads : pc'[u] \in Grouped => u = t
  <2>1. \A u \in Threads : pc[u] \in Grouped => u = t
    BY <1>c, GroupedLabels, OneLeads
  <2>2. QED
    BY <1>a, <1>c, <2>1 DEF GroupInv
<1>8. ASSUME NEW t \in Threads, AddRecord(t)
      PROVE  GroupInv'
  <2>1. /\ UNCHANGED <<lastSequence, mem_, acked, table, group, sync>> /\ pc[t] = "w.log"
        /\ pc' = [pc EXCEPT ![t] = "w.insert"]
        /\ log' = [log EXCEPT ![mem_] = @ \cup Range(group.updates)]
        /\ sync[t] => synced' = [synced EXCEPT ![mem_] = log'[mem_]]
    BY <1>8 DEF AddRecord, Goto, memory, queue
  <2>2. Range(group.updates) \subseteq log'[mem_]
    BY <1>a, <2>1
  <2>3. sync[t] => Range(group.updates) \subseteq synced'[mem_]
    BY <1>a, <2>1, <2>2
  <2>4. pc'[t] = "w.insert" /\ GroupAt(t) /\ \A u \in Threads : pc'[u] \in Grouped => u = t
    BY <1>c, <2>1, GroupedLabels
  <2>5. group.ok /\ group.todo = group.updates
    BY <2>1, <2>4 DEF GroupAt
  <2>6. Inserting(t)'
    BY <2>1, <2>2, <2>3, <2>4, <2>5, GroupedLabels DEF Inserting
  <2>7. GroupAt(t)'
    BY <2>1, <2>4, <2>5, <2>6, GroupedLabels DEF GroupAt
  <2>8. QED
    BY <2>1, <2>4, <2>7 DEF GroupInv
<1>9. ASSUME NEW t \in Threads, AddRecordFails(t)
      PROVE  GroupInv'
  <2>1. /\ UNCHANGED <<lastSequence, mem_, acked, table, sync>> /\ pc[t] = "w.log"
        /\ pc' = [pc EXCEPT ![t] = "w.finish"]
        /\ group' = [group EXCEPT !.ok = FALSE, !.todo = <<>>]
    BY <1>9 DEF AddRecordFails, Goto, memory
  <2>2. group'.ok = FALSE /\ group'.updates = group.updates /\ group'.members = group.members
    BY <1>a, <2>1, SMT
  <2>3. pc'[t] = "w.finish" /\ GroupAt(t) /\ \A u \in Threads : pc'[u] \in Grouped => u = t
    BY <1>c, <2>1, GroupedLabels
  <2>4. GroupAt(t)'
    BY <2>1, <2>2, <2>3, GroupedLabels DEF GroupAt
  <2>5. QED
    BY <2>1, <2>2, <2>3, <2>4 DEF GroupInv
<1>10. ASSUME NEW t \in Threads, InsertInto(t)
       PROVE  GroupInv'
  <2>1. /\ UNCHANGED <<lastSequence, mem_, acked, sync, log, synced>> /\ pc[t] = "w.insert"
        /\ group.todo # <<>>
        /\ pc' = [pc EXCEPT ![t] = IF Tail(group.todo) = <<>> THEN "w.finish" ELSE "w.insert"]
        /\ table' = [table EXCEPT ![mem_] = @ \cup {Head(group.todo)}]
        /\ group' = [group EXCEPT !.todo = Tail(@)]
    BY <1>10 DEF InsertInto, Goto, logs
  <2>2. /\ group'.ok = group.ok /\ group'.updates = group.updates
        /\ group'.members = group.members /\ group'.todo = Tail(group.todo)
    BY <1>a, <2>1, SMT
  <2>3. /\ pc'[t] = IF Tail(group.todo) = <<>> THEN "w.finish" ELSE "w.insert"
        /\ GroupAt(t) /\ \A u \in Threads : pc'[u] \in Grouped => u = t
    BY <1>c, <2>1, GroupedLabels
  <2>4. group.ok /\ Inserting(t)
    BY <2>1, <2>3 DEF GroupAt
  <2>5. Range(group.todo) = {Head(group.todo)} \cup Range(Tail(group.todo))
    <3>1. \A s \in Seq(Entry) : s # <<>> =>
            /\ Head(s) = s[1] /\ 1 \in 1 .. Len(s) /\ DOMAIN s = 1 .. Len(s)
            /\ DOMAIN Tail(s) = 1 .. (Len(s) - 1)
            /\ \A i \in 1 .. (Len(s) - 1) : Tail(s)[i] = s[i + 1] /\ i + 1 \in 1 .. Len(s)
            /\ \A i \in 1 .. Len(s) : i = 1 \/ (i - 1 \in 1 .. (Len(s) - 1) /\ (i - 1) + 1 = i)
      BY SMT
    <3> DEFINE s == group.todo
    <3>2. s \in Seq(Entry) /\ s # <<>>
      BY <1>a, <2>1
    <3> HIDE DEF s
    <3>3. /\ Head(s) = s[1] /\ 1 \in 1 .. Len(s) /\ DOMAIN s = 1 .. Len(s)
          /\ DOMAIN Tail(s) = 1 .. (Len(s) - 1)
          /\ \A i \in 1 .. (Len(s) - 1) : Tail(s)[i] = s[i + 1] /\ i + 1 \in 1 .. Len(s)
          /\ \A i \in 1 .. Len(s) : i = 1 \/ (i - 1 \in 1 .. (Len(s) - 1) /\ (i - 1) + 1 = i)
      BY <3>1, <3>2
    <3>4. \A x : x \in Range(s) => x = Head(s) \/ x \in Range(Tail(s))
      <4>1. SUFFICES ASSUME NEW i \in 1 .. Len(s)
                     PROVE  s[i] = Head(s) \/ s[i] \in Range(Tail(s))
        BY <3>3, ZenonT(30) DEF Range
      <4>2. CASE i = 1
        BY <3>3, <4>2
      <4>3. CASE i - 1 \in 1 .. (Len(s) - 1) /\ (i - 1) + 1 = i
        <5>1. Tail(s)[i - 1] = s[i]
          BY <3>3, <4>3, SMT
        <5>2. QED
          BY <3>3, <4>3, <5>1 DEF Range
      <4>4. QED
        BY <3>3, <4>2, <4>3
    <3>5. \A x : x \in Range(Tail(s)) => x \in Range(s)
      <4>1. \A i \in 1 .. (Len(s) - 1) : Tail(s)[i] \in Range(s)
        <5>1. \A i \in 1 .. (Len(s) - 1) : Tail(s)[i] = s[i + 1] /\ i + 1 \in DOMAIN s
          BY <3>3
        <5>2. \A j \in DOMAIN s : s[j] \in Range(s)
          BY DEF Range
        <5>3. QED
          BY <5>1, <5>2, SMT
      <4>2. QED
        BY <3>3, <4>1, ZenonT(30) DEF Range
    <3>6. Head(s) \in Range(s)
      BY <3>3 DEF Range
    <3>7. Range(s) = {Head(s)} \cup Range(Tail(s))
      BY <3>4, <3>5, <3>6
    <3>8. QED
      BY <3>7 DEF s
  <2>6. table'[mem_] = table[mem_] \cup {Head(group.todo)}
    BY <1>a, <2>1
  <2>7. /\ Range(group.updates) \subseteq table'[mem_] \cup Range(group'.todo)
        /\ Range(group'.todo) \subseteq Range(group.updates)
        /\ table'[mem_] \subseteq acked.all \cup Range(group.updates)
    <3>1. /\ Range(group.updates) \subseteq table[mem_] \cup Range(group.todo)
          /\ Range(group.todo) \subseteq Range(group.updates)
          /\ table[mem_] \subseteq acked.all \cup Range(group.updates)
      BY <2>4 DEF Inserting, GroupInv
    <3>2. QED
      BY <2>2, <2>5, <2>6, <3>1
  <2>8. pc'[t] = "w.finish" => group'.todo = <<>>
    BY <2>2, <2>3, GroupedLabels
  <2>9. pc'[t] \in {"w.insert", "w.finish"}
    BY <2>3
  <2>10. Inserting(t)'
    BY <2>1, <2>2, <2>4, <2>7, <2>8 DEF Inserting
  <2>11. GroupAt(t)'
    BY <2>1, <2>2, <2>3, <2>4, <2>9, <2>10, GroupedLabels DEF GroupAt
  <2>12. QED
    BY <2>1, <2>2, <2>3, <2>7, <2>11 DEF GroupInv
<1>11. ASSUME NEW t \in Threads, WriteEnds(t)
       PROVE  GroupInv'
  <2>1. /\ UNCHANGED <<mem_, table>> /\ pc[t] = "w.finish"
        /\ lastSequence' = lastSequence + Len(group.updates)
        /\ acked' = IF group.ok
                    THEN [all |-> acked.all \cup Range(group.updates),
                          sync |-> acked.sync \cup SyncEntries]
                    ELSE acked
        /\ LeaveQueue(t, group.members)
    BY <1>11 DEF WriteEnds, memory
  <2>2. \A u \in Threads : pc'[u] \notin Grouped
    BY <2>1, GroupedLabels, NoneGrouped
  <2>3. group'.updates = <<>>
    BY <2>1, SMT DEF LeaveQueue, NoGroup
  <2>4. GroupAt(t)
    BY <2>1, GroupedLabels DEF GroupInv
  <2>5. SyncEntries \subseteq Range(group.updates)
    BY SMT DEF SyncEntries
  <2>6. CASE group.ok
    <3>1. /\ acked'.all = acked.all \cup Range(group.updates)
          /\ acked'.sync = acked.sync \cup SyncEntries
      BY <2>1, <2>6
    <3>2. Range(group.updates) \subseteq Entry
      BY <1>a, RangeHas
    <3>3. \A e \in Range(group.updates) : e.seq <= lastSequence'
      <4>1. \A i \in 1 .. Len(group.updates) : group.updates[i].seq <= lastSequence'
        BY <1>a, <2>1, SMT DEF SeqInv
      <4>2. \A e \in Range(group.updates) : \E i \in 1 .. Len(group.updates) : e = group.updates[i]
        BY <1>a, RangeHas
      <4>3. QED
        BY <4>1, <4>2
    <3>4. \A e \in acked.all : e.seq <= lastSequence'
      <4>1. \A e \in acked.all : e.seq \in Nat /\ e.seq <= lastSequence
        BY SMT DEF GroupInv, Entry
      <4>2. lastSequence' \in Nat /\ lastSequence <= lastSequence'
        BY <1>a, <2>1, SMT
      <4>3. QED
        BY <1>a, <4>1, <4>2, SMT
    <3>5. /\ acked'.all \in SUBSET Entry /\ acked'.sync \subseteq acked'.all
          /\ table[mem_] \subseteq acked'.all
      BY <2>5, <3>1, <3>2 DEF GroupInv
    <3>6. QED
      BY <2>1, <2>2, <2>3, <3>1, <3>3, <3>4, <3>5 DEF GroupInv
  <2>7. CASE ~group.ok
    <3>1. acked' = acked /\ table[mem_] \subseteq acked.all
      BY <2>1, <2>4, <2>7 DEF GroupAt
    <3>2. \A e \in acked.all : e.seq <= lastSequence'
      <4>1. \A e \in acked.all : e.seq \in Nat /\ e.seq <= lastSequence
        BY SMT DEF GroupInv, Entry
      <4>2. lastSequence' \in Nat /\ lastSequence <= lastSequence'
        BY <1>a, <2>1, SMT
      <4>3. QED
        BY <1>a, <4>1, <4>2, SMT
    <3>3. QED
      BY <2>1, <2>2, <3>1, <3>2 DEF GroupInv
  <2>8. QED
    BY <2>6, <2>7, SMT
<1>12. QED
  BY <1>2, <1>3, <1>4, <1>6, <1>7, <1>8, <1>9, <1>10, <1>11, DataSteps DEF WritesData

LEMMA GroupAlways == Spec => []GroupInv
<1>1. Init => GroupInv
  <2> SUFFICES ASSUME Init PROVE GroupInv
    BY SMT
  <2>1. /\ pc = [t \in Threads |-> "idle"] /\ acked = [all |-> {}, sync |-> {}]
        /\ table = <<{}>> /\ mem_ = 1
    BY DEF Init
  <2>2. table[mem_] = {} /\ acked.all = {} /\ acked.sync = {}
    BY <2>1, SMT
  <2>3. QED
    BY <2>1, <2>2, GroupedLabels DEF GroupInv
<1>2. (/\ QueueInv /\ QueueInv' /\ InQueue /\ DataInv /\ DataInv' /\ SeqInv /\ NumbersInv
       /\ CloseInv' /\ RefInv' /\ GroupInv /\ [Next]_vars)
      => GroupInv'
  BY GroupNext
<1>3. QED
  BY <1>1, <1>2, QueueAlways, InQueueAlways, SeqAlways, NumbersAlways, CloseAlways, RefAlways,
     PTL DEF Spec

------------------------------------------------------------------------------
\* A memtable of the open database and its log agree on what is acknowledged,
\* the immutable memtable is older than the other, and what is acknowledged with
\* sync is synced if it is in a log.
FilesInv ==
  /\ ~IsClosed => \A n \in logFiles : /\ table[n] \subseteq log[n]
                                      /\ acked.all \cap log[n] \subseteq table[n]
  /\ imm_ # 0 => /\ table[imm_] \subseteq acked.all
                 /\ \A e \in log[imm_], f \in log[mem_] : e.seq < f.seq
  /\ \A n \in logFiles : synced[n] \subseteq log[n] /\ acked.sync \cap log[n] \subseteq synced[n]

\* The logs there are.
LEMMA LogNumbers ==
  ASSUME DataInv, NumbersInv
  PROVE  /\ \A n \in logFiles : n \in 1 .. mem_ /\ n \in {mem_, imm_}
         /\ mem_ \in logFiles /\ mem_ \in 1 .. mem_
         /\ imm_ # 0 => imm_ \in logFiles /\ imm_ \in 1 .. mem_ /\ imm_ # mem_
<1>1. mem_ \in Nat \ {0} /\ imm_ \in {0, mem_ - 1}
  BY DEF DataInv
<1>2. logFiles = {imm_, mem_} \ {0}
  BY DEF NumbersInv
<1>3. QED
  BY <1>1, <1>2, SMT

\* The entries of a group in the making are newer than all that is acknowledged.
LEMMA GroupIsNew ==
  ASSUME DataInv, SeqInv, GroupInv
  PROVE  /\ \A f \in Range(group.updates) : f.seq \in Nat /\ lastSequence < f.seq
         /\ \A e \in acked.all : \A f \in Range(group.updates) : e.seq < f.seq
         /\ acked.all \cap Range(group.updates) = {}
<1>1. lastSequence \in Nat /\ group.updates \in Seq(Entry)
  BY DEF DataInv
<1>2. \A f \in Range(group.updates) : f.seq \in Nat /\ lastSequence < f.seq
  <2>1. \A i \in 1 .. Len(group.updates) :
          group.updates[i].seq \in Nat /\ lastSequence < group.updates[i].seq
    BY <1>1, SMT DEF SeqInv
  <2>2. QED
    BY <1>1, <2>1, RangeHas
<1>3. \A e \in acked.all : e.seq \in Nat /\ e.seq <= lastSequence
  BY SMT DEF GroupInv, Entry
<1>4. \A e \in acked.all : \A f \in Range(group.updates) : e.seq < f.seq
  BY <1>1, <1>2, <1>3, SMT
<1>5. \A e \in acked.all : ~(e.seq < e.seq)
  BY <1>3, SMT
<1>6. QED
  BY <1>2, <1>4, <1>5

LEMMA FilesNext ==
  ASSUME QueueInv, DataInv, DataInv', SeqInv, NumbersInv, NumbersInv', CloseInv, RefInv', GroupInv,
         FilesInv, [Next]_vars
  PROVE  FilesInv'
<1>a. /\ \A n \in logFiles : n \in 1 .. mem_ /\ n \in {mem_, imm_}
      /\ mem_ \in logFiles /\ mem_ \in 1 .. mem_
      /\ imm_ # 0 => imm_ \in logFiles /\ imm_ \in 1 .. mem_ /\ imm_ # mem_
  BY LogNumbers
<1>b. /\ log \in Seq(SUBSET Entry) /\ DOMAIN log = 1 .. mem_ /\ Len(log) = mem_
      /\ synced \in Seq(SUBSET Entry) /\ DOMAIN synced = 1 .. mem_
      /\ table \in Seq(SUBSET Entry) /\ DOMAIN table = 1 .. mem_
      /\ lastSequence \in Nat /\ group.updates \in Seq(Entry)
  BY SMT DEF DataInv
\* A step that leaves what is acknowledged alone, and the logs that stay.
<1>1. ASSUME UNCHANGED <<mem_, acked>>, logFiles' \subseteq logFiles, imm_' = imm_ \/ imm_' = 0,
             \A n \in logFiles' : log'[n] = log[n] /\ synced'[n] = synced[n],
             table' = table \/ Frees
      PROVE  FilesInv'
  <2>1. \A n \in logFiles' : n \in 1 .. mem_ /\ n \in {mem_', imm_'}
    <3>1. \A n \in logFiles' : n \in {mem_', imm_'}
      BY SMT DEF NumbersInv
    <3>2. QED
      BY <1>1, <1>a, <3>1
  <2>2. \A m \in 1 .. mem_ : table'[m] \subseteq table[m]
    BY <1>1, LiveTables
  <2>3. ~IsClosed' => \A n \in logFiles' : table'[n] = table[n]
    BY <1>1, <2>1, LiveTables
  <2>4. ~IsClosed' => ~IsClosed
    BY StaysClosed
  <2>5. ~IsClosed' => \A n \in logFiles' : /\ table'[n] \subseteq log'[n]
                                           /\ acked'.all \cap log'[n] \subseteq table'[n]
    <3>1. SUFFICES ASSUME ~IsClosed', NEW n \in logFiles'
                   PROVE  table'[n] \subseteq log'[n] /\ acked'.all \cap log'[n] \subseteq table'[n]
      OBVIOUS
    <3>2. table[n] \subseteq log[n] /\ acked.all \cap log[n] \subseteq table[n]
      BY <1>1, <2>4, <3>1 DEF FilesInv
    <3>3. table'[n] = table[n] /\ log'[n] = log[n] /\ acked' = acked
      BY <1>1, <2>3, <3>1
    <3>4. QED
      BY <3>2, <3>3, SMT
  <2>6. imm_' # 0 => /\ table'[imm_'] \subseteq acked'.all
                     /\ \A e \in log'[imm_'], f \in log'[mem_'] : e.seq < f.seq
    <3>1. SUFFICES ASSUME imm_' # 0
                   PROVE  /\ table'[imm_'] \subseteq acked'.all
                          /\ \A e \in log'[imm_'], f \in log'[mem_'] : e.seq < f.seq
      OBVIOUS
    <3>2. imm_' = imm_ /\ imm_ # 0 /\ imm_ \in 1 .. mem_
      BY <1>1, <1>a, <3>1
    <3>3. imm_ \in logFiles' /\ mem_ \in logFiles'
      <4>1. mem_ # 0 /\ logFiles' = {imm_', mem_'} \ {0}
        BY SMT DEF NumbersInv, DataInv
      <4>2. QED
        BY <1>1, <3>2, <4>1
    <3>4. log'[imm_] = log[imm_] /\ log'[mem_] = log[mem_] /\ table'[imm_] \subseteq table[imm_]
      BY <1>1, <2>2, <3>2, <3>3
    <3>5. table[imm_] \subseteq acked.all /\ \A e \in log[imm_], f \in log[mem_] : e.seq < f.seq
      BY <3>2 DEF FilesInv
    <3>6. QED
      BY <1>1, <3>2, <3>4, <3>5
  <2>7. \A n \in logFiles' : /\ synced'[n] \subseteq log'[n]
                             /\ acked'.sync \cap log'[n] \subseteq synced'[n]
    BY <1>1 DEF FilesInv
  <2>8. QED
    BY <2>5, <2>6, <2>7 DEF FilesInv
<1>2. CASE Quiet
  BY <1>1, <1>2 DEF Quiet
<1>3. CASE InstallVersion
  BY <1>1, <1>3, Installed
<1>4. ASSUME NEW t \in Threads,
             (\E b \in Batches, s \in Syncs : Write(t, b, s)) \/ RoomFound(t) \/ SwitchFails(t)
      PROVE  FilesInv'
  <2>1. UNCHANGED <<mem_, imm_, acked, logFiles, log, synced, table>>
    BY <1>4 DEF Write, RoomFound, SwitchFails, RoomFrame, memory, logs
  <2>2. QED
    BY <1>1, <2>1
<1>5. ASSUME NEW t \in Threads, SwitchMemTable(t)
      PROVE  FilesInv'
  <2>1. /\ pc[t] = "w.room" /\ UNCHANGED <<acked, pc>> /\ imm_' = mem_ /\ mem_' = Len(log) + 1
        /\ log' = Append(log, {}) /\ synced' = Append(synced, {}) /\ table' = Append(table, {})
    BY <1>5 DEF SwitchMemTable, InRoom
  <2>2. table[mem_] \subseteq acked.all
    <3>1. group.updates = <<>>
      BY <2>1, GroupedLabels, NoGroupYet DEF SeqInv
    <3>2. Range(<<>>) = {}
      BY SMT DEF Range
    <3>3. QED
      BY <3>1, <3>2 DEF GroupInv
  <2>3. /\ log'[mem_] = log[mem_] /\ log'[mem_'] = {}
        /\ synced'[mem_] = synced[mem_] /\ synced'[mem_'] = {}
        /\ table'[mem_] = table[mem_] /\ table'[mem_'] = {}
    <3>1. \A s \in Seq(SUBSET Entry) : Len(s) = mem_ =>
            Append(s, {})[mem_] = s[mem_] /\ Append(s, {})[mem_ + 1] = {}
      BY <1>a, SMT
    <3>2. Len(log) = mem_ /\ Len(synced) = mem_ /\ Len(table) = mem_
      BY DEF DataInv
    <3>3. QED
      BY <1>b, <2>1, <3>1, <3>2
  <2>4. ~IsClosed
    BY <2>1, GroupedLabels, LeaderOpen
  <2>5. \A n \in logFiles' : n = mem_ \/ n = mem_'
    BY <2>1 DEF NumbersInv
  <2>6. table[mem_] \subseteq log[mem_] /\ acked.all \cap log[mem_] \subseteq table[mem_]
    BY <1>a, <2>4 DEF FilesInv
  <2>7. synced[mem_] \subseteq log[mem_] /\ acked.sync \cap log[mem_] \subseteq synced[mem_]
    BY <1>a DEF FilesInv
  <2>8. \A n \in logFiles' : /\ table'[n] \subseteq log'[n]
                             /\ acked'.all \cap log'[n] \subseteq table'[n]
                             /\ synced'[n] \subseteq log'[n]
                             /\ acked'.sync \cap log'[n] \subseteq synced'[n]
    <3>1. ASSUME NEW n, n = mem_
          PROVE  /\ table'[n] \subseteq log'[n] /\ acked'.all \cap log'[n] \subseteq table'[n]
                 /\ synced'[n] \subseteq log'[n] /\ acked'.sync \cap log'[n] \subseteq synced'[n]
      BY <2>1, <2>3, <2>6, <2>7, <3>1
    <3>2. ASSUME NEW n, n = mem_'
          PROVE  /\ table'[n] \subseteq log'[n] /\ acked'.all \cap log'[n] \subseteq table'[n]
                 /\ synced'[n] \subseteq log'[n] /\ acked'.sync \cap log'[n] \subseteq synced'[n]
      BY <2>3, <3>2
    <3>3. QED
      BY <2>5, <3>1, <3>2
  <2>9. /\ table'[imm_'] \subseteq acked'.all
        /\ \A e \in log'[imm_'], f \in log'[mem_'] : e.seq < f.seq
    BY <2>1, <2>2, <2>3
  <2>10. QED
    BY <2>8, <2>9 DEF FilesInv
\* The record of the group goes to the log, synced or not.
<1>6. ASSUME NEW t \in Threads, AddRecord(t) \/ AddRecordFails(t)
      PROVE  FilesInv'
  <2> DEFINE U == Range(group.updates)
  <2>1. /\ pc[t] = "w.log" /\ UNCHANGED <<acked, mem_, imm_, table, logFiles>>
        /\ \/ log' = log
           \/ log' = [log EXCEPT ![mem_] = @ \cup U]
        /\ \/ synced' = synced
           \/ synced' = [synced EXCEPT ![mem_] = log'[mem_]]
    BY <1>6 DEF AddRecord, AddRecordFails, memory, logs
  <2>2. LoggedUpTo(lastSequence)
    BY <2>1 DEF SeqInv
  <2>3. /\ \A f \in U : f.seq \in Nat /\ lastSequence < f.seq
        /\ acked.all \cap U = {} /\ acked.sync \subseteq acked.all
    BY GroupIsNew DEF GroupInv
  <2> HIDE DEF U
  <2>4. /\ \A n \in 1 .. mem_ : log[n] \subseteq log'[n] /\ log'[n] \subseteq log[n] \cup U
        /\ \A n \in 1 .. mem_ : n # mem_ => log'[n] = log[n]
    <3>1. CASE log' = log
      BY <3>1
    <3>2. CASE log' = [log EXCEPT ![mem_] = @ \cup U]
      <4>1. /\ log'[mem_] = log[mem_] \cup U
            /\ \A n \in 1 .. mem_ : n # mem_ => log'[n] = log[n]
        BY <1>a, <1>b, <3>2
      <4>2. QED
        BY <4>1
    <3>3. QED
      BY <2>1, <3>1, <3>2, SMT
  <2>5. ~IsClosed
    BY <2>1, GroupedLabels, LeaderOpen
  <2>6. ASSUME NEW n \in logFiles
        PROVE  /\ table[n] \subseteq log'[n] /\ acked.all \cap log'[n] \subseteq table[n]
               /\ synced'[n] \subseteq log'[n] /\ acked.sync \cap log'[n] \subseteq synced'[n]
    <3>1. /\ table[n] \subseteq log[n] /\ acked.all \cap log[n] \subseteq table[n]
          /\ synced[n] \subseteq log[n] /\ acked.sync \cap log[n] \subseteq synced[n]
      BY <2>5 DEF FilesInv
    <3>2. log[n] \subseteq log'[n] /\ log'[n] \subseteq log[n] \cup U
      BY <1>a, <2>4
    <3>3. synced'[n] = synced[n] \/ synced'[n] = log'[n]
      BY <1>a, <1>b, <2>1, SMT
    <3>4. /\ table[n] \subseteq log'[n] /\ acked.all \cap log'[n] \subseteq table[n]
          /\ acked.sync \cap log'[n] \subseteq synced[n] /\ synced[n] \subseteq log'[n]
      BY <2>3, <3>1, <3>2
    <3>5. QED
      BY <3>3, <3>4
  <2>7. ASSUME imm_ # 0
        PROVE  /\ table[imm_] \subseteq acked.all
               /\ \A e \in log'[imm_], f \in log'[mem_] : e.seq < f.seq
    <3>1. log'[imm_] = log[imm_]
      BY <1>a, <2>4, <2>7
    <3>2. \A f \in log'[mem_] : f \in log[mem_] \/ f \in U
      BY <1>a, <2>4
    <3>3. table[imm_] \subseteq acked.all /\ \A e \in log[imm_], f \in log[mem_] : e.seq < f.seq
      BY <2>7 DEF FilesInv
    <3>4. \A e \in log[imm_] : e.seq \in Nat /\ e.seq <= lastSequence
      BY <1>a, <1>b, <2>2, <2>7, SMT DEF LoggedUpTo, Entry
    <3>5. \A e \in log[imm_], f \in U : e.seq < f.seq
      BY <1>b, <2>3, <3>4, SMT
    <3>6. QED
      BY <3>1, <3>2, <3>3, <3>5
  <2>8. QED
    BY <2>1, <2>6, <2>7 DEF FilesInv
<1>7. ASSUME NEW t \in Threads, InsertInto(t)
      PROVE  FilesInv'
  <2>1. /\ pc[t] = "w.insert" /\ UNCHANGED <<acked, mem_, imm_, log, synced, logFiles>>
        /\ table' = [table EXCEPT ![mem_] = @ \cup {Head(group.todo)}] /\ group.todo # <<>>
    BY <1>7 DEF InsertInto, logs
  <2>2. Range(group.todo) \subseteq Range(group.updates) /\ Range(group.updates) \subseteq log[mem_]
    <3>1. "w.insert" \in {"w.insert", "w.finish"}
      BY SMT
    <3>2. QED
      BY <2>1, <3>1, GroupedLabels DEF GroupInv, GroupAt, Inserting
  <2>3. Head(group.todo) \in Range(group.todo)
    <3>1. \A s \in Seq(Entry) : s # <<>> => Head(s) = s[1] /\ 1 \in DOMAIN s
      BY SMT
    <3>2. group.todo \in Seq(Entry)
      BY DEF DataInv
    <3>3. Head(group.todo) = group.todo[1] /\ 1 \in DOMAIN group.todo
      BY <2>1, <3>1, <3>2
    <3>4. QED
      BY <3>3, SMT DEF Range
  <2>4. Head(group.todo) \in log[mem_]
    BY <2>2, <2>3
  <2>5. /\ table'[mem_] = table[mem_] \cup {Head(group.todo)}
        /\ \A n \in 1 .. mem_ : n # mem_ => table'[n] = table[n]
    BY <1>a, <1>b, <2>1
  <2>6. ~IsClosed
    BY <2>1, GroupedLabels, LeaderOpen
  <2>7. ASSUME NEW n \in logFiles
        PROVE  table'[n] \subseteq log[n] /\ acked.all \cap log[n] \subseteq table'[n]
    <3>1. table[n] \subseteq log[n] /\ acked.all \cap log[n] \subseteq table[n] /\ n \in 1 .. mem_
      BY <1>a, <2>6 DEF FilesInv
    <3>2. CASE n = mem_
      <4>1. table[mem_] \subseteq log[mem_] /\ acked.all \cap log[mem_] \subseteq table[mem_]
        BY <3>1, <3>2
      <4>2. table'[mem_] \subseteq log[mem_] /\ acked.all \cap log[mem_] \subseteq table'[mem_]
        BY <2>4, <2>5, <4>1
      <4>3. QED
        BY <3>2, <4>2
    <3>3. CASE n # mem_
      BY <2>5, <3>1, <3>3
    <3>4. QED
      BY <3>2, <3>3, SMT
  <2>8. imm_ # 0 => table'[imm_] \subseteq acked.all
    BY <1>a, <2>5 DEF FilesInv
  <2>9. QED
    BY <2>1, <2>7, <2>8 DEF FilesInv
<1>8. ASSUME NEW t \in Threads, WriteEnds(t)
      PROVE  FilesInv'
  <2> DEFINE U == Range(group.updates)
  <2>1. /\ pc[t] = "w.finish" /\ UNCHANGED <<mem_, imm_, table, log, synced, logFiles>>
        /\ acked' = IF group.ok THEN [all |-> acked.all \cup U, sync |-> acked.sync \cup SyncEntries]
                    ELSE acked
    BY <1>8 DEF WriteEnds, memory, logs
  <2>2. CASE ~group.ok
    BY <1>1, <2>1, <2>2
  <2>3. CASE group.ok
    <3>1. acked'.all = acked.all \cup U /\ acked'.sync = acked.sync \cup SyncEntries
      BY <2>1, <2>3
    <3>2. "w.finish" \in {"w.insert", "w.finish"}
      BY SMT
    <3>3. /\ Inserting(t)
          /\ \A i \in 1 .. Len(group.members) : sync[group.members[i]] => sync[t]
      BY <2>1, <2>3, <3>2, GroupedLabels DEF GroupInv, GroupAt
    <3>4. U \subseteq log[mem_] /\ U \subseteq table[mem_]
      <4>1. Range(<<>>) = {}
        BY SMT DEF Range
      <4>2. QED
        BY <2>1, <3>3, <4>1 DEF Inserting
    <3>5. SyncEntries \subseteq synced[mem_] /\ SyncEntries \subseteq U
      <4>1. DOMAIN group.members = 1 .. Len(group.members)
        BY SMT DEF QueueInv, GroupInFront
      <4>2. sync[t] => U \subseteq synced[mem_]
        BY <3>3 DEF Inserting
      <4>3. QED
        BY <3>3, <4>1, <4>2 DEF SyncEntries
    <3>6. \A n \in logFiles : n # mem_ => U \cap log[n] = {}
      <4>1. \A n \in logFiles : n # mem_ => n = imm_ /\ imm_ # 0
        BY <1>a, SMT DEF NumbersInv
      <4>2. imm_ # 0 => \A e \in log[imm_], f \in log[mem_] : e.seq < f.seq
        BY DEF FilesInv
      <4>3. \A e \in U : e.seq \in Nat
        BY GroupIsNew
      <4>4. \A e \in U : ~(e.seq < e.seq)
        BY <4>3, SMT
      <4>5. imm_ # 0 => U \cap log[imm_] = {}
        BY <3>4, <4>2, <4>4
      <4>6. QED
        BY <4>1, <4>5
    <3> HIDE DEF U
    <3>7. ASSUME ~IsClosed, NEW n \in logFiles
          PROVE  table[n] \subseteq log[n] /\ acked'.all \cap log[n] \subseteq table[n]
      <4>1. table[n] \subseteq log[n] /\ acked.all \cap log[n] \subseteq table[n]
        BY <3>7 DEF FilesInv
      <4>2. U \cap log[n] \subseteq table[n]
        BY <3>4, <3>6
      <4>3. QED
        BY <3>1, <4>1, <4>2
    <3>8. ASSUME NEW n \in logFiles
          PROVE  synced[n] \subseteq log[n] /\ acked'.sync \cap log[n] \subseteq synced[n]
      <4>1. synced[n] \subseteq log[n] /\ acked.sync \cap log[n] \subseteq synced[n]
        BY DEF FilesInv
      <4>2. SyncEntries \cap log[n] \subseteq synced[n]
        BY <3>5, <3>6
      <4>3. QED
        BY <3>1, <4>1, <4>2
    <3>9. imm_ # 0 => /\ table[imm_] \subseteq acked'.all
                      /\ \A e \in log[imm_], f \in log[mem_] : e.seq < f.seq
      BY <3>1 DEF FilesInv
    <3>10. ~IsClosed' => ~IsClosed
      BY StaysClosed
    <3>11. QED
      BY <2>1, <3>7, <3>8, <3>9, <3>10 DEF FilesInv
  <2>4. QED
    BY <2>2, <2>3, SMT
<1>9. QED
  BY <1>2, <1>3, <1>4, <1>5, <1>6, <1>7, <1>8, DataSteps DEF WritesData

LEMMA FilesAlways == Spec => []FilesInv
<1>1. Init => FilesInv
  <2> SUFFICES ASSUME Init PROVE FilesInv
    BY SMT
  <2>1. /\ table = <<{}>> /\ log = <<{}>> /\ synced = <<{}>> /\ logFiles = {1} /\ imm_ = 0
        /\ acked = [all |-> {}, sync |-> {}]
    BY DEF Init
  <2>2. table[1] = {} /\ log[1] = {} /\ synced[1] = {}
    BY <2>1, SMT
  <2>3. QED
    BY <2>1, <2>2 DEF FilesInv
<1>2. (/\ QueueInv /\ DataInv /\ DataInv' /\ SeqInv /\ NumbersInv /\ NumbersInv' /\ CloseInv
       /\ RefInv' /\ GroupInv /\ FilesInv /\ [Next]_vars)
      => FilesInv'
  BY FilesNext
<1>3. QED
  BY <1>1, <1>2, QueueAlways, SeqAlways, NumbersAlways, CloseAlways, RefAlways, GroupAlways,
     PTL DEF Spec

\* Only the end of a write acknowledges anything and changes the last sequence
\* number.
LEMMA AckedSteps ==
  ASSUME QueueInv, DataInv, NumbersInv, [Next]_vars
  PROVE  \/ acked' = acked /\ lastSequence' = lastSequence
         \/ \E t \in Threads : WriteEnds(t)
<1>1. CASE Quiet
  BY <1>1 DEF Quiet
<1>2. CASE InstallVersion
  BY <1>2, Installed
<1>3. ASSUME NEW t \in Threads, WritesData(t), ~WriteEnds(t)
      PROVE  acked' = acked /\ lastSequence' = lastSequence
  BY <1>3 DEF WritesData, Write, RoomFound, SwitchMemTable, SwitchFails, AddRecord,
     AddRecordFails, InsertInto, RoomFrame
<1>4. QED
  BY <1>1, <1>2, <1>3, DataSteps

\* What the end of a write acknowledges.
LEMMA Acknowledged ==
  ASSUME NEW t \in Threads, WriteEnds(t)
  PROVE  /\ pc[t] = "w.finish" /\ lastSequence' = lastSequence + Len(group.updates)
         /\ group.ok => acked'.all = acked.all \cup Range(group.updates)
         /\ ~group.ok => acked' = acked
<1>1. /\ pc[t] = "w.finish" /\ lastSequence' = lastSequence + Len(group.updates)
      /\ acked' = IF group.ok THEN [all |-> acked.all \cup Range(group.updates),
                                    sync |-> acked.sync \cup SyncEntries]
                  ELSE acked
  BY DEF WriteEnds
<1>2. QED
  BY <1>1

\* Two acknowledged entries have two sequence numbers.
AckedOnce == \A e, f \in acked.all : e.seq = f.seq => e = f

LEMMA AckedOnceNext ==
  ASSUME QueueInv, DataInv, SeqInv, NumbersInv, GroupInv, AckedOnce, [Next]_vars
  PROVE  AckedOnce'
<1> DEFINE U == Range(group.updates)
<1>1. CASE acked' = acked
  BY <1>1 DEF AckedOnce
<1>2. ASSUME acked'.all = acked.all \cup U
      PROVE  AckedOnce'
  <2>1. /\ \A e \in acked.all, f \in U : e.seq < f.seq
        /\ \A f \in U : f.seq \in Nat
    BY GroupIsNew
  <2>2. \A e \in acked.all : e.seq \in Nat
    BY SMT DEF GroupInv, Entry
  <2>3. \A e \in acked.all, f \in U : e.seq # f.seq
    <3> HIDE DEF U
    <3>1. QED
      BY <2>1, <2>2, SMT
  <2>4. \A e, f \in U : e.seq = f.seq => e = f
    <3>1. /\ \A i \in 1 .. Len(group.updates) : group.updates[i].seq = lastSequence + i
          /\ lastSequence \in Nat /\ group.updates \in Seq(Entry)
      BY DEF SeqInv, DataInv
    <3>2. \A i, j \in 1 .. Len(group.updates) : lastSequence + i = lastSequence + j => i = j
      BY <3>1, SMT
    <3>3. \A x : x \in U <=> \E i \in 1 .. Len(group.updates) : x = group.updates[i]
      BY <3>1, RangeHas
    <3>4. ASSUME NEW e \in U, NEW f \in U, e.seq = f.seq
          PROVE  e = f
      <4> HIDE DEF U
      <4>1. PICK i \in 1 .. Len(group.updates) : e = group.updates[i]
        BY <3>3
      <4>2. PICK j \in 1 .. Len(group.updates) : f = group.updates[j]
        BY <3>3
      <4>3. lastSequence + i = lastSequence + j
        BY <3>1, <3>4, <4>1, <4>2
      <4>4. QED
        BY <3>2, <4>1, <4>2, <4>3
    <3>5. QED
      BY <3>4
  <2> HIDE DEF U
  <2>5. QED
    BY <1>2, <2>3, <2>4 DEF AckedOnce
<1>3. QED
  BY <1>1, <1>2, AckedSteps, Acknowledged

\* The updates of the group are the batches of its writers, one after another.
Asks(ms) == Concat([i \in 1 .. Len(ms) |-> batch[ms[i]]])

LEMMA GroupMatches ==
  ASSUME QueueInv, DataInv, writers_ # <<>>, BuildBatchGroup
  PROVE  Matches(group'.updates, Asks(group'.members))
<1>1. writers_ \in Seq(Threads)
  BY SMT DEF QueueInv
<1>2. PICK n \in 1 .. Len(writers_) :
        /\ \A i \in 2 .. n : Joins(i)
        /\ LET updates == [i \in 1 .. Len(Updates(n)) |->
                             [key |-> Updates(n)[i].key, val |-> Updates(n)[i].val,
                              seq |-> lastSequence + i]]
           IN  group' = [members |-> SubSeq(writers_, 1, n), updates |-> updates,
                         todo |-> updates, ok |-> TRUE]
  BY <1>1, GroupChosen
<1> DEFINE u == Updates(n)
           updates == [i \in 1 .. Len(u) |->
                         [key |-> u[i].key, val |-> u[i].val, seq |-> lastSequence + i]]
           ms == SubSeq(writers_, 1, n)
<1>3. group'.members = ms /\ group'.updates = updates
  BY <1>2
<1>4. u \in Seq(Update)
  BY UpdatesType
<1>5. Asks(ms) = u
  <2>1. Len(ms) = n /\ \A i \in 1 .. n : ms[i] = writers_[i]
    BY <1>1, SMT
  <2> HIDE DEF ms
  <2>2. [i \in 1 .. Len(ms) |-> batch[ms[i]]] = [i \in 1 .. n |-> batch[writers_[i]]]
    BY <2>1
  <2>3. QED
    BY <2>2 DEF Asks, Updates
<1> HIDE DEF u, ms
<1>6. Len(u) \in Nat
  BY <1>4, SMT
<1>7. \A i \in 1 .. Len(u) : updates[i].key = u[i].key /\ updates[i].val = u[i].val
  BY SMT
<1>8. Len(updates) = Len(u)
  BY <1>6, SMT
<1> HIDE DEF updates
<1>9. QED
  BY <1>3, <1>5, <1>7, <1>8 DEF Matches

\* A thread that calls Write is not in the queue.
LEMMA CallsFromOutside ==
  ASSUME QueueInv, InQueue, NEW t \in Threads, pc[t] = "idle"
  PROVE  /\ \A i \in 1 .. Len(writers_) : writers_[i] # t
         /\ \A i \in 1 .. Len(group.members) : group.members[i] # t
<1>1. pc[t] \notin Writing
  BY GroupedLabels
<1>2. \A i \in 1 .. Len(writers_) : pc[writers_[i]] \in Writing
  BY DEF InQueue
<1>3. \A i \in 1 .. Len(writers_) : writers_[i] # t
  BY <1>1, <1>2
<1>4. \A i \in 1 .. Len(group.members) : i \in 1 .. Len(writers_) /\ group.members[i] = writers_[i]
  BY SMT DEF QueueInv, GroupInFront
<1>5. QED
  BY <1>3, <1>4

\* What the end of MakeRoomForWrite does.
LEMMA RoomEnds ==
  ASSUME NEW t \in Threads, RoomFound(t) \/ SwitchFails(t)
  PROVE  /\ pc[t] = "w.room" /\ UNCHANGED <<lastSequence, mem_, imm_, table, log, logFiles, acked, ret>>
         /\ \/ LeaveQueue(t, <<t>>)
            \/ /\ BuildBatchGroup /\ UNCHANGED <<writers_, batch>>
               /\ pc' = [pc EXCEPT ![t] = "w.log"]
  BY DEF RoomFound, SwitchFails, InRoom, RoomFrame, WriterFrame, Goto, memory, logs, readers

LEMMA RoomQueue ==
  ASSUME QueueInv, NEW t \in Threads, RoomFound(t) \/ SwitchFails(t)
  PROVE  writers_ # <<>>
<1>1. pc[t] = "w.room"
  BY RoomEnds
<1>2. pc[t] \in Leading
  BY <1>1, GroupedLabels
<1>3. QED
  BY <1>2 DEF QueueInv

BatchInv == (\E t \in Threads : pc[t] \in Grouped) => Matches(group.updates, Asks(group.members))

LEMMA BatchNext ==
  ASSUME QueueInv, InQueue, DataInv, BatchInv, [Next]_vars
  PROVE  BatchInv'
<1>a. pc \in [Threads -> Labels]
  BY SMT DEF QueueInv
<1>1. ASSUME group'.members = group.members, group'.updates = group.updates,
             \A i \in 1 .. Len(group.members) : batch'[group.members[i]] = batch[group.members[i]],
             \A u \in Threads : pc'[u] \in Grouped => pc[u] \in Grouped
      PROVE  BatchInv'
  <2> DEFINE ms == group.members
  <2>1. [i \in 1 .. Len(ms) |-> batch'[ms[i]]] = [i \in 1 .. Len(ms) |-> batch[ms[i]]]
    BY <1>1
  <2>2. Asks(group.members)' = Asks(group.members)
    BY <1>1, <2>1 DEF Asks
  <2>3. QED
    BY <1>1, <2>2 DEF BatchInv, Matches
<1>2. CASE Quiet
  BY <1>1, <1>2 DEF Quiet
<1>3. CASE InstallVersion
  BY <1>1, <1>3 DEF InstallVersion, BgFrame, queue
<1>4. ASSUME NEW t \in Threads, NEW b \in Batches, NEW s \in Syncs, Write(t, b, s)
      PROVE  BatchInv'
  <2>1. /\ group' = group /\ pc[t] = "idle" /\ batch' = [batch EXCEPT ![t] = b]
        /\ \E l \in {"w.room", "w.wait"} : pc' = [pc EXCEPT ![t] = l]
    BY <1>4 DEF Write, EnterMakeRoom, Goto
  <2>2. \A u \in Threads : pc'[u] \in Grouped => pc[u] \in Grouped
    BY <1>a, <2>1, GroupedLabels
  <2>3. \A u : u # t => batch'[u] = batch[u]
    BY <2>1, SMT
  <2>4. QED
    BY <1>1, <2>1, <2>2, <2>3, CallsFromOutside
<1>5. ASSUME NEW t \in Threads, RoomFound(t) \/ SwitchFails(t)
      PROVE  BatchInv'
  <2>1. CASE LeaveQueue(t, <<t>>)
    BY <1>5, <2>1, RoomEnds, GroupedLabels, NoneGrouped DEF BatchInv
  <2>2. CASE BuildBatchGroup /\ UNCHANGED <<writers_, batch>>
    <3>1. writers_ # <<>>
      BY <1>5, RoomQueue
    <3>2. Matches(group'.updates, Asks(group'.members))
      BY <2>2, <3>1, GroupMatches
    <3>3. QED
      BY <2>2, <3>2 DEF BatchInv, Matches, Asks
  <2>3. QED
    BY <1>5, <2>1, <2>2, RoomEnds
<1>6. ASSUME NEW t \in Threads, SwitchMemTable(t)
      PROVE  BatchInv'
  BY <1>1, <1>6 DEF SwitchMemTable, queue
<1>7. ASSUME NEW t \in Threads, AddRecord(t) \/ AddRecordFails(t) \/ InsertInto(t)
      PROVE  BatchInv'
  <2>1. batch' = batch /\ group'.members = group.members /\ group'.updates = group.updates
    <3>1. group = [members |-> group.members, updates |-> group.updates,
                   todo |-> group.todo, ok |-> group.ok]
      BY DEF QueueInv, GroupInFront
    <3>2. QED
      BY <1>7, <3>1 DEF AddRecord, AddRecordFails, InsertInto, queue
  <2>2. pc[t] \in Grouped /\ \E l : pc' = [pc EXCEPT ![t] = l]
    BY <1>7, GroupedLabels DEF AddRecord, AddRecordFails, InsertInto, Goto
  <2>3. \A u \in Threads : pc'[u] \in Grouped => pc[u] \in Grouped
    BY <1>a, <2>2
  <2>4. QED
    BY <1>1, <2>1, <2>3
<1>8. ASSUME NEW t \in Threads, WriteEnds(t)
      PROVE  BatchInv'
  BY <1>8, GroupedLabels, NoneGrouped DEF BatchInv, WriteEnds
<1>9. QED
  BY <1>2, <1>3, <1>4, <1>5, <1>6, <1>7, <1>8, DataSteps DEF WritesData

\* Without failing logs, what is logged is acknowledged or about to be.
Reliable == "append" \notin Faults /\ "sync" \notin Faults /\ "manifest" \notin Faults

LoggedInv == group.ok /\ \A n \in logFiles : log[n] \subseteq acked.all \cup Range(group.updates)

LEMMA LoggedNext ==
  ASSUME Reliable, QueueInv, DataInv, SeqInv, NumbersInv, LoggedInv, [Next]_vars
  PROVE  LoggedInv'
<1>a. /\ DOMAIN log = 1 .. mem_ /\ log \in Seq(SUBSET Entry) /\ Len(log) = mem_ /\ mem_ \in Nat
      /\ group = [members |-> group.members, updates |-> group.updates,
                  todo |-> group.todo, ok |-> group.ok]
  BY SMT DEF DataInv, QueueInv, GroupInFront
<1>b. Range(<<>>) = {}
  BY SMT DEF Range
<1>1. CASE Quiet
  BY <1>1 DEF Quiet, LoggedInv
<1>2. CASE InstallVersion
  BY <1>2, Installed DEF LoggedInv
<1>3. ASSUME NEW t \in Threads, NEW b \in Batches, NEW s \in Syncs, Write(t, b, s)
      PROVE  LoggedInv'
  BY <1>3 DEF Write, logs, LoggedInv
<1>4. ASSUME NEW t \in Threads, RoomFound(t) \/ SwitchFails(t)
      PROVE  LoggedInv'
  <2>1. group.updates = <<>>
    BY <1>4, RoomEnds, GroupedLabels, NoGroupYet DEF SeqInv
  <2>2. group'.ok
    <3>1. CASE LeaveQueue(t, <<t>>)
      BY <3>1 DEF LeaveQueue, NoGroup
    <3>2. CASE BuildBatchGroup
      <4>1. writers_ # <<>>
        BY <1>4, RoomQueue
      <4>2. QED
        BY <3>2, <4>1, GroupFilled
    <3>3. QED
      BY <1>4, <3>1, <3>2, RoomEnds
  <2>3. QED
    BY <1>4, <1>b, <2>1, <2>2, RoomEnds DEF LoggedInv
<1>5. ASSUME NEW t \in Threads, SwitchMemTable(t)
      PROVE  LoggedInv'
  <2>1. /\ log' = Append(log, {}) /\ logFiles' = logFiles \cup {mem_ + 1}
        /\ UNCHANGED <<acked, group>>
    BY <1>5, <1>a DEF SwitchMemTable, queue
  <2>2. log'[mem_ + 1] = {} /\ \A n \in 1 .. mem_ : log'[n] = log[n]
    BY <1>a, <2>1, SMT
  <2>3. \A n \in logFiles : n \in 1 .. mem_
    BY LogNumbers
  <2>4. QED
    BY <2>1, <2>2, <2>3 DEF LoggedInv
<1>6. ASSUME NEW t \in Threads, AddRecord(t)
      PROVE  LoggedInv'
  <2>1. /\ log' = [log EXCEPT ![mem_] = @ \cup Range(group.updates)]
        /\ UNCHANGED <<acked, group, logFiles>>
    BY <1>6 DEF AddRecord, queue
  <2>2. \A n \in 1 .. mem_ : log'[n] \subseteq log[n] \cup Range(group.updates)
    BY <1>a, <2>1, SMT
  <2>3. \A n \in logFiles : n \in 1 .. mem_
    BY LogNumbers
  <2>4. QED
    BY <2>1, <2>2, <2>3 DEF LoggedInv
<1>7. ASSUME NEW t \in Threads, AddRecordFails(t)
      PROVE  LoggedInv'
  BY <1>7 DEF AddRecordFails, Fault, Reliable
<1>8. ASSUME NEW t \in Threads, InsertInto(t)
      PROVE  LoggedInv'
  <2>1. /\ group'.updates = group.updates /\ group'.ok = group.ok
        /\ UNCHANGED <<acked, log, logFiles>>
    BY <1>8, <1>a DEF InsertInto, logs
  <2>2. QED
    BY <2>1 DEF LoggedInv
<1>9. ASSUME NEW t \in Threads, WriteEnds(t)
      PROVE  LoggedInv'
  <2>1. acked'.all = acked.all \cup Range(group.updates)
    BY <1>9, Acknowledged DEF LoggedInv
  <2>2. group' = NoGroup /\ UNCHANGED <<log, logFiles>>
    BY <1>9 DEF WriteEnds, LeaveQueue, logs
  <2>3. group'.ok
    BY <2>2 DEF NoGroup
  <2>4. QED
    BY <2>1, <2>2, <2>3 DEF LoggedInv
<1>10. QED
  BY <1>1, <1>2, <1>3, <1>4, <1>5, <1>6, <1>7, <1>8, <1>9, DataSteps DEF WritesData

\* What was visible in a memtable that a reader holds stays there, and nothing
\* that is added to it is visible to the reader.
LEMMA Frozen ==
  ASSUME QueueInv, DataInv, DataInv', SeqInv, NumbersInv, GroupInv, LoggedInv, RefInv', [Next]_vars,
         NEW t \in Threads, view'[t] # NULL, NEW m \in {view'[t].mem, view'[t].imm}, m \in 1 .. mem_,
         NEW q \in Nat, q <= lastSequence, NEW k
  PROVE  Visible(table'[m], k, q) = Visible(table[m], k, q)
<1>a. /\ table \in Seq(SUBSET Entry) /\ Len(table) = mem_ /\ DOMAIN table = 1 .. mem_
      /\ lastSequence \in Nat /\ mem_ \in 1 .. mem_
  BY SMT DEF DataInv
<1>1. ASSUME table' = table \/ Frees, mem_' = mem_
      PROVE  table'[m] = table[m]
  <2>1. t \in Readers(m)'
    BY DEF Readers
  <2>2. Counts(refs_'[m], Holders(m)')
    BY <1>1 DEF RefInv
  <2>3. Holders(m)' # {}
    BY <2>1 DEF Holders
  <2>4. refs_'[m] \in Nat /\ (refs_'[m] > 0 <=> Holders(m)' # {})
    BY <2>2, CountsNone
  <2>5. refs_'[m] # 0
    BY <2>3, <2>4, SMT
  <2>6. QED
    BY <1>1, <1>a, <2>5 DEF Frees
<1>2. CASE Quiet
  BY <1>1, <1>2 DEF Quiet
<1>3. CASE InstallVersion
  BY <1>1, <1>3, Installed
<1>4. ASSUME NEW u \in Threads,
             \/ \E b \in Batches, s \in Syncs : Write(u, b, s)
             \/ AddRecord(u) \/ AddRecordFails(u) \/ WriteEnds(u)
      PROVE  table' = table
  BY <1>4 DEF Write, AddRecord, AddRecordFails, WriteEnds, memory
<1>5. ASSUME NEW u \in Threads, RoomFound(u) \/ SwitchFails(u)
      PROVE  table' = table
  BY <1>5, RoomEnds
<1>6. ASSUME NEW u \in Threads, SwitchMemTable(u)
      PROVE  table'[m] = table[m]
  <2>1. table' = Append(table, {})
    BY <1>6 DEF SwitchMemTable
  <2>2. QED
    BY <1>a, <2>1, SMT
<1>7. ASSUME NEW u \in Threads, InsertInto(u)
      PROVE  Visible(table'[m], k, q) = Visible(table[m], k, q)
  <2> DEFINE x == Head(group.todo)
  <2>1. /\ pc[u] = "w.insert" /\ group.todo # <<>>
        /\ table' = [table EXCEPT ![mem_] = @ \cup {x}]
    BY <1>7 DEF InsertInto
  <2>2. GroupAt(u)
    BY <2>1, GroupedLabels DEF GroupInv
  <2>3. Range(group.todo) \subseteq Range(group.updates)
    <3>1. pc[u] \in {"w.insert", "w.finish"}
      BY <2>1, SMT
    <3>2. Inserting(u)
      BY <2>2, <3>1 DEF GroupAt, LoggedInv
    <3>3. QED
      BY <3>2 DEF Inserting
  <2>4. x \in Range(group.todo)
    <3>1. group.todo \in Seq(Entry)
      BY DEF DataInv
    <3>2. 1 \in 1 .. Len(group.todo) /\ x = group.todo[1]
      BY <2>1, <3>1, SMT
    <3>3. QED
      BY <3>1, <3>2, RangeHas
  <2>5. x.seq \in Nat /\ lastSequence < x.seq
    BY <2>3, <2>4, GroupIsNew
  <2> HIDE DEF x
  <2>6. ~(x.seq <= q)
    BY <1>a, <2>5, SMT
  <2>7. table'[m] = table[m] \/ table'[m] = table[m] \cup {x}
    BY <1>a, <2>1, SMT
  <2>8. QED
    BY <2>6, <2>7 DEF Visible
<1>8. QED
  BY <1>2, <1>3, <1>4, <1>5, <1>6, <1>7, DataSteps DEF WritesData

\* What a step does to a view: it stays, or a reader starts or ends.
StartsRead(t) ==
  /\ pc[t] = "idle" /\ ~shutting_down_ /\ view' = [view EXCEPT ![t] = Now]
  /\ UNCHANGED <<table, lastSequence, writers_, batch, acked, ret>>

EndsRead(t) ==
  /\ pc[t] \in Holding
  /\ view' = [view EXCEPT ![t] = NULL] /\ ret' = [ret EXCEPT ![t] = NULL]
  /\ UNCHANGED <<lastSequence, writers_, batch, acked>>

LEMMA ReaderCalls ==
  ASSUME NEW t \in Threads
  PROVE  /\ Get(t) \/ NewIterator(t) => StartsRead(t)
         /\ (\E x \in BOOLEAN : GetEnds(t, x)) \/ CleanupIteratorState(t) => EndsRead(t)
<1>1. "g.end" \in Holding /\ "i.open" \in Holding
  BY SMT DEF Holding
<1>2. QED
  BY <1>1 DEF Get, NewIterator, StartReader, StartsRead, GetEnds, CleanupIteratorState,
     EndReader, EndsRead, queue, versions

KeepsViews ==
  \A t \in Threads : \/ view[t] = NULL /\ view'[t] = NULL
                     \/ view[t] # NULL /\ view'[t] # NULL /\ SameView(view[t], view'[t])

LEMMA ViewSteps ==
  ASSUME QueueInv, RefInv, RefInv', [Next]_vars
  PROVE  KeepsViews \/ \E t \in Threads : StartsRead(t) \/ EndsRead(t)
<1>1. \A t \in Threads : view[t] # NULL => view[t] \in View
  BY DEF RefInv
<1>2. CASE view' = view
  BY <1>2 DEF KeepsViews, SameView
<1>3. ASSUME NEW t \in Threads, NEW k \in Keys, GetReads(t, k)
      PROVE  KeepsViews
  <2>1. /\ pc[t] = "g.read" /\ pc' = [pc EXCEPT ![t] = "g.end"]
        /\ \E x : view' = [view EXCEPT ![t].searched = x]
    BY <1>3 DEF GetReads, Goto
  <2>2. "g.read" \in Holding /\ "g.end" \in Holding
    BY SMT DEF Holding
  <2>3. view \in [Threads -> View \cup {NULL}] /\ pc \in [Threads -> Labels]
    BY DEF RefInv, QueueInv
  <2>4. view[t] \in View /\ view'[t] \in View
    BY <2>1, <2>2, <2>3 DEF RefInv
  <2>5. view[t] # NULL /\ view'[t] # NULL
    BY <2>4, ViewAssumption
  <2>6. PICK x : view' = [view EXCEPT ![t] = [view[t] EXCEPT !.searched = x]]
    BY <2>1
  <2>7. \A u \in Threads : u # t => view'[u] = view[u]
    BY <2>3, <2>6
  <2>8. SameView(view[t], view'[t])
    <3>1. view'[t] = [view[t] EXCEPT !.searched = x]
      BY <2>3, <2>6
    <3>2. QED
      BY <2>4, <3>1, SMT DEF SameView, View
  <2>9. QED
    BY <2>5, <2>7, <2>8 DEF KeepsViews, SameView
<1>4. CASE InstallVersion
  <2>1. view' = [t \in Threads |-> IF view[t] = NULL THEN NULL
                                   ELSE [view[t] EXCEPT !.isCurrent = FALSE]]
    BY <1>4 DEF InstallVersion
  <2>2. ASSUME NEW v \in View
        PROVE  SameView(v, [v EXCEPT !.isCurrent = FALSE]) /\ [v EXCEPT !.isCurrent = FALSE] \in View
    BY DEF SameView, View
  <2>3. QED
    BY <1>1, <2>1, <2>2, ViewAssumption DEF KeepsViews
<1>5. ASSUME NEW t \in Threads, SwitchMemTable(t) \/ Close(t) \/ CloseWakes(t)
      PROVE  view' = view
  BY <1>5 DEF SwitchMemTable, WriterFrame, Close, CloseWakes, CloseFrame, readers
<1>6. ASSUME NEW t \in Threads, ReaderStep(t)
      PROVE  KeepsViews \/ EndsRead(t)
  BY <1>3, <1>6, ReaderCalls DEF ReaderStep
<1>7. CASE Still
  BY <1>2, <1>7 DEF Still
<1>8. QED
  BY <1>2, <1>4, <1>5, <1>6, <1>7, RefSteps, ReaderCalls
==============================================================================
