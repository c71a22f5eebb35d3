--------------------------- MODULE StructureProofs ---------------------------
(* What the structures below the write path promise, each for every value of  *)
(* the constants: a LOCK file has one holder at a time as long as no process  *)
(* closes it under a holder of its own, the background thread runs what       *)
(* Schedule is given once and in order, MmapLimiter hands out no more slots   *)
(* than it has and loses none, the regions of an Arena never meet, and a      *)
(* reader of a skip list follows no link that was not stored and moves over   *)
(* no key it is sure to see.                                                  *)
EXTENDS Arena, FileLock, BackgroundQueue, MmapLimiter, SkipList, FiniteSetTheorems, TLAPS

WF == INSTANCE WellFoundedInduction

-------------------------------------------------------------------------------
\* LockFile and UnlockFile.

Places == {"out", "opened", "inserted", "held", "unlocked", "removed"}

\* A process has one thread at a time between locks_.Insert and locks_.Remove,
\* and one that holds the lock has the kernel's lock unless a close gave it away.
InTable == {"inserted", "held", "unlocked"}
LockInv ==
    /\ at \in [LockCallers -> Places]
    /\ givenAway \in BOOLEAN
    /\ \A t \in LockCallers : at[t] \in InTable => ProcessOf[t] \in locks_
    /\ \A t, u \in LockCallers :
           at[t] \in InTable /\ at[u] \in InTable /\ ProcessOf[t] = ProcessOf[u] => t = u
    /\ ~givenAway => \A t \in LockCallers : at[t] = "held" => owner = ProcessOf[t]

\* One step of LockFile, of UnlockFile or of a process that dies.
LEMMA LockStep == LockInv /\ [LockNext]_lockVars => LockInv'
<1> SUFFICES ASSUME LockInv, [LockNext]_lockVars PROVE LockInv'
  OBVIOUS
<1> USE DEF LockInv, Places, InTable
<1>a. ASSUME NEW t \in LockCallers, Closes(t), at[t] # "held"
      PROVE  /\ givenAway' \in BOOLEAN
             /\ ~givenAway' => \A u \in LockCallers : at[u] = "held" => owner' = ProcessOf[u]
  <2>1. givenAway' \in BOOLEAN
    BY <1>a, Zenon DEF Closes
  <2>2. ~givenAway' => ~givenAway /\ \A u \in LockCallers \ {t} :
                                       at[u] = "held" => ProcessOf[u] # ProcessOf[t]
    BY <1>a, Zenon DEF Closes
  <2>3. QED
    BY <1>a, <2>1, <2>2 DEF Closes, OwnerAfterClose
<1>1. CASE UNCHANGED lockVars
  BY <1>1 DEF lockVars
<1>2. ASSUME NEW t \in LockCallers, OpenLockFile(t) PROVE LockInv'
  BY <1>2 DEF OpenLockFile, Goes
<1>3. ASSUME NEW t \in LockCallers, InsertLock(t) PROVE LockInv'
  <2>1. CASE ProcessOf[t] \in locks_
    <3>1. at[t] = "opened" /\ at' = [at EXCEPT ![t] = "out"] /\ locks_' = locks_ /\ Closes(t)
      BY <1>3, <2>1 DEF InsertLock, Goes
    <3>2. QED
      BY <1>a, <3>1
  <2>2. CASE ProcessOf[t] \notin locks_
    BY <1>3, <2>2 DEF InsertLock, Goes
  <2>3. QED
    BY <2>1, <2>2
<1>4. ASSUME NEW t \in LockCallers, Lock(t) PROVE LockInv'
  <2>1. \A u \in LockCallers : ProcessOf[u] # NoProcess
    BY LockAssumption
  <2>2. QED
    BY <2>1, <1>4 DEF Lock, Goes
<1>5. ASSUME NEW t \in LockCallers, Unlock(t) PROVE LockInv'
  BY <1>5 DEF Unlock, Goes, OwnerAfterClose
<1>6. ASSUME NEW t \in LockCallers, RemoveLock(t) PROVE LockInv'
  BY <1>6 DEF RemoveLock, Goes
<1>7. ASSUME NEW t \in LockCallers, CloseLockFile(t) PROVE LockInv'
  <2>1. at[t] = "removed" /\ at' = [at EXCEPT ![t] = "out"] /\ locks_' = locks_ /\ Closes(t)
    BY <1>7 DEF CloseLockFile, Goes
  <2>2. QED
    BY <1>a, <2>1
<1>8. ASSUME NEW p \in Processes, ProcessDies(p) PROVE LockInv'
  BY <1>8 DEF ProcessDies, OwnerAfterClose
<1>9. QED
  BY <1>1, <1>2, <1>3, <1>4, <1>5, <1>6, <1>7, <1>8 DEF LockNext

\* LockFile and UnlockFile, for any processes, threads and deaths: two threads of
\* one process never hold the lock both, however their calls interleave, and as
\* long as no process has closed a descriptor of the file while one of its own
\* threads held the lock, at most one thread of all processes holds it.
THEOREM LockHasOneHolder == LockSpec => []LockExcludes
<1>1. LockInit => LockInv
  BY Zenon DEF LockInit, LockInv, Places, InTable
<1>2. LockInv /\ [LockNext]_lockVars => LockInv'
  BY LockStep
<1>3. LockInv => LockExcludes
  BY DEF LockInv, LockExcludes, OneHolder, Holders, InTable
<1> HIDE DEF LockInv
<1>4. QED
  BY <1>1, <1>2, <1>3, PTL DEF LockSpec

-------------------------------------------------------------------------------
\* Schedule and BGThread.

QueueInv ==
    /\ scheduled \in Nat
    /\ queue_ \in Seq(Nat) /\ ran \in Seq(Nat)
    /\ bgthread.at = "running" => bgthread.item \in Nat
    /\ RunsInOrder

\* The numbers up to n with n + 1 behind them are the numbers up to n + 1.
LEMMA OneMore ==
    ASSUME NEW n \in Nat
    PROVE  Append([i \in 1 .. n |-> i], n + 1) = [i \in 1 .. n + 1 |-> i]
<1>1. [i \in 1 .. n |-> i] \in Seq(Nat) /\ Len([i \in 1 .. n |-> i]) = n
  OBVIOUS
<1>2. QED
  BY <1>1

\* Concatenation is associative.
LEMMA ConcatAssociates ==
    ASSUME NEW s \in Seq(Nat), NEW t \in Seq(Nat), NEW u \in Seq(Nat)
    PROVE  (s \o t) \o u = s \o (t \o u)
  BY SMTT(30), SMTT(30)

\* What runs is a sequence of at most one number.
LEMMA RunningSeq == ASSUME QueueInv PROVE Running \in Seq(Nat)
  BY DEF QueueInv, Running

\* One step of Schedule or of the background thread.
LEMMA QueueStep == QueueInv /\ [QueueNext]_queueVars => QueueInv'
<1> SUFFICES ASSUME QueueInv, [QueueNext]_queueVars PROVE QueueInv'
  OBVIOUS
<1>0. /\ scheduled \in Nat /\ queue_ \in Seq(Nat) /\ ran \in Seq(Nat)
      /\ Running \in Seq(Nat) /\ ran \o Running \in Seq(Nat)
      /\ bgthread.at = "running" => bgthread.item \in Nat
      /\ (ran \o Running) \o queue_ = [i \in 1 .. scheduled |-> i]
  BY RunningSeq DEF QueueInv, RunsInOrder
<1>1. CASE UNCHANGED queueVars
  BY <1>1, Zenon DEF queueVars, QueueInv, RunsInOrder, Running
<1>2. CASE Schedule
  <2>1. /\ scheduled' = scheduled + 1 /\ queue_' = Append(queue_, scheduled + 1)
        /\ ran' = ran /\ Running' = Running
    BY <1>2 DEF Schedule, Running
  <2>2. (ran \o Running) \o Append(queue_, scheduled + 1)
            = Append((ran \o Running) \o queue_, scheduled + 1)
    <3> DEFINE s == ran \o Running
    <3>1. s \in Seq(Nat)
      BY <1>0
    <3> HIDE DEF s
    <3>2. s \o Append(queue_, scheduled + 1) = Append(s \o queue_, scheduled + 1)
      BY <3>1, <1>0, SMTT(30), SMTT(30)
    <3>3. QED
      BY <3>2 DEF s
  <2>3. RunsInOrder'
    BY <2>1, <2>2, <1>0, OneMore, Zenon DEF RunsInOrder
  <2>4. (bgthread.at = "running" => bgthread.item \in Nat)'
    BY <1>2, <1>0 DEF Schedule
  <2>5. QED
    BY <2>1, <2>3, <2>4, <1>0 DEF QueueInv
<1>3. CASE BGThread
  <2>1. ran' = ran /\ scheduled' = scheduled /\ Running = <<>>
    BY <1>3 DEF BGThread, Running
  <2>2. CASE queue_ = <<>>
    BY <1>3, <2>1, <2>2, <1>0 DEF BGThread, Running, QueueInv, RunsInOrder
  <2>3. CASE queue_ # <<>>
    <3>1. queue_' = Tail(queue_) /\ Running' = <<Head(queue_)>> /\ Head(queue_) \in Nat
          /\ Tail(queue_) \in Seq(Nat) /\ bgthread'.item = Head(queue_)
      BY <1>3, <2>3, <1>0 DEF BGThread, Running
    <3>2. <<Head(queue_)>> \o Tail(queue_) = queue_
      BY <2>3, <1>0
    <3>3. (ran \o <<Head(queue_)>>) \o Tail(queue_) = ran \o (<<Head(queue_)>> \o Tail(queue_))
      <4> DEFINE h == <<Head(queue_)>>
                 r == Tail(queue_)
      <4>1. h \in Seq(Nat) /\ r \in Seq(Nat) /\ ran \in Seq(Nat)
        BY <3>1, <1>0
      <4> HIDE DEF h, r
      <4>2. (ran \o h) \o r = ran \o (h \o r)
        BY <4>1, ConcatAssociates, SMTT(30)
      <4>3. QED
        BY <4>2, Zenon DEF h, r
    <3>4. ran \o Running = ran
      BY <2>1, <1>0
    <3>5. RunsInOrder'
      BY <3>1, <3>2, <3>3, <3>4, <2>1, <1>0, Zenon DEF RunsInOrder
    <3>6. QED
      BY <3>1, <3>5, <2>1, <1>0 DEF QueueInv
  <2>4. QED
    BY <2>2, <2>3
<1>4. CASE Wakes \/ WakesSpuriously
  <2>1. /\ UNCHANGED <<scheduled, queue_, ran>> /\ bgthread'.at = "looping"
        /\ Running = <<>> /\ Running' = <<>>
    BY <1>4 DEF Wakes, WakesSpuriously, Running
  <2>2. RunsInOrder'
    BY <2>1, <1>0 DEF RunsInOrder
  <2>3. QED
    BY <2>1, <2>2, <1>0 DEF QueueInv
<1>5. CASE FunctionReturns
  <2>1. /\ ran' = Append(ran, bgthread.item) /\ Running = <<bgthread.item>>
        /\ bgthread.item \in Nat /\ Running' = <<>> /\ bgthread'.at = "looping"
        /\ scheduled' = scheduled /\ queue_' = queue_
    BY <1>5, <1>0 DEF FunctionReturns, Running
  <2>2. ran' \in Seq(Nat) /\ ran' = ran \o <<bgthread.item>>
    BY <2>1, <1>0
  <2>3. ran' \o <<>> = ran'
    BY <2>2
  <2>4. RunsInOrder'
    BY <2>1, <2>2, <2>3, <1>0, Zenon DEF RunsInOrder
  <2>5. QED
    BY <2>1, <2>2, <2>4, <1>0 DEF QueueInv
<1>6. QED
  BY <1>1, <1>2, <1>3, <1>4, <1>5 DEF QueueNext

\* Every call that Schedule is given is made at most once, one at a time and in
\* the order of the calls, whatever signals and wake-ups happen.
THEOREM QueueRunsInOrder == QueueSpec => []RunsInOrder
<1>1. QueueInit => QueueInv
  <2>1. SUFFICES ASSUME QueueInit PROVE QueueInv
    OBVIOUS
  <2>2. [i \in 1 .. 0 |-> i] = <<>>
    OBVIOUS
  <2>3. Running = <<>>
    BY <2>1 DEF QueueInit, Running
  <2>4. <<>> \o <<>> \o <<>> = <<>>
    OBVIOUS
  <2>5. QED
    BY <2>1, <2>2, <2>3, <2>4 DEF QueueInit, QueueInv, RunsInOrder
<1>2. QueueInv /\ [QueueNext]_queueVars => QueueInv'
  BY QueueStep
<1>3. QueueInv => RunsInOrder
  BY DEF QueueInv
<1> HIDE DEF QueueInv
<1>4. QED
  BY <1>1, <1>2, <1>3, PTL DEF QueueSpec

-------------------------------------------------------------------------------
\* MmapLimiter.

FileStates == {"none", "acquiring", "slot", "mapped", "pread"}

LimiterInv ==
    /\ allowed_ \in Nat
    /\ file \in [FileReaders -> FileStates]
    /\ SlotsKept

\* Taking a slot adds one thread to WithSlot.
LEMMA SlotTaken ==
    ASSUME LimiterInv, NEW r \in FileReaders, NEW s \in {"slot", "mapped"},
           r \notin WithSlot, Becomes(r, s)
    PROVE  /\ Cardinality(WithSlot') = Cardinality(WithSlot) + 1
           /\ Cardinality(WithSlot) \in Nat
<1>1. WithSlot' = WithSlot \cup {r}
  BY DEF LimiterInv, WithSlot, Becomes
<1>2. IsFiniteSet(WithSlot)
  BY LimiterAssumption, FS_Subset DEF WithSlot
<1>3. QED
  BY <1>1, <1>2, FS_AddElement, FS_CardinalityType

\* Giving a slot back removes its thread from WithSlot.
LEMMA SlotReturned ==
    ASSUME LimiterInv, NEW r \in FileReaders, r \in WithSlot,
           Becomes(r, "none")
    PROVE  /\ Cardinality(WithSlot') = Cardinality(WithSlot) - 1
           /\ Cardinality(WithSlot) \in Nat
<1>1. WithSlot' = WithSlot \ {r}
  BY DEF LimiterInv, WithSlot, Becomes
<1>2. IsFiniteSet(WithSlot)
  BY LimiterAssumption, FS_Subset DEF WithSlot
<1>3. QED
  BY <1>1, <1>2, FS_RemoveElement, FS_CardinalityType

\* A step that moves a thread between states without a slot, or between states
\* with one, leaves WithSlot alone.
LEMMA SlotsUntouched ==
    ASSUME LimiterInv, NEW r \in FileReaders, NEW s \in FileStates,
           r \in WithSlot <=> s \in {"slot", "mapped"}, Becomes(r, s)
    PROVE  WithSlot' = WithSlot
  BY DEF LimiterInv, WithSlot, Becomes

\* One step of Acquire, Release or a file's construction or destruction keeps
\* the account of the slots.
LEMMA LimiterStep ==
    ASSUME LimiterInv, [LimiterNext]_limiterVars
    PROVE  LimiterInv'
<1>1. CASE UNCHANGED limiterVars
  BY <1>1 DEF limiterVars, LimiterInv, SlotsKept, WithSlot
<1>2. ASSUME NEW r \in FileReaders, TryAcquire(r)
      PROVE  LimiterInv'
  <2>1. PICK s \in {"pread", "acquiring"} : Becomes(r, s)
    BY <1>2 DEF TryAcquire
  <2>2. WithSlot' = WithSlot
    BY <2>1, <1>2, SlotsUntouched DEF TryAcquire, WithSlot, FileStates
  <2>3. QED
    BY <2>1, <2>2, <1>2 DEF TryAcquire, LimiterInv, SlotsKept, Becomes, FileStates
<1>3. ASSUME NEW r \in FileReaders, Acquire(r)
      PROVE  LimiterInv'
  <2>1. CASE allowed_ <= 0
    <3>1. Becomes(r, "pread")
      BY <1>3, <2>1 DEF Acquire
    <3>2. WithSlot' = WithSlot
      BY <3>1, <1>3, SlotsUntouched DEF Acquire, WithSlot, FileStates
    <3>3. QED
      BY <3>1, <3>2, <2>1, <1>3 DEF Acquire, LimiterInv, SlotsKept, Becomes, FileStates
  <2>2. CASE ~(allowed_ <= 0)
    <3>1. Becomes(r, "slot") /\ r \notin WithSlot /\ allowed_' = allowed_ - 1
      BY <1>3, <2>2 DEF Acquire, WithSlot
    <3>2. /\ Cardinality(WithSlot') = Cardinality(WithSlot) + 1
          /\ Cardinality(WithSlot) \in Nat
      BY <3>1, SlotTaken
    <3>3. QED
      BY <3>1, <3>2, <2>2, LimiterAssumption
      DEF LimiterInv, SlotsKept, Becomes, FileStates
  <2>3. QED
    BY <2>1, <2>2
<1>4. ASSUME NEW r \in FileReaders, Map(r)
      PROVE  LimiterInv'
  <2>1. WithSlot' = WithSlot
    BY <1>4, SlotsUntouched DEF Map, WithSlot, FileStates
  <2>2. QED
    BY <2>1, <1>4 DEF Map, LimiterInv, SlotsKept, Becomes, FileStates
<1>5. ASSUME NEW r \in FileReaders, MapFails(r)
      PROVE  LimiterInv'
  <2>1. /\ Cardinality(WithSlot') = Cardinality(WithSlot) - 1
        /\ Cardinality(WithSlot) \in Nat
    BY <1>5, SlotReturned DEF MapFails, WithSlot
  <2>2. QED
    BY <2>1, <1>5, LimiterAssumption
    DEF MapFails, LimiterInv, SlotsKept, Becomes, FileStates
<1>6. ASSUME NEW r \in FileReaders, CloseFile(r)
      PROVE  LimiterInv'
  <2>1. CASE file[r] = "mapped"
    <3>1. /\ Cardinality(WithSlot') = Cardinality(WithSlot) - 1
          /\ Cardinality(WithSlot) \in Nat
      BY <1>6, <2>1, SlotReturned DEF CloseFile, WithSlot
    <3>2. QED
      BY <3>1, <2>1, <1>6, LimiterAssumption
      DEF CloseFile, LimiterInv, SlotsKept, Becomes, FileStates
  <2>2. CASE file[r] = "pread"
    <3>1. WithSlot' = WithSlot
      BY <1>6, <2>2, SlotsUntouched DEF CloseFile, WithSlot, FileStates
    <3>2. QED
      BY <3>1, <2>2, <1>6 DEF CloseFile, LimiterInv, SlotsKept, Becomes, FileStates
  <2>3. QED
    BY <1>6, <2>1, <2>2 DEF CloseFile
<1>7. QED
  BY <1>1, <1>2, <1>3, <1>4, <1>5, <1>6 DEF LimiterNext

\* MmapLimiter never has fewer than no slots left, and those left with those in
\* use are always the limit, whatever threads open, fail to map and close files.
THEOREM LimiterKeepsSlots == LimiterSpec => []SlotsKept
<1>1. LimiterInit => LimiterInv
  <2>1. SUFFICES ASSUME LimiterInit PROVE LimiterInv
    OBVIOUS
  <2>2. WithSlot = {}
    BY <2>1 DEF LimiterInit, WithSlot
  <2>3. Cardinality(WithSlot) = 0
    BY <2>2, FS_EmptySet
  <2>4. QED
    BY <2>1, <2>3, LimiterAssumption DEF LimiterInit, LimiterInv, SlotsKept, FileStates
<1>2. LimiterInv /\ [LimiterNext]_limiterVars => LimiterInv'
  BY LimiterStep
<1>3. LimiterInv => SlotsKept
  BY DEF LimiterInv
<1> HIDE DEF LimiterInv
<1>4. QED
  BY <1>1, <1>2, <1>3, PTL DEF LimiterSpec

-------------------------------------------------------------------------------
\* Arena.

\* The blocks are numbered from 1; alloc_ptr_ and alloc_bytes_remaining_ split
\* the current block, and nothing handed out of it lies after alloc_ptr_.
Split ==
    /\ \E n \in Nat : Blocks = 1 .. n
    /\ \A b \in Blocks : blocks_[b] \in Nat
    /\ block \in Blocks \cup {0}
    /\ alloc_ptr_ \in Nat /\ alloc_bytes_remaining_ \in Nat
    /\ IF block = 0 THEN alloc_bytes_remaining_ = 0
       ELSE alloc_ptr_ + alloc_bytes_remaining_ = blocks_[block]

Handed ==
    /\ \A r \in regions : r.from \in Nat /\ r.to \in Nat /\ r.block \in Nat
    /\ \A r \in regions : r.block = block => r.to <= alloc_ptr_

ArenaInv == Split /\ Handed /\ RegionsApart

\* A multiple of the alignment is aligned.
LEMMA MultipleAligned ==
    ASSUME NEW a \in Nat \ {0}, NEW k \in Nat
    PROVE  (a * k) % a = 0
  BY SMTT(30)

\* The slop of AllocateAligned takes any pointer up to the next multiple.
LEMMA SlopAligns ==
    ASSUME NEW a \in Nat \ {0}, NEW p \in Nat
    PROVE  (p + (a - (p % a))) % a = 0
<1> DEFINE q == p \div a
<1>1. p = a * q + (p % a) /\ q \in Nat /\ p % a \in 0 .. a - 1
  BY SMTT(30)
<1>2. p + (a - (p % a)) = a * q + a
  <2>1. p % a \in Int /\ a * q \in Int
    BY <1>1
  <2> HIDE DEF q
  <2>2. QED
    BY <2>1, <1>1
<1>3. a * q + a = a * (q + 1)
  <2> HIDE DEF q
  <2>1. QED
    BY <1>1, SMTT(30)
<1>4. (a * (q + 1)) % a = 0
  <2>1. q + 1 \in Nat
    BY <1>1
  <2> HIDE DEF q
  <2>2. QED
    BY <2>1, MultipleAligned
<1>5. QED
  BY <1>2, <1>3, <1>4, Zenon

\* Slop is a gap, and alloc_ptr_ behind it is aligned.
LEMMA SlopFacts ==
    ASSUME ArenaInv
    PROVE  Slop \in Nat /\ (alloc_ptr_ + Slop) % Align = 0
<1>1. alloc_ptr_ \in Nat /\ Align \in Nat \ {0}
  BY ArenaAssumption DEF ArenaInv, Split
<1>2. CASE alloc_ptr_ % Align = 0
  BY <1>1, <1>2 DEF Slop
<1>3. CASE alloc_ptr_ % Align # 0
  <2>1. Slop = Align - (alloc_ptr_ % Align)
    BY <1>3 DEF Slop
  <2>2. (alloc_ptr_ + (Align - (alloc_ptr_ % Align))) % Align = 0
    BY <1>1, SlopAligns
  <2>3. alloc_ptr_ % Align \in 0 .. Align - 1
    BY <1>1, SMTT(30)
  <2>4. Slop \in Nat
    BY <2>1, <2>3, <1>1
  <2>5. QED
    BY <2>1, <2>2, <2>4, Zenon
<1>4. QED
  BY <1>2, <1>3

\* The block that AllocateNewBlock adds is a new one.
LEMMA NewBlockIsNew ==
    ASSUME ArenaInv
    PROVE  /\ NewBlock \in Nat \ {0} /\ NewBlock \notin Blocks
           /\ Blocks \cup {NewBlock} = 1 .. NewBlock
<1>1. PICK n \in Nat : Blocks = 1 .. n
  BY DEF ArenaInv, Split
<1> DEFINE m == CHOOSE b \in Blocks \cup {0} : \A c \in Blocks : c <= b
<1>2. \E b \in Blocks \cup {0} : \A c \in Blocks : c <= b
  <2>1. CASE n = 0
    BY <1>1, <2>1
  <2>2. CASE n # 0
    <3>1. n \in Blocks /\ \A c \in Blocks : c <= n
      BY <1>1, <2>2
    <3>2. QED
      BY <3>1
  <2>3. QED
    BY <2>1, <2>2
<1>3. m \in Blocks \cup {0} /\ \A c \in Blocks : c <= m
  BY <1>2
<1>4. m = n
  <2> HIDE DEF m
  <2>1. QED
    BY <1>1, <1>3
<1>5. NewBlock = 1 + n
  BY <1>4, Zenon DEF NewBlock
<1>6. QED
  BY <1>1, <1>5

\* A region at the start of a new block touches no other, whether the block
\* becomes the current one or not.
LEMMA FallbackKeeps ==
    ASSUME ArenaInv, NEW bytes \in ArenaSizes, NEW aligned \in BOOLEAN,
           AllocateFallback(bytes, aligned)
    PROVE  ArenaInv'
<1> DEFINE b == NewBlock
           r == Region(b, 0, bytes, aligned)
           size == IF bytes > kArenaBlock \div 4 THEN bytes ELSE kArenaBlock
<1>1. /\ b \in Nat \ {0} /\ b \notin Blocks /\ Blocks \cup {b} = 1 .. b
      /\ \A c \in Blocks : c \in Nat \ {0}
  <2>1. PICK n \in Nat : Blocks = 1 .. n
    BY DEF ArenaInv, Split
  <2>2. QED
    BY <2>1, NewBlockIsNew
<1>2. bytes \in Nat \ {0} /\ kArenaBlock \in Nat \ {0} /\ Align \in Nat \ {0}
  BY ArenaAssumption
<1>3. size \in Nat /\ bytes <= size
  <2>1. kArenaBlock \div 4 <= kArenaBlock
    BY <1>2
  <2>2. QED
    BY <2>1, <1>2
<1>4. blocks_' = [c \in Blocks \cup {b} |-> IF c = b THEN size ELSE blocks_[c]]
  BY DEF AllocateFallback, WithBlock
<1>5. Blocks' = Blocks \cup {b} /\ blocks_'[b] = size /\ \A c \in Blocks : blocks_'[c] = blocks_[c]
  BY <1>4, <1>1 DEF Blocks
<1>6. regions' = regions \cup {r}
  BY DEF AllocateFallback
<1>7. r.block = b /\ r.from = 0 /\ r.to = bytes /\ r.aligned = aligned
  BY <1>2 DEF Region
<1>8. \/ UNCHANGED <<block, alloc_ptr_, alloc_bytes_remaining_>>
      \/ /\ block' = b /\ alloc_ptr_' = bytes
         /\ alloc_bytes_remaining_' = kArenaBlock - bytes /\ size = kArenaBlock
  BY DEF AllocateFallback
<1>9. \A s \in regions : s.block \in Blocks /\ s.block # b
  BY <1>1 DEF ArenaInv, RegionsApart
<1> HIDE DEF b, r, size
<1>10. Split'
  <2>1. (\E n \in Nat : Blocks = 1 .. n)' /\ (\A c \in Blocks : blocks_[c] \in Nat)'
    BY <1>1, <1>3, <1>5 DEF ArenaInv, Split
  <2>2. CASE UNCHANGED <<block, alloc_ptr_, alloc_bytes_remaining_>>
    BY <2>1, <2>2, <1>1, <1>5 DEF ArenaInv, Split
  <2>3. CASE /\ block' = b /\ alloc_ptr_' = bytes
             /\ alloc_bytes_remaining_' = kArenaBlock - bytes /\ size = kArenaBlock
    BY <2>1, <2>3, <1>1, <1>2, <1>3, <1>5 DEF ArenaInv, Split
  <2>4. QED
    BY <1>8, <2>2, <2>3
<1>11. Handed'
  <2>1. (\A s \in regions : s.from \in Nat /\ s.to \in Nat /\ s.block \in Nat)'
    BY <1>1, <1>2, <1>6, <1>7 DEF ArenaInv, Handed
  <2>2. CASE UNCHANGED <<block, alloc_ptr_, alloc_bytes_remaining_>>
    BY <2>1, <2>2, <1>1, <1>6, <1>7 DEF ArenaInv, Handed, Split
  <2>3. CASE block' = b /\ alloc_ptr_' = bytes
    BY <2>1, <2>3, <1>2, <1>6, <1>7, <1>9 DEF ArenaInv, Handed
  <2>4. QED
    BY <1>8, <2>2, <2>3
<1>12. RegionsApart'
  <2>1. (\A s \in regions : /\ s.block \in Blocks
                            /\ 0 <= s.from /\ s.from < s.to /\ s.to <= blocks_[s.block]
                            /\ s.aligned => s.from % Align = 0)'
    <3>1. 0 % Align = 0
      BY <1>2
    <3>2. QED
      BY <3>1, <1>2, <1>3, <1>5, <1>6, <1>7 DEF ArenaInv, RegionsApart
  <2>2. (\A s, t \in regions :
             s = t \/ s.block # t.block \/ s.to <= t.from \/ t.to <= s.from)'
    BY <1>6, <1>7, <1>9 DEF ArenaInv, RegionsApart
  <2>3. QED
    BY <2>1, <2>2 DEF RegionsApart
<1>13. QED
  BY <1>10, <1>11, <1>12 DEF ArenaInv

\* A region behind alloc_ptr_ touches nothing that was handed out before.
LEMMA CarveKeeps ==
    ASSUME ArenaInv, NEW bytes \in ArenaSizes, NEW slop \in Nat, NEW aligned \in BOOLEAN,
           slop + bytes <= alloc_bytes_remaining_,
           aligned => (alloc_ptr_ + slop) % Align = 0,
           Carve(bytes, slop, aligned)
    PROVE  ArenaInv'
<1> DEFINE r == Region(block, alloc_ptr_ + slop, bytes, aligned)
<1>1. bytes \in Nat \ {0} /\ alloc_ptr_ \in Nat /\ alloc_bytes_remaining_ \in Nat
  BY ArenaAssumption DEF ArenaInv, Split
<1>2. block \in Blocks /\ block \in Nat /\ block # 0
      /\ alloc_ptr_ + alloc_bytes_remaining_ = blocks_[block]
  <2>1. block # 0
    BY <1>1 DEF ArenaInv, Split
  <2>2. PICK n \in Nat : Blocks = 1 .. n
    BY DEF ArenaInv, Split
  <2>3. QED
    BY <2>1, <2>2 DEF ArenaInv, Split
<1>3. /\ r.block = block /\ r.from = alloc_ptr_ + slop
      /\ r.to = alloc_ptr_ + slop + bytes /\ r.aligned = aligned
  BY DEF Region
<1>4. /\ regions' = regions \cup {r}
      /\ alloc_ptr_' = alloc_ptr_ + slop + bytes
      /\ alloc_bytes_remaining_' = alloc_bytes_remaining_ - (slop + bytes)
      /\ blocks_' = blocks_ /\ block' = block /\ Blocks' = Blocks
  BY DEF Carve, Blocks
<1> HIDE DEF r
<1>5. Split'
  BY <1>1, <1>2, <1>4 DEF ArenaInv, Split
<1>6. Handed'
  BY <1>1, <1>2, <1>3, <1>4 DEF ArenaInv, Handed
<1>7. RegionsApart'
  <2>1. (\A s \in regions : /\ s.block \in Blocks
                            /\ 0 <= s.from /\ s.from < s.to /\ s.to <= blocks_[s.block]
                            /\ s.aligned => s.from % Align = 0)'
    <3>1. ASSUME NEW s \in regions
          PROVE  /\ s.block \in Blocks'
                 /\ 0 <= s.from /\ s.from < s.to /\ s.to <= blocks_'[s.block]
                 /\ s.aligned => s.from % Align = 0
      BY <3>1, <1>4 DEF ArenaInv, RegionsApart
    <3>2. /\ r.block \in Blocks'
          /\ 0 <= r.from /\ r.from < r.to /\ r.to <= blocks_'[r.block]
      BY <1>1, <1>2, <1>3, <1>4
    <3>3. r.aligned => r.from % Align = 0
      BY <1>3, Zenon
    <3>4. QED
      BY <3>1, <3>2, <3>3, <1>4
  <2>2. (\A s, t \in regions :
             s = t \/ s.block # t.block \/ s.to <= t.from \/ t.to <= s.from)'
    <3>1. \A s \in regions : s.block # r.block \/ s.to <= r.from
      BY <1>1, <1>3 DEF ArenaInv, Handed
    <3>2. QED
      BY <3>1, <1>4 DEF ArenaInv, RegionsApart
  <2>3. QED
    BY <2>1, <2>2 DEF RegionsApart
<1>8. QED
  BY <1>5, <1>6, <1>7 DEF ArenaInv

\* Allocate and AllocateAligned never hand out a byte twice or one outside a
\* block, and what AllocateAligned returns is aligned.
THEOREM ArenaKeepsRegionsApart == ArenaSpec => []RegionsApart
<1>1. ArenaInit => ArenaInv
  <2>1. SUFFICES ASSUME ArenaInit PROVE ArenaInv
    OBVIOUS
  <2>2. Blocks = {} /\ regions = {}
    BY <2>1 DEF ArenaInit, Blocks
  <2>3. Blocks = 1 .. 0
    BY <2>2
  <2>4. QED
    BY <2>1, <2>2, <2>3 DEF ArenaInit, ArenaInv, Split, Handed, RegionsApart
<1>2. ArenaInv /\ [ArenaNext]_arenaVars => ArenaInv'
  <2>1. SUFFICES ASSUME ArenaInv, [ArenaNext]_arenaVars PROVE ArenaInv'
    OBVIOUS
  <2>2. CASE UNCHANGED arenaVars
    BY <2>1, <2>2 DEF arenaVars, ArenaInv, Split, Handed, RegionsApart, Blocks
  <2>3. ASSUME NEW bytes \in ArenaSizes, Allocate(bytes)
        PROVE  ArenaInv'
    <3>1. bytes \in Nat
      BY ArenaAssumption
    <3>2. CASE bytes <= alloc_bytes_remaining_
      <4>1. Carve(bytes, 0, FALSE)
        BY <2>3, <3>2, Zenon DEF Allocate
      <4>2. 0 \in Nat /\ 0 + bytes <= alloc_bytes_remaining_
        BY <3>1, <3>2
      <4>3. QED
        BY <4>1, <4>2, <2>1, CarveKeeps, Zenon
    <3>3. CASE ~(bytes <= alloc_bytes_remaining_)
      BY <2>1, <2>3, <3>3, FallbackKeeps, Zenon DEF Allocate
    <3>4. QED
      BY <3>2, <3>3
  <2>4. ASSUME NEW bytes \in ArenaSizes, AllocateAligned(bytes)
        PROVE  ArenaInv'
    <3>1. bytes \in Nat /\ Slop \in Nat /\ (alloc_ptr_ + Slop) % Align = 0
      BY ArenaAssumption, SlopFacts, <2>1
    <3>2. CASE bytes + Slop <= alloc_bytes_remaining_
      <4>1. Carve(bytes, Slop, TRUE)
        BY <2>4, <3>2, Zenon DEF AllocateAligned
      <4>2. Slop + bytes <= alloc_bytes_remaining_
        BY <3>1, <3>2
      <4>3. QED
        BY <4>1, <4>2, <2>1, <3>1, CarveKeeps, Zenon
    <3>3. CASE ~(bytes + Slop <= alloc_bytes_remaining_)
      BY <2>1, <2>4, <3>3, FallbackKeeps, Zenon DEF AllocateAligned
    <3>4. QED
      BY <3>2, <3>3
  <2>5. QED
    BY <2>1, <2>2, <2>3, <2>4 DEF ArenaNext
<1>3. ArenaInv => RegionsApart
  BY DEF ArenaInv
<1> HIDE DEF ArenaInv
<1>4. QED
  BY <1>1, <1>2, <1>3, PTL DEF ArenaSpec

------------------------------------------------------------------------------
\* The links of a skip list.  The operators say of a sequence of stores s what
\* its first v stores have made of the list.

Nodes == {head_} \cup SkipKeys
Locations == {MaxHeight} \cup {Link(n, l) : n \in Nodes, l \in Levels}
Store == [loc : Locations, value : Nat]

\* The node x has a link at level l.
Linked(s, x, l, v) == x = head_ \/ \E i \in 1 .. v : s[i].loc = Link(x, l)

\* Some node is followed by k at the lowest level.
Published(s, k, v) ==
    \E i \in 1 .. v : s[i].value = k /\ \E n \in Nodes : s[i].loc = Link(n, 0)

\* The store j is the last one to loc, or j is 0 and there is none.
Newest(s, loc, v, j) ==
    /\ \A i \in 1 .. v : s[i].loc = loc => i <= j
    /\ j = 0 \/ (j \in 1 .. v /\ s[j].loc = loc)

Value(s, loc, j) ==
    IF j # 0 THEN s[j].value
    ELSE IF loc = MaxHeight THEN 1
    ELSE IF loc[1] = head_ THEN NULL
    ELSE Uninitialized

\* A link leads to a node that has a link at the same level already, and a
\* node is linked at a level after it is linked below.
LinkStore(s, i, n, l) ==
    /\ s[i].loc = Link(n, l)
    /\ s[i].value \in SkipKeys \cup {NULL}
    /\ s[i].value # NULL => Linked(s, s[i].value, l, i - 1)
    /\ l > 0 => Linked(s, n, l - 1, i - 1)
HeightStore(e) == e.loc = MaxHeight /\ e.value \in 1 .. kMaxHeight

Formed(s) ==
    \A i \in 1 .. Len(s) :
        HeightStore(s[i]) \/ \E n \in Nodes, l \in Levels : LinkStore(s, i, n, l)

\* At no moment is a key of the lowest level between a node and its successor.
Gap(s, x, v, j) ==
    \A k \in SkipKeys : Published(s, k, v) /\ x < k => Value(s, Link(x, 0), j) <= k
Gapless(s) ==
    \A v \in 0 .. Len(s), x \in Nodes : \A j \in 0 .. v :
        Linked(s, x, 0, v) /\ Newest(s, Link(x, 0), v, j) => Gap(s, x, v, j)

Listed(s) == \A k \in SkipKeys : Linked(s, k, 0, Len(s)) => Published(s, k, Len(s))

Inserts ==
    [op : {"insert"}, key : SkipKeys, height : 1 .. kMaxHeight, level : Levels]
WriterInv ==
    /\ stores \in Seq(Store)
    /\ Formed(stores) /\ Gapless(stores) /\ Listed(stores)
    /\ inserting \in {Idle} \cup Inserts
    /\ inserting # Idle =>
           /\ inserting.level < inserting.height
           /\ inserting.level > 0 => Linked(stores, inserting.key, inserting.level - 1, Len(stores))

Searches ==
    [op : {"FindGreaterOrEqual", "FindLessThan"}, key : SkipKeys \cup {NULL}, x : Nodes,
     level : Levels]
ReaderInv ==
    /\ view \in 0 .. Len(stores) /\ returned \in 0 .. Len(stores)
    /\ node_ \in SkipKeys \cup {NULL}
    /\ node_ # NULL => Linked(stores, node_, 0, view)
    /\ search \in {Idle} \cup Searches
    /\ search # Idle => search.x < search.key /\ Linked(stores, search.x, search.level, view)
    /\ passed \subseteq SkipKeys
    /\ LinksInitialized /\ NothingPassedOver

LEMMA NodeFacts ==
  /\ NULL \in Nat /\ NULL # 0 /\ \A k \in SkipKeys : k \in Nat /\ k # 0 /\ k < NULL
  /\ \A n \in Nodes : n \in Nat /\ n < NULL
  /\ head_ = 0 /\ kMaxHeight \in Nat /\ Levels = 0 .. kMaxHeight - 1
<1>1. PICK m \in SkipKeys \cup {0} : \A j \in SkipKeys : j <= m
  BY SkipAssumption
<1> DEFINE g == CHOOSE k \in SkipKeys \cup {0} : \A j \in SkipKeys : j <= k
<1>2. g \in SkipKeys \cup {0} /\ \A j \in SkipKeys : j <= g
  BY <1>1, Zenon
<1>3. NULL = 1 + g
  BY Zenon DEF NULL
<1> HIDE DEF g
<1>4. QED
  BY <1>2, <1>3, SkipAssumption DEF Nodes, head_, Levels

LEMMA LinkFacts ==
  /\ \A n, l, m, k : Link(n, l) = Link(m, k) => n = m /\ l = k
  /\ \A n, l : Link(n, l)[1] = n /\ Link(n, l)[2] = l
  /\ \A n \in Nodes : \A l : Link(n, l) # MaxHeight
<1>1. \A n \in Nodes : n # -1
  BY NodeFacts
<1>2. QED
  BY <1>1 DEF Link, MaxHeight

LEMMA SmallestNumber ==
  ASSUME NEW T \in SUBSET Nat, T # {}
  PROVE  \E m \in T : \A k \in T : m <= k
<1> DEFINE R == WF!OpToRel(<, Nat)
<1>1. WF!IsWellFoundedOn(R, Nat)
  BY WF!NatLessThanWellFounded
<1>2. \A x, y \in Nat : x < y => <<x, y>> \in R
  BY DEF WF!OpToRel
<1> HIDE DEF R
<1>3. PICK x \in T : \A y \in T : ~(<<y, x>> \in R)
  BY <1>1, WF!WFMin, Zenon
<1>4. \A y \in T : ~(y < x)
  BY <1>2, <1>3, Zenon
<1>5. \A y \in T : x <= y
  BY <1>4
<1>6. QED
  BY <1>5

LEMMA LargestNumber ==
  ASSUME NEW n \in Nat, NEW S \in SUBSET (0 .. n), S # {}
  PROVE  \E m \in S : \A k \in S : k <= m
<1> DEFINE T == {n - k : k \in S}
<1>1. T \in SUBSET Nat /\ T # {}
  <2>1. \A k \in S : n - k \in Nat
    OBVIOUS
  <2>2. PICK k \in S : TRUE
    BY Zenon
  <2>3. n - k \in T
    BY <2>2
  <2>4. QED
    BY <2>1, <2>3
<1>2. PICK d \in T : \A e \in T : d <= e
  <2> HIDE DEF T
  <2>1. QED
    BY <1>1, SmallestNumber
<1>3. PICK m \in S : d = n - m
  BY <1>2
<1>4. \A k \in S : k <= m
  BY <1>2, <1>3
<1>5. QED
  BY <1>4

\* LatestTo is the newest store.
LEMMA LatestIsNewest ==
  ASSUME stores \in Seq(Store), NEW v \in 0 .. Len(stores), NEW loc
  PROVE  /\ LatestTo(loc, v) \in 0 .. v
         /\ Newest(stores, loc, v, LatestTo(loc, v))
<1> DEFINE before == {j \in StoresTo(loc) : j <= v}
           last == CHOOSE j \in before : \A k \in before : k <= j
<1>1. LatestTo(loc, v) = IF before = {} THEN 0 ELSE last
  BY Zenon DEF LatestTo
<1>2. /\ v \in Nat /\ before \in SUBSET (0 .. v)
      /\ \A i : i \in before <=> i \in 1 .. v /\ stores[i].loc = loc
  BY DEF StoresTo
<1> HIDE DEF before
<1>3. CASE before = {}
  <2>1. \A i \in 1 .. v : stores[i].loc # loc
    BY <1>2, <1>3, Zenon
  <2>2. LatestTo(loc, v) = 0 /\ 0 \in 0 .. v
    BY <1>1, <1>2, <1>3
  <2>3. QED
    BY <2>1, <2>2, Zenon DEF Newest
<1>4. CASE before # {}
  <2>1. \E j \in before : \A k \in before : k <= j
    BY <1>2, <1>4, LargestNumber, Zenon
  <2>2. last \in before /\ \A k \in before : k <= last
    BY <2>1, Zenon
  <2>3. LatestTo(loc, v) = last
    BY <1>1, <1>4, Zenon
  <2> HIDE DEF last
  <2>4. QED
    BY <1>2, <2>2, <2>3, Zenon DEF Newest
<1>5. QED
  BY <1>3, <1>4

\* There is one newest store.
LEMMA NewestOnce ==
  ASSUME NEW s, NEW loc, NEW v \in Nat, NEW i, NEW j, Newest(s, loc, v, i), Newest(s, loc, v, j)
  PROVE  i = j
  BY DEF Newest

LEMMA ValueIs ==
  ASSUME NEW loc, NEW j
  PROVE  ValueAt(loc, j) = Value(stores, loc, j)
  BY Zenon DEF ValueAt, Value

LEMMA ValueType ==
  ASSUME NEW s \in Seq(Store), NEW j \in 0 .. Len(s), NEW loc
  PROVE  Value(s, loc, j) \in Int
<1>1. j = 0 \/ (j # 0 /\ s[j] \in Store)
  OBVIOUS
<1>2. \A e \in Store : e.value \in Int
  BY DEF Store
<1>3. 1 \in Int /\ NULL \in Int /\ Uninitialized \in Int
  BY NodeFacts DEF Uninitialized
<1>4. QED
  BY <1>1, <1>2, <1>3, Zenon DEF Value

\* What the first v stores have made does not depend on later ones.
Extends(s, t) == Len(s) <= Len(t) /\ \A i \in 1 .. Len(s) : t[i] = s[i]

LEMMA ExtendsMore ==
  ASSUME NEW s \in Seq(Store), NEW r \in Seq(Store), NEW t \in Seq(Store), Extends(s, r), Extends(r, t)
  PROVE  Extends(s, t)
  BY SMTT(20) DEF Extends

LEMMA Unmade ==
  ASSUME NEW s \in Seq(Store), NEW t \in Seq(Store), Extends(s, t), NEW v \in 0 .. Len(s)
  PROVE  /\ v \in 0 .. Len(t)
         /\ \A x, l : Linked(t, x, l, v) <=> Linked(s, x, l, v)
         /\ \A k : Published(t, k, v) <=> Published(s, k, v)
         /\ \A loc, j : Newest(t, loc, v, j) <=> Newest(s, loc, v, j)
         /\ \A loc : \A j \in 0 .. v : Value(t, loc, j) = Value(s, loc, j)
<1>1. v \in 0 .. Len(t) /\ \A i \in 1 .. v : t[i] = s[i]
  BY DEF Extends
<1>2. /\ \A x, l : Linked(t, x, l, v) <=> Linked(s, x, l, v)
      /\ \A k : Published(t, k, v) <=> Published(s, k, v)
  BY <1>1, Zenon DEF Linked, Published
<1>3. \A loc, j : Newest(t, loc, v, j) <=> Newest(s, loc, v, j)
  BY <1>1, Zenon DEF Newest
<1>4. ASSUME NEW loc, NEW j \in 0 .. v
      PROVE  Value(t, loc, j) = Value(s, loc, j)
  <2>1. j = 0 \/ t[j] = s[j]
    BY <1>1
  <2>2. QED
    BY <2>1, Zenon DEF Value
<1>5. QED
  BY <1>1, <1>2, <1>3, <1>4

LEMMA LinkedLater ==
  ASSUME NEW s, NEW x, NEW l, NEW v \in Nat, NEW w \in Nat, v <= w, Linked(s, x, l, v)
  PROVE  Linked(s, x, l, w)
<1>1. \A i \in 1 .. v : i \in 1 .. w
  OBVIOUS
<1>2. QED
  BY <1>1, Zenon DEF Linked

\* The store e that follows those of s is one that Insert may make.
MayFollow(s, e) ==
    \/ HeightStore(e)
    \/ \E n \in Nodes, l \in Levels :
           /\ e.loc = Link(n, l) /\ e.value \in SkipKeys \cup {NULL}
           /\ e.value # NULL => Linked(s, e.value, l, Len(s))
           /\ l > 0 => Linked(s, n, l - 1, Len(s))

LEMMA AfterStore ==
  ASSUME NEW s \in Seq(Store), NEW e \in Store
  PROVE  LET t == Append(s, e)
             n == Len(s)
         IN  /\ t \in Seq(Store) /\ n \in Nat /\ Len(t) = n + 1 /\ Extends(s, t) /\ t[n + 1] = e
             /\ \A x, l : Linked(t, x, l, n + 1) <=> Linked(s, x, l, n) \/ x = head_ \/ e.loc = Link(x, l)
             /\ \A k : Published(t, k, n + 1) <=>
                         Published(s, k, n) \/ (e.value = k /\ \E m \in Nodes : e.loc = Link(m, 0))
             /\ \A loc, j : e.loc = loc /\ Newest(t, loc, n + 1, j) => j = n + 1
             /\ \A loc, j : e.loc # loc /\ Newest(t, loc, n + 1, j) => j \in 0 .. n /\ Newest(s, loc, n, j)
<1> DEFINE t == Append(s, e)
           n == Len(s)
<1>1. t \in Seq(Store) /\ n \in Nat /\ Len(t) = n + 1 /\ t[n + 1] = e /\ \A i \in 1 .. n : t[i] = s[i]
  OBVIOUS
<1>2. Extends(s, t)
  BY <1>1 DEF Extends
<1> HIDE DEF t, n
<1>3. /\ \A i \in 1 .. n + 1 : i \in 1 .. n \/ i = n + 1
      /\ \A i \in 1 .. n : i \in 1 .. n + 1
      /\ n + 1 \in 1 .. n + 1 /\ n + 1 # 0
  BY <1>1
<1>4. ASSUME NEW x, NEW l
      PROVE  Linked(t, x, l, n + 1) <=> Linked(s, x, l, n) \/ x = head_ \/ e.loc = Link(x, l)
  <2>1. ASSUME NEW i \in 1 .. n + 1, t[i].loc = Link(x, l)
        PROVE  Linked(s, x, l, n) \/ e.loc = Link(x, l)
    BY <1>1, <1>3, <2>1, Zenon DEF Linked
  <2>2. ASSUME NEW i \in 1 .. n, s[i].loc = Link(x, l)
        PROVE  Linked(t, x, l, n + 1)
    BY <1>1, <1>3, <2>2, Zenon DEF Linked
  <2>3. e.loc = Link(x, l) => Linked(t, x, l, n + 1)
    BY <1>1, <1>3, Zenon DEF Linked
  <2>4. QED
    BY <2>1, <2>2, <2>3, Zenon DEF Linked
<1>5. ASSUME NEW k
      PROVE  Published(t, k, n + 1) <=>
               Published(s, k, n) \/ (e.value = k /\ \E m \in Nodes : e.loc = Link(m, 0))
  <2>1. ASSUME Published(t, k, n + 1)
        PROVE  Published(s, k, n) \/ (e.value = k /\ \E m \in Nodes : e.loc = Link(m, 0))
    <3>1. PICK i \in 1 .. n + 1 : t[i].value = k /\ \E m \in Nodes : t[i].loc = Link(m, 0)
      BY <2>1, Zenon DEF Published
    <3>2. QED
      BY <1>1, <1>3, <3>1, Zenon DEF Published
  <2>2. Published(s, k, n) => Published(t, k, n + 1)
    BY <1>1, <1>3, Zenon DEF Published
  <2>3. (e.value = k /\ \E m \in Nodes : e.loc = Link(m, 0)) => Published(t, k, n + 1)
    BY <1>1, <1>3, Zenon DEF Published
  <2>4. QED
    BY <2>1, <2>2, <2>3, Zenon
<1>6. ASSUME NEW loc, NEW j, Newest(t, loc, n + 1, j)
      PROVE  /\ e.loc = loc => j = n + 1
             /\ e.loc # loc => j \in 0 .. n /\ Newest(s, loc, n, j)
  <2>1. CASE e.loc = loc
    <3>1. n + 1 <= j /\ (j = 0 \/ j \in 1 .. n + 1)
      BY <1>1, <1>3, <1>6, <2>1, Zenon DEF Newest
    <3>2. QED
      BY <1>1, <2>1, <3>1
  <2>2. CASE e.loc # loc
    <3>1. j = 0 \/ (j \in 1 .. n /\ s[j].loc = loc)
      BY <1>1, <1>3, <1>6, <2>2, Zenon DEF Newest
    <3>2. \A i \in 1 .. n : s[i].loc = loc => i <= j
      BY <1>1, <1>3, <1>6, Zenon DEF Newest
    <3>3. j \in 0 .. n
      BY <1>1, <3>1
    <3>4. QED
      BY <2>2, <3>1, <3>2, <3>3, Zenon DEF Newest
  <2>3. QED
    BY <2>1, <2>2
<1>7. QED
  BY <1>1, <1>2, <1>4, <1>5, <1>6, Zenon DEF t, n

LEMMA FormedGrows ==
  ASSUME NEW s \in Seq(Store), NEW e \in Store, Formed(s), MayFollow(s, e)
  PROVE  Formed(Append(s, e))
<1> DEFINE t == Append(s, e)
           n == Len(s)
<1>1. t \in Seq(Store) /\ n \in Nat /\ Len(t) = n + 1 /\ Extends(s, t) /\ t[n + 1] = e
  BY AfterStore, Zenon
<1> HIDE DEF t, n
<1>2. ASSUME NEW i \in 1 .. n
      PROVE  HeightStore(t[i]) \/ \E m \in Nodes, l \in Levels : LinkStore(t, i, m, l)
  <2>1. t[i] = s[i] /\ i - 1 \in 0 .. n
    BY <1>1, <1>2 DEF Extends, n
  <2>2. \A x, l : Linked(t, x, l, i - 1) <=> Linked(s, x, l, i - 1)
    BY <1>1, <2>1, Unmade, Zenon DEF n
  <2>3. HeightStore(s[i]) \/ \E m \in Nodes, l \in Levels : LinkStore(s, i, m, l)
    BY Zenon DEF Formed, n
  <2>4. \A m, l : LinkStore(s, i, m, l) => LinkStore(t, i, m, l)
    BY <2>1, <2>2, Zenon DEF LinkStore
  <2>5. QED
    BY <2>1, <2>3, <2>4, Zenon
<1>3. HeightStore(t[n + 1]) \/ \E m \in Nodes, l \in Levels : LinkStore(t, n + 1, m, l)
  <2>1. n \in 0 .. n /\ n + 1 - 1 = n
    BY <1>1
  <2>2. \A x, l : Linked(t, x, l, n) <=> Linked(s, x, l, n)
    BY <1>1, <2>1, Unmade, Zenon DEF n
  <2>3. ASSUME NEW m \in Nodes, NEW l \in Levels,
               e.loc = Link(m, l) /\ e.value \in SkipKeys \cup {NULL},
               e.value # NULL => Linked(s, e.value, l, n),
               l > 0 => Linked(s, m, l - 1, n)
        PROVE  LinkStore(t, n + 1, m, l)
    BY <1>1, <2>1, <2>2, <2>3 DEF LinkStore
  <2>4. QED
    BY <1>1, <2>3, Zenon DEF MayFollow, n
<1>4. \A i \in 1 .. Len(t) : i \in 1 .. n \/ i = n + 1
  BY <1>1
<1>5. Formed(t)
  BY <1>2, <1>3, <1>4, Zenon DEF Formed
<1>6. QED
  BY <1>5, Zenon DEF t

\* The order of the list after one more store.
Ordered(t) ==
    \A x \in Nodes : \A j \in 0 .. Len(t) :
        Linked(t, x, 0, Len(t)) /\ Newest(t, Link(x, 0), Len(t), j) => Gap(t, x, Len(t), j)

LEMMA GaplessGrows ==
  ASSUME NEW s \in Seq(Store), NEW e \in Store, Gapless(s), Ordered(Append(s, e))
  PROVE  Gapless(Append(s, e))
<1> DEFINE t == Append(s, e)
           n == Len(s)
<1>1. t \in Seq(Store) /\ n \in Nat /\ Len(t) = n + 1 /\ Extends(s, t)
  BY AfterStore, Zenon
<1> HIDE DEF t
<1>2. ASSUME NEW v \in 0 .. n, NEW x \in Nodes, NEW j \in 0 .. v,
             Linked(t, x, 0, v), Newest(t, Link(x, 0), v, j)
      PROVE  Gap(t, x, v, j)
  <2>1. /\ \A y, l : Linked(t, y, l, v) <=> Linked(s, y, l, v)
        /\ \A k : Published(t, k, v) <=> Published(s, k, v)
        /\ \A loc, i : Newest(t, loc, v, i) <=> Newest(s, loc, v, i)
        /\ \A loc : \A i \in 0 .. v : Value(t, loc, i) = Value(s, loc, i)
    BY <1>1, Unmade, Zenon
  <2>2. Linked(s, x, 0, v) /\ Newest(s, Link(x, 0), v, j)
    BY <1>2, <2>1, Zenon
  <2>3. Gap(s, x, v, j)
    BY <2>2, Zenon DEF Gapless
  <2>4. Value(t, Link(x, 0), j) = Value(s, Link(x, 0), j)
    BY <2>1, Zenon
  <2>5. QED
    BY <2>1, <2>3, <2>4, Zenon DEF Gap
<1>3. \A v \in 0 .. Len(t) : v \in 0 .. n \/ v = Len(t)
  BY <1>1
<1>4. Ordered(t)
  BY Zenon DEF t
<1>5. Gapless(t)
  <2> SUFFICES ASSUME NEW v \in 0 .. Len(t), NEW x \in Nodes, NEW j \in 0 .. v,
                      Linked(t, x, 0, v), Newest(t, Link(x, 0), v, j)
               PROVE  Gap(t, x, v, j)
    BY Zenon DEF Gapless
  <2>1. CASE v \in 0 .. n
    BY <1>2, <2>1, Zenon
  <2>2. CASE v = Len(t)
    BY <1>4, <2>2, Zenon DEF Ordered
  <2>3. QED
    BY <1>3, <2>1, <2>2, Zenon
<1>6. QED
  BY <1>5, Zenon DEF t

\* A store to another place than a link of the lowest level.
LEMMA ElsewhereStored ==
  ASSUME NEW s \in Seq(Store), NEW e \in Store, Gapless(s), Listed(s),
         \A m \in Nodes : e.loc # Link(m, 0)
  PROVE  Gapless(Append(s, e)) /\ Listed(Append(s, e))
<1> DEFINE t == Append(s, e)
           n == Len(s)
<1>1. /\ t \in Seq(Store) /\ n \in Nat /\ Len(t) = n + 1 /\ Extends(s, t) /\ t[n + 1] = e
      /\ \A x, l : Linked(t, x, l, n + 1) <=> Linked(s, x, l, n) \/ x = head_ \/ e.loc = Link(x, l)
      /\ \A k : Published(t, k, n + 1) <=>
                         Published(s, k, n) \/ (e.value = k /\ \E m \in Nodes : e.loc = Link(m, 0))
      /\ \A loc, j : e.loc = loc /\ Newest(t, loc, n + 1, j) => j = n + 1
      /\ \A loc, j : e.loc # loc /\ Newest(t, loc, n + 1, j) => j \in 0 .. n /\ Newest(s, loc, n, j)
  BY AfterStore, Zenon
<1>2. n \in 0 .. n
  BY <1>1
<1>3. \A loc : \A j \in 0 .. n : Value(t, loc, j) = Value(s, loc, j)
  BY <1>1, <1>2, Unmade, Zenon
<1> HIDE DEF t
<1>4. \A x \in Nodes : Linked(t, x, 0, n + 1) => Linked(s, x, 0, n)
  BY <1>1, Zenon DEF Linked
<1>5. \A k : Published(t, k, n + 1) <=> Published(s, k, n)
  BY <1>1, Zenon
<1>6. ASSUME NEW x \in Nodes, NEW j \in 0 .. Len(t),
             Linked(t, x, 0, Len(t)), Newest(t, Link(x, 0), Len(t), j)
      PROVE  Gap(t, x, Len(t), j)
  <2>1. j \in 0 .. n /\ Newest(s, Link(x, 0), n, j)
    BY <1>1, <1>6, Zenon
  <2>2. Linked(s, x, 0, n)
    BY <1>1, <1>4, <1>6, Zenon
  <2>3. Gap(s, x, n, j)
    BY <1>2, <2>1, <2>2, Zenon DEF Gapless
  <2>4. Value(t, Link(x, 0), j) = Value(s, Link(x, 0), j)
    BY <1>3, <2>1, Zenon
  <2>5. QED
    BY <1>1, <1>5, <2>3, <2>4, Zenon DEF Gap
<1>7. Ordered(t)
  BY <1>6, Zenon DEF Ordered
<1>8. Listed(t)
  <2>1. \A k \in SkipKeys : k \in Nodes
    BY DEF Nodes
  <2>2. QED
    BY <1>1, <1>4, <1>5, <2>1, Zenon DEF Listed
<1>9. QED
  BY <1>7, <1>8, GaplessGrows, Zenon DEF t

\* p is the last node before key at the lowest level and u its successor.
Place(s, p, key, u) ==
    /\ p \in Nodes /\ key \in SkipKeys /\ p < key
    /\ Linked(s, p, 0, Len(s))
    /\ \A x \in Nodes : Linked(s, x, 0, Len(s)) /\ x < key => x <= p
    /\ u \in SkipKeys \cup {NULL}
    /\ u # NULL => Published(s, u, Len(s))
    /\ \E j \in 0 .. Len(s) : Newest(s, Link(p, 0), Len(s), j) /\ u = Value(s, Link(p, 0), j)

\* First key gets p's successor ...
LEMMA OwnLinkStored ==
  ASSUME NEW s \in Seq(Store), NEW p, NEW key, NEW u, NEW e \in Store, Gapless(s),
         Place(s, p, key, u), e.loc = Link(key, 0), e.value = u
  PROVE  Gapless(Append(s, e))
<1> DEFINE t == Append(s, e)
           n == Len(s)
<1>1. /\ t \in Seq(Store) /\ n \in Nat /\ Len(t) = n + 1 /\ Extends(s, t) /\ t[n + 1] = e
      /\ \A x, l : Linked(t, x, l, n + 1) <=> Linked(s, x, l, n) \/ x = head_ \/ e.loc = Link(x, l)
      /\ \A k : Published(t, k, n + 1) <=>
                         Published(s, k, n) \/ (e.value = k /\ \E m \in Nodes : e.loc = Link(m, 0))
      /\ \A loc, j : e.loc = loc /\ Newest(t, loc, n + 1, j) => j = n + 1
      /\ \A loc, j : e.loc # loc /\ Newest(t, loc, n + 1, j) => j \in 0 .. n /\ Newest(s, loc, n, j)
  BY AfterStore, Zenon
<1>2. n \in 0 .. n
  BY <1>1
<1>3. \A loc : \A j \in 0 .. n : Value(t, loc, j) = Value(s, loc, j)
  BY <1>1, <1>2, Unmade, Zenon
<1>4. /\ p \in Nodes /\ key \in SkipKeys /\ p < key /\ Linked(s, p, 0, n)
      /\ u \in SkipKeys \cup {NULL} /\ (u # NULL => Published(s, u, n))
      /\ \E j \in 0 .. n : Newest(s, Link(p, 0), n, j) /\ u = Value(s, Link(p, 0), j)
  BY Zenon DEF Place
<1> HIDE DEF t
<1>5. \A k \in SkipKeys : Published(t, k, n + 1) => Published(s, k, n)
  <2>1. \A k \in SkipKeys : k # NULL
    BY NodeFacts
  <2>2. QED
    BY <1>1, <1>4, <2>1, Zenon
<1>6. ASSUME NEW x \in Nodes, NEW j \in 0 .. Len(t),
             Linked(t, x, 0, Len(t)), Newest(t, Link(x, 0), Len(t), j)
      PROVE  Gap(t, x, Len(t), j)
  <2>1. CASE x = key
    <3>1. j = n + 1
      BY <1>1, <1>6, <2>1, Zenon
    <3>2. Value(t, Link(x, 0), j) = u
      <4>1. n + 1 # 0
        BY <1>1
      <4>2. QED
        BY <1>1, <3>1, <4>1, Zenon DEF Value
    <3>3. \A k \in SkipKeys : Published(s, k, n) /\ p < k => u <= k
      BY <1>2, <1>4, Zenon DEF Gapless, Gap
    <3>4. \A k \in SkipKeys : x < k => p < k
      BY <1>4, <2>1, NodeFacts
    <3>5. QED
      BY <1>1, <1>5, <3>2, <3>3, <3>4, Zenon DEF Gap
  <2>2. CASE x # key
    <3>1. e.loc # Link(x, 0)
      BY <2>2, LinkFacts, Zenon
    <3>2. j \in 0 .. n /\ Newest(s, Link(x, 0), n, j)
      BY <1>1, <1>6, <3>1, Zenon
    <3>3. Linked(s, x, 0, n)
      BY <1>1, <1>6, <3>1, Zenon DEF Linked
    <3>4. Gap(s, x, n, j)
      BY <1>2, <3>2, <3>3, Zenon DEF Gapless
    <3>5. Value(t, Link(x, 0), j) = Value(s, Link(x, 0), j)
      BY <1>3, <3>2, Zenon
    <3>6. QED
      BY <1>1, <1>5, <3>4, <3>5, Zenon DEF Gap
  <2>3. QED
    BY <2>1, <2>2
<1>7. Ordered(t)
  BY <1>6, Zenon DEF Ordered
<1>8. QED
  BY <1>7, GaplessGrows, Zenon DEF t

\* A key that follows a node has a link of its own.
LEMMA PublishedLinked ==
  ASSUME NEW s \in Seq(Store), Formed(s), NEW k \in SkipKeys, Published(s, k, Len(s))
  PROVE  Linked(s, k, 0, Len(s))
<1>1. PICK i \in 1 .. Len(s) : s[i].value = k /\ \E n \in Nodes : s[i].loc = Link(n, 0)
  BY Zenon DEF Published
<1>2. PICK n \in Nodes, l \in Levels : LinkStore(s, i, n, l)
  <2>1. s[i].loc # MaxHeight
    BY <1>1, LinkFacts, Zenon
  <2>2. QED
    BY <2>1, Zenon DEF Formed, HeightStore
<1>3. l = 0
  <2>1. PICK m \in Nodes : s[i].loc = Link(m, 0)
    BY <1>1, Zenon
  <2>2. Link(m, 0) = Link(n, l)
    BY <1>2, <2>1, Zenon DEF LinkStore
  <2>3. QED
    BY <2>2, LinkFacts, Zenon
<1>4. k # NULL
  BY NodeFacts
<1>5. Linked(s, k, 0, i - 1)
  BY <1>1, <1>2, <1>3, <1>4, Zenon DEF LinkStore
<1>6. i - 1 \in Nat /\ Len(s) \in Nat /\ i - 1 <= Len(s)
  OBVIOUS
<1>7. QED
  BY <1>5, <1>6, LinkedLater, Zenon

\* ... then p leads to key.
LEMMA PrevLinkStored ==
  ASSUME NEW s \in Seq(Store), NEW p \in Nodes, NEW key \in SkipKeys, p < key, NEW e \in Store,
         Gapless(s), Formed(s), e.loc = Link(p, 0), e.value = key,
         \A x \in Nodes : Linked(s, x, 0, Len(s)) /\ x < key => x <= p,
         \A k \in SkipKeys : Linked(s, k, 0, Len(s)) => k = key \/ Published(s, k, Len(s)),
         Linked(s, p, 0, Len(s))
  PROVE  Gapless(Append(s, e)) /\ Listed(Append(s, e))
<1> DEFINE t == Append(s, e)
           n == Len(s)
<1>1. /\ t \in Seq(Store) /\ n \in Nat /\ Len(t) = n + 1 /\ Extends(s, t) /\ t[n + 1] = e
      /\ \A x, l : Linked(t, x, l, n + 1) <=> Linked(s, x, l, n) \/ x = head_ \/ e.loc = Link(x, l)
      /\ \A k : Published(t, k, n + 1) <=>
                         Published(s, k, n) \/ (e.value = k /\ \E m \in Nodes : e.loc = Link(m, 0))
      /\ \A loc, j : e.loc = loc /\ Newest(t, loc, n + 1, j) => j = n + 1
      /\ \A loc, j : e.loc # loc /\ Newest(t, loc, n + 1, j) => j \in 0 .. n /\ Newest(s, loc, n, j)
  BY AfterStore, Zenon
<1>2. n \in 0 .. n
  BY <1>1
<1>3. \A loc : \A j \in 0 .. n : Value(t, loc, j) = Value(s, loc, j)
  BY <1>1, <1>2, Unmade, Zenon
<1>a. /\ \A x \in Nodes : Linked(s, x, 0, n) /\ x < key => x <= p
      /\ \A k \in SkipKeys : Linked(s, k, 0, n) => k = key \/ Published(s, k, n)
      /\ Linked(s, p, 0, n) /\ \A k \in SkipKeys : k \in Nodes
  BY DEF Nodes
<1>b. \A k \in SkipKeys : Published(s, k, n) => Linked(s, k, 0, n)
  BY PublishedLinked, Zenon
<1> HIDE DEF t, n
<1>4. \A k \in SkipKeys : Published(t, k, n + 1) <=> Published(s, k, n) \/ k = key
  BY <1>1, Zenon
<1>5. ASSUME NEW x \in Nodes, Linked(t, x, 0, n + 1)
      PROVE  Linked(s, x, 0, n)
  <2>1. CASE e.loc = Link(x, 0)
    <3>1. x = p
      BY <2>1, LinkFacts, Zenon
    <3>2. QED
      BY <1>a, <3>1, Zenon
  <2>2. CASE e.loc # Link(x, 0)
    BY <1>1, <1>5, <2>2, Zenon DEF Linked
  <2>3. QED
    BY <2>1, <2>2
<1>6. ASSUME NEW x \in Nodes, NEW j \in 0 .. Len(t),
             Linked(t, x, 0, Len(t)), Newest(t, Link(x, 0), Len(t), j)
      PROVE  Gap(t, x, Len(t), j)
  <2>1. CASE x = p
    <3>1. j = n + 1
      BY <1>1, <1>6, <2>1, Zenon
    <3>2. Value(t, Link(x, 0), j) = key
      <4>1. n + 1 # 0
        BY <1>1
      <4>2. QED
        BY <1>1, <3>1, <4>1, Zenon DEF Value
    <3>3. ASSUME NEW k \in SkipKeys, Published(t, k, n + 1), p < k
          PROVE  key <= k
      <4>1. k = key \/ ~(k < key /\ ~(k <= p))
        BY <1>4, <1>a, <1>b, <3>3, Zenon
      <4>2. QED
        BY <3>3, <4>1, NodeFacts
    <3>4. QED
      BY <1>1, <2>1, <3>2, <3>3, Zenon DEF Gap
  <2>2. CASE x # p
    <3>1. e.loc # Link(x, 0)
      BY <2>2, LinkFacts, Zenon
    <3>2. j \in 0 .. n /\ Newest(s, Link(x, 0), n, j)
      BY <1>1, <1>6, <3>1, Zenon
    <3>3. Linked(s, x, 0, n)
      BY <1>1, <1>5, <1>6, Zenon
    <3>4. Gap(s, x, n, j)
      BY <1>2, <3>2, <3>3, Zenon DEF Gapless, n
    <3>5. Value(t, Link(x, 0), j) = Value(s, Link(x, 0), j)
      BY <1>3, <3>2, Zenon
    <3>6. ASSUME x < key
          PROVE  Value(s, Link(x, 0), j) <= key
      <4>1. x <= p
        BY <1>a, <3>3, <3>6, Zenon
      <4>2. x < p /\ p \in SkipKeys /\ p # key
        BY <2>2, <4>1, NodeFacts DEF Nodes
      <4>3. Value(s, Link(x, 0), j) <= p
        BY <1>a, <3>4, <4>2, Zenon DEF Gap
      <4>4. Value(s, Link(x, 0), j) \in Int
        BY <3>2, ValueType, Zenon DEF n
      <4>5. QED
        BY <4>2, <4>3, <4>4, NodeFacts
    <3>7. QED
      BY <1>1, <1>4, <3>4, <3>5, <3>6, Zenon DEF Gap
  <2>3. QED
    BY <2>1, <2>2
<1>7. Ordered(t)
  BY <1>6, Zenon DEF Ordered
<1>8. Listed(t)
  <2>1. \A k \in SkipKeys : Linked(t, k, 0, n + 1) => Published(t, k, n + 1)
    BY <1>4, <1>5, <1>a, Zenon
  <2>2. QED
    BY <1>1, <2>1, Zenon DEF Listed
<1>9. QED
  BY <1>7, <1>8, GaplessGrows, Zenon DEF t

LEMMA LinkedBelow ==
  ASSUME NEW s \in Seq(Store), Formed(s), NEW v \in 0 .. Len(s), NEW x \in Nodes, NEW l \in Levels,
         l > 0, Linked(s, x, l, v)
  PROVE  Linked(s, x, l - 1, v)
<1>1. CASE x = head_
  BY <1>1, Zenon DEF Linked
<1>2. ASSUME NEW i \in 1 .. v, s[i].loc = Link(x, l)
      PROVE  Linked(s, x, l - 1, v)
  <2>1. i \in 1 .. Len(s) /\ i - 1 \in Nat /\ v \in Nat /\ i - 1 <= v
    OBVIOUS
  <2>2. s[i].loc # MaxHeight
    BY <1>2, LinkFacts, Zenon
  <2>3. PICK n \in Nodes, m \in Levels : LinkStore(s, i, n, m)
    BY <2>1, <2>2, Zenon DEF Formed, HeightStore
  <2>4. Link(x, l) = Link(n, m)
    BY <1>2, <2>3, Zenon DEF LinkStore
  <2>5. n = x /\ m = l
    BY <2>4, LinkFacts, Zenon
  <2>6. Linked(s, x, l - 1, i - 1)
    BY <2>3, <2>5, Zenon DEF LinkStore
  <2>7. QED
    BY <2>1, <2>6, LinkedLater, Zenon
<1>3. QED
  BY <1>1, <1>2, Zenon DEF Linked

\* A link of a node that is in the list leads to another one, or to the end.
LEMMA LinkLeads ==
  ASSUME NEW s \in Seq(Store), Formed(s), NEW v \in 0 .. Len(s), NEW x \in Nodes, NEW l \in Levels,
         Linked(s, x, l, v), NEW j, Newest(s, Link(x, l), v, j)
  PROVE  /\ Value(s, Link(x, l), j) \in SkipKeys \cup {NULL}
         /\ Value(s, Link(x, l), j) # NULL =>
              /\ Linked(s, Value(s, Link(x, l), j), l, v)
              /\ l = 0 => Published(s, Value(s, Link(x, l), j), v)
<1>1. Link(x, l) # MaxHeight /\ Link(x, l)[1] = x
  BY LinkFacts, Zenon
<1>2. CASE j = 0
  <2>1. \A i \in 1 .. v : s[i].loc # Link(x, l)
    <3>1. \A i \in 1 .. v : ~(i <= 0)
      OBVIOUS
    <3>2. QED
      BY <1>2, <3>1, Zenon DEF Newest
  <2>2. x = head_
    BY <2>1, Zenon DEF Linked
  <2>3. QED
    BY <1>1, <1>2, <2>2, Zenon DEF Value
<1>3. CASE j # 0
  <2>1. j \in 1 .. v /\ s[j].loc = Link(x, l)
    BY <1>3, Zenon DEF Newest
  <2>2. j \in 1 .. Len(s) /\ j - 1 \in Nat /\ v \in Nat /\ j - 1 <= v
    BY <2>1
  <2>3. PICK n \in Nodes, m \in Levels : LinkStore(s, j, n, m)
    BY <1>1, <2>1, <2>2, Zenon DEF Formed, HeightStore
  <2>4. Link(x, l) = Link(n, m)
    BY <2>1, <2>3, Zenon DEF LinkStore
  <2>5. n = x /\ m = l
    BY <2>4, LinkFacts, Zenon
  <2>6. Value(s, Link(x, l), j) = s[j].value
    BY <1>3, Zenon DEF Value
  <2> DEFINE u == s[j].value
  <2>7. u \in SkipKeys \cup {NULL} /\ (u # NULL => Linked(s, u, l, j - 1))
    BY <2>3, <2>5, Zenon DEF LinkStore
  <2>8. u # NULL => Linked(s, u, l, v)
    BY <2>2, <2>7, LinkedLater, Zenon
  <2>9. l = 0 => Published(s, u, v)
    BY <2>1, Zenon DEF Published
  <2>10. QED
    BY <2>6, <2>7, <2>8, <2>9, Zenon
<1>4. QED
  BY <1>2, <1>3

LEMMA PrevIs ==
  ASSUME stores \in Seq(Store), NEW key \in SkipKeys, NEW l \in Levels
  PROVE  /\ Prev(key, l) \in Nodes /\ Prev(key, l) < key
         /\ Linked(stores, Prev(key, l), l, Len(stores))
         /\ l = 0 => \A x \in Nodes : Linked(stores, x, 0, Len(stores)) /\ x < key => x <= Prev(key, l)
<1> DEFINE linked == {n \in {head_} \cup Keys : n < key /\ (n = head_ \/ StoresTo(Link(n, l)) # {})}
           p == CHOOSE n \in linked : \A o \in linked : o <= n
<1>1. Prev(key, l) = p
  BY Zenon DEF Prev
<1>2. \A loc : StoresTo(loc) # {} <=> \E i \in 1 .. Len(stores) : stores[i].loc = loc
  BY Zenon DEF StoresTo
<1>3. \A n : n \in Keys <=> n \in SkipKeys /\ \E i \in 1 .. Len(stores) : stores[i].loc = Link(n, 0)
  BY <1>2, Zenon DEF Keys
<1>4. \A n \in linked : n \in Nodes /\ n < key /\ Linked(stores, n, l, Len(stores))
  BY <1>2, <1>3, Zenon DEF Nodes, Linked
<1>5. head_ \in linked
  BY NodeFacts
<1>6. l = 0 => \A x \in Nodes : Linked(stores, x, 0, Len(stores)) /\ x < key => x \in linked
  BY <1>2, <1>3, Zenon DEF Nodes, Linked
<1> HIDE DEF linked
<1>7. key \in Nat /\ linked \in SUBSET (0 .. key) /\ linked # {}
  BY <1>4, <1>5, NodeFacts
<1>8. \E n \in linked : \A o \in linked : o <= n
  BY <1>7, LargestNumber, Zenon
<1>9. p \in linked /\ \A o \in linked : o <= p
  BY <1>8, Zenon
<1> HIDE DEF p
<1>10. QED
  BY <1>1, <1>4, <1>6, <1>9, Zenon

\* One turn of the loop of Insert, on the stores s.
LEMMA TwoStores ==
  ASSUME NEW s \in Seq(Store), Formed(s), Gapless(s), Listed(s), NEW l \in Levels,
         NEW key \in SkipKeys, l > 0 => Linked(s, key, l - 1, Len(s)),
         NEW p \in Nodes, p < key, Linked(s, p, l, Len(s)),
         l = 0 => \A x \in Nodes : Linked(s, x, 0, Len(s)) /\ x < key => x <= p,
         NEW j \in 0 .. Len(s), Newest(s, Link(p, l), Len(s), j)
  PROVE  LET t == s \o << [loc |-> Link(key, l), value |-> Value(s, Link(p, l), j)],
                          [loc |-> Link(p, l), value |-> key] >>
         IN  /\ t \in Seq(Store) /\ Extends(s, t) /\ Formed(t) /\ Gapless(t) /\ Listed(t)
             /\ Linked(t, key, l, Len(t))
<1> DEFINE u == Value(s, Link(p, l), j)
           n == Len(s)
           a == [loc |-> Link(key, l), value |-> u]
           b == [loc |-> Link(p, l), value |-> key]
           r == Append(s, a)
           t == Append(r, b)
<1>1. key \in Nodes /\ n \in Nat /\ n \in 0 .. n
  BY DEF Nodes
<1>2. /\ u \in SkipKeys \cup {NULL}
      /\ u # NULL => Linked(s, u, l, n) /\ (l = 0 => Published(s, u, n))
  BY <1>1, LinkLeads, Zenon
<1>3. a \in Store /\ b \in Store
  <2>1. u \in Nat /\ key \in Nat
    BY <1>2, NodeFacts
  <2>2. Link(key, l) \in Locations /\ Link(p, l) \in Locations
    <3>1. \A m \in Nodes : Link(m, l) \in Locations
      BY DEF Locations
    <3>2. QED
      BY <1>1, <3>1, Zenon
  <2> HIDE DEF u
  <2>3. QED
    BY <2>1, <2>2 DEF Store
<1>4. s \o <<a, b>> = t
  <2> HIDE DEF a, b
  <2>1. QED
    BY <1>3
<1>5. a.loc = Link(key, l) /\ a.value = u /\ b.loc = Link(p, l) /\ b.value = key
  OBVIOUS
<1> HIDE DEF a, b, u, r, t
<1>6. /\ r \in Seq(Store) /\ Len(r) = n + 1 /\ Extends(s, r)
      /\ \A x, m : Linked(r, x, m, n + 1) <=> Linked(s, x, m, n) \/ x = head_ \/ a.loc = Link(x, m)
      /\ \A k : Published(r, k, n + 1) <=>
                  Published(s, k, n) \/ (a.value = k /\ \E m \in Nodes : a.loc = Link(m, 0))
  BY <1>3, AfterStore, Zenon DEF r
<1>7. /\ t \in Seq(Store) /\ Len(t) = Len(r) + 1 /\ Extends(r, t)
      /\ \A x, m : Linked(t, x, m, Len(r) + 1) <=> Linked(r, x, m, Len(r)) \/ x = head_ \/ b.loc = Link(x, m)
  BY <1>3, <1>6, AfterStore, Zenon DEF t
<1>8. Extends(s, t)
  BY <1>3, <1>6, <1>7, ExtendsMore, Zenon
<1>9. Linked(r, key, l, n + 1) /\ Linked(t, key, l, Len(t))
  <2>1. Linked(r, key, l, n + 1)
    BY <1>5, <1>6
  <2>2. QED
    BY <1>6, <1>7, <2>1, Zenon
<1>10. MayFollow(s, a)
  BY <1>1, <1>2, <1>5, Zenon DEF MayFollow
<1>11. Formed(r)
  BY <1>3, <1>10, FormedGrows, Zenon DEF r
<1>12. MayFollow(r, b)
  <2>1. l > 0 => Linked(s, p, l - 1, n)
    BY <1>1, LinkedBelow, Zenon
  <2>2. l > 0 => Linked(r, p, l - 1, n + 1)
    BY <1>6, <2>1, Zenon
  <2>3. QED
    BY <1>5, <1>6, <1>9, <2>2, Zenon DEF MayFollow
<1>13. Formed(t)
  BY <1>3, <1>6, <1>11, <1>12, FormedGrows, Zenon DEF t
<1>14. CASE l = 0
  <2>0. \A x : a.loc = Link(x, 0) => x = key
    <3>1. a.loc = Link(key, 0)
      BY <1>5, <1>14, Zenon
    <3>2. QED
      BY <3>1, LinkFacts, Zenon
  <2>1. Place(s, p, key, u)
    BY <1>2, <1>14, Zenon DEF Place, u
  <2>2. Gapless(r)
    BY <1>3, <1>5, <1>14, <2>1, OwnLinkStored, Zenon DEF r
  <2>3. Linked(r, p, 0, Len(r))
    BY <1>6, <1>14, Zenon
  <2>4. ASSUME NEW x \in Nodes, Linked(r, x, 0, Len(r)), x < key
        PROVE  x <= p
    <3>1. x # key
      BY <2>4, NodeFacts
    <3>2. a.loc # Link(x, 0)
      BY <2>0, <3>1, Zenon
    <3>3. Linked(s, x, 0, n)
      <4>1. Linked(s, x, 0, n) \/ x = head_
        BY <1>6, <2>4, <3>2
      <4>2. QED
        BY <4>1, Zenon DEF Linked
    <3>4. QED
      BY <1>14, <2>4, <3>3, Zenon
  <2>5. ASSUME NEW k \in SkipKeys, Linked(r, k, 0, Len(r)), k # key
        PROVE  Published(r, k, Len(r))
    <3>1. a.loc # Link(k, 0)
      BY <2>0, <2>5, Zenon
    <3>2. Linked(s, k, 0, n)
      <4>1. Linked(s, k, 0, n) \/ k = head_
        BY <1>6, <2>5, <3>1
      <4>2. QED
        BY <4>1, Zenon DEF Linked
    <3>3. QED
      BY <1>6, <3>2, Zenon DEF Listed
  <2>6. Gapless(t) /\ Listed(t)
    BY <1>3, <1>5, <1>6, <1>11, <1>14, <2>2, <2>3, <2>4, <2>5, PrevLinkStored DEF t
  <2>7. QED
    BY <1>4, <1>7, <1>8, <1>9, <1>13, <2>6, Zenon DEF a, b, u
<1>15. CASE l # 0
  <2>1. \A m \in Nodes : a.loc # Link(m, 0) /\ b.loc # Link(m, 0)
    <3>1. \A q, m : Link(q, l) # Link(m, 0)
      BY <1>15, LinkFacts, Zenon
    <3>2. QED
      BY <1>5, <3>1, Zenon
  <2>2. Gapless(r) /\ Listed(r)
    BY <1>3, <2>1, ElsewhereStored, Zenon DEF r
  <2>3. Gapless(t) /\ Listed(t)
    BY <1>3, <1>6, <2>1, <2>2, ElsewhereStored, Zenon DEF t
  <2>4. QED
    BY <1>4, <1>7, <1>8, <1>9, <1>13, <2>3, Zenon DEF a, b, u
<1>16. QED
  BY <1>14, <1>15

\* What the writer reads of its own stores.
LEMMA CurrentIs ==
  ASSUME stores \in Seq(Store), NEW loc
  PROVE  \E j \in 0 .. Len(stores) :
             Newest(stores, loc, Len(stores), j) /\ Current(loc) = Value(stores, loc, j)
<1>1. Len(stores) \in 0 .. Len(stores)
  OBVIOUS
<1>2. /\ LatestTo(loc, Len(stores)) \in 0 .. Len(stores)
      /\ Newest(stores, loc, Len(stores), LatestTo(loc, Len(stores)))
  BY <1>1, LatestIsNewest, Zenon
<1>3. Current(loc) = Value(stores, loc, LatestTo(loc, Len(stores)))
  BY ValueIs, Zenon DEF Current
<1>4. QED
  BY <1>2, <1>3, Zenon

\* Insert before its loop: at most the greatest height changes.
LEMMA InsertBegins ==
  ASSUME WriterInv, NEW k \in SkipKeys, NEW h \in 1 .. kMaxHeight, SkipInsert(k, h)
  PROVE  WriterInv' /\ Extends(stores, stores')
<1> DEFINE e == [loc |-> MaxHeight, value |-> h]
<1>1. /\ inserting' = [op |-> "insert", key |-> k, height |-> h, level |-> 0]
      /\ stores' = Append(stores, e) \/ stores' = stores
  BY Zenon DEF SkipInsert
<1>2. /\ inserting' \in {Idle} \cup Inserts
      /\ inserting'.level < inserting'.height /\ ~(inserting'.level > 0)
  BY <1>1, SkipAssumption DEF Inserts, Levels
<1>3. stores \in Seq(Store) /\ Formed(stores) /\ Gapless(stores) /\ Listed(stores)
  BY Zenon DEF WriterInv
<1>4. e \in Store /\ e.loc = MaxHeight /\ e.value = h
  <2>1. h \in Nat /\ MaxHeight \in Locations
    BY SkipAssumption DEF Locations
  <2>2. QED
    BY <2>1 DEF Store
<1> HIDE DEF e
<1>5. \A m \in Nodes : e.loc # Link(m, 0)
  BY <1>4, LinkFacts
<1>6. MayFollow(stores, e)
  BY <1>4, Zenon DEF MayFollow, HeightStore
<1>7. /\ stores' \in Seq(Store) /\ Formed(stores') /\ Gapless(stores') /\ Listed(stores')
      /\ Extends(stores, stores')
  <2>1. CASE stores' = stores
    BY <1>3, <2>1 DEF Extends
  <2>2. CASE stores' = Append(stores, e)
    <3>1. Append(stores, e) \in Seq(Store) /\ Extends(stores, Append(stores, e))
      BY <1>3, <1>4, AfterStore, Zenon
    <3>2. Formed(Append(stores, e)) /\ Gapless(Append(stores, e)) /\ Listed(Append(stores, e))
      BY <1>3, <1>4, <1>5, <1>6, FormedGrows, ElsewhereStored, Zenon
    <3>3. QED
      BY <2>2, <3>1, <3>2
  <2>3. QED
    BY <1>1, <2>1, <2>2
<1>8. QED
  BY <1>2, <1>7, Zenon DEF WriterInv, Formed, Gapless, Listed, Linked, Published, Newest, Gap, Value, LinkStore,
                    HeightStore

\* One turn of the loop of Insert.
LEMMA InsertLinks ==
  ASSUME WriterInv, LinkNode
  PROVE  WriterInv' /\ Extends(stores, stores') /\ returned' \in {returned, Len(stores')}
<1> DEFINE l == inserting.level
           key == inserting.key
           p == Prev(key, l)
           u == Current(Link(p, l))
           t == stores \o << [loc |-> Link(key, l), value |-> u], [loc |-> Link(p, l), value |-> key] >>
           last == l = inserting.height - 1
<1>1. /\ inserting # Idle /\ stores' = t
      /\ inserting' = IF last THEN Idle ELSE [inserting EXCEPT !.level = l + 1]
      /\ returned' = IF last THEN Len(stores') ELSE returned
  BY Zenon DEF LinkNode
<1>2. /\ stores \in Seq(Store) /\ Formed(stores) /\ Gapless(stores) /\ Listed(stores)
      /\ inserting \in Inserts /\ l < inserting.height
      /\ l > 0 => Linked(stores, key, l - 1, Len(stores))
  BY <1>1, Zenon DEF WriterInv
<1>3. l \in Levels /\ key \in SkipKeys /\ inserting.height \in 1 .. kMaxHeight
  BY <1>2 DEF Inserts
<1>4. /\ p \in Nodes /\ p < key /\ Linked(stores, p, l, Len(stores))
      /\ l = 0 => \A x \in Nodes : Linked(stores, x, 0, Len(stores)) /\ x < key => x <= p
  BY <1>2, <1>3, PrevIs, Zenon
<1>5. PICK j \in 0 .. Len(stores) :
          Newest(stores, Link(p, l), Len(stores), j) /\ u = Value(stores, Link(p, l), j)
  BY <1>2, CurrentIs, Zenon
<1>6. ~last => /\ inserting' \in Inserts /\ inserting'.level = l + 1 /\ inserting'.key = key
               /\ l + 1 < inserting'.height
  <2>1. ASSUME ~last PROVE inserting' = [inserting EXCEPT !.level = l + 1]
    BY <1>1, <2>1, Zenon
  <2>2. ASSUME ~last PROVE l + 1 \in Levels /\ l + 1 < inserting.height
    BY <1>2, <1>3, <2>2, SkipAssumption DEF Levels
  <2>3. \A m \in Levels : LET i == [inserting EXCEPT !.level = m]
                         IN  i \in Inserts /\ i.level = m /\ i.key = key /\ i.height = inserting.height
    BY <1>2 DEF Inserts
  <2> HIDE DEF last, l, key
  <2>4. QED
    BY <2>1, <2>2, <2>3, Zenon
<1> HIDE DEF l, key, p, u
<1>7. /\ t \in Seq(Store) /\ Extends(stores, t) /\ Formed(t) /\ Gapless(t) /\ Listed(t)
      /\ Linked(t, key, l, Len(t))
  <2>1. t = stores \o << [loc |-> Link(key, l), value |-> Value(stores, Link(p, l), j)],
                         [loc |-> Link(p, l), value |-> key] >>
    BY <1>5
  <2>2. QED
    BY <1>2, <1>3, <1>4, <1>5, <2>1, TwoStores
<1> HIDE DEF t, last
<1>8. CASE last
  <2>1. inserting' = Idle /\ returned' = Len(stores')
    BY <1>1, <1>8, Zenon
  <2>2. QED
    BY <1>1, <1>7, <2>1 DEF WriterInv, Formed, Gapless, Listed, Linked, Published, Newest, Gap, Value,
                            LinkStore, HeightStore
<1>9. CASE ~last
  <2>1. /\ inserting' \in Inserts /\ inserting'.level = l + 1 /\ inserting'.key = key
        /\ inserting'.level < inserting'.height /\ returned' = returned
    BY <1>1, <1>6, <1>9, Zenon
  <2>2. inserting'.level - 1 = l
    BY <1>3, <2>1 DEF Levels
  <2>3. QED
    BY <1>1, <1>7, <2>1, <2>2 DEF WriterInv, Formed, Gapless, Listed, Linked, Published, Newest, Gap, Value,
                                  LinkStore, HeightStore
<1>10. QED
  BY <1>8, <1>9

------------------------------------------------------------------------------
\* The reader.

LEMMA KeysOfIs ==
  ASSUME stores \in Seq(Store), NEW v \in 0 .. Len(stores), NEW k \in SkipKeys
  PROVE  k \in KeysOf(v) <=> Published(stores, k, v)
<1>1. \A i \in 1 .. v : stores[i].loc \in Locations
  <2>1. \A i \in 1 .. v : stores[i] \in Store
    OBVIOUS
  <2>2. \A e \in Store : e.loc \in Locations
    BY DEF Store
  <2>3. QED
    BY <2>1, <2>2, Zenon
<1>2. \A loc \in Locations : loc[2] = 0 /\ loc # MaxHeight => \E n \in Nodes : loc = Link(n, 0)
  BY DEF Locations, Link
<1>3. \A n \in Nodes : Link(n, 0)[2] = 0 /\ Link(n, 0) # MaxHeight
  BY LinkFacts, Zenon
<1>4. ASSUME k \in KeysOf(v) PROVE Published(stores, k, v)
  <2>1. PICK i \in 1 .. v : stores[i].loc[2] = 0 /\ stores[i].loc # MaxHeight /\ stores[i].value = k
    BY <1>4, Zenon DEF KeysOf
  <2>2. QED
    BY <1>1, <1>2, <2>1, Zenon DEF Published
<1>5. ASSUME Published(stores, k, v) PROVE k \in KeysOf(v)
  <2>1. PICK i \in 1 .. v : stores[i].value = k /\ \E n \in Nodes : stores[i].loc = Link(n, 0)
    BY <1>5, Zenon DEF Published
  <2>2. stores[i].loc[2] = 0 /\ stores[i].loc # MaxHeight
    BY <1>3, <2>1, Zenon
  <2>3. QED
    BY <2>1, <2>2, Zenon DEF KeysOf
<1>6. QED
  BY <1>4, <1>5

\* The store a load returns is the newest one of the view after it.
LEMMA LoadIs ==
  ASSUME stores \in Seq(Store), view \in 0 .. Len(stores), NEW loc, NEW i \in Loads(loc)
  PROVE  LET w == IF i > view THEN i ELSE view
         IN  w \in view .. Len(stores) /\ i \in 0 .. w /\ Newest(stores, loc, w, i)
<1>1. LatestTo(loc, view) \in 0 .. view /\ Newest(stores, loc, view, LatestTo(loc, view))
  BY LatestIsNewest, Zenon
<1>2. CASE i = LatestTo(loc, view)
  <2>1. ~(i > view)
    BY <1>1, <1>2
  <2>2. QED
    BY <1>1, <1>2, <2>1
<1>3. CASE i \in 1 .. Len(stores) /\ stores[i].loc = loc /\ i > view
  <2>1. Newest(stores, loc, i, i)
    BY <1>3 DEF Newest
  <2>2. QED
    BY <1>3, <2>1
<1>4. QED
  BY <1>2, <1>3, Zenon DEF Loads, StoresTo

\* What Next returns on a node the reader has been led to.
LEMMA NextIs ==
  ASSUME WriterInv, view \in 0 .. Len(stores), NEW n \in Nodes, NEW l \in Levels,
         Linked(stores, n, l, view), NEW r \in Next(n, l)
  PROVE  /\ r.view \in 0 .. Len(stores) /\ view <= r.view
         /\ r.node \in SkipKeys \cup {NULL} /\ r.node # Uninitialized
         /\ r.node # NULL => Linked(stores, r.node, l, r.view)
         /\ l = 0 => \A k \in SkipKeys : k \in KeysOf(r.view) /\ n < k => r.node <= k
<1>1. PICK i \in Loads(Link(n, l)) :
          r = [node |-> ValueAt(Link(n, l), i), view |-> IF i > view THEN i ELSE view]
  BY Zenon DEF Next
<1> DEFINE w == IF i > view THEN i ELSE view
           u == Value(stores, Link(n, l), i)
<1>2. r.node = u /\ r.view = w
  BY <1>1, ValueIs
<1>3. stores \in Seq(Store) /\ Formed(stores) /\ Gapless(stores)
  BY Zenon DEF WriterInv
<1>4. w \in view .. Len(stores) /\ i \in 0 .. w /\ Newest(stores, Link(n, l), w, i)
  BY <1>3, LoadIs, Zenon
<1> HIDE DEF w, u
<1>5. w \in 0 .. Len(stores) /\ view \in Nat /\ w \in Nat /\ view <= w
  BY <1>3, <1>4
<1>6. Linked(stores, n, l, w)
  BY <1>5, LinkedLater, Zenon
<1>7. u \in SkipKeys \cup {NULL} /\ (u # NULL => Linked(stores, u, l, w))
  BY <1>3, <1>4, <1>5, <1>6, LinkLeads, Zenon DEF u
<1>8. u # Uninitialized
  BY <1>7, NodeFacts DEF Uninitialized
<1>9. ASSUME l = 0, NEW k \in SkipKeys, k \in KeysOf(w), n < k
      PROVE  u <= k
  <2>1. Published(stores, k, w)
    BY <1>3, <1>5, <1>9, KeysOfIs, Zenon
  <2>2. Linked(stores, n, 0, w) /\ Newest(stores, Link(n, 0), w, i) /\ u = Value(stores, Link(n, 0), i)
    BY <1>4, <1>6, <1>9, Zenon DEF u
  <2>3. Gap(stores, n, w, i)
    BY <1>3, <1>4, <1>5, <2>2, Zenon DEF Gapless
  <2>4. QED
    BY <1>9, <2>1, <2>2, <2>3, Zenon DEF Gap
<1>10. QED
  BY <1>2, <1>5, <1>7, <1>8, <1>9, Zenon

\* The height a search starts on.
LEMMA HeightIs ==
  ASSUME WriterInv, view \in 0 .. Len(stores), NEW i \in Loads(MaxHeight)
  PROVE  ValueAt(MaxHeight, i) - 1 \in Levels
<1>1. stores \in Seq(Store) /\ Formed(stores)
  BY Zenon DEF WriterInv
<1>2. i \in 0 .. (IF i > view THEN i ELSE view) /\ Newest(stores, MaxHeight, IF i > view THEN i ELSE view, i)
      /\ (IF i > view THEN i ELSE view) \in view .. Len(stores)
  BY <1>1, LoadIs, Zenon
<1>3. CASE i = 0
  <2>1. ValueAt(MaxHeight, i) = 1
    BY <1>3, Zenon DEF ValueAt
  <2>2. QED
    BY <2>1, SkipAssumption DEF Levels
<1>4. CASE i # 0
  <2>1. i \in 1 .. Len(stores) /\ stores[i].loc = MaxHeight
    BY <1>1, <1>2, <1>4 DEF Newest
  <2>2. HeightStore(stores[i])
    <3>1. \A n \in Nodes, l \in Levels : ~LinkStore(stores, i, n, l)
      BY <2>1, LinkFacts DEF LinkStore
    <3>2. QED
      BY <1>1, <2>1, <3>1, Zenon DEF Formed
  <2>3. ValueAt(MaxHeight, i) \in 1 .. kMaxHeight
    BY <1>4, <2>2, Zenon DEF ValueAt, HeightStore
  <2>4. QED
    BY <2>3, SkipAssumption DEF Levels
<1>5. QED
  BY <1>3, <1>4

\* The reader is where its own stores of the view have led it, whatever the
\* writer does meanwhile.
LEMMA ReaderKept ==
  ASSUME WriterInv, ReaderInv, stores' \in Seq(Store), Extends(stores, stores'),
         returned' \in {returned, Len(stores')}, UNCHANGED <<view, search, node_, passed, wild>>
  PROVE  ReaderInv'
<1>1. stores \in Seq(Store) /\ view \in 0 .. Len(stores) /\ returned \in 0 .. Len(stores)
  BY Zenon DEF WriterInv, ReaderInv
<1>2. view' = view /\ search' = search /\ node_' = node_ /\ passed' = passed /\ wild' = wild
  OBVIOUS
<1>3. /\ view \in 0 .. Len(stores') /\ \A x, l : Linked(stores', x, l, view) <=> Linked(stores, x, l, view)
      /\ \A i \in 1 .. view : stores'[i] = stores[i]
  <2>1. \A i \in 1 .. view : stores'[i] = stores[i]
    BY <1>1 DEF Extends
  <2>2. QED
    BY <1>1, <2>1, Unmade, Zenon
<1>4. returned' \in 0 .. Len(stores')
  BY <1>1 DEF Extends
<1>5. KeysOf(view)' = KeysOf(view)
  <2>1. KeysOf(view)' = {k \in SkipKeys : \E i \in 1 .. view : /\ stores'[i].loc[2] = 0
                                                            /\ stores'[i].loc # MaxHeight
                                                            /\ stores'[i].value = k}
    BY <1>2 DEF KeysOf
  <2>2. QED
    BY <1>3, <2>1, Zenon DEF KeysOf
<1>6. LinksInitialized' /\ NothingPassedOver'
  <2>1. ~wild'
    <3>1. ~wild
      BY Zenon DEF ReaderInv, LinksInitialized
    <3>2. QED
      BY <1>2, <3>1
  <2>2. search = Idle => passed \cap KeysOf(view) = {}
    BY Zenon DEF ReaderInv, NothingPassedOver
  <2>3. search' = Idle => passed' \cap KeysOf(view)' = {}
    BY <1>2, <1>5, <2>2
  <2>4. QED
    BY <2>1, <2>3, Zenon DEF LinksInitialized, NothingPassedOver
<1>7. /\ node_' \in SkipKeys \cup {NULL} /\ search' \in {Idle} \cup Searches /\ passed' \subseteq SkipKeys
      /\ node_' # NULL => Linked(stores', node_', 0, view')
  BY <1>2, <1>3, Zenon DEF ReaderInv
<1>8. search' # Idle => search'.x < search'.key /\ Linked(stores', search'.x, search'.level, view')
  BY <1>2, <1>3, Zenon DEF ReaderInv
<1>9. QED
  BY <1>2, <1>3, <1>4, <1>6, <1>7, <1>8, Zenon DEF ReaderInv, Linked

\* The same of a step of the reader's own, which only extends its view.
LEMMA ReaderMoved ==
  ASSUME WriterInv, ReaderInv, UNCHANGED <<stores, returned>>,
         view' \in 0 .. Len(stores), view <= view', ~wild',
         node_' \in SkipKeys \cup {NULL}, node_' # NULL => Linked(stores, node_', 0, view'),
         search' \in {Idle} \cup Searches,
         search' # Idle => search'.x < search'.key /\ Linked(stores, search'.x, search'.level, view'),
         passed' \subseteq SkipKeys,
         search' = Idle => passed' \cap KeysOf(view') = {}
  PROVE  ReaderInv'
<1>1. stores' = stores /\ returned' = returned /\ returned \in 0 .. Len(stores)
  BY Zenon DEF ReaderInv
<1>2. KeysOf(view)' = KeysOf(view')
  BY <1>1, Zenon DEF KeysOf
<1>3. LinksInitialized' /\ NothingPassedOver'
  BY <1>1, <1>2, Zenon DEF LinksInitialized, NothingPassedOver
<1>4. QED
  BY <1>1, <1>3 DEF ReaderInv, Linked

LEMMA BeginStep ==
  ASSUME WriterInv, ReaderInv, NEW op \in {"FindGreaterOrEqual", "FindLessThan"},
         NEW key \in SkipKeys \cup {NULL}, Begin(op, key)
  PROVE  ReaderInv'
<1>1. /\ view \in 0 .. Len(stores) /\ node_ \in SkipKeys \cup {NULL}
      /\ node_ # NULL => Linked(stores, node_, 0, view)
  BY Zenon DEF ReaderInv
<1>2. PICK i \in Loads(MaxHeight) :
          search' = [op |-> op, key |-> key, x |-> head_, level |-> ValueAt(MaxHeight, i) - 1]
  BY Zenon DEF Begin
<1>3. /\ stores' = stores /\ returned' = returned /\ view' = view /\ node_' = node_ /\ ~wild'
      /\ passed' = {}
  BY Zenon DEF Begin, ReaderInv, LinksInitialized
<1>4. ValueAt(MaxHeight, i) - 1 \in Levels
  BY <1>1, HeightIs, Zenon
<1>5. search' \in Searches /\ search'.x = head_ /\ search'.key = key
  <2>1. \A m \in Levels : [op |-> op, key |-> key, x |-> head_, level |-> m] \in Searches
    BY DEF Searches, Nodes
  <2>2. QED
    BY <1>2, <1>4, <2>1
<1>6. head_ < key /\ view <= view
  BY <1>1, NodeFacts
<1>7. Linked(stores, search'.x, search'.level, view')
  BY <1>5, Zenon DEF Linked
<1>8. passed' \subseteq SkipKeys /\ passed' \cap KeysOf(view') = {}
  BY <1>3
<1>9. QED
  BY <1>1, <1>3, <1>5, <1>6, <1>7, <1>8, ReaderMoved

LEMMA FollowStep ==
  ASSUME WriterInv, ReaderInv, NEW from \in Nodes, Linked(stores, from, 0, view), Follow(from)
  PROVE  ReaderInv'
<1>1. view \in 0 .. Len(stores) /\ 0 \in Levels /\ search = Idle
  BY SkipAssumption DEF ReaderInv, Follow, Levels
<1>2. PICK r \in Next(from, 0) :
          /\ view' = r.view /\ wild' = (wild \/ r.node = Uninitialized)
          /\ node_' = IF r.node = Uninitialized THEN NULL ELSE r.node
          /\ passed' = Between(from, r.node)
  BY Zenon DEF Follow
<1>3. stores' = stores /\ returned' = returned /\ search' = Idle
  BY <1>1, Zenon DEF Follow
<1>4. /\ r.view \in 0 .. Len(stores) /\ view <= r.view
      /\ r.node \in SkipKeys \cup {NULL} /\ r.node # Uninitialized
      /\ r.node # NULL => Linked(stores, r.node, 0, r.view)
      /\ \A k \in SkipKeys : k \in KeysOf(r.view) /\ from < k => r.node <= k
  BY <1>1, NextIs, Zenon
<1>5. ~wild' /\ node_' = r.node
  BY <1>2, <1>4, Zenon DEF ReaderInv, LinksInitialized
<1>6. passed' \subseteq SkipKeys /\ passed' \cap KeysOf(view') = {}
  <2>1. r.node \in Nat /\ \A k \in SkipKeys : k \in Nat
    BY <1>4, NodeFacts
  <2>2. QED
    BY <1>2, <1>4, <2>1 DEF Between
<1>7. QED
  BY <1>2, <1>3, <1>4, <1>5, <1>6, ReaderMoved

\* One turn of the loop of a search.
LEMMA SearchMoves ==
  ASSUME WriterInv, ReaderInv, SearchStep
  PROVE  ReaderInv'
<1> DEFINE x == search.x
           l == search.level
           key == search.key
<1>1. /\ view \in 0 .. Len(stores) /\ search \in Searches /\ search # Idle
      /\ x < key /\ Linked(stores, x, l, view) /\ ~wild
      /\ node_ \in SkipKeys \cup {NULL} /\ passed \subseteq SkipKeys
      /\ node_ # NULL => Linked(stores, node_, 0, view)
  BY Zenon DEF ReaderInv, LinksInitialized, SearchStep
<1>2. x \in Nodes /\ l \in Levels /\ key \in SkipKeys \cup {NULL}
  BY <1>1 DEF Searches
<1>3. stores' = stores /\ returned' = returned
  BY Zenon DEF SearchStep
<1>4. PICK r \in Next(x, l) :
          /\ view' = r.view /\ wild' = (wild \/ r.node = Uninitialized)
          /\ \/ /\ r.node < key
                /\ search' = [search EXCEPT !.x = r.node]
                /\ UNCHANGED <<node_, passed>>
             \/ /\ r.node >= key \/ r.node = Uninitialized
                /\ l > 0
                /\ search' = [search EXCEPT !.level = l - 1]
                /\ UNCHANGED <<node_, passed>>
             \/ /\ r.node >= key
                /\ l = 0
                /\ Finish(r.node)
  BY Zenon DEF SearchStep
<1>5. /\ r.view \in 0 .. Len(stores) /\ view <= r.view
      /\ r.node \in SkipKeys \cup {NULL} /\ r.node # Uninitialized
      /\ r.node # NULL => Linked(stores, r.node, l, r.view)
      /\ l = 0 => \A k \in SkipKeys : k \in KeysOf(r.view) /\ x < k => r.node <= k
  BY <1>1, <1>2, NextIs, Zenon
<1>6. /\ view' \in 0 .. Len(stores) /\ view <= view' /\ ~wild'
      /\ view \in Nat /\ view' \in Nat /\ stores \in Seq(Store) /\ Formed(stores)
  <2>1. view' \in 0 .. Len(stores) /\ view <= view' /\ ~wild'
    BY <1>1, <1>4, <1>5, Zenon
  <2>2. stores \in Seq(Store) /\ Formed(stores)
    BY Zenon DEF WriterInv
  <2>3. QED
    BY <1>1, <2>1, <2>2
<1>7. (node_ # NULL => Linked(stores, node_, 0, view')) /\ Linked(stores, x, l, view')
  BY <1>1, <1>6, LinkedLater, Zenon
<1>8. \A n \in Nodes, m \in Levels :
          /\ [search EXCEPT !.x = n] \in Searches /\ [search EXCEPT !.level = m] \in Searches
          /\ [search EXCEPT !.x = n].x = n /\ [search EXCEPT !.x = n].key = key
          /\ [search EXCEPT !.x = n].level = l
          /\ [search EXCEPT !.level = m].x = x /\ [search EXCEPT !.level = m].key = key
          /\ [search EXCEPT !.level = m].level = m
  BY <1>1 DEF Searches
<1>9. \A s \in Searches : s # Idle
  BY DEF Searches, Idle
<1> HIDE DEF x, l, key
<1>10. CASE r.node < key /\ search' = [search EXCEPT !.x = r.node] /\ UNCHANGED <<node_, passed>>
  <2>1. r.node \in SkipKeys /\ r.node \in Nodes /\ r.node # NULL
    BY <1>2, <1>5, <1>10, NodeFacts DEF Nodes
  <2>2. search' \in Searches /\ search'.x = r.node /\ search'.key = key /\ search'.level = l
    BY <1>2, <1>8, <1>10, <2>1, Zenon
  <2>3. search' # Idle /\ search'.x < search'.key /\ Linked(stores, search'.x, search'.level, view')
    BY <1>4, <1>5, <1>9, <1>10, <2>1, <2>2
  <2>4. QED
    BY <1>1, <1>3, <1>6, <1>7, <1>10, <2>2, <2>3, ReaderMoved
<1>11. CASE l > 0 /\ search' = [search EXCEPT !.level = l - 1] /\ UNCHANGED <<node_, passed>>
  <2>1. l - 1 \in Levels
    BY <1>2, <1>11, SkipAssumption DEF Levels
  <2>2. search' \in Searches /\ search'.x = x /\ search'.key = key /\ search'.level = l - 1
    BY <1>2, <1>8, <1>11, <2>1, Zenon
  <2>3. Linked(stores, x, l - 1, view')
    BY <1>2, <1>6, <1>7, <1>11, LinkedBelow, Zenon
  <2>4. search' # Idle /\ search'.x < search'.key /\ Linked(stores, search'.x, search'.level, view')
    BY <1>1, <1>9, <2>2, <2>3 DEF x, key
  <2>5. QED
    BY <1>1, <1>3, <1>6, <1>7, <1>11, <2>2, <2>4, ReaderMoved
<1>12. CASE r.node >= key /\ l = 0 /\ Finish(r.node)
  <2>1. search' = Idle
    BY <1>12, Zenon DEF Finish
  <2>2. /\ x \in Nat /\ key \in Nat /\ r.node \in Nat /\ x < key
        /\ \A k \in SkipKeys : k \in Nat /\ (k \in KeysOf(view') /\ x < k => r.node <= k)
    BY <1>1, <1>2, <1>4, <1>5, <1>12, NodeFacts DEF x, key
  <2>3. CASE search.op = "FindGreaterOrEqual"
    <3>1. node_' = r.node /\ passed' = Between(key - 1, r.node)
      BY <1>12, <2>3, Zenon DEF Finish, key
    <3>2. passed' \subseteq SkipKeys /\ passed' \cap KeysOf(view') = {}
      BY <2>2, <3>1 DEF Between
    <3>3. QED
      BY <1>3, <1>4, <1>5, <1>6, <1>12, <2>1, <3>1, <3>2, ReaderMoved
  <2>4. CASE search.op # "FindGreaterOrEqual"
    <3>1. node_' = (IF x = head_ THEN NULL ELSE x) /\ passed' = Between(x, key)
      BY <1>12, <2>4, Zenon DEF Finish, x, key
    <3>2. passed' \subseteq SkipKeys /\ passed' \cap KeysOf(view') = {}
      BY <1>12, <2>2, <3>1 DEF Between
    <3>3. node_' \in SkipKeys \cup {NULL} /\ (node_' # NULL => Linked(stores, node_', 0, view'))
      BY <1>2, <1>7, <1>12, <3>1 DEF Nodes
    <3>4. QED
      BY <1>3, <1>6, <2>1, <3>2, <3>3, ReaderMoved
  <2>5. QED
    BY <2>3, <2>4
<1>13. QED
  BY <1>4, <1>10, <1>11, <1>12, Zenon DEF x, l, key

SkipInv == WriterInv /\ ReaderInv

LEMMA WriterStays ==
  ASSUME WriterInv, UNCHANGED <<stores, inserting>>
  PROVE  WriterInv'
  BY Zenon DEF WriterInv

LEMMA SkipStep == SkipInv /\ [SkipNext]_skipVars => SkipInv'
<1> SUFFICES ASSUME WriterInv, ReaderInv, [SkipNext]_skipVars PROVE WriterInv' /\ ReaderInv'
  BY Zenon DEF SkipInv
<1>1. /\ stores \in Seq(Store) /\ view \in 0 .. Len(stores) /\ returned \in 0 .. Len(stores)
      /\ node_ \in SkipKeys \cup {NULL} /\ (node_ # NULL => Linked(stores, node_, 0, view))
      /\ search \in {Idle} \cup Searches
  BY Zenon DEF WriterInv, ReaderInv
<1>2. CASE UNCHANGED skipVars
  <2>1. Extends(stores, stores') /\ stores' \in Seq(Store)
    BY <1>1, <1>2 DEF Extends, skipVars
  <2>2. QED
    BY <1>2, <2>1, WriterStays, ReaderKept DEF skipVars
<1>3. ASSUME NEW k \in SkipKeys, NEW h \in 1 .. kMaxHeight, SkipInsert(k, h)
      PROVE  WriterInv' /\ ReaderInv'
  <2>1. WriterInv' /\ Extends(stores, stores')
    BY <1>3, InsertBegins, Zenon
  <2>2. stores' \in Seq(Store)
    BY <2>1, Zenon DEF WriterInv
  <2>3. UNCHANGED <<returned, view, search, node_, passed, wild>>
    BY <1>3, Zenon DEF SkipInsert
  <2>4. QED
    BY <2>1, <2>2, <2>3, ReaderKept
<1>4. CASE LinkNode
  <2>1. WriterInv' /\ Extends(stores, stores') /\ returned' \in {returned, Len(stores')}
    BY <1>4, InsertLinks, Zenon
  <2>2. stores' \in Seq(Store)
    BY <2>1, Zenon DEF WriterInv
  <2>3. UNCHANGED <<view, search, node_, passed, wild>>
    BY <1>4, Zenon DEF LinkNode
  <2>4. QED
    BY <2>1, <2>2, <2>3, ReaderKept
<1>5. CASE MutexLock
  <2>1. /\ UNCHANGED <<stores, inserting, returned, search, node_, wild>> /\ view < returned
        /\ view' = returned /\ passed' = {} /\ search = Idle
    BY <1>5, Zenon DEF MutexLock
  <2>2. view' \in 0 .. Len(stores) /\ view <= view' /\ view \in Nat /\ view' \in Nat
    BY <1>1, <2>1
  <2>3. node_' # NULL => Linked(stores, node_', 0, view')
    BY <1>1, <2>1, <2>2, LinkedLater
  <2>4. ~wild'
    BY <2>1, Zenon DEF ReaderInv, LinksInitialized
  <2>5. ReaderInv'
    BY <1>1, <2>1, <2>2, <2>3, <2>4, ReaderMoved
  <2>6. QED
    BY <2>1, <2>5, WriterStays
<1>6. ASSUME NEW op \in {"FindGreaterOrEqual", "FindLessThan"}, NEW key \in SkipKeys \cup {NULL},
             Begin(op, key)
      PROVE  WriterInv' /\ ReaderInv'
  <2>1. UNCHANGED <<stores, inserting>>
    BY <1>6, Zenon DEF Begin
  <2>2. QED
    BY <1>6, <2>1, BeginStep, WriterStays
<1>7. ASSUME NEW from \in Nodes, Linked(stores, from, 0, view), Follow(from)
      PROVE  WriterInv' /\ ReaderInv'
  <2>1. UNCHANGED <<stores, inserting>>
    BY <1>7, Zenon DEF Follow
  <2>2. QED
    BY <1>7, <2>1, FollowStep, WriterStays
<1>8. CASE SearchStep
  <2>1. UNCHANGED <<stores, inserting>>
    BY <1>8, Zenon DEF SearchStep
  <2>2. QED
    BY <1>8, <2>1, SearchMoves, WriterStays
<1>9. ASSUME NEW k \in SkipKeys, Seek(k) PROVE WriterInv' /\ ReaderInv'
  BY <1>6, <1>9, Zenon DEF Seek
<1>10. ASSUME SeekToLast \/ IterPrev PROVE WriterInv' /\ ReaderInv'
  BY <1>1, <1>6, <1>10, Zenon DEF SeekToLast, IterPrev
<1>11. CASE SeekToFirst
  <2>1. head_ \in Nodes /\ Linked(stores, head_, 0, view)
    BY Zenon DEF Nodes, Linked
  <2>2. QED
    BY <1>7, <1>11, <2>1, Zenon DEF SeekToFirst
<1>12. CASE IterNext
  <2>1. node_ \in Nodes /\ Linked(stores, node_, 0, view) /\ Follow(node_)
    BY <1>1, <1>12, Zenon DEF IterNext, Nodes
  <2>2. QED
    BY <1>7, <2>1, Zenon
<1>13. QED
  BY <1>2, <1>3, <1>4, <1>5, <1>8, <1>9, <1>10, <1>11, <1>12, Zenon DEF SkipNext

LEMMA SkipStarts == SkipInit => SkipInv
<1> SUFFICES ASSUME SkipInit PROVE WriterInv /\ ReaderInv
  BY Zenon DEF SkipInv
<1>1. /\ stores = <<>> /\ inserting = Idle /\ returned = 0 /\ view = 0 /\ search = Idle /\ node_ = NULL
      /\ passed = {} /\ ~wild
  BY Zenon DEF SkipInit
<1>2. stores \in Seq(Store) /\ Len(stores) = 0 /\ \A v \in 0 .. 0 : v = 0 /\ ~\E i \in 1 .. v : TRUE
  BY <1>1
<1>3. Formed(stores)
  BY <1>2 DEF Formed
<1>4. \A k : ~Published(stores, k, 0)
  BY <1>2 DEF Published
<1>5. \A v \in 0 .. 0 : \A x \in Nodes : \A j : Gap(stores, x, v, j)
  BY <1>2, <1>4, Zenon DEF Gap
<1>6. Gapless(stores)
  BY <1>2, <1>5, Zenon DEF Gapless
<1>7. Listed(stores)
  BY <1>2, NodeFacts DEF Listed, Linked
<1>8. WriterInv
  BY <1>1, <1>2, <1>3, <1>6, <1>7 DEF WriterInv
<1>9. ReaderInv
  BY <1>1, <1>2 DEF ReaderInv, LinksInitialized, NothingPassedOver
<1>10. QED
  BY <1>8, <1>9

\* Every link a reader of the memtable follows was stored before the node it
\* found the link in was linked: Insert stores the node's own link without a
\* barrier and publishes the node with a release store, level by level upwards,
\* and every link is loaded with an acquire.
THEOREM ReadersFollowStoredLinks == SkipSpec => []LinksInitialized
<1>1. SkipInv => LinksInitialized
  BY Zenon DEF SkipInv, ReaderInv
<1>2. QED
  BY <1>1, SkipStarts, SkipStep, PTL DEF SkipSpec

\* No call of the reader's iterator moves over a key it is sure to see, however
\* old the height a search starts on is and whatever is being inserted.
THEOREM ReadersPassNothingOver == SkipSpec => []NothingPassedOver
<1>1. SkipInv => NothingPassedOver
  BY Zenon DEF SkipInv, ReaderInv
<1>2. QED
  BY <1>1, SkipStarts, SkipStep, PTL DEF SkipSpec

==============================================================================
