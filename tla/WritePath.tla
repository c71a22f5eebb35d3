----------------------------- MODULE WritePath ------------------------------
(***************************************************************************)
(* leveldb::DBImpl at run time: the queue of writers and its group commit, *)
(* the switch of memtables, the background thread that turns a full        *)
(* memtable into a table and compacts level 0, the readers, and the        *)
(* destructor.  An action is what a thread does in one critical section of *)
(* mutex_, or in one stretch between two of them; mutex_ itself is a       *)
(* variable because Write and MakeRoomForWrite keep it over several steps. *)
(*                                                                         *)
(* A memtable has the number of the log file that covers it, since         *)
(* MakeRoomForWrite creates both together; 0 is the NULL memtable.  A      *)
(* table is the set of its entries.  Level 0 is the sequence of its        *)
(* tables, oldest first; the levels below it are one level.                *)
(***************************************************************************)
EXTENDS Naturals, Sequences, FiniteSets, Functions, Concatenation

CONSTANTS
  Threads, Keys, Values, Deleted, NULL,
  Batches,          \* what callers write; <<>> is the NULL batch
  Syncs,            \* the WriteOptions::sync they write with
  WriteBuffer,      \* options_.write_buffer_size, in entries
  MaxGroup,         \* the max_size of BuildBatchGroup, in entries
  CompactTrigger,   \* config::kL0_CompactionTrigger
  SlowdownTrigger,  \* config::kL0_SlowdownWritesTrigger
  StopTrigger,      \* config::kL0_StopWritesTrigger
  MaxCalls,         \* bound: calls of Write
  MaxReads,         \* bound: Gets and iterators
  MaxErrors,        \* bound: I/O errors
  Faults            \* the operations that may fail

ASSUME WriteAssumption ==
  /\ NULL \notin Threads \cup Values /\ Deleted \notin Values \cup {NULL}
  /\ \A b \in Batches : b \in Seq([key : Keys, val : Values \cup {Deleted}])
  /\ Syncs \subseteq BOOLEAN
  /\ {WriteBuffer, MaxGroup, MaxCalls, MaxReads, MaxErrors} \subseteq Nat
  /\ {CompactTrigger, SlowdownTrigger, StopTrigger} \subseteq Nat \ {0}
  /\ CompactTrigger <= SlowdownTrigger /\ SlowdownTrigger <= StopTrigger
  /\ Faults \subseteq {"newFile", "append", "sync", "table", "compaction",
                       "manifest", "manifestSync"}

VARIABLES
  mutex_,               \* the thread that keeps mutex_, or NULL
  writers_,             \* the queue of writers
  batch, sync,          \* Writer::batch and Writer::sync of each thread
  done,                 \* threads whose Writer::done is set
  signalled,            \* threads whose condition variable was signalled
  force, allow_delay,   \* MakeRoomForWrite's, for the writer at the front
  group,                \* the group the front writer is writing
  mem_, imm_,           \* the memtables
  table,                \* the entries of each memtable
  refs_,                \* the reference count of each memtable
  log, synced,          \* the entries in each log file, and those synced
  logFiles,             \* the log files that exist
  lastSequence,         \* versions_->LastSequence()
  current,              \* the current version
  logNumber,            \* versions_->LogNumber()
  manifest, durable,    \* the MANIFEST as written, and as last synced
  scheduled,            \* bg_compaction_scheduled_
  bg,                   \* the background thread
  edit,                 \* the VersionEdit it applies
  shutting_down_,
  pc, view, ret,        \* the threads, their readers and what those return
  calls, reads,         \* counters of the bounds
  errors,               \* the I/O errors so far
  acked                 \* the entries of acknowledged writes

queue == <<writers_, batch, sync, done, group>>
room == <<force, allow_delay>>
memory == <<mem_, imm_, table, refs_>>
logs == <<log, synced, logFiles>>
versions == <<lastSequence, current, logNumber>>
disk == <<manifest, durable>>
background == <<bg, edit>>
readers == <<view, ret>>
bounds == <<calls, reads, errors>>
vars == <<mutex_, queue, signalled, room, memory, logs, versions, disk,
          scheduled, background, shutting_down_, pc, readers, bounds, acked>>

Entry == [key : Keys, val : Values \cup {Deleted}, seq : Nat \ {0}]
NoGroup == [members |-> <<>>, updates |-> <<>>, todo |-> <<>>, ok |-> TRUE]
NoEdit == [drop |-> {}, old |-> {}, add |-> <<>>, below |-> {}, log |-> 0]
Version == [level0 : Seq(SUBSET Entry), below : SUBSET Entry]
NoVersion == [level0 |-> <<>>, below |-> {}]
(* What a reader holds on to.                                              *)
View == [mem : Nat, imm : Nat, version : Version, seq : Nat,
         isCurrent : BOOLEAN, searched : BOOLEAN]
ASSUME ViewAssumption == NULL \notin View
Writing == {"w.wait", "w.room", "w.sleep", "w.bgwait", "w.log", "w.insert",
            "w.finish"}
Labels == Writing \cup {"idle", "g.read", "g.end", "i.open", "c.wait",
                        "closed"}
BgLabels == {"idle", "build", "work", "manifest", "install", "error",
             "sleep"}
-----------------------------------------------------------------------------
(* What a lookup sees.  Version::Get and DBImpl::Get stop at the first     *)
(* source that has the key; an iterator merges all the sources.            *)

Visible(s, k, seq) == {e \in s : e.key = k /\ e.seq <= seq}

Newest(s) == CHOOSE e \in s : \A f \in s : f.seq <= e.seq

KeysOf(s) == {e.key : e \in s}

MemTables(mem, imm) ==
  IF imm = 0 THEN <<table[mem]>> ELSE <<table[mem], table[imm]>>

Tables(v) ==
  LET n == Len(v.level0)
  IN  [i \in 1 .. n |-> v.level0[n + 1 - i]] \o <<v.below>>

Sources(v) == MemTables(v.mem, v.imm) \o Tables(v.version)

LookUp(sources, k, seq) ==
  LET hits == {i \in DOMAIN sources : Visible(sources[i], k, seq) # {}}
  IN  IF hits = {} THEN Deleted
      ELSE LET first == CHOOSE i \in hits : \A j \in hits : i <= j
           IN  Newest(Visible(sources[first], k, seq)).val

MergedLookUp(sources, k, seq) ==
  LET all == Visible(UNION Range(sources), k, seq)
  IN  IF all = {} THEN Deleted ELSE Newest(all).val
-----------------------------------------------------------------------------
Init ==
  /\ mutex_ = NULL /\ writers_ = <<>> /\ signalled = {} /\ done = {}
  /\ batch = [t \in Threads |-> <<>>] /\ sync = [t \in Threads |-> FALSE]
  /\ force = FALSE /\ allow_delay = FALSE /\ group = NoGroup
  /\ mem_ = 1 /\ imm_ = 0 /\ table = <<{}>> /\ refs_ = <<1>>
  /\ log = <<{}>> /\ synced = <<{}>> /\ logFiles = {1}
  /\ lastSequence = 0 /\ logNumber = 1
  /\ current = [version |-> NoVersion, seek |-> FALSE]
  /\ manifest = [version |-> NoVersion, log |-> 1] /\ durable = manifest
  /\ scheduled = FALSE /\ edit = NoEdit
  /\ bg = [at |-> "idle", inner |-> FALSE, inputs |-> {}, smallest |-> 0]
  /\ shutting_down_ = FALSE
  /\ pc = [t \in Threads |-> "idle"]
  /\ view = [t \in Threads |-> NULL] /\ ret = [t \in Threads |-> NULL]
  /\ calls = 0 /\ reads = 0 /\ errors = {}
  /\ acked = [all |-> {}, sync |-> {}]

Goto(t, l) == pc' = [pc EXCEPT ![t] = l]

(* An operation fails, at most MaxErrors times.  log::Writer and Posix-    *)
(* MmapFile go on as if it had not: block_offset_ and last_sync_ have been *)
(* moved over what was not written or not synced.  Of the records of mem_'s*)
(* log only those in front of the failed append, or synced before the      *)
(* failed sync, are sure to be found from now on.                          *)
Fault(f) ==
  /\ f \in Faults /\ Cardinality(errors) < MaxErrors
  /\ errors' = errors \cup
       {[nr |-> Cardinality(errors), op |-> f, log |-> mem_,
         sure |-> IF f = "append" THEN log[mem_] ELSE synced[mem_]]}

Failed(op) == \E x \in errors : x.op = op

NeedsCompaction(c) == Len(c.version.level0) >= CompactTrigger \/ c.seek

(* MaybeScheduleCompaction, given the state it is called in.               *)
MaybeSchedule(already, imm, c) ==
  scheduled' = \/ already
               \/ ~shutting_down_ /\ (imm # 0 \/ NeedsCompaction(c))

BgCvSignalAll ==
  signalled' = signalled \cup {t \in Threads : pc[t] \in {"w.bgwait", "c.wait"}}
-----------------------------------------------------------------------------
(* DBImpl::Write: the caller queues, and the writer at the front works.    *)

IsNull(t) == batch[t] = <<>>

(* What no step of a writer changes, and what MakeRoomForWrite leaves.     *)
WriterFrame == UNCHANGED <<current, logNumber, disk, background,
                           shutting_down_, readers, reads>>
RoomFrame == WriterFrame /\ UNCHANGED <<lastSequence, memory, logs, scheduled,
                                       calls, acked>>

(* The front writer enters MakeRoomForWrite(my_batch == NULL).             *)
EnterMakeRoom(t, b) ==
  /\ mutex_' = t
  /\ force' = (b = <<>>) /\ allow_delay' = (b # <<>>)
  /\ Goto(t, "w.room")

(* Mutant of Write: the caller does not look whether it is at the front.   *)
WriteSkipsQueue(t, b, s) ==
  /\ pc[t] = "idle" /\ mutex_ = NULL /\ ~shutting_down_
  /\ calls < MaxCalls /\ calls' = calls + 1
  /\ writers_' = Append(writers_, t)
  /\ batch' = [batch EXCEPT ![t] = b] /\ sync' = [sync EXCEPT ![t] = s]
  /\ done' = done \ {t} /\ signalled' = signalled \ {t}
  /\ EnterMakeRoom(t, b)
  /\ WriterFrame
  /\ UNCHANGED <<group, lastSequence, memory, logs, scheduled, errors, acked>>

Write(t, b, s) ==
  /\ pc[t] = "idle" /\ mutex_ = NULL /\ ~shutting_down_
  /\ calls < MaxCalls /\ calls' = calls + 1
  /\ writers_' = Append(writers_, t)
  /\ batch' = [batch EXCEPT ![t] = b] /\ sync' = [sync EXCEPT ![t] = s]
  /\ done' = done \ {t} /\ signalled' = signalled \ {t}
  /\ IF writers_ = <<>>
     THEN EnterMakeRoom(t, b)
     ELSE Goto(t, "w.wait") /\ UNCHANGED <<mutex_, room>>
  /\ WriterFrame
  /\ UNCHANGED <<group, lastSequence, memory, logs, scheduled, errors, acked>>

(* w.cv.Wait() returns: the write was done by another writer's group, or   *)
(* this writer is at the front now, or it waits again.                     *)
WriterWakes(t) ==
  /\ pc[t] = "w.wait" /\ t \in signalled /\ mutex_ = NULL
  /\ signalled' = signalled \ {t}
  /\ IF t \in done THEN Goto(t, "idle") /\ UNCHANGED <<mutex_, room>>
     ELSE IF Head(writers_) = t THEN EnterMakeRoom(t, batch[t])
     ELSE UNCHANGED <<pc, mutex_, room>>
  /\ RoomFrame /\ UNCHANGED <<queue, errors>>

(* Mutant of LeaveQueue: the new front writer is not signalled.            *)
LeaveQueueSilently(t, members) ==
  LET n == Len(members)
      rest == SubSeq(writers_, n + 1, Len(writers_))
      others == Range(members) \ {t}
  IN  /\ writers_' = rest
      /\ done' = done \cup others
      /\ signalled' = signalled \cup others
      /\ batch' = [u \in Threads |-> IF u \in Range(members) THEN <<>>
                                     ELSE batch[u]]
      /\ sync' = [u \in Threads |-> sync[u] /\ u \notin Range(members)]
      /\ group' = NoGroup
      /\ Goto(t, "idle")

(* The end of Write: the writers of the group leave the queue, the others  *)
(* of the group and the new front writer are signalled.                    *)
LeaveQueue(t, members) ==
  LET n == Len(members)
      rest == SubSeq(writers_, n + 1, Len(writers_))
      others == Range(members) \ {t}
  IN  /\ writers_' = rest
      /\ done' = done \cup others
      /\ signalled' = signalled \cup others
                        \cup (IF rest = <<>> THEN {} ELSE {Head(rest)})
      /\ batch' = [u \in Threads |-> IF u \in Range(members) THEN <<>>
                                     ELSE batch[u]]
      /\ sync' = [u \in Threads |-> sync[u] /\ u \notin Range(members)]
      /\ group' = NoGroup
      /\ Goto(t, "idle")

(* BuildBatchGroup: the longest run of writers from the front that holds   *)
(* no sync write behind a non-sync one and is not too big.                 *)
Updates(n) == Concat([i \in 1 .. n |-> batch[writers_[i]]])

(* Mutant of Joins: a sync write may join a non-sync group.                *)
JoinsAnySync(i) ==
  /\ IsNull(writers_[i]) \/ Len(Updates(i)) <= MaxGroup

Joins(i) ==
  /\ sync[writers_[i]] => sync[writers_[1]]
  /\ IsNull(writers_[i]) \/ Len(Updates(i)) <= MaxGroup

BuildBatchGroup ==
  LET fits == {n \in 1 .. Len(writers_) : \A i \in 2 .. n : Joins(i)}
      last == CHOOSE n \in fits : \A m \in fits : m <= n
      updates == [i \in 1 .. Len(Updates(last)) |->
                    [key |-> Updates(last)[i].key, val |-> Updates(last)[i].val,
                     seq |-> lastSequence + i]]
  IN  group' = [members |-> SubSeq(writers_, 1, last), updates |-> updates,
                todo |-> updates, ok |-> TRUE]

(* MakeRoomForWrite, one iteration of its loop per action.                 *)
InRoom(t) == pc[t] = "w.room" /\ mutex_ = t
Level0Files == Len(current.version.level0)
MustDelay == allow_delay /\ Level0Files >= SlowdownTrigger
HasRoom == ~force /\ Cardinality(table[mem_]) <= WriteBuffer
MustWait == imm_ # 0 \/ Level0Files >= StopTrigger

RoomDelay(t) ==
  /\ InRoom(t) /\ MustDelay
  /\ mutex_' = NULL /\ Goto(t, "w.sleep")
  /\ RoomFrame /\ UNCHANGED <<queue, signalled, room, errors>>

DelayEnds(t) ==
  /\ pc[t] = "w.sleep" /\ mutex_ = NULL
  /\ mutex_' = t /\ allow_delay' = FALSE /\ Goto(t, "w.room")
  /\ RoomFrame /\ UNCHANGED <<queue, signalled, force, errors>>

(* There is room: a NULL batch returns, another one goes to the log.       *)
RoomFound(t) ==
  /\ InRoom(t) /\ ~MustDelay /\ HasRoom
  /\ mutex_' = NULL
  /\ IF IsNull(t)
     THEN LeaveQueue(t, <<t>>)
     ELSE /\ BuildBatchGroup /\ Goto(t, "w.log")
          /\ UNCHANGED <<writers_, batch, sync, done, signalled>>
  /\ allow_delay' = FALSE
  /\ RoomFrame /\ UNCHANGED <<force, errors>>

RoomWait(t) ==
  /\ InRoom(t) /\ ~MustDelay /\ ~HasRoom /\ MustWait
  /\ mutex_' = NULL /\ signalled' = signalled \ {t} /\ Goto(t, "w.bgwait")
  /\ RoomFrame /\ UNCHANGED <<queue, room, errors>>

RoomWakes(t) ==
  /\ pc[t] = "w.bgwait" /\ t \in signalled /\ mutex_ = NULL
  /\ mutex_' = t /\ signalled' = signalled \ {t} /\ Goto(t, "w.room")
  /\ RoomFrame /\ UNCHANGED <<queue, room, errors>>

(* Mutant of SwitchMemTable: the compaction is not scheduled.              *)
SwitchUnscheduled(t) ==
  /\ InRoom(t) /\ ~MustDelay /\ ~HasRoom /\ ~MustWait
  /\ mem_' = Len(log) + 1 /\ imm_' = mem_
  /\ table' = Append(table, {}) /\ refs_' = Append(refs_, 1)
  /\ log' = Append(log, {}) /\ synced' = Append(synced, {})
  /\ logFiles' = logFiles \cup {Len(log) + 1}
  /\ force' = FALSE
  /\ UNCHANGED scheduled
  /\ WriterFrame
  /\ UNCHANGED <<mutex_, queue, signalled, allow_delay, lastSequence, pc, calls,
                 errors, acked>>

(* A new log and a new memtable; the full one waits for the compaction.    *)
SwitchMemTable(t) ==
  /\ InRoom(t) /\ ~MustDelay /\ ~HasRoom /\ ~MustWait
  /\ mem_' = Len(log) + 1 /\ imm_' = mem_
  /\ table' = Append(table, {}) /\ refs_' = Append(refs_, 1)
  /\ log' = Append(log, {}) /\ synced' = Append(synced, {})
  /\ logFiles' = logFiles \cup {Len(log) + 1}
  /\ force' = FALSE
  /\ MaybeSchedule(scheduled, imm_', current)
  /\ WriterFrame
  /\ UNCHANGED <<mutex_, queue, signalled, allow_delay, lastSequence, pc, calls,
                 errors, acked>>

(* NewWritableFile fails and Write returns its error.                      *)
SwitchFails(t) ==
  /\ InRoom(t) /\ ~MustDelay /\ ~HasRoom /\ ~MustWait
  /\ Fault("newFile")
  /\ mutex_' = NULL /\ LeaveQueue(t, <<t>>)
  /\ RoomFrame /\ UNCHANGED room
-----------------------------------------------------------------------------
(* The group is logged and inserted with mutex_ released.                  *)

AddRecord(t) ==
  /\ pc[t] = "w.log"
  /\ log' = [log EXCEPT ![mem_] = @ \cup Range(group.updates)]
  /\ synced' = IF sync[t] THEN [synced EXCEPT ![mem_] = log'[mem_]] ELSE synced
  /\ Goto(t, "w.insert")
  /\ WriterFrame
  /\ UNCHANGED <<mutex_, queue, signalled, room, lastSequence, memory, logFiles,
                 scheduled, calls, errors, acked>>

(* The append fails, and the record may be in the file all the same, or    *)
(* Sync fails after it: nothing is inserted, and the log stays in use.     *)
AddRecordFails(t) ==
  /\ pc[t] = "w.log"
  /\ LET logged == [log EXCEPT ![mem_] = @ \cup Range(group.updates)]
     IN  \/ Fault("append") /\ log' \in {log, logged}
         \/ sync[t] /\ Fault("sync") /\ log' = logged
  /\ group' = [group EXCEPT !.ok = FALSE, !.todo = <<>>]
  /\ Goto(t, "w.finish")
  /\ WriterFrame
  /\ UNCHANGED <<mutex_, writers_, batch, sync, done, signalled, room, memory,
                 lastSequence, synced, logFiles, scheduled, calls, acked>>

(* InsertInto adds the updates to mem_ one at a time; readers run between. *)
InsertInto(t) ==
  /\ pc[t] = "w.insert" /\ group.todo # <<>>
  /\ table' = [table EXCEPT ![mem_] = @ \cup {Head(group.todo)}]
  /\ group' = [group EXCEPT !.todo = Tail(@)]
  /\ Goto(t, IF Tail(group.todo) = <<>> THEN "w.finish" ELSE "w.insert")
  /\ WriterFrame
  /\ UNCHANGED <<mutex_, writers_, batch, sync, done, signalled, room, mem_,
                 imm_, refs_, lastSequence, logs, scheduled, calls, errors, acked>>

(* A group is one record of the log: if one of its writers asked for sync, *)
(* its entries are promised to be synced.                                  *)
SyncEntries ==
  IF \E n \in DOMAIN group.members : sync[group.members[n]]
  THEN Range(group.updates) ELSE {}

(* Mutant of WriteEnds: a failed write gives its sequence numbers back.    *)
WriteEndsReusing(t) ==
  /\ pc[t] = "w.finish" /\ mutex_ = NULL
  /\ lastSequence' = lastSequence + IF group.ok THEN Len(group.updates) ELSE 0
  /\ acked' = IF group.ok
              THEN [all |-> acked.all \cup Range(group.updates),
                    sync |-> acked.sync \cup SyncEntries]
              ELSE acked
  /\ LeaveQueue(t, group.members)
  /\ WriterFrame
  /\ UNCHANGED <<mutex_, room, memory, logs, scheduled, calls, errors>>

(* SetLastSequence, also when the log failed; then the group is answered.  *)
WriteEnds(t) ==
  /\ pc[t] = "w.finish" /\ mutex_ = NULL
  /\ lastSequence' = lastSequence + Len(group.updates)
  /\ acked' = IF group.ok
              THEN [all |-> acked.all \cup Range(group.updates),
                    sync |-> acked.sync \cup SyncEntries]
              ELSE acked
  /\ LeaveQueue(t, group.members)
  /\ WriterFrame
  /\ UNCHANGED <<mutex_, room, memory, logs, scheduled, calls, errors>>
-----------------------------------------------------------------------------
(* DBImpl::Get and the iterators.  A reader takes a reference on what it   *)
(* reads and reads it with mutex_ released.                                *)

(* Mutant of Now: the snapshot is the next sequence number.                *)
NowTooLate == [mem |-> mem_, imm |-> imm_, version |-> current.version,
        seq |-> lastSequence + 1, isCurrent |-> TRUE, searched |-> FALSE]

Now == [mem |-> mem_, imm |-> imm_, version |-> current.version,
        seq |-> lastSequence, isCurrent |-> TRUE, searched |-> FALSE]

(* A memtable whose last reference goes is deleted.                        *)
Ref(ms) ==
  refs_' = [m \in DOMAIN refs_ |-> refs_[m] + IF m \in ms THEN 1 ELSE 0]
Unref(ms) ==
  /\ refs_' = [m \in DOMAIN refs_ |-> refs_[m] - IF m \in ms THEN 1 ELSE 0]
  /\ table' = [m \in DOMAIN table |-> IF refs_'[m] = 0 THEN {} ELSE table[m]]

(* Mutant of StartReader: no reference on imm_.                            *)
StartReaderNoRef(t, l) ==
  /\ pc[t] = "idle" /\ mutex_ = NULL /\ ~shutting_down_
  /\ reads < MaxReads /\ reads' = reads + 1
  /\ view' = [view EXCEPT ![t] = Now]
  /\ Ref({mem_})
  /\ Goto(t, l)
  /\ UNCHANGED <<mutex_, queue, signalled, room, mem_, imm_, table, logs,
                 versions, disk, scheduled, background, shutting_down_, ret,
                 calls, errors, acked>>

StartReader(t, l) ==
  /\ pc[t] = "idle" /\ mutex_ = NULL /\ ~shutting_down_
  /\ reads < MaxReads /\ reads' = reads + 1
  /\ view' = [view EXCEPT ![t] = Now]
  /\ Ref({mem_, imm_})
  /\ Goto(t, l)
  /\ UNCHANGED <<mutex_, queue, signalled, room, mem_, imm_, table, logs,
                 versions, disk, scheduled, background, shutting_down_, ret,
                 calls, errors, acked>>

EndReader(t) ==
  /\ mutex_ = NULL
  /\ Unref({view[t].mem, view[t].imm})
  /\ view' = [view EXCEPT ![t] = NULL] /\ ret' = [ret EXCEPT ![t] = NULL]
  /\ Goto(t, "idle")
  /\ UNCHANGED <<mutex_, queue, signalled, room, mem_, imm_, logs,
                 lastSequence, logNumber, disk, background, shutting_down_,
                 bounds, acked>>

Returns(t, v) ==
  /\ ret' = [ret EXCEPT ![t] = v]
  /\ UNCHANGED <<mutex_, queue, signalled, room, memory, logs, versions, disk,
                 scheduled, background, shutting_down_, bounds, acked>>

(* More than one table may hold the key, and the first is of level 0.      *)
SeveralTables(v) ==
  v.level0 # <<>> /\ (Len(v.level0) > 1 \/ v.below # {})

Get(t) == StartReader(t, "g.read")

GetReads(t, k) ==
  /\ pc[t] = "g.read"
  /\ Returns(t, LookUp(Sources(view[t]), k, view[t].seq))
  /\ view' = [view EXCEPT ![t].searched =
                /\ SeveralTables(view[t].version)
                /\ \A s \in Range(MemTables(view[t].mem, view[t].imm)) :
                     Visible(s, k, view[t].seq) = {}]
  /\ Goto(t, "g.end")

(* UpdateStats charges a seek to a table when more than one was searched,  *)
(* and may find that its allowed_seeks are used up.  The table is of the   *)
(* reader's version, which is not always the current one any more.         *)
GetEnds(t, exhausted) ==
  /\ pc[t] = "g.end"
  /\ exhausted => view[t].searched
  /\ current' = [current EXCEPT !.seek = @ \/ (exhausted /\ view[t].isCurrent)]
  /\ IF exhausted THEN MaybeSchedule(scheduled, imm_, current')
     ELSE UNCHANGED scheduled
  /\ EndReader(t)

NewIterator(t) == StartReader(t, "i.open")

IteratorReads(t, k) ==
  /\ pc[t] = "i.open"
  /\ Returns(t, MergedLookUp(Sources(view[t]), k, view[t].seq))
  /\ UNCHANGED <<pc, view>>

(* An iterator samples what it reads and charges it to the current version.*)
RecordReadSample(t) ==
  /\ pc[t] = "i.open" /\ mutex_ = NULL
  /\ SeveralTables(current.version) /\ ~current.seek
  /\ current' = [current EXCEPT !.seek = TRUE]
  /\ MaybeSchedule(scheduled, imm_, current')
  /\ UNCHANGED <<mutex_, queue, signalled, room, memory, logs, lastSequence,
                 logNumber, disk, background, shutting_down_, pc, readers,
                 bounds, acked>>

CleanupIteratorState(t) ==
  /\ pc[t] = "i.open"
  /\ EndReader(t)
  /\ UNCHANGED <<current, scheduled>>
-----------------------------------------------------------------------------
(* The background thread: BackgroundCall and what it calls.                *)

(* Mutant of BackgroundEnds: nobody is signalled.                          *)
BackgroundEndsSilently(imm, c) ==
  /\ bg' = [bg EXCEPT !.at = "idle", !.inner = FALSE, !.inputs = {},
                      !.smallest = 0]
  /\ edit' = NoEdit
  /\ MaybeSchedule(FALSE, imm, c)
  /\ UNCHANGED signalled

(* The end of BackgroundCall.                                              *)
BackgroundEnds(imm, c) ==
  /\ bg' = [bg EXCEPT !.at = "idle", !.inner = FALSE, !.inputs = {},
                      !.smallest = 0]
  /\ edit' = NoEdit
  /\ MaybeSchedule(FALSE, imm, c)
  /\ BgCvSignalAll

(* A set of level-0 tables that no other one overlaps: PickCompaction      *)
(* starts from one table and SetupOtherInputs may take more.               *)
Overlap(a, b) == KeysOf(a) \cap KeysOf(b) # {}

Inputs(v) ==
  {S \in (SUBSET DOMAIN v.level0) \ {{}} :
     \A i \in S, j \in DOMAIN v.level0 \ S : ~Overlap(v.level0[i], v.level0[j])}

InputEntries(v, S) == UNION {v.level0[i] : i \in S}

(* Mutant of Below: the level below is forgotten.                          *)
BelowForgotten(v, S) == {}

(* The entries of the level below that go into the compaction.             *)
Below(v, S) == {e \in v.below : e.key \in KeysOf(InputEntries(v, S))}

IsTrivialMove(v, S) == Cardinality(S) = 1 /\ Below(v, S) = {}

(* BackgroundCompaction starts: the immutable memtable first, then a move  *)
(* of a table or a compaction.                                             *)
BackgroundCall ==
  /\ scheduled /\ bg.at = "idle" /\ mutex_ = NULL
  /\ \/ /\ shutting_down_
        /\ BackgroundEnds(imm_, current)
     \/ /\ ~shutting_down_ /\ imm_ # 0
        /\ bg' = [bg EXCEPT !.at = "build"]
        /\ UNCHANGED <<edit, scheduled, signalled>>
     \/ /\ ~shutting_down_ /\ imm_ = 0
        /\ \E S \in Inputs(current.version) :
             IF IsTrivialMove(current.version, S)
             THEN /\ bg' = [bg EXCEPT !.at = "manifest"]
                  /\ edit' = [NoEdit EXCEPT !.drop = S, !.log = logNumber,
                                !.below = InputEntries(current.version, S)]
             ELSE /\ bg' = [bg EXCEPT !.at = "work", !.inputs = S,
                                      !.smallest = lastSequence]
                  /\ UNCHANGED edit
        /\ UNCHANGED <<scheduled, signalled>>
  /\ UNCHANGED <<mutex_, queue, room, memory, logs, versions, disk,
                 shutting_down_, pc, readers, bounds, acked>>

(* What no step of the background thread changes, and what it changes only *)
(* in a critical section that ends a call.                                 *)
BgFrame == UNCHANGED <<mutex_, queue, room, shutting_down_, pc, ret, calls,
                       reads, acked, lastSequence, mem_>>
BgQuiet == BgFrame /\ UNCHANGED <<signalled, imm_, refs_, table, logs, current,
                                 logNumber, scheduled, view>>

(* WriteLevel0Table and, unless the database is closing, the edit of       *)
(* CompactMemTable: mem_'s log is the first that is needed from now on.    *)
PickLevelForMemTableOutput(v, s) ==
  IF \E i \in DOMAIN v.level0 : Overlap(v.level0[i], s) THEN {0}
  ELSE IF Overlap(v.below, s) THEN {0} ELSE {0, 1}

BuildTable ==
  /\ bg.at = "build" /\ mutex_ = NULL
  /\ IF shutting_down_
     THEN bg' = [bg EXCEPT !.at = "error"] /\ UNCHANGED edit
     ELSE /\ bg' = [bg EXCEPT !.at = "manifest"]
          /\ \E level \in PickLevelForMemTableOutput(current.version, table[imm_]) :
               edit' = IF table[imm_] = {} THEN [NoEdit EXCEPT !.log = mem_]
                       ELSE IF level = 0
                       THEN [NoEdit EXCEPT !.add = <<table[imm_]>>, !.log = mem_]
                       ELSE [NoEdit EXCEPT !.below = table[imm_], !.log = mem_]
  /\ BgQuiet /\ UNCHANGED <<disk, errors>>

(* DoCompactionWork keeps an entry unless a newer one of its key hides it  *)
(* from every snapshot, or it deletes a key that has nothing below.        *)
Kept(s, smallest) ==
  {e \in s :
     /\ ~\E f \in s : f.key = e.key /\ f.seq > e.seq /\ f.seq <= smallest
     /\ ~(e.val = Deleted /\ e.seq <= smallest)}

(* The loop of DoCompactionWork turns to a new immutable memtable first.   *)
WorkMeetsImm ==
  /\ bg.at = "work" /\ mutex_ = NULL /\ imm_ # 0 /\ ~shutting_down_
  /\ bg' = [bg EXCEPT !.at = "build", !.inner = TRUE]
  /\ BgQuiet /\ UNCHANGED <<edit, disk, errors>>

WorkEnds ==
  /\ bg.at = "work" /\ mutex_ = NULL
  /\ IF shutting_down_
     THEN bg' = [bg EXCEPT !.at = "error"] /\ UNCHANGED edit
     ELSE LET v == current.version
              old == Below(v, bg.inputs)
          IN  /\ bg' = [bg EXCEPT !.at = "manifest"]
              /\ edit' = [drop |-> bg.inputs, old |-> old, add |-> <<>>,
                          below |-> Kept(InputEntries(v, bg.inputs) \cup old,
                                         bg.smallest),
                          log |-> logNumber]
  /\ BgQuiet /\ UNCHANGED <<disk, errors>>

(* LogAndApply: the edit goes to the MANIFEST with mutex_ released, then   *)
(* the new version is installed.  A sync that failed leaves a hole in the  *)
(* file that no later one fills.                                           *)
ApplyEdit(v, e) ==
  LET kept == [i \in DOMAIN v.level0 |-> IF i \in e.drop THEN <<>>
                                         ELSE <<v.level0[i]>>]
  IN  [level0 |-> Concat(kept) \o e.add,
       below |-> (v.below \ e.old) \cup e.below]

WriteManifest ==
  /\ bg.at = "manifest"
  /\ manifest' = [version |-> ApplyEdit(current.version, edit), log |-> edit.log]
  /\ \/ /\ durable' = IF Failed("manifestSync") THEN durable ELSE manifest'
        /\ UNCHANGED errors
     \/ Fault("manifestSync") /\ UNCHANGED durable  \* ManifestContains finds it
  /\ bg' = [bg EXCEPT !.at = "install"]
  /\ BgQuiet /\ UNCHANGED edit

(* BuildTable, the compaction or the MANIFEST record fails.  LogAndApply   *)
(* keeps its descriptor_log_, which has lost its place in the file.        *)
FaultAt == [build |-> "table", work |-> "compaction", manifest |-> "manifest"]

BackgroundFails ==
  /\ bg.at \in DOMAIN FaultAt /\ Fault(FaultAt[bg.at])
  /\ bg' = [bg EXCEPT !.at = "error"]
  /\ BgQuiet /\ UNCHANGED <<edit, disk>>

(* An inner CompactMemTable returns to the loop of DoCompactionWork.       *)
BackToWork ==
  /\ bg' = [bg EXCEPT !.at = "work", !.inner = FALSE]
  /\ edit' = NoEdit
  /\ BgCvSignalAll
  /\ UNCHANGED scheduled

(* Mutant of DeleteObsoleteFiles: the first log in use is deleted too.     *)
DeleteOneTooMany ==
  LET keep == {n \in logFiles : n > logNumber'}
      contents(files) == [n \in DOMAIN files |-> IF n \in keep THEN files[n]
                                                 ELSE {}]
  IN  logFiles' = keep /\ log' = contents(log) /\ synced' = contents(synced)

DeleteObsoleteFiles ==
  LET keep == {n \in logFiles : n >= logNumber'}
      contents(files) == [n \in DOMAIN files |-> IF n \in keep THEN files[n]
                                                 ELSE {}]
  IN  logFiles' = keep /\ log' = contents(log) /\ synced' = contents(synced)

InstallVersion ==
  /\ bg.at = "install" /\ mutex_ = NULL
  /\ current' = [version |-> ApplyEdit(current.version, edit), seek |-> FALSE]
  /\ logNumber' = edit.log
  /\ view' = [t \in Threads |-> IF view[t] = NULL THEN NULL
                                ELSE [view[t] EXCEPT !.isCurrent = FALSE]]
  /\ IF edit.drop = {}
     THEN imm_' = 0 /\ Unref({imm_})
     ELSE UNCHANGED <<imm_, refs_, table>>
  /\ DeleteObsoleteFiles
  /\ IF bg.inner THEN BackToWork ELSE BackgroundEnds(imm_', current')
  /\ BgFrame
  /\ UNCHANGED <<disk, errors>>

(* An error ends the call, after a pause unless the database is closing.   *)
BackgroundError ==
  /\ bg.at = "error" /\ mutex_ = NULL
  /\ IF bg.inner THEN BackToWork
     ELSE IF shutting_down_ THEN BackgroundEnds(imm_, current)
     ELSE /\ bg' = [bg EXCEPT !.at = "sleep"]
          /\ BgCvSignalAll
          /\ UNCHANGED <<edit, scheduled>>
  /\ BgFrame
  /\ UNCHANGED <<imm_, refs_, table, logs, current, logNumber, disk, view,
                 errors>>

BackgroundRetries ==
  /\ bg.at = "sleep" /\ mutex_ = NULL
  /\ BackgroundEnds(imm_, current)
  /\ BgFrame
  /\ UNCHANGED <<imm_, refs_, table, logs, current, logNumber, disk, view,
                 errors>>
-----------------------------------------------------------------------------
(* ~DBImpl waits for the background call.  Its caller has seen to it that  *)
(* no other call runs and that the iterators are deleted.                  *)

FinishClose(t) ==
  IF scheduled
  THEN /\ signalled' = signalled \ {t} /\ Goto(t, "c.wait")
       /\ UNCHANGED <<refs_, table>>
  ELSE /\ Unref({mem_, imm_})
       /\ Goto(t, "closed")
       /\ UNCHANGED signalled

CloseFrame == UNCHANGED <<mutex_, queue, room, mem_, imm_, logs, versions,
                          disk, scheduled, background, readers, bounds, acked>>

Close(t) ==
  /\ \A u \in Threads : pc[u] = "idle"
  /\ mutex_ = NULL /\ ~shutting_down_
  /\ shutting_down_' = TRUE
  /\ FinishClose(t)
  /\ CloseFrame

CloseWakes(t) ==
  /\ pc[t] = "c.wait" /\ t \in signalled /\ mutex_ = NULL
  /\ FinishClose(t)
  /\ CloseFrame /\ UNCHANGED shutting_down_

IsClosed == \E t \in Threads : pc[t] = "closed"
Closed == IsClosed /\ UNCHANGED vars
-----------------------------------------------------------------------------
WriterStep(t) ==
  \/ WriterWakes(t)
  \/ RoomDelay(t) \/ DelayEnds(t) \/ RoomFound(t) \/ RoomWait(t) \/ RoomWakes(t)
  \/ SwitchMemTable(t) \/ SwitchFails(t)
  \/ AddRecord(t) \/ AddRecordFails(t) \/ InsertInto(t) \/ WriteEnds(t)

ReaderStep(t) ==
  \/ \E k \in Keys : GetReads(t, k)
  \/ \E exhausted \in BOOLEAN : GetEnds(t, exhausted)
  \/ CleanupIteratorState(t)

BackgroundStep ==
  \/ BackgroundCall \/ BuildTable \/ WorkMeetsImm \/ WorkEnds
  \/ WriteManifest \/ BackgroundFails \/ InstallVersion
  \/ BackgroundError \/ BackgroundRetries

Next ==
  \/ \E t \in Threads :
       \/ \E b \in Batches, s \in Syncs : Write(t, b, s)
       \/ WriterStep(t)
       \/ Get(t) \/ NewIterator(t) \/ RecordReadSample(t)
       \/ \E k \in Keys : IteratorReads(t, k)
       \/ ReaderStep(t)
       \/ Close(t) \/ CloseWakes(t)
  \/ BackgroundStep
  \/ Closed

Spec == Init /\ [][Next]_vars

(* Every thread that runs goes on, the background thread is started and    *)
(* runs, and the one that waits for it in ~DBImpl wakes.  Callers need not *)
(* call.                                                                   *)
Fairness ==
  /\ \A t \in Threads : WF_vars(WriterStep(t)) /\ WF_vars(ReaderStep(t))
                          /\ WF_vars(CloseWakes(t))
  /\ WF_vars(BackgroundStep)

FairSpec == Spec /\ Fairness
-----------------------------------------------------------------------------
(* What a recovery is sure to find if the process dies now, and if the     *)
(* machine does: the tables of the MANIFEST and the logs it does not call  *)
(* old, but nothing behind a failed write of a log; nothing at all when a  *)
(* record of the MANIFEST has failed, since Recover may refuse the file.   *)
TableEntries(v) == UNION Range(Tables(v))

NeededBy(m) == {n \in logFiles : n >= m.log}

Behind(ops, n) ==
  {e \in log[n] : \E x \in errors : x.op \in ops /\ x.log = n /\ e \notin x.sure}

AfterProcessCrash ==
  IF Failed("manifest") THEN {}
  ELSE TableEntries(manifest.version)
         \cup UNION {log[n] \ Behind({"append"}, n) : n \in NeededBy(manifest)}

AfterMachineCrash ==
  IF Failed("manifest") THEN {}
  ELSE TableEntries(durable.version)
         \cup UNION {synced[n] \ Behind({"append", "sync"}, n) :
                        n \in NeededBy(durable)}

(* The writes that were acknowledged behind a failed write of their log    *)
(* and that no table holds yet.                                            *)
AtRisk(ops, m) == UNION {Behind(ops, n) : n \in NeededBy(m)}

(* e or a later entry of its key decides the value of the key in s, or the *)
(* key is gone from s after an acknowledged deletion.                      *)
Survives(e, s) ==
  LET older == {f \in s : f.key = e.key /\ f.seq < e.seq}
      rest == {f \in s : f.key = e.key /\ f.seq >= e.seq}
  IN  rest = {} => /\ older = {}
                   /\ \E d \in acked.all : /\ d.key = e.key /\ d.seq >= e.seq
                                           /\ d.val = Deleted

(* DBImpl::Write, CompactMemTable and DeleteObsoleteFiles: a write that    *)
(* was acknowledged is found by a recovery from what the files hold at any *)
(* moment, between any two steps of the flush, the MANIFEST record, the    *)
(* deletion of the log and the compaction (include/leveldb/options.h: "no  *)
(* writes will be lost").  After a failed append only the writes behind it *)
(* in the same log are excepted, until a table holds them; after a failed  *)
(* record of the MANIFEST, all of them.                                    *)
Recoverable ==
  Failed("manifest") \/ \A e \in acked.all \ AtRisk({"append"}, manifest) :
                          Survives(e, AfterProcessCrash)

(* BuildBatchGroup and LogAndApply: a write acknowledged with sync is      *)
(* found even if everything that was not synced is lost, whichever writer  *)
(* of the group wrote it to the log; with the same exceptions, for a sync  *)
(* of the log that failed as well.                                         *)
SyncedDurable ==
  Failed("manifest") \/ \A e \in acked.sync \ AtRisk({"append", "sync"}, durable) :
                          Survives(e, AfterMachineCrash)

(* MemTable::Ref and Unref: a memtable is deleted exactly when neither the *)
(* database nor a reader can read it any more: not under one of them, and  *)
(* not later, and with the end of ~DBImpl every one is gone.               *)
InUse == {mem_, imm_} \cup UNION {{view[t].mem, view[t].imm} :
                                    t \in {u \in Threads : view[u] # NULL}}
MemTablesExact ==
  \A m \in DOMAIN refs_ : refs_[m] > 0 <=> ~IsClosed /\ m \in InUse

(* MaybeScheduleCompaction: there is never work for the background thread  *)
(* that nobody has scheduled, so a writer that waits in MakeRoomForWrite   *)
(* is not forgotten.                                                       *)
WorkScheduled ==
  (imm_ # 0 \/ NeedsCompaction(current)) /\ ~shutting_down_ => scheduled

(* Write: mem_ and log_ are used without mutex_ by the writer at the front *)
(* only, and its group is a prefix of the queue.                           *)
Leading == Writing \ {"w.wait"}
LoneLeader ==
  \A t \in Threads : pc[t] \in Leading =>
    /\ writers_ # <<>> /\ Head(writers_) = t
    /\ group.members = SubSeq(writers_, 1, Len(group.members))

(* SetLastSequence: two entries with the same sequence number are never    *)
(* logged, not even after a write that failed, or a recovery could not     *)
(* tell which is newer.                                                    *)
SequencesUnique ==
  \A m, n \in DOMAIN log : \A e \in log[m], f \in log[n] :
    e.seq = f.seq => m = n /\ e = f

(* Write and MakeRoomForWrite: a write that was called returns, whatever   *)
(* it has to wait for, if the I/O errors stop.                             *)
WriteReturns == \A t \in Threads : pc[t] \in Writing ~> pc[t] = "idle"

(* ~DBImpl: a destructor that waits for the background call ends.          *)
CloseReturns == \A t \in Threads : pc[t] = "c.wait" ~> pc[t] = "closed"
=============================================================================
