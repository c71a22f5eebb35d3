------------------------------ MODULE Recovery ------------------------------
(***************************************************************************)
(* The files of a database through its openings: DB::Open creates or       *)
(* recovers it and moves it to a new MANIFEST and a new log, writes and    *)
(* flushes follow, and a crash of the process or of the machine may come   *)
(* after any step, those of a recovery included.  WritePath has the        *)
(* threads of an open database; here they are one.                         *)
(*                                                                         *)
(* A MANIFEST and a log are sequences of records, of which the first       *)
(* `synced' survive a crash of the machine; after a sync that failed, a    *)
(* later one is not `sure' to reach what was written before.  An edit that *)
(* names no numbers is the snapshot which starts a new MANIFEST.           *)
(***************************************************************************)
EXTENDS Naturals, Sequences, FiniteSets, SequencesExt

CONSTANTS
  WriteBuffer,  \* options_.write_buffer_size, in entries
  MaxPuts,      \* bound: writes
  MaxOpens,     \* bound: calls of DB::Open
  MaxFaults,    \* bound: operations that fail during an opening
  Faults        \* which ones may

ASSUME RecoveryAssumption ==
  /\ {WriteBuffer, MaxPuts, MaxOpens, MaxFaults} \subseteq Nat
  /\ Faults \subseteq {"table", "newFile", "manifest", "manifestSync", "current",
                    "logRead", "torn", "creation", "earlierTable"}

VARIABLES
  CURRENT,          \* the MANIFEST that CURRENT names, 0 if there is no CURRENT
  manifests, logs,  \* the files by their numbers
  tables, temps,
  pc,               \* where DB::Open, or the open database, is
  versions_,        \* the VersionSet
  edit,             \* the VersionEdit that DB::Open or a flush applies
  todo, pos,        \* the logs to replay, and how far the first is
  mem_, imm_,       \* the memtables; imm_ = {} is NULL
  max_sequence,
  ok,               \* the status of Recover
  logfile_number_,
  acked,            \* the acknowledged entries, all and those with sync
  skipped,          \* the entries that a recovery could not read from a log
  wreck,            \* why files may be missing: "destroy", or a failed "sync"
  writes, opens, faults

onDisk == <<CURRENT, manifests, logs, tables, temps>>
memory == <<versions_, edit, todo, pos, mem_, imm_, max_sequence, ok,
            logfile_number_>>
owed == <<acked, skipped>>
recoveryVars == <<onDisk, pc, memory, owed, wreck, writes, opens, faults>>

NoNumbers == [log |-> 0, next |-> 0, last |-> 0]
NoFile == [recs |-> <<>>, synced |-> 0, sure |-> TRUE]
NoEntries == [all |-> {}, sync |-> {}]
NewVersionSet == [files |-> {}, manifest |-> 0, next |-> 2, last |-> 0, log |-> 0]
NoEdit == [files |-> {}, log |-> 0]

(* NewWritableFile truncates a file that exists; a function of its content.*)
Put(dir, n, content) == [i \in DOMAIN dir \cup {n} |-> IF i = n THEN content ELSE dir[i]]
Drop(dir, n) == Restrict(dir, DOMAIN dir \ {n})

AddRecord(f, rec, synced) ==
  [f EXCEPT !.recs = Append(@, rec),
            !.synced = IF synced /\ f.sure THEN Len(f.recs) + 1 ELSE @]

RecoveryInit ==
  /\ CURRENT = 0 /\ manifests = <<>> /\ logs = <<>> /\ tables = <<>> /\ temps = {}
  /\ pc = "down" /\ versions_ = NewVersionSet /\ edit = NoEdit
  /\ todo = <<>> /\ pos = 0 /\ mem_ = {} /\ imm_ = {} /\ max_sequence = 0
  /\ ok = TRUE /\ logfile_number_ = 0
  /\ acked = NoEntries /\ skipped = {} /\ wreck = {}
  /\ writes = 0 /\ opens = 0 /\ faults = 0

Fails(f) == f \in Faults /\ faults < MaxFaults /\ faults' = faults + 1
Works == UNCHANGED faults

(* DB::Open returns an error, or the process ends: memory is gone.         *)
Closed(label) ==
  /\ pc' = label /\ versions_' = NewVersionSet /\ edit' = NoEdit
  /\ todo' = <<>> /\ pos' = 0 /\ mem_' = {} /\ imm_' = {} /\ max_sequence' = 0
  /\ ok' = TRUE /\ logfile_number_' = 0
Forget == Closed("down")
-----------------------------------------------------------------------------
(* DBImpl::Recover and NewDB.                                              *)

OpenDB ==
  /\ pc = "down" /\ opens < MaxOpens /\ opens' = opens + 1
  /\ pc' = IF CURRENT = 0 THEN "newdb" ELSE "versions"
  /\ UNCHANGED <<onDisk, memory, owed, wreck, writes, faults>>

(* The first MANIFEST is written and closed; nobody syncs it.              *)
NewDB ==
  /\ pc = "newdb"
  /\ \/ /\ Works /\ pc' = "newdb.current"
        /\ manifests' = Put(manifests, 1,
             AddRecord(NoFile, [files |-> {}, numbers |-> [NoNumbers EXCEPT !.next = 2]],
                       FALSE))
        /\ UNCHANGED memory
     \/ /\ Fails("manifest") /\ Forget
        /\ manifests' = Drop(manifests, 1)
  /\ UNCHANGED <<CURRENT, logs, tables, temps, owed, wreck, writes, opens>>

(* SetCurrentFile: a synced temporary file, then its rename.               *)
WriteTemp(n, from, to) ==
  /\ pc = from
  /\ temps' = temps \cup {n} /\ pc' = to
  /\ UNCHANGED <<CURRENT, manifests, logs, tables, memory, owed, wreck, writes, opens, faults>>

RenameTemp(n, from, to) ==
  /\ pc = from /\ Works
  /\ CURRENT' = n /\ temps' = temps \ {n} /\ pc' = to
  /\ UNCHANGED <<manifests, logs, tables, memory, owed, wreck, writes, opens>>

NewDBCurrent ==
  \/ WriteTemp(1, "newdb.current", "newdb.rename")
  \/ RenameTemp(1, "newdb.rename", "versions")

NewDBCurrentFails ==
  /\ pc \in {"newdb.current", "newdb.rename"} /\ Fails("current")
  /\ temps' = temps \ {1} /\ Forget
  /\ UNCHANGED <<CURRENT, manifests, logs, tables, owed, wreck, writes, opens>>

(* VersionSet::Recover: the edits of the MANIFEST, the last numbers in it. *)
Numbered(recs) == {i \in DOMAIN recs : recs[i].numbers # NoNumbers}
LastNumbers(recs) == recs[Max(Numbered(recs))].numbers
AllFiles(recs) == UNION {recs[i].files : i \in DOMAIN recs}
Torn == [files |-> {}, numbers |-> [NoNumbers EXCEPT !.log = 99]]

(* CURRENT names a MANIFEST that Recover accepts, and its tables exist.    *)
Readable(dir) ==
  /\ CURRENT \in DOMAIN dir
  /\ LET recs == dir[CURRENT].recs
     IN  /\ Numbered(recs) # {} /\ \A i \in DOMAIN recs : recs[i] # Torn
         /\ AllFiles(recs) \subseteq DOMAIN tables

(* Mutant of LogsFrom: only logs that the MANIFEST does not name.          *)
LogsAfter(min_log) == {n \in DOMAIN logs : n > min_log}

(* The logs to replay, in the order they were generated.                   *)
LogsFrom(min_log) == {n \in DOMAIN logs : n >= min_log}
Ascending(S) == SetToSortSeq(S, <)

VersionsRecover ==
  /\ pc = "versions"
  /\ IF ~Readable(manifests) THEN Forget
     ELSE LET recs == manifests[CURRENT].recs
              n == LastNumbers(recs)
          IN  /\ versions_' = [files |-> AllFiles(recs), manifest |-> n.next,
                               next |-> n.next + 1, last |-> n.last, log |-> n.log]
              /\ todo' = Ascending(LogsFrom(n.log))
              /\ pc' = "replay"
              /\ UNCHANGED <<edit, pos, mem_, imm_, max_sequence, ok, logfile_number_>>
  /\ UNCHANGED <<onDisk, owed, wreck, writes, opens, faults>>
-----------------------------------------------------------------------------
(* RecoverLogFile.                                                         *)

Replaying == Head(todo)

(* WriteLevel0Table with base == NULL.                                     *)
WriteLevel0Table(entries) ==
  /\ tables' = Put(tables, versions_.next, entries)
  /\ versions_' = [versions_ EXCEPT !.next = @ + 1]
  /\ edit' = [edit EXCEPT !.files = @ \cup {versions_.next}]

(* A record is inserted; a full memtable goes to a table in the middle.    *)
ReplayRecord ==
  /\ pc = "replay" /\ todo # <<>> /\ pos < Len(logs[Replaying].recs)
  /\ LET e == logs[Replaying].recs[pos + 1]
         mem == mem_ \cup {e}
     IN  /\ max_sequence' = Max({max_sequence, e.seq})
         /\ IF Cardinality(mem) > WriteBuffer
            THEN mem_' = {} /\ WriteLevel0Table(mem)
            ELSE mem_' = mem /\ UNCHANGED <<tables, versions_, edit>>
  /\ pos' = pos + 1 /\ Works
  /\ UNCHANGED <<CURRENT, manifests, logs, temps, pc, todo, imm_, ok,
                 logfile_number_, owed, wreck, writes, opens>>

(* The end of a log; its number is marked as used.                         *)
MarkFileNumberUsed(vs, n) == [vs EXCEPT !.next = IF @ <= n THEN n + 1 ELSE @]

NextLog(vs, status) ==
  /\ versions_' = MarkFileNumberUsed(vs, Replaying)
  /\ todo' = Tail(todo) /\ pos' = 0 /\ mem_' = {} /\ ok' = status
  /\ UNCHANGED <<CURRENT, manifests, logs, temps, pc, imm_, logfile_number_,
                 acked, wreck, writes, opens>>

(* A log that cannot be opened, or read on, ends there: MaybeIgnoreError   *)
(* and LogReporter ignore the error.                                       *)
LogEnds ==
  LET recs == logs[Replaying].recs
  IN  \/ pos = Len(recs) /\ Works /\ UNCHANGED skipped
      \/ /\ pos < Len(recs) /\ Fails("logRead")
         /\ skipped' = skipped \cup {recs[i] : i \in pos + 1 .. Len(recs)}

FinishLog ==
  /\ pc = "replay" /\ todo # <<>> /\ LogEnds
  /\ UNCHANGED max_sequence
  /\ IF mem_ = {}
     THEN NextLog(versions_, TRUE) /\ UNCHANGED <<tables, edit>>
     ELSE /\ tables' = Put(tables, versions_.next, mem_)
          /\ edit' = [edit EXCEPT !.files = @ \cup {versions_.next}]
          /\ NextLog([versions_ EXCEPT !.next = @ + 1], TRUE)

(* A table cannot be written: the status of this log is an error, and      *)
(* Recover goes on with the next log.  The fault has a name of its own     *)
(* where a next log there is.                                              *)
ReplayFails ==
  /\ pc = "replay" /\ todo # <<>>
  /\ Fails(IF Len(todo) = 1 THEN "table" ELSE "earlierTable")
  /\ LET recs == logs[Replaying].recs
     IN  \/ /\ pos = Len(recs) /\ mem_ # {}
            /\ UNCHANGED max_sequence
         \/ /\ pos < Len(recs) /\ Cardinality(mem_) = WriteBuffer
            /\ max_sequence' = Max({max_sequence, recs[pos + 1].seq})
  /\ NextLog([versions_ EXCEPT !.next = @ + 1], FALSE)
  /\ UNCHANGED <<tables, edit, skipped>>

(* Mutant of ReplayEnds: the sequence numbers of the logs are forgotten.   *)
ReplayEndsOld ==
  /\ pc = "replay" /\ todo = <<>>
  /\ IF ~ok THEN Forget
     ELSE /\ pc' = "newlog" /\ UNCHANGED memory
  /\ UNCHANGED <<onDisk, owed, wreck, writes, opens, faults>>

ReplayEnds ==
  /\ pc = "replay" /\ todo = <<>>
  /\ IF ~ok THEN Forget
     ELSE /\ versions_' = [versions_ EXCEPT !.last = Max({@, max_sequence})]
          /\ pc' = "newlog"
          /\ UNCHANGED <<edit, todo, pos, mem_, imm_, max_sequence, ok, logfile_number_>>
  /\ UNCHANGED <<onDisk, owed, wreck, writes, opens, faults>>
-----------------------------------------------------------------------------
(* The rest of DB::Open: a new log, and LogAndApply with a new MANIFEST.   *)

NewLog ==
  /\ pc = "newlog" /\ Works
  /\ logs' = Put(logs, versions_.next, NoFile)
  /\ logfile_number_' = versions_.next
  /\ versions_' = [versions_ EXCEPT !.next = @ + 1]
  /\ edit' = [edit EXCEPT !.log = versions_.next]
  /\ pc' = "snapshot"
  /\ UNCHANGED <<CURRENT, manifests, tables, temps, todo, pos, mem_, imm_,
                 max_sequence, ok, owed, wreck, writes, opens>>

NewLogFails ==
  /\ pc = "newlog" /\ Fails("newFile") /\ Forget
  /\ UNCHANGED <<onDisk, owed, wreck, writes, opens>>

(* The new MANIFEST begins with a snapshot of the recovered version.       *)
WriteSnapshot ==
  /\ pc = "snapshot"
  /\ manifests' = Put(manifests, versions_.manifest,
       AddRecord(NoFile, [files |-> versions_.files, numbers |-> NoNumbers], FALSE))
  /\ pc' = "record"
  /\ UNCHANGED <<CURRENT, logs, tables, temps, memory, owed, wreck, writes, opens, faults>>

EditRecord ==
  [files |-> edit.files,
   numbers |-> [log |-> edit.log, next |-> versions_.next, last |-> versions_.last]]

(* LogAndApply goes on after a failed sync whose record ManifestContains   *)
(* finds in the file.                                                      *)
ManifestRecord(from, to) ==
  /\ pc = from
  /\ \/ /\ Works
        /\ manifests' = [manifests EXCEPT ![versions_.manifest] =
                                            AddRecord(@, EditRecord, TRUE)]
     \/ /\ Fails("manifestSync")
        /\ manifests' = [manifests EXCEPT ![versions_.manifest] =
                           [AddRecord(@, EditRecord, FALSE) EXCEPT !.sure = FALSE]]
  /\ pc' = to
  /\ UNCHANGED <<CURRENT, logs, tables, temps, memory, owed, wreck, writes, opens>>

(* Mutant of NewManifest: CURRENT names the MANIFEST before its record.    *)
NewManifestEarly ==
  \/ WriteTemp(versions_.manifest, "record", "rename")
  \/ RenameTemp(versions_.manifest, "rename", "current")
  \/ ManifestRecord("current", "install")

NewManifest ==
  \/ ManifestRecord("record", "current")
  \/ WriteTemp(versions_.manifest, "current", "rename")
  \/ RenameTemp(versions_.manifest, "rename", "install")

(* A failure on the way, of a record that is not found in the file or of   *)
(* CURRENT, deletes the new MANIFEST and DB::Open fails.                   *)
NewManifestFails ==
  /\ \/ pc \in {"snapshot", "record"} /\ Fails("manifest") /\ UNCHANGED temps
     \/ pc \in {"current", "rename"} /\ Fails("current")
        /\ temps' = temps \ {versions_.manifest}
  /\ manifests' = Drop(manifests, versions_.manifest)
  /\ Forget
  /\ UNCHANGED <<CURRENT, logs, tables, owed, wreck, writes, opens>>

(* AppendVersion, here and after a flush.                                  *)
Install ==
  /\ pc = "install"
  /\ versions_' = [versions_ EXCEPT !.files = @ \cup edit.files, !.log = edit.log]
  /\ edit' = NoEdit /\ imm_' = {} /\ max_sequence' = 0 /\ pc' = "sweep"
  /\ wreck' = wreck \ {"destroy"}
  /\ UNCHANGED <<onDisk, todo, pos, mem_, ok, logfile_number_, owed, writes, opens, faults>>

(* Mutant of Obsolete: a table that is in no version is kept.              *)
ObsoleteButTables ==
  [logs |-> {n \in DOMAIN logs : n < versions_.log},
   manifests |-> {n \in DOMAIN manifests : n < versions_.manifest},
   tables |-> {},
   temps |-> temps \ versions_.files]

(* DeleteObsoleteFiles, one file at a time, in the order of the directory. *)
Obsolete ==
  [logs |-> {n \in DOMAIN logs : n < versions_.log},
   manifests |-> {n \in DOMAIN manifests : n < versions_.manifest},
   tables |-> DOMAIN tables \ versions_.files,
   temps |-> temps \ versions_.files]

DeleteObsoleteFile ==
  /\ pc = "sweep"
  /\ \/ \E n \in Obsolete.logs :
          logs' = Drop(logs, n) /\ UNCHANGED <<manifests, tables, temps>>
     \/ \E n \in Obsolete.manifests :
          manifests' = Drop(manifests, n) /\ UNCHANGED <<logs, tables, temps>>
     \/ \E n \in Obsolete.tables :
          tables' = Drop(tables, n) /\ UNCHANGED <<logs, manifests, temps>>
     \/ \E n \in Obsolete.temps :
          temps' = temps \ {n} /\ UNCHANGED <<logs, manifests, tables>>
  /\ UNCHANGED <<CURRENT, pc, memory, owed, wreck, writes, opens, faults>>

SweepEnds ==
  /\ pc = "sweep" /\ \A kind \in DOMAIN Obsolete : Obsolete[kind] = {}
  /\ pc' = "open"
  /\ UNCHANGED <<onDisk, memory, owed, wreck, writes, opens, faults>>
-----------------------------------------------------------------------------
(* The open database: a write, a full memtable, its flush.                 *)

DBWrite(sync) ==
  /\ pc = "open" /\ writes < MaxPuts /\ writes' = writes + 1
  /\ LET e == [seq |-> versions_.last + 1, id |-> writes + 1]
     IN  /\ logs' = [logs EXCEPT ![logfile_number_] = AddRecord(@, e, sync)]
         /\ mem_' = mem_ \cup {e}
         /\ acked' = [all |-> acked.all \cup {e},
                      sync |-> acked.sync \cup IF sync THEN {e} ELSE {}]
         /\ UNCHANGED skipped
  /\ versions_' = [versions_ EXCEPT !.last = @ + 1]
  /\ UNCHANGED <<CURRENT, manifests, tables, temps, pc, edit, todo, pos, imm_,
                 max_sequence, ok, logfile_number_, wreck, opens, faults>>

MakeRoomForWrite ==
  /\ pc = "open" /\ imm_ = {} /\ mem_ # {}
  /\ logs' = Put(logs, versions_.next, NoFile)
  /\ logfile_number_' = versions_.next
  /\ versions_' = [versions_ EXCEPT !.next = @ + 1]
  /\ imm_' = mem_ /\ mem_' = {}
  /\ UNCHANGED <<CURRENT, manifests, tables, temps, pc, edit, todo, pos,
                 max_sequence, ok, owed, wreck, writes, opens, faults>>

FlushTable ==
  /\ pc = "open" /\ imm_ # {}
  /\ tables' = Put(tables, versions_.next, imm_)
  /\ versions_' = [versions_ EXCEPT !.next = @ + 1]
  /\ edit' = [files |-> {versions_.next}, log |-> logfile_number_]
  /\ pc' = "flush"
  /\ UNCHANGED <<CURRENT, manifests, logs, temps, todo, pos, mem_, imm_,
                 max_sequence, ok, logfile_number_, owed, wreck, writes, opens, faults>>

FlushManifest == ManifestRecord("flush", "install")

(* __destroy: the database is closed, and DestroyDB deletes what it finds  *)
(* in the order of the directory (no temporary file: see NothingLeft).     *)
Destroy ==
  /\ pc = "open" /\ Closed("destroy")
  /\ wreck' = wreck \cup {"destroy"} /\ acked' = NoEntries
  /\ UNCHANGED <<onDisk, skipped, writes, opens, faults>>

DestroyFile ==
  /\ pc = "destroy"
  /\ \/ CURRENT # 0 /\ CURRENT' = 0 /\ UNCHANGED <<manifests, logs, tables>>
     \/ \E n \in DOMAIN manifests :
          manifests' = Drop(manifests, n) /\ UNCHANGED <<CURRENT, logs, tables>>
     \/ \E n \in DOMAIN logs :
          logs' = Drop(logs, n) /\ UNCHANGED <<CURRENT, manifests, tables>>
     \/ \E n \in DOMAIN tables :
          tables' = Drop(tables, n) /\ UNCHANGED <<CURRENT, manifests, logs>>
  /\ UNCHANGED <<temps, pc, memory, owed, wreck, writes, opens, faults>>

DestroyEnds ==
  /\ pc = "destroy" /\ CURRENT = 0
  /\ DOMAIN manifests \cup DOMAIN logs \cup DOMAIN tables = {}
  /\ pc' = "down" /\ wreck' = wreck \ {"destroy"}
  /\ UNCHANGED <<onDisk, memory, owed, writes, opens, faults>>
-----------------------------------------------------------------------------
(* The process dies, or the database is closed: ~DBImpl writes nothing.    *)
(* With "torn" the record of a MANIFEST may be there in part.              *)
ProcessCrash ==
  /\ pc # "down" /\ Forget
  /\ manifests' \in
       {manifests} \cup
       IF "torn" \in Faults /\ pc \in {"record", "flush"}
       THEN {[manifests EXCEPT ![versions_.manifest] = AddRecord(@, Torn, FALSE)]}
       ELSE {}
  /\ UNCHANGED <<CURRENT, logs, tables, temps, owed, wreck, writes, opens, faults>>

(* The machine dies: records that were not synced may be gone.  Without    *)
(* "creation" this is not while CURRENT names the MANIFEST of NewDB.  When *)
(* a sync of the MANIFEST has failed, nothing is owed to the writers after *)
(* that.                                                                   *)
Truncations(dir) ==
  {d \in [DOMAIN dir -> UNION {{[recs |-> SubSeq(dir[n].recs, 1, k), synced |-> k,
                                 sure |-> TRUE] :
                                 k \in dir[n].synced .. Len(dir[n].recs)} :
                                n \in DOMAIN dir}] :
     \A n \in DOMAIN dir :
       /\ IsPrefix(d[n].recs, dir[n].recs) /\ Len(d[n].recs) >= dir[n].synced}

SyncFailed == CURRENT \in DOMAIN manifests /\ ~manifests[CURRENT].sure

MachineCrash ==
  /\ pc # "down" /\ Forget
  /\ (CURRENT = 1 => "creation" \in Faults)
  /\ manifests' \in Truncations(manifests) /\ logs' \in Truncations(logs)
  /\ acked' = IF SyncFailed THEN NoEntries ELSE [acked EXCEPT !.all = acked.sync]
  /\ wreck' = wreck \cup IF SyncFailed THEN {"sync"} ELSE {}
  /\ UNCHANGED <<CURRENT, tables, temps, skipped, writes, opens, faults>>

Opening ==
  \/ OpenDB \/ NewDB \/ NewDBCurrent \/ NewDBCurrentFails
  \/ VersionsRecover \/ ReplayRecord \/ FinishLog \/ ReplayFails \/ ReplayEnds
  \/ NewLog \/ NewLogFails \/ WriteSnapshot \/ NewManifest \/ NewManifestFails
  \/ Install \/ DeleteObsoleteFile \/ SweepEnds

RecoveryNext ==
  \/ Opening
  \/ \E sync \in BOOLEAN : DBWrite(sync)
  \/ MakeRoomForWrite \/ FlushTable \/ FlushManifest
  \/ Destroy \/ DestroyFile \/ DestroyEnds
  \/ ProcessCrash \/ MachineCrash
  \/ pc = "down" /\ opens = MaxOpens /\ UNCHANGED recoveryVars

RecoverySpec == RecoveryInit /\ [][RecoveryNext]_recoveryVars
-----------------------------------------------------------------------------
(* What a recovery finds in the files, given the logs and the MANIFESTs.   *)
Found(dir, logDir) ==
  LET recs == dir[CURRENT].recs
  IN  UNION {tables[n] : n \in AllFiles(recs)}
        \cup UNION {ToSet(logDir[n].recs) : n \in LogsFrom(LastNumbers(recs).log)}

Synced(dir) == [n \in DOMAIN dir |-> [dir[n] EXCEPT !.recs = SubSeq(@, 1, dir[n].synced)]]

(* DB::Open, NewDB, SetCurrentFile, LogAndApply and DeleteObsoleteFiles:   *)
(* after every step of an opening, of a flush and of a crash, CURRENT      *)
(* names a MANIFEST that Recover accepts and whose tables exist, and the   *)
(* next opening finds every acknowledged write, but for those in a part of *)
(* a log that could not be read: Recover goes on without them.             *)
AcknowledgedRecoverable ==
  /\ CURRENT # 0 /\ wreck = {} => Readable(manifests)
  /\ acked.all # {} => /\ CURRENT # 0
                       /\ acked.all \ skipped \subseteq Found(manifests, logs)

(* The same for writes with sync when the machine dies in that moment,     *)
(* unless a sync of the MANIFEST in use has failed.                        *)
SyncedRecoverable ==
  acked.sync # {} /\ ~SyncFailed =>
    /\ Readable(Synced(manifests))
    /\ acked.sync \ skipped \subseteq Found(Synced(manifests), Synced(logs))

(* VersionSet::Recover and RecoverLogFile: a sequence number is given only *)
(* once, also to a write after a recovery, or the older of two entries     *)
(* could hide the newer.                                                   *)
SequencesGrow ==
  pc = "open" =>
    \A e, f \in Found(manifests, logs) : e.seq = f.seq => e.id = f.id

(* DeleteObsoleteFiles: an open database has no file of an interrupted     *)
(* opening, flush or destruction left, but for a MANIFEST with a higher    *)
(* number, which it keeps for another incarnation.  (Once a crash has lost *)
(* records of a MANIFEST, their file numbers are given again, and a        *)
(* temporary file with the number of a table stays.)                       *)
NothingLeft ==
  pc = "open" /\ "sync" \notin wreck
              => /\ DOMAIN tables = versions_.files
                 /\ CURRENT = versions_.manifest
                 /\ \A n \in DOMAIN manifests : n >= CURRENT
                 /\ temps = {} /\ \A n \in DOMAIN logs : n >= versions_.log
=============================================================================
