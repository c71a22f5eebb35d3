--------------------------- MODULE WritePathDurable ---------------------------
(* Proofs about WritePath that no acknowledged write is lost: what the     *)
(* tables of the MANIFEST and the logs it needs hold at any moment decides *)
(* every key as the newest acknowledged write of it does.  With them, what *)
(* a reader finds: the newest acknowledged value of a key when it starts,  *)
(* and the same value for as long as it lives.                             *)
EXTENDS WritePathFiles, WritePathTables

\* A leaf that names no other prover is left to Zenon.
USE Zenon

\* At every moment the current version and the logs cover what is acknowledged,
\* and so do the version that the pending edit makes and the logs that it needs.
AllLogs == UNION {log[n] : n \in logFiles}
NeededLogs == IF edit.drop = {} THEN log[mem_] ELSE AllLogs
CoverInv ==
  /\ Covers(TableEntries(current.version), AllLogs, acked.all)
  /\ bg.at \in {"manifest", "install"} =>
       Covers(TableEntries(ApplyEdit(current.version, edit)), NeededLogs, acked.all)

\* A compaction that runs can end, also after the flush in the middle of it.
WorkInv ==
  bg.at = "work" \/ bg.inner =>
    /\ Workable(current.version, bg.inputs, bg.smallest)
    /\ bg.at \in {"manifest", "install"} =>
         Workable(ApplyEdit(current.version, edit), bg.inputs, bg.smallest)

LEMMA AllLogsAre ==
  ASSUME DataInv, NumbersInv
  PROVE  /\ \A e : e \in AllLogs <=> e \in log[mem_] \/ (imm_ # 0 /\ e \in log[imm_])
         /\ AllLogs \in SUBSET Entry /\ log[mem_] \in SUBSET Entry
         /\ imm_ # 0 => log[imm_] \in SUBSET Entry /\ table[imm_] \in SUBSET Entry
<1>1. /\ \A n \in logFiles : n \in 1 .. mem_ /\ n \in {mem_, imm_}
      /\ mem_ \in logFiles /\ mem_ \in 1 .. mem_
      /\ imm_ # 0 => imm_ \in logFiles /\ imm_ \in 1 .. mem_ /\ imm_ # mem_
  BY LogNumbers
<1>2. logFiles = {imm_, mem_} \ {0}
  BY DEF NumbersInv
<1>3. \A n \in 1 .. mem_ : log[n] \in SUBSET Entry /\ table[n] \in SUBSET Entry
  BY SMT DEF DataInv
<1>4. \A e : e \in AllLogs <=> \E n \in logFiles : e \in log[n]
  BY DEF AllLogs
<1>5. \A e : e \in AllLogs <=> e \in log[mem_] \/ (imm_ # 0 /\ e \in log[imm_])
  BY <1>1, <1>2, <1>4
<1>6. QED
  BY <1>1, <1>3, <1>4, <1>5

\* No step but the installation of a version uncovers anything.
LEMMA CoverKept ==
  ASSUME QueueInv, DataInv, DataInv', SeqInv, NumbersInv, NumbersInv', GroupInv, [Next]_vars,
         ~InstallVersion, NEW V
  PROVE  /\ Covers(V, AllLogs, acked.all) => Covers(V, AllLogs', acked'.all)
         /\ imm_ # 0 /\ Covers(V, log[mem_], acked.all) => Covers(V, log'[mem_'], acked'.all)
<1>a. \A e : e \in AllLogs <=> e \in log[mem_] \/ (imm_ # 0 /\ e \in log[imm_])
  BY AllLogsAre
<1>b. /\ mem_ \in logFiles /\ mem_ \in 1 .. mem_
      /\ imm_ # 0 => imm_ \in 1 .. mem_ /\ imm_ # mem_
  BY LogNumbers
<1>c. DOMAIN log = 1 .. mem_ /\ log \in Seq(SUBSET Entry) /\ Len(log) = mem_
  BY SMT DEF DataInv
<1>1. ASSUME UNCHANGED <<mem_, log, logFiles, acked>>
      PROVE  UNCHANGED <<AllLogs, log[mem_], acked.all>>
  BY <1>1 DEF AllLogs
<1>2. CASE Quiet
  <2>1. UNCHANGED <<AllLogs, log[mem_], acked.all>>
    BY <1>1, <1>2 DEF Quiet
  <2>2. QED
    BY <2>1
<1>3. ASSUME NEW t \in Threads,
             \/ \E b \in Batches, s \in Syncs : Write(t, b, s)
             \/ RoomFound(t) \/ SwitchFails(t) \/ InsertInto(t)
      PROVE  UNCHANGED <<AllLogs, log[mem_], acked.all>>
  BY <1>1, <1>3 DEF Write, RoomFound, SwitchFails, InsertInto, RoomFrame, memory, logs
<1>4. ASSUME NEW t \in Threads, SwitchMemTable(t)
      PROVE  imm_ = 0 /\ AllLogs' = AllLogs /\ acked' = acked
  <2>1. /\ imm_ = 0 /\ acked' = acked /\ log' = Append(log, {})
        /\ logFiles' = logFiles \cup {Len(log) + 1}
    BY <1>4 DEF SwitchMemTable, MustWait
  <2>2. /\ \A n \in logFiles : n \in 1 .. mem_
    BY LogNumbers
  <2>3. /\ \A n \in 1 .. mem_ : log'[n] = log[n]
        /\ log'[Len(log) + 1] = {}
    BY <1>c, <2>1, SMT
  <2>4. AllLogs' = AllLogs
    <3>1. \A n \in logFiles : log'[n] = log[n]
      BY <2>2, <2>3
    <3>2. \A e : e \in AllLogs' <=> \E n \in logFiles' : e \in log'[n]
      BY DEF AllLogs
    <3>3. \A e : e \in AllLogs <=> \E n \in logFiles : e \in log[n]
      BY DEF AllLogs
    <3>4. \A e : (\E n \in logFiles' : e \in log'[n]) <=> \E n \in logFiles : e \in log[n]
      BY <2>1, <2>3, <3>1
    <3>5. QED
      BY <3>2, <3>3, <3>4
  <2>5. QED
    BY <2>1, <2>4
<1>5. ASSUME NEW t \in Threads, AddRecord(t) \/ AddRecordFails(t)
      PROVE  /\ Covers(V, AllLogs, acked.all) => Covers(V, AllLogs', acked'.all)
             /\ Covers(V, log[mem_], acked.all) => Covers(V, log'[mem_'], acked'.all)
  <2> DEFINE U == Range(group.updates)
  <2>1. /\ UNCHANGED <<acked, mem_, imm_, logFiles>>
        /\ \/ log' = log
           \/ log' = [log EXCEPT ![mem_] = @ \cup U]
    BY <1>5 DEF AddRecord, AddRecordFails, memory, logs
  <2>2. \A e \in acked.all, f \in U : e.seq < f.seq
    BY GroupIsNew
  <2> HIDE DEF U
  <2>3. CASE log' = log
    BY <1>1, <2>1, <2>3
  <2>4. CASE log' = [log EXCEPT ![mem_] = @ \cup U]
    <3>1. log'[mem_] = log[mem_] \cup U /\ \A n \in 1 .. mem_ : n # mem_ => log'[n] = log[n]
      BY <1>b, <1>c, <2>4
    <3>2. \A n \in logFiles : log[n] \subseteq log'[n] /\ log'[n] \subseteq log[n] \cup U
      <4>1. \A n \in logFiles : n \in 1 .. mem_
        BY LogNumbers
      <4>2. QED
        BY <3>1, <4>1
    <3>3. AllLogs \subseteq AllLogs' /\ AllLogs' \subseteq AllLogs \cup U
      <4>1. \A e : e \in AllLogs <=> \E n \in logFiles : e \in log[n]
        BY DEF AllLogs
      <4>2. \A e : e \in AllLogs' <=> \E n \in logFiles : e \in log'[n]
        BY <2>1 DEF AllLogs
      <4>3. QED
        BY <3>2, <4>1, <4>2
    <3>4. log[mem_] \subseteq log'[mem_'] /\ log'[mem_'] \subseteq log[mem_] \cup U
      BY <2>1, <3>1
    <3>5. /\ Covers(V, AllLogs, acked.all) => Covers(V, AllLogs', acked.all)
          /\ Covers(V, log[mem_], acked.all) => Covers(V, log'[mem_'], acked.all)
      BY <2>2, <3>3, <3>4, CoversMoreLogs
    <3>6. QED
      BY <2>1, <3>5
  <2>5. QED
    BY <2>1, <2>3, <2>4, SMT
<1>6. ASSUME NEW t \in Threads, WriteEnds(t)
      PROVE  /\ Covers(V, AllLogs, acked.all) => Covers(V, AllLogs', acked'.all)
             /\ Covers(V, log[mem_], acked.all) => Covers(V, log'[mem_'], acked'.all)
  <2> DEFINE U == Range(group.updates)
  <2>1. /\ pc[t] = "w.finish" /\ UNCHANGED <<mem_, log, logFiles>>
        /\ acked' = IF group.ok THEN [all |-> acked.all \cup U, sync |-> acked.sync \cup SyncEntries]
                    ELSE acked
    BY <1>6 DEF WriteEnds, memory, logs
  <2>2. AllLogs' = AllLogs /\ log'[mem_'] = log[mem_]
    BY <2>1 DEF AllLogs
  <2>3. CASE ~group.ok
    BY <2>1, <2>2, <2>3
  <2>4. CASE group.ok
    <3>1. acked'.all = acked.all \cup U
      BY <2>1, <2>4
    <3>2. "w.finish" \in {"w.insert", "w.finish"}
      BY SMT
    <3>3. U \subseteq log[mem_]
      BY <2>1, <2>4, <3>2, GroupedLabels DEF GroupInv, GroupAt, Inserting
    <3>4. U \subseteq AllLogs
      BY <1>a, <3>3
    <3> HIDE DEF U
    <3>5. /\ Covers(V, AllLogs, acked.all) => Covers(V, AllLogs, acked.all \cup U)
          /\ Covers(V, log[mem_], acked.all) => Covers(V, log[mem_], acked.all \cup U)
      BY <3>3, <3>4, CoversMoreWrites
    <3>6. QED
      BY <2>2, <3>1, <3>5
  <2>5. QED
    BY <2>3, <2>4, SMT
<1>7. QED
  BY <1>2, <1>3, <1>4, <1>5, <1>6, DataSteps DEF WritesData

\* What a flush finds: the immutable memtable, which has the acknowledged part of
\* its log, and nothing of the tables is newer.
LEMMA FlushFinds ==
  ASSUME DataInv, ScheduleInv, VersionInv, NumbersInv, CloseInv, FilesInv, CoverInv, bg.at = "build"
  PROVE  /\ imm_ # 0 /\ table[imm_] \in SUBSET Entry
         /\ table[imm_] \subseteq acked.all /\ table[imm_] \subseteq log[imm_]
         /\ acked.all \cap log[imm_] \subseteq table[imm_]
         /\ \A e \in log[imm_], f \in log[mem_] : e.seq < f.seq
         /\ \A e \in TableEntries(current.version), f \in table[imm_] : e.seq < f.seq
         /\ AllLogs = log[imm_] \cup log[mem_]
<1>1. imm_ # 0
  BY DEF VersionInv
<1>2. bg.at # "idle"
  BY SMT
<1>3. ~IsClosed
  BY <1>2 DEF ScheduleInv, CloseInv
<1>4. imm_ \in logFiles
  BY <1>1, LogNumbers
<1>5. /\ \A e : e \in AllLogs <=> e \in log[mem_] \/ (imm_ # 0 /\ e \in log[imm_])
      /\ table[imm_] \in SUBSET Entry
  BY <1>1, AllLogsAre
<1>6. AllLogs = log[imm_] \cup log[mem_]
  BY <1>1, <1>5
<1>7. /\ table[imm_] \subseteq acked.all /\ table[imm_] \subseteq log[imm_]
      /\ acked.all \cap log[imm_] \subseteq table[imm_]
      /\ \A e \in log[imm_], f \in log[mem_] : e.seq < f.seq
  BY <1>1, <1>3, <1>4 DEF FilesInv
<1>8. \A e \in TableEntries(current.version), f \in AllLogs : e.seq < f.seq
  BY DEF CoverInv, Covers
<1>9. \A e \in TableEntries(current.version), f \in table[imm_] : e.seq < f.seq
  BY <1>6, <1>7, <1>8
<1>10. QED
  BY <1>1, <1>5, <1>6, <1>7, <1>9

LEMMA CoverNext ==
  ASSUME QueueInv, DataInv, DataInv', SeqInv, ScheduleInv, VersionInv, NumbersInv, NumbersInv',
         CloseInv, GroupInv, FilesInv, CoverInv, WorkInv, [Next]_vars
  PROVE  CoverInv'
<1> DEFINE v == current.version
<1>a. acked.all \in SUBSET Entry /\ v \in Version
  BY DEF GroupInv, VersionInv
<1>b. /\ Covers(TableEntries(v), AllLogs, acked.all)
      /\ bg.at \in {"manifest", "install"} =>
           Covers(TableEntries(ApplyEdit(v, edit)), NeededLogs, acked.all)
  BY DEF CoverInv
<1>c. log[mem_] \in SUBSET Entry /\ (imm_ # 0 => log[imm_] \in SUBSET Entry)
  BY AllLogsAre
<1>1. CASE InstallVersion
  <2>1. /\ bg.at = "install" /\ current' = [version |-> ApplyEdit(v, edit), seek |-> FALSE]
        /\ acked' = acked /\ mem_' = mem_ /\ (edit.drop = {} => imm_' = 0)
    BY <1>1 DEF InstallVersion, BgFrame
  <2>2. /\ \A n \in logFiles' : log'[n] = log[n]
        /\ edit.drop # {} => logFiles' = logFiles
    BY <1>1, Installed
  <2>3. bg'.at \notin {"manifest", "install"}
    <3>1. (\E i, c : BackgroundEnds(i, c)) \/ BackToWork
      BY <1>1 DEF InstallVersion
    <3>2. bg'.at = "idle" \/ bg'.at = "work"
      BY <3>1, CallEnds DEF ScheduleInv
    <3>3. QED
      BY <3>2, SMT
  <2>4. AllLogs' = NeededLogs
    <3>1. CASE edit.drop # {}
      <4>1. AllLogs' = AllLogs
        BY <2>2, <3>1, SMT DEF AllLogs
      <4>2. QED
        BY <3>1, <4>1 DEF NeededLogs
    <3>2. CASE edit.drop = {}
      <4>1. logFiles' = {mem_}
        <5>1. mem_ # 0 /\ logFiles' = {imm_', mem_'} \ {0}
          BY SMT DEF NumbersInv, DataInv
        <5>2. QED
          BY <2>1, <3>2, <5>1, SMT
      <4>2. AllLogs' = log[mem_]
        BY <2>2, <4>1, SMT DEF AllLogs
      <4>3. QED
        BY <3>2, <4>2 DEF NeededLogs
    <3>3. QED
      BY <3>1, <3>2, SMT
  <2>5. "install" \in {"manifest", "install"}
    BY SMT
  <2>6. Covers(TableEntries(current'.version), AllLogs', acked'.all)
    BY <1>b, <2>1, <2>4, <2>5
  <2>7. QED
    BY <2>3, <2>6 DEF CoverInv
<1>2. CASE ~InstallVersion /\ ~BackgroundStep
  <2>1. UNCHANGED <<bg, edit>> /\ current'.version = v
    BY <1>2, VersionSteps
  <2>2. Covers(TableEntries(v), AllLogs', acked'.all)
    BY <1>2, <1>b, CoverKept
  <2>3. ASSUME bg.at \in {"manifest", "install"}
        PROVE  Covers(TableEntries(ApplyEdit(v, edit)), NeededLogs', acked'.all)
    <3>1. Covers(TableEntries(ApplyEdit(v, edit)), NeededLogs, acked.all)
      BY <1>b, <2>3
    <3>2. CASE edit.drop = {}
      <4>1. imm_ # 0 /\ NeededLogs = log[mem_] /\ NeededLogs' = log'[mem_']
        BY <2>1, <2>3, <3>2 DEF NumbersInv, NeededLogs
      <4>2. QED
        BY <1>2, <3>1, <4>1, CoverKept
    <3>3. CASE edit.drop # {}
      <4>1. NeededLogs = AllLogs /\ NeededLogs' = AllLogs'
        BY <2>1, <3>3 DEF NeededLogs
      <4>2. QED
        BY <1>2, <3>1, <4>1, CoverKept
    <3>4. QED
      BY <3>2, <3>3, SMT
  <2>4. QED
    BY <2>1, <2>2, <2>3 DEF CoverInv
<1>3. CASE ~InstallVersion /\ BackgroundStep
  <2>1. Calm
    BY <1>3, BackgroundSteps
  <2>2. /\ current' = current /\ acked' = acked /\ AllLogs' = AllLogs
        /\ mem_' = mem_ /\ log' = log /\ logNumber' = logNumber
    BY <2>1 DEF Calm, AllLogs
  <2>3. Covers(TableEntries(current'.version), AllLogs', acked'.all)
    BY <1>b, <2>2
  <2>4. SUFFICES ASSUME bg'.at \in {"manifest", "install"}
                 PROVE  Covers(TableEntries(ApplyEdit(v, edit')), NeededLogs', acked.all)
    BY <2>2, <2>3 DEF CoverInv
  <2>5. CASE Writes
    <3>1. bg.at \in {"manifest", "install"} /\ edit' = edit
      BY <2>5, SMT DEF Writes
    <3>2. NeededLogs' = NeededLogs
      BY <2>2, <3>1 DEF NeededLogs
    <3>3. QED
      BY <1>b, <3>1, <3>2
  <2>6. CASE EditsFlush
    <3>1. bg.at = "build" /\ FlushOf(edit')
      BY <2>6 DEF EditsFlush
    <3>2. /\ imm_ # 0 /\ table[imm_] \in SUBSET Entry
          /\ table[imm_] \subseteq acked.all /\ table[imm_] \subseteq log[imm_]
          /\ acked.all \cap log[imm_] \subseteq table[imm_]
          /\ \A e \in log[imm_], f \in log[mem_] : e.seq < f.seq
          /\ AllLogs = log[imm_] \cup log[mem_]
      BY <3>1, FlushFinds
    <3>3. Covers(TableEntries(v) \cup table[imm_], log[mem_], acked.all)
      <4>1. Covers(TableEntries(v), log[imm_] \cup log[mem_], acked.all)
        BY <1>b, <3>2
      <4>2. QED
        BY <1>a, <1>c, <3>2, <4>1, CoversFlush
    <3>4. TableEntries(ApplyEdit(v, edit')) = TableEntries(v) \cup table[imm_]
      BY <1>a, <3>1, <3>2, FlushTables DEF FlushOf
    <3>5. NeededLogs' = log[mem_]
      BY <2>2, <3>1 DEF NeededLogs, FlushOf
    <3>6. QED
      BY <3>3, <3>4, <3>5
  <2>7. CASE EditsMove
    <3>1. PICK S \in Inputs(v) : edit' = [NoEdit EXCEPT !.drop = S, !.log = logNumber,
                                            !.below = InputEntries(v, S)]
      BY <2>7 DEF EditsMove
    <3>2. TableEntries(ApplyEdit(v, edit')) = TableEntries(v)
      BY <1>a, <3>1, MoveTables
    <3>3. edit'.drop # {}
      <4>1. edit'.drop = S
        BY <3>1, SMT DEF NoEdit
      <4>2. S # {}
        BY DEF Inputs
      <4>3. QED
        BY <4>1, <4>2
    <3>4. NeededLogs' = AllLogs
      BY <2>2, <3>3 DEF NeededLogs
    <3>5. QED
      BY <1>b, <3>2, <3>4
  <2>8. CASE EditsWork
    <3>1. /\ bg.at = "work"
          /\ edit' = [drop |-> bg.inputs, old |-> Below(v, bg.inputs), add |-> <<>>,
                      below |-> Kept(InputEntries(v, bg.inputs) \cup Below(v, bg.inputs),
                                     bg.smallest),
                      log |-> logNumber]
      BY <2>8 DEF EditsWork
    <3>2. /\ bg.inputs \in SUBSET (1 .. Len(v.level0)) /\ bg.inputs # {}
          /\ Workable(v, bg.inputs, bg.smallest)
      BY <3>1 DEF VersionInv, NumbersInv, WorkInv
    <3>3. Covers(TableEntries(ApplyEdit(v, edit')), AllLogs, acked.all)
      BY <1>a, <1>b, <3>1, <3>2, WorkTables
    <3>4. edit'.drop # {}
      <4>1. edit'.drop = bg.inputs
        BY <3>1
      <4>2. QED
        BY <3>2, <4>1
    <3>5. NeededLogs' = AllLogs
      BY <2>2, <3>4 DEF NeededLogs
    <3>6. QED
      BY <3>3, <3>5
  <2>9. CASE StartsWork \/ GoesOn
    <3>1. bg'.at \notin {"manifest", "install"}
      BY <2>9, SMT DEF StartsWork, GoesOn
    <3>2. QED
      BY <2>4, <3>1
  <2>10. QED
    BY <1>3, <2>5, <2>6, <2>7, <2>8, <2>9, BackgroundSteps
<1>4. QED
  BY <1>1, <1>2, <1>3, SMT

LEMMA WorkNext ==
  ASSUME DataInv, ScheduleInv, VersionInv, NumbersInv, CloseInv, GroupInv, FilesInv, CoverInv,
         WorkInv, [Next]_vars
  PROVE  WorkInv'
<1> DEFINE v == current.version
<1>a. v \in Version /\ lastSequence \in Nat
  BY DEF VersionInv, DataInv
<1>b. bg.at = "work" \/ bg.inner => /\ Workable(v, bg.inputs, bg.smallest)
                                    /\ bg.inputs \in SUBSET (1 .. Len(v.level0))
  BY DEF WorkInv, VersionInv
<1>1. CASE InstallVersion
  <2>1. /\ bg.at = "install" /\ current' = [version |-> ApplyEdit(v, edit), seek |-> FALSE]
        /\ (bg.inner /\ BackToWork) \/ \E i, c : BackgroundEnds(i, c)
    BY <1>1 DEF InstallVersion
  <2>2. CASE \E i, c : BackgroundEnds(i, c)
    <3>1. bg'.at = "idle" /\ bg'.inner = FALSE
      BY <2>2, CallEnds DEF ScheduleInv
    <3>2. "idle" # "work"
      BY SMT
    <3>3. QED
      BY <3>1, <3>2 DEF WorkInv
  <2>3. CASE bg.inner /\ BackToWork
    <3>1. /\ bg'.at = "work" /\ bg'.inputs = bg.inputs /\ bg'.smallest = bg.smallest
      BY <2>3, CallEnds DEF ScheduleInv
    <3>2. "work" \notin {"manifest", "install"} /\ "install" \in {"manifest", "install"}
      BY SMT
    <3>3. Workable(ApplyEdit(v, edit), bg.inputs, bg.smallest)
      BY <2>1, <2>3, <3>2 DEF WorkInv
    <3>4. current'.version = ApplyEdit(v, edit)
      BY <2>1
    <3>5. QED
      BY <3>1, <3>2, <3>3, <3>4 DEF WorkInv
  <2>4. QED
    BY <2>1, <2>2, <2>3, SMT
<1>2. CASE ~BackgroundStep
  <2>1. UNCHANGED <<bg, edit>> /\ current'.version = v
    BY <1>2, VersionSteps
  <2>2. QED
    BY <2>1 DEF WorkInv
<1>3. CASE ~InstallVersion /\ BackgroundStep
  <2>1. Calm
    BY <1>3, BackgroundSteps
  <2>2. current' = current
    BY <2>1 DEF Calm
  <2>3. CASE Writes
    <3>1. /\ bg.at = "manifest" /\ bg'.at = "install" /\ edit' = edit /\ bg'.inner = bg.inner
          /\ bg'.inputs = bg.inputs /\ bg'.smallest = bg.smallest
      BY <2>3 DEF Writes, Carries
    <3>2. "install" # "work" /\ "manifest" \in {"manifest", "install"}
      BY SMT
    <3>3. QED
      BY <2>2, <3>1, <3>2 DEF WorkInv
  <2>4. CASE EditsFlush
    <3>1. /\ bg.at = "build" /\ bg'.at = "manifest" /\ FlushOf(edit') /\ bg'.inner = bg.inner
          /\ bg'.inputs = bg.inputs /\ bg'.smallest = bg.smallest
      BY <2>4 DEF EditsFlush, Carries
    <3>2. "manifest" # "work"
      BY SMT
    <3>3. ASSUME bg.inner
          PROVE  Workable(ApplyEdit(v, edit'), bg.inputs, bg.smallest)
      <4>1. /\ table[imm_] \in SUBSET Entry
            /\ \A e \in TableEntries(v), f \in table[imm_] : e.seq < f.seq
        BY <3>1, FlushFinds
      <4>2. /\ edit'.drop = {} /\ edit'.old = {}
            /\ \/ edit'.add = <<>> /\ edit'.below = {}
               \/ edit'.add = <<table[imm_]>> /\ edit'.below = {}
               \/ /\ edit'.add = <<>> /\ edit'.below = table[imm_]
                  /\ \A i \in DOMAIN v.level0 : ~Overlap(v.level0[i], table[imm_])
        BY <3>1 DEF FlushOf
      <4>3. QED
        BY <1>a, <1>b, <3>3, <4>1, <4>2, WorkFlush
    <3>4. QED
      BY <1>b, <2>2, <3>1, <3>2, <3>3 DEF WorkInv
  <2>5. CASE EditsMove \/ EditsWork
    <3>1. bg'.at = "manifest" /\ ~bg'.inner
      BY <2>5 DEF EditsMove, EditsWork
    <3>2. "manifest" # "work"
      BY SMT
    <3>3. QED
      BY <3>1, <3>2 DEF WorkInv
  <2>6. CASE StartsWork
    <3>1. /\ bg'.at = "work" /\ bg'.inputs \in Inputs(v) /\ bg'.smallest = lastSequence
      BY <2>6 DEF StartsWork
    <3>2. \A e \in TableEntries(v) : e.seq <= lastSequence
      BY DEF CoverInv, Covers, GroupInv
    <3>3. Workable(v, bg'.inputs, bg'.smallest)
      BY <1>a, <3>1, <3>2, WorkStarts
    <3>4. "work" \notin {"manifest", "install"}
      BY SMT
    <3>5. QED
      BY <2>2, <3>1, <3>3, <3>4 DEF WorkInv
  <2>7. CASE GoesOn
    BY <1>b, <2>2, <2>7 DEF WorkInv, GoesOn
  <2>8. QED
    BY <1>3, <2>3, <2>4, <2>5, <2>6, <2>7, BackgroundSteps
<1>4. QED
  BY <1>1, <1>2, <1>3, SMT

LEMMA CoverAlways == Spec => [](CoverInv /\ WorkInv)
<1>1. Init => CoverInv /\ WorkInv
  <2> SUFFICES ASSUME Init PROVE CoverInv /\ WorkInv
    BY SMT
  <2>1. /\ log = <<{}>> /\ logFiles = {1} /\ acked = [all |-> {}, sync |-> {}]
        /\ current = [version |-> NoVersion, seek |-> FALSE]
        /\ bg = [at |-> "idle", inner |-> FALSE, inputs |-> {}, smallest |-> 0]
    BY DEF Init
  <2>2. log[1] = {} /\ bg.at = "idle" /\ bg.inner = FALSE /\ acked.all = {}
    BY <2>1, SMT
  <2>3. "idle" # "work" /\ "idle" \notin {"manifest", "install"}
    BY SMT
  <2>4. current.version \in Version /\ \A x : ~InTables(current.version, x)
    BY <2>1, SMT DEF NoVersion, Version, InTables
  <2>5. TableEntries(current.version) = {}
    BY <2>4, TableEntriesHas
  <2>6. Covers({}, AllLogs, {})
    BY DEF Covers
  <2>7. QED
    BY <2>2, <2>3, <2>5, <2>6 DEF CoverInv, WorkInv
<1>2. (/\ QueueInv /\ DataInv /\ DataInv' /\ SeqInv /\ ScheduleInv /\ VersionInv
       /\ NumbersInv /\ NumbersInv' /\ CloseInv /\ GroupInv /\ FilesInv /\ CoverInv /\ WorkInv
       /\ [Next]_vars)
      => CoverInv' /\ WorkInv'
  BY CoverNext, WorkNext
<1>3. QED
  BY <1>1, <1>2, QueueAlways, SeqAlways, ScheduleAlways, VersionAlways, NumbersAlways, CloseAlways,
     GroupAlways, FilesAlways, PTL DEF Spec
------------------------------------------------------------------------------
\* The tables of the MANIFEST and the logs that it needs cover what is
\* acknowledged: it is the current version's or that of the edit being installed.
LEMMA ManifestCovers ==
  ASSUME DataInv, NumbersInv, CoverInv
  PROVE  LET needed == {n \in logFiles : n >= manifest.log}
         IN  Covers(TableEntries(manifest.version), UNION {log[n] : n \in needed}, acked.all)
<1> DEFINE needed == {n \in logFiles : n >= manifest.log}
           L == UNION {log[n] : n \in needed}
<1>1. mem_ \in Nat \ {0} /\ imm_ \in {0, mem_ - 1} /\ logFiles = {imm_, mem_} \ {0}
  BY DEF DataInv, NumbersInv
<1>2. ASSUME manifest.log = logNumber
      PROVE  L = AllLogs
  <2>1. \A n \in logFiles : n >= logNumber
    BY <1>1, SMT DEF NumbersInv
  <2>2. needed = logFiles
    BY <1>2, <2>1
  <2>3. QED
    BY <2>2 DEF AllLogs
<1>3. ASSUME manifest.log = mem_
      PROVE  L = log[mem_]
  <2>1. needed = {mem_}
    BY <1>1, <1>3, SMT
  <2>2. QED
    BY <2>1
<1>4. CASE bg.at = "install"
  <2>1. manifest.version = ApplyEdit(current.version, edit) /\ manifest.log = edit.log
    BY <1>4 DEF NumbersInv
  <2>2. "install" \in {"manifest", "install"}
    BY SMT
  <2>3. Covers(TableEntries(manifest.version), NeededLogs, acked.all)
    BY <1>4, <2>1, <2>2 DEF CoverInv
  <2>4. L = NeededLogs
    BY <1>2, <1>3, <1>4, <2>1, <2>2 DEF NumbersInv, NeededLogs
  <2>5. QED
    BY <2>3, <2>4
<1>5. CASE bg.at # "install"
  <2>1. manifest.version = current.version /\ manifest.log = logNumber
    BY <1>5 DEF NumbersInv
  <2>2. QED
    BY <1>2, <2>1 DEF CoverInv
<1>6. QED
  BY <1>4, <1>5, SMT

\* DBImpl::Write, CompactMemTable, DoCompactionWork, LogAndApply and
\* DeleteObsoleteFiles, for any threads, keys, triggers and faults: whenever the
\* process dies and no record of the MANIFEST has failed, what is sure to be read
\* from the files decides the key of every acknowledged write as that write or a
\* later one of the key does, except for writes behind a failed append of a log
\* that is still needed.
THEOREM NoWriteIsLost == Spec => []Recoverable
<1>1. DataInv /\ NumbersInv /\ GroupInv /\ CoverInv => Recoverable
  <2> SUFFICES ASSUME DataInv, NumbersInv, GroupInv, CoverInv, ~Failed("manifest"),
                      NEW e \in acked.all, e \notin AtRisk({"append"}, manifest)
               PROVE  Survives(e, AfterProcessCrash)
    BY DEF Recoverable
  <2> DEFINE needed == NeededBy(manifest)
             L == UNION {log[n] : n \in needed}
             M == UNION {log[n] \ Behind({"append"}, n) : n \in needed}
  <2>1. Covers(TableEntries(manifest.version), L, acked.all)
    BY ManifestCovers DEF NeededBy
  <2>2. acked.all \in SUBSET Entry
    BY DEF GroupInv
  <2>3. L \subseteq AllLogs /\ AllLogs \in SUBSET Entry
    BY AllLogsAre DEF AllLogs, NeededBy
  <2>4. \A n \in needed : e \notin Behind({"append"}, n)
    BY DEF AtRisk
  <2> HIDE DEF needed
  <2>5. M \in SUBSET L /\ (e \in L => e \in M)
    <3>1. ASSUME NEW x \in M PROVE x \in L
      <4>1. PICK n \in needed : x \in log[n] \ Behind({"append"}, n)
        OBVIOUS
      <4>2. QED
        BY <4>1
    <3>2. ASSUME e \in L PROVE e \in M
      <4>1. PICK n \in needed : e \in log[n]
        BY <3>2
      <4>2. e \in log[n] \ Behind({"append"}, n)
        BY <2>4, <4>1
      <4>3. QED
        BY <4>2
    <3>3. QED
      BY <3>1, <3>2
  <2> HIDE DEF L, M
  <2>6. Survives(e, TableEntries(manifest.version) \cup M)
    BY <2>1, <2>2, <2>3, <2>5, CoveredSurvives, SMT
  <2>7. QED
    BY <2>6 DEF AfterProcessCrash, M, needed
<1>2. QED
  BY <1>1, SeqAlways, NumbersAlways, GroupAlways, CoverAlways, PTL

\* BuildBatchGroup, Write and LogAndApply, for any threads, keys and triggers: if
\* the sync of the MANIFEST does not fail, every write acknowledged with sync is
\* decided in the same way by what is sure to be on the disk, whenever the machine
\* dies, except for writes behind a failed append or sync of a log that is still
\* needed.
THEOREM NoSyncedWriteIsLost ==
  ASSUME "manifestSync" \notin Faults
  PROVE  Spec => []SyncedDurable
<1> DEFINE ops == {"append", "sync"}
<1>1. DataInv /\ NumbersInv /\ GroupInv /\ FilesInv /\ CoverInv => SyncedDurable
  <2> SUFFICES ASSUME DataInv, NumbersInv, GroupInv, FilesInv, CoverInv, ~Failed("manifest"),
                      NEW e \in acked.sync, e \notin AtRisk(ops, durable)
               PROVE  Survives(e, AfterMachineCrash)
    BY DEF SyncedDurable
  <2> DEFINE needed == NeededBy(manifest)
             L == UNION {log[n] : n \in needed}
             M == UNION {synced[n] \ Behind(ops, n) : n \in needed}
  <2>1. Covers(TableEntries(manifest.version), L, acked.all)
    BY ManifestCovers DEF NeededBy
  <2>2. acked.all \in SUBSET Entry /\ e \in acked.all
    BY DEF GroupInv
  <2>3. L \subseteq AllLogs /\ AllLogs \in SUBSET Entry
    BY AllLogsAre DEF AllLogs, NeededBy
  <2>4. \A n \in needed : synced[n] \subseteq log[n] /\ acked.sync \cap log[n] \subseteq synced[n]
    BY DEF FilesInv, NeededBy
  <2>5. durable = manifest
    BY DEF NumbersInv
  <2>6. \A n \in needed : e \notin Behind(ops, n)
    BY <2>5 DEF AtRisk
  <2> HIDE DEF needed, ops
  <2>7. M \in SUBSET L /\ (e \in L => e \in M)
    <3>1. ASSUME NEW x \in M PROVE x \in L
      <4>1. PICK n \in needed : x \in synced[n] \ Behind(ops, n)
        OBVIOUS
      <4>2. x \in log[n]
        BY <2>4, <4>1
      <4>3. QED
        BY <4>2
    <3>2. ASSUME e \in L PROVE e \in M
      <4>1. PICK n \in needed : e \in log[n]
        BY <3>2
      <4>2. e \in synced[n] \ Behind(ops, n)
        BY <2>4, <2>6, <4>1
      <4>3. QED
        BY <4>2
    <3>3. QED
      BY <3>1, <3>2
  <2> HIDE DEF L, M
  <2>8. Survives(e, TableEntries(manifest.version) \cup M)
    BY <2>1, <2>2, <2>3, <2>7, CoveredSurvives, SMT
  <2>9. QED
    BY <2>5, <2>8 DEF AfterMachineCrash, M, needed, ops
<1>2. QED
  BY <1>1, SeqAlways, NumbersAlways, GroupAlways, FilesAlways, CoverAlways, PTL

------------------------------------------------------------------------------
\* The current version is ordered, and so is the one that the pending edit makes.
OrderInv ==
  /\ LevelsOrdered(current.version)
  /\ bg.at \in {"manifest", "install"} => LevelsOrdered(ApplyEdit(current.version, edit))

LEMMA OrderNext ==
  ASSUME DataInv, ScheduleInv, VersionInv, NumbersInv, CloseInv, FilesInv, CoverInv, WorkInv,
         OrderInv, [Next]_vars
  PROVE  OrderInv'
<1> DEFINE v == current.version
<1>a. v \in Version /\ LevelsOrdered(v)
  BY DEF VersionInv, OrderInv
<1>1. CASE InstallVersion
  <2>1. bg.at = "install" /\ current' = [version |-> ApplyEdit(v, edit), seek |-> FALSE]
    BY <1>1 DEF InstallVersion
  <2>2. bg'.at \notin {"manifest", "install"}
    <3>1. (\E i, c : BackgroundEnds(i, c)) \/ BackToWork
      BY <1>1 DEF InstallVersion
    <3>2. bg'.at = "idle" \/ bg'.at = "work"
      BY <3>1, CallEnds DEF ScheduleInv
    <3>3. QED
      BY <3>2, SMT
  <2>3. "install" \in {"manifest", "install"}
    BY SMT
  <2>4. current'.version = ApplyEdit(v, edit)
    BY <2>1
  <2>5. QED
    BY <2>1, <2>2, <2>3, <2>4 DEF OrderInv
<1>2. CASE ~BackgroundStep
  <2>1. UNCHANGED <<bg, edit>> /\ current'.version = v
    BY <1>2, VersionSteps
  <2>2. QED
    BY <2>1 DEF OrderInv
<1>3. CASE ~InstallVersion /\ BackgroundStep
  <2>1. Calm
    BY <1>3, BackgroundSteps
  <2>2. current' = current
    BY <2>1 DEF Calm
  <2>3. SUFFICES ASSUME bg'.at \in {"manifest", "install"}
                 PROVE  LevelsOrdered(ApplyEdit(v, edit'))
    BY <1>a, <2>2 DEF OrderInv
  <2>4. CASE Writes
    <3>1. bg.at \in {"manifest", "install"} /\ edit' = edit
      BY <2>4, SMT DEF Writes
    <3>2. QED
      BY <3>1 DEF OrderInv
  <2>5. CASE EditsFlush
    <3>1. bg.at = "build" /\ FlushOf(edit')
      BY <2>5 DEF EditsFlush
    <3>2. /\ table[imm_] \in SUBSET Entry
          /\ \A e \in TableEntries(v), f \in table[imm_] : e.seq < f.seq
      BY <3>1, FlushFinds
    <3>3. /\ edit'.drop = {}
          /\ \/ edit'.add = <<>> /\ edit'.below = {}
             \/ edit'.add = <<table[imm_]>> /\ edit'.below = {}
             \/ /\ edit'.add = <<>> /\ edit'.below = table[imm_]
                /\ \A i \in DOMAIN v.level0 : ~Overlap(v.level0[i], table[imm_])
      BY <3>1 DEF FlushOf
    <3>4. QED
      BY <1>a, <3>2, <3>3, FlushOrdered
  <2>6. CASE EditsMove
    <3>1. PICK S \in Inputs(v) : edit' = [NoEdit EXCEPT !.drop = S, !.log = logNumber,
                                            !.below = InputEntries(v, S)]
      BY <2>6 DEF EditsMove
    <3>2. QED
      BY <1>a, <3>1, MoveOrdered
  <2>7. CASE EditsWork
    <3>1. /\ bg.at = "work"
          /\ edit' = [drop |-> bg.inputs, old |-> Below(v, bg.inputs), add |-> <<>>,
                      below |-> Kept(InputEntries(v, bg.inputs) \cup Below(v, bg.inputs),
                                     bg.smallest),
                      log |-> logNumber]
      BY <2>7 DEF EditsWork
    <3>2. /\ bg.inputs \in SUBSET (1 .. Len(v.level0)) /\ Workable(v, bg.inputs, bg.smallest)
      BY <3>1 DEF VersionInv, WorkInv
    <3>3. QED
      BY <1>a, <3>1, <3>2, WorkOrdered
  <2>8. CASE StartsWork \/ GoesOn
    <3>1. bg'.at \notin {"manifest", "install"}
      BY <2>8, SMT DEF StartsWork, GoesOn
    <3>2. QED
      BY <2>3, <3>1
  <2>9. QED
    BY <1>3, <2>4, <2>5, <2>6, <2>7, <2>8, BackgroundSteps
<1>4. QED
  BY <1>1, <1>2, <1>3, SMT

------------------------------------------------------------------------------
\* What a reader that starts now finds.
LEMMA NowFinds ==
  ASSUME DataInv, SeqInv, VersionInv, NumbersInv, GroupInv, FilesInv, CoverInv, OrderInv, AckedOnce,
         ~IsClosed, NEW k
  PROVE  /\ Stacked(table, Now)
         /\ LookUp(Stack(table, Now), k, lastSequence) = Latest(acked.all, k)
         /\ MergedLookUp(Stack(table, Now), k, lastSequence) = Latest(acked.all, k)
<1> DEFINE v == current.version
           A == acked.all
           V == TableEntries(v)
           L == AllLogs \cap A
           ss == Stack(table, Now)
<1>1. Now.mem = mem_ /\ Now.imm = imm_ /\ Now.version = v
  BY SMT DEF Now
<1>2. /\ v \in Version /\ lastSequence \in Nat /\ A \in SUBSET Entry
      /\ \A e \in A : e.seq <= lastSequence
  BY DEF VersionInv, DataInv, GroupInv
<1>3. Stacked(table, Now)
  <2>1. table \in Seq(SUBSET Entry) /\ Len(table) = mem_
    BY DEF DataInv
  <2>2. mem_ \in 1 .. mem_ /\ (imm_ # 0 => imm_ \in 1 .. mem_)
    BY LogNumbers
  <2>3. QED
    BY <1>1, <1>2, <2>1, <2>2 DEF Stacked
<1>4. Covers(V, AllLogs, A)
  BY DEF CoverInv
<1>5. /\ \A n \in logFiles : table[n] \subseteq log[n] /\ A \cap log[n] \subseteq table[n]
      /\ mem_ \in logFiles /\ (imm_ # 0 => imm_ \in logFiles)
  BY LogNumbers DEF FilesInv
<1>6. \A e : e \in AllLogs <=> e \in log[mem_] \/ (imm_ # 0 /\ e \in log[imm_])
  BY AllLogsAre
<1>7. \A x : x \in V <=> InTables(v, x)
  BY <1>2, TableEntriesHas
<1>8. /\ V \subseteq A /\ \A e \in V, f \in AllLogs : e.seq < f.seq
      /\ \A e \in A : \/ e \in AllLogs
                      \/ Stands(e, V, A) /\ \A f \in AllLogs : e.seq < f.seq
  BY <1>4 DEF Covers
<1> HIDE DEF V, A, v
<1>9. Covers(V, L, A)
  BY <1>8 DEF Covers
<1>10. Down(ss)
  <2>1. \A x, y : InTables(v, x) /\ y \in table[mem_] => x.seq < y.seq
    BY <1>5, <1>6, <1>7, <1>8
  <2>2. imm_ # 0 => \A x, y : InTables(v, x) /\ y \in table[imm_] => x.seq < y.seq
    BY <1>5, <1>6, <1>7, <1>8
  <2>3. imm_ # 0 => \A x \in table[imm_], y \in table[mem_] : x.seq < y.seq
    BY <1>5 DEF FilesInv
  <2>4. LevelsOrdered(v)
    BY DEF OrderInv, v
  <2>5. QED
    BY <1>1, <1>3, <2>1, <2>2, <2>3, <2>4, StackDown
<1>11. ss \in Seq(SUBSET Entry)
  BY <1>3, StackType
<1>12. \A x : (\E i \in 1 .. Len(ss) : x \in ss[i]) <=>
              x \in table[mem_] \/ (imm_ # 0 /\ x \in table[imm_]) \/ x \in V
  BY <1>1, <1>3, <1>7, StackElements DEF StackHas
<1>13. ASSUME NEW x \in table[mem_], x.seq <= lastSequence
       PROVE  x \in A
  <2>1. x \in A \/ x \in Range(group.updates)
    BY <1>13 DEF GroupInv, A
  <2>2. CASE x \in Range(group.updates)
    <3>1. x.seq \in Nat /\ lastSequence < x.seq
      BY <2>2, GroupIsNew
    <3>2. QED
      BY <1>2, <1>13, <3>1, SMT
  <2>3. QED
    BY <2>1, <2>2, SMT
<1>14. imm_ # 0 => table[imm_] \subseteq A
  BY DEF FilesInv, A
<1> HIDE DEF ss, L
<1>15. \A x : Shows(ss, k, lastSequence, x) <=> x.key = k /\ (x \in V \/ x \in L)
  <2>1. ASSUME NEW x, Shows(ss, k, lastSequence, x)
        PROVE  x.key = k /\ (x \in V \/ x \in L)
    <3>1. /\ x.key = k /\ x.seq <= lastSequence
          /\ x \in table[mem_] \/ (imm_ # 0 /\ x \in table[imm_]) \/ x \in V
      BY <1>12, <2>1 DEF Shows
    <3>2. x \in table[mem_] => x \in L
      BY <1>5, <1>6, <1>13, <3>1 DEF L
    <3>3. imm_ # 0 /\ x \in table[imm_] => x \in L
      BY <1>5, <1>6, <1>14 DEF L
    <3>4. QED
      BY <3>1, <3>2, <3>3
  <2>2. ASSUME NEW x, x.key = k, x \in V \/ x \in L
        PROVE  Shows(ss, k, lastSequence, x)
    <3>1. x \in A
      BY <1>8, <2>2 DEF L
    <3>2. x.seq <= lastSequence
      BY <1>2, <3>1
    <3>3. x \in table[mem_] \/ (imm_ # 0 /\ x \in table[imm_]) \/ x \in V
      BY <1>5, <1>6, <2>2, <3>1 DEF L
    <3>4. QED
      BY <1>12, <2>2, <3>2, <3>3 DEF Shows
  <2>3. QED
    BY <2>1, <2>2
<1>16. Once(A)
  BY DEF AckedOnce, Once, A
<1>17. L \subseteq A
  BY DEF L
<1>18. Readable(ss, k, lastSequence, V, L, A)
  BY <1>2, <1>9, <1>11, <1>15, <1>16, <1>17 DEF Readable
<1>19. LookUp(ss, k, lastSequence) = Latest(A, k) /\ MergedLookUp(ss, k, lastSequence) = Latest(A, k)
  BY <1>10, <1>18, FoundIsLatest
<1>20. QED
  BY <1>3, <1>19 DEF ss, A

\* What a recovery finds after the close.
LEMMA ClosedFinds ==
  ASSUME Reliable, ErrorsInv, DataInv, SeqInv, NumbersInv, CloseInv, GroupInv, CoverInv, AckedOnce,
         LoggedInv, IsClosed, NEW k
  PROVE  MergedLookUp(<<AfterProcessCrash>>, k, lastSequence) = Latest(acked.all, k)
<1> DEFINE A == acked.all
           V == TableEntries(manifest.version)
           L == UNION {log[n] : n \in {m \in logFiles : m >= manifest.log}}
           X == AfterProcessCrash
<1>1. lastSequence \in Nat /\ A \in SUBSET Entry /\ \A e \in A : e.seq <= lastSequence
  BY DEF DataInv, GroupInv
<1>2. Covers(V, L, A)
  BY ManifestCovers
<1>3. X = V \cup L
  <2>1. ~Failed("manifest") /\ \A n : Behind({"append"}, n) = {}
    BY DEF Reliable, ErrorsInv, Failed, Behind
  <2>2. \A n : log[n] \ {} = log[n]
    OBVIOUS
  <2>3. QED
    BY <2>1, <2>2 DEF AfterProcessCrash, NeededBy
<1>4. group.updates = <<>>
  <2>1. "closed" \in Ending /\ \A l \in Grouped : l # "idle" /\ l \notin Ending
    BY SMT DEF Ending, Grouped
  <2>2. \A t \in Threads : pc[t] \notin Grouped
    BY <2>1 DEF CloseInv, IsClosed
  <2>3. QED
    BY <2>2 DEF SeqInv
<1>5. Range(<<>>) = {}
  BY SMT DEF Range
<1>6. L \subseteq A
  BY <1>4, <1>5 DEF LoggedInv
<1> HIDE DEF V, L, X
<1>7. V \subseteq A
  BY <1>2 DEF Covers
<1>8. X \in SUBSET Entry
  BY <1>1, <1>3, <1>6, <1>7
<1>9. <<X>> \in Seq(SUBSET Entry) /\ Len(<<X>>) = 1 /\ <<X>>[1] = X /\ 1 .. 1 = {1}
  BY <1>8, SMT
<1>10. \A x : Shows(<<X>>, k, lastSequence, x) <=> x.key = k /\ (x \in V \/ x \in L)
  <2>1. \A x : (\E i \in 1 .. Len(<<X>>) : x \in <<X>>[i]) <=> x \in X
    BY <1>9
  <2>2. \A x \in X : x.seq <= lastSequence
    BY <1>1, <1>3, <1>6, <1>7
  <2>3. QED
    BY <1>3, <2>1, <2>2 DEF Shows
<1>11. Once(A)
  BY DEF AckedOnce, Once
<1> HIDE DEF A
<1>12. Readable(<<X>>, k, lastSequence, V, L, A)
  BY <1>1, <1>2, <1>6, <1>9, <1>10, <1>11 DEF Readable
<1>13. MergedLookUp(<<X>>, k, lastSequence) = Latest(A, k)
  BY <1>12, FoundIsLatest
<1>14. QED
  BY <1>13 DEF X, A


------------------------------------------------------------------------------
\* A reader finds one value for a key, whether it stops at the first source or
\* merges all of them.
ViewRight(tb, v, q) ==
  /\ Stacked(tb, v) /\ v.seq <= q
  /\ \A k \in Keys : /\ LookUp(Stack(tb, v), k, v.seq) \in Values \cup {Deleted}
                     /\ MergedLookUp(Stack(tb, v), k, v.seq) = LookUp(Stack(tb, v), k, v.seq)
ViewInv == \A t \in Threads : view[t] # NULL => ViewRight(table, view[t], lastSequence)

LEMMA KeptView ==
  ASSUME QueueInv, DataInv, DataInv', SeqInv, NumbersInv, GroupInv, LoggedInv, RefInv, RefInv', ViewInv,
         [Next]_vars, NEW t \in Threads, view[t] # NULL, view'[t] # NULL,
         SameView(view[t], view'[t])
  PROVE  /\ Stacked(table', view'[t])
         /\ \A k \in Keys :
              /\ LookUp(Stack(table', view'[t]), k, view'[t].seq) =
                   LookUp(Stack(table, view[t]), k, view[t].seq)
              /\ MergedLookUp(Stack(table', view'[t]), k, view'[t].seq) =
                   MergedLookUp(Stack(table, view[t]), k, view[t].seq)
<1> DEFINE v == view[t]
           w == view'[t]
<1>1. Stacked(table, v) /\ v.seq <= lastSequence
  BY DEF ViewInv, ViewRight
<1>2. w.mem = v.mem /\ w.imm = v.imm
  BY DEF SameView
<1>3. v.seq \in Nat
  <2>1. v \in View
    BY DEF RefInv
  <2>2. QED
    BY <2>1, SMT DEF View
<1>4. /\ Len(table) = mem_ /\ v.mem \in 1 .. mem_ /\ (v.imm # 0 => v.imm \in 1 .. mem_)
  BY <1>1 DEF Stacked, DataInv
<1>5. ASSUME NEW k
      PROVE  /\ Visible(table'[v.mem], k, v.seq) = Visible(table[v.mem], k, v.seq)
             /\ v.imm # 0 => Visible(table'[v.imm], k, v.seq) = Visible(table[v.imm], k, v.seq)
  <2>1. v.mem \in {w.mem, w.imm} /\ v.imm \in {w.mem, w.imm}
    BY <1>2
  <2>2. QED
    BY <1>1, <1>3, <1>4, <2>1, Frozen
<1>6. table' \in Seq(SUBSET Entry) /\ Len(table) <= Len(table')
  <2>1. mem_ <= mem_'
    <3>1. CASE mem_' = mem_
      BY <3>1, SMT DEF DataInv
    <3>2. ASSUME NEW u \in Threads, SwitchMemTable(u)
          PROVE  mem_ <= mem_'
      BY <3>2, SMT DEF SwitchMemTable, DataInv
    <3>3. CASE InstallVersion
      BY <3>1, <3>3, Installed
    <3>4. QED
      BY <3>1, <3>2, <3>3, MemSteps
  <2>2. QED
    BY <2>1 DEF DataInv
<1> HIDE DEF v, w
<1>7. SameView(v, w)
  BY DEF v, w
<1>8. \A k : SameMemtables(table, table', v, k)
  BY <1>1, <1>5, <1>6 DEF SameMemtables
<1>9. ASSUME NEW k
      PROVE  /\ Stacked(table', w)
             /\ LookUp(Stack(table', w), k, w.seq) = LookUp(Stack(table, v), k, v.seq)
             /\ MergedLookUp(Stack(table', w), k, w.seq) = MergedLookUp(Stack(table, v), k, v.seq)
  <2>1. SameMemtables(table, table', v, k)
    BY <1>8
  <2>2. QED
    BY <1>7, <2>1, SameLookUps, SMT
<1>10. QED
  BY <1>9 DEF v, w
==============================================================================
