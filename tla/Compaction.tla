----------------------------- MODULE Compaction -----------------------------
(***************************************************************************)
(* The levels of table files of LevelDB and the background thread that     *)
(* works on them: where a flushed memtable goes, which files a compaction  *)
(* takes, what it drops and where it cuts its outputs, the flush in the    *)
(* middle of a compaction, manual compactions, and the deletion of the     *)
(* files no version needs.  Readers pin versions, snapshots pin entries.   *)
(*                                                                         *)
(* WritePath has the locking around these steps with one level below 0;    *)
(* here a locked section is one step and a compaction is one step per      *)
(* key.  A table is a set of entries <<key, sequence, type>> and its size  *)
(* is their number.                                                        *)
(***************************************************************************)
EXTENDS Integers, SequencesExt

CONSTANTS
  Keys, Types,              \* user keys; a subset of {0, 1}: deletion, value
  NONE,
  kNumLevels, kMaxMemCompactLevel, kL0_CompactionTrigger,
  LevelBytes,               \* MaxBytesForLevel(1); ten times as much below
  MaxFileSize,              \* MaxFileSizeForLevel
  GrandParentBytes,         \* kMaxGrandParentOverlapBytes
  ExpandedBytes,            \* kExpandedCompactionByteSizeLimit
  Ranges,                   \* ends of manual compactions; NONE is NULL
  \* Bounds: of each kind of event, and of all but the writes together.
  MaxWrites, MaxSeeks, MaxManual, MaxSnapshots, MaxReaders, MaxErrors, MaxEvents

ASSUME CompactionAssumption ==
  /\ Keys \subseteq Nat /\ Types \subseteq {0, 1} /\ NONE \notin Keys
  /\ kNumLevels > 2 /\ kMaxMemCompactLevel \in 0 .. kNumLevels - 2
  /\ {kL0_CompactionTrigger, LevelBytes, MaxFileSize} \subseteq Nat \ {0}
  /\ Ranges \subseteq (Keys \cup {NONE}) \X (Keys \cup {NONE})

VARIABLES
  mem, imm,     \* entries of the memtables; imm = {} is NULL
  written,      \* every entry ever written
  files,        \* current_: for each level its set of files
  seekFile,     \* file_to_compact_ with its level, or NONE
  pointer,      \* compact_pointer_
  bg,           \* the background thread
  manual,       \* the manual compaction and its caller, or NONE
  disk,         \* numbers of the table files on disk
  pending,      \* pending_outputs_
  nextFile,
  snapshots,    \* sequences of the live snapshots
  reader,       \* numbers of the files of the version a reader pins, or NONE
  clean,        \* no level below 0 has ever held a user key in two files
  uses          \* counters of the bounds

compactionVars == <<mem, imm, written, files, seekFile, pointer, bg, manual,
                    disk, pending, nextFile, snapshots, reader, clean, uses>>
memVars == <<mem, imm, written>>
callerVars == <<snapshots, reader>>

(* One more event of a kind, within the bounds.                            *)
Use(kind, max) ==
  /\ uses[kind] < max
  /\ MapThenSumSet(LAMBDA k : uses[k], DOMAIN uses) < MaxEvents
  /\ uses' = [uses EXCEPT ![kind] = @ + 1]

Levels == 0 .. kNumLevels - 1
kTypeDeletion == 0
LastSequence == Cardinality(written)

Before(a, b) == a[1] < b[1] \/ (a[1] = b[1] /\ a[2] > b[2])
FirstOf(S) == CHOOSE e \in S : \A f \in S : f = e \/ Before(e, f)
LastOf(S) == CHOOSE e \in S : \A f \in S : f = e \/ Before(f, e)

(* FileMetaData: its keys and its size.                                    *)
Smallest(f) == FirstOf(f.entries)
Largest(f) == LastOf(f.entries)
TotalFileSize(F) == MapThenSumSet(LAMBDA f : Cardinality(f.entries), F)
Contents(F) == UNION {f.entries : f \in F}
Numbers(v) == {f.number : f \in UNION {v[l] : l \in Levels}}

(* The files of a level in the order of a version: BySmallestKey.          *)
BySmallestKey(f, g) ==
  Before(Smallest(f), Smallest(g)) \/ (Smallest(f) = Smallest(g) /\ f.number < g.number)
InOrder(F) == SetToSortSeq(F, BySmallestKey)
-----------------------------------------------------------------------------
(* Binary search for the first file that ends at or after an entry.        *)
RECURSIVE FindFileFrom(_, _, _, _)
FindFileFrom(fs, t, left, right) ==
  IF left >= right THEN right
  ELSE LET mid == (left + right) \div 2
       IN  IF Before(Largest(fs[mid]), t) THEN FindFileFrom(fs, t, mid + 1, right)
           ELSE FindFileFrom(fs, t, left, mid)
FindFile(fs, t) == FindFileFrom(fs, t, 1, Len(fs) + 1)

AfterFile(k, f) == k # NONE /\ k > Largest(f)[1]
BeforeFile(k, f) == k # NONE /\ k < Smallest(f)[1]
Earliest(k) == <<k, MaxWrites + 1>>

SomeFileOverlapsRange(v, level, from, to) ==
  LET fs == InOrder(v[level])
      i == IF from = NONE THEN 1 ELSE FindFile(fs, Earliest(from))
  IN  IF level = 0
      THEN \E f \in v[0] : ~AfterFile(from, f) /\ ~BeforeFile(to, f)
      ELSE i <= Len(fs) /\ ~BeforeFile(to, fs[i])

(* GetOverlappingInputs: in level 0 a file that sticks out widens the      *)
(* range and the search starts again.                                      *)
RECURSIVE GetOverlappingInputs(_, _, _, _)
GetOverlappingInputs(v, level, from, to) ==
  LET hit == {f \in v[level] : ~AfterFile(from, f) /\ ~BeforeFile(to, f)}
      lo == Min({Smallest(f)[1] : f \in hit})
      hi == Max({Largest(f)[1] : f \in hit})
      wider == /\ level = 0 /\ hit # {}
               /\ (from # NONE /\ lo < from) \/ (to # NONE /\ hi > to)
  IN  IF wider
      THEN GetOverlappingInputs(v, 0, IF from = NONE THEN NONE ELSE Min({lo, from}),
                                IF to = NONE THEN NONE ELSE Max({hi, to}))
      ELSE hit
Overlapping(v, level, F) ==
  GetOverlappingInputs(v, level, Min({Smallest(f)[1] : f \in F}),
                       Max({Largest(f)[1] : f \in F}))

(* Mutant of PickLevelForMemTableOutput: it looks at level 0 only.         *)
PickLevelBlindly(v, from, to) ==
  IF SomeFileOverlapsRange(v, 0, from, to) THEN 0 ELSE kMaxMemCompactLevel

PickLevelForMemTableOutput(v, from, to) ==
  LET passes(l) ==
        /\ ~SomeFileOverlapsRange(v, l, from, to)
        /\ l + 1 < kNumLevels =>
             TotalFileSize(GetOverlappingInputs(v, l + 1, from, to)) <= GrandParentBytes
  IN  IF SomeFileOverlapsRange(v, 0, from, to) THEN 0
      ELSE Max({0} \cup {l \in 1 .. kMaxMemCompactLevel : \A m \in 1 .. l : passes(m)})
-----------------------------------------------------------------------------
(* Reading: DBImpl::Get and Version::Get.                                  *)

VisibleIn(S, k, seq) == {e \in S : e[1] = k /\ e[2] <= seq}
NewestFirst(f, g) == f.number > g.number

(* The files a read of k looks into, in this order: ForEachOverlapping.    *)
ForEachOverlapping(v, k, seq) ==
  LET zero == SetToSortSeq({f \in v[0] : ~AfterFile(k, f) /\ ~BeforeFile(k, f)},
                           NewestFirst)
      in(l) == LET fs == InOrder(v[l])
                   i == FindFile(fs, <<k, seq>>)
               IN  IF i <= Len(fs) /\ ~BeforeFile(k, fs[i]) THEN <<[file |-> fs[i], level |-> l]>>
                   ELSE <<>>
  IN  [i \in DOMAIN zero |-> [file |-> zero[i], level |-> 0]]
      \o FlattenSeq([l \in 1 .. kNumLevels - 1 |-> in(l)])

(* The entry that Get finds: the first source with a visible one decides.  *)
Get(v, k, seq) ==
  LET tables == ForEachOverlapping(v, k, seq)
      sources == <<mem, imm>> \o [i \in DOMAIN tables |-> tables[i].file.entries]
      found == {i \in DOMAIN sources : VisibleIn(sources[i], k, seq) # {}}
  IN  IF found = {} THEN NONE ELSE FirstOf(VisibleIn(sources[Min(found)], k, seq))

(* A read that looked into a file in vain charges it; Version::UpdateStats *)
(* asks for its compaction when it has no seeks left.                      *)
UpdateStats ==
  /\ seekFile = NONE /\ Use("seeks", MaxSeeks)
  /\ \E k \in Keys :
       LET seen == ForEachOverlapping(files, k, LastSequence)
       IN  Len(seen) >= 2 /\ seekFile' = seen[1]
  /\ UNCHANGED <<memVars, files, pointer, bg, manual, disk, pending, nextFile,
                 callerVars, clean>>

Write ==
  /\ LastSequence < MaxWrites
  /\ \E k \in Keys, t \in Types :
       LET e == <<k, LastSequence + 1, t>>
       IN  mem' = mem \cup {e} /\ written' = written \cup {e}
  /\ UNCHANGED <<imm, files, seekFile, pointer, bg, manual, disk, pending,
                 nextFile, callerVars, clean, uses>>

(* MakeRoomForWrite, which a forced flush may ask for at any size.         *)
SwitchMemTable ==
  /\ mem # {} /\ imm = {}
  /\ imm' = mem /\ mem' = {}
  /\ UNCHANGED <<written, files, seekFile, pointer, bg, manual, disk, pending,
                 nextFile, callerVars, clean, uses>>

GetSnapshot ==
  /\ Use("snapshots", MaxSnapshots)
  /\ snapshots' = snapshots \cup {LastSequence}
  /\ UNCHANGED <<memVars, files, seekFile, pointer, bg, manual, disk, pending,
                 nextFile, reader, clean>>
ReleaseSnapshot ==
  /\ \E s \in snapshots : snapshots' = snapshots \ {s}
  /\ UNCHANGED <<memVars, files, seekFile, pointer, bg, manual, disk, pending,
                 nextFile, reader, clean, uses>>

NewIterator ==
  /\ reader = NONE /\ Use("readers", MaxReaders)
  /\ reader' = Numbers(files)
  /\ UNCHANGED <<memVars, files, seekFile, pointer, bg, manual, disk, pending,
                 nextFile, snapshots, clean>>
CleanupIteratorState ==
  /\ reader # NONE /\ reader' = NONE
  /\ UNCHANGED <<memVars, files, seekFile, pointer, bg, manual, disk, pending,
                 nextFile, snapshots, clean, uses>>
-----------------------------------------------------------------------------
(* LogAndApply installs a version; it has no file_to_compact_.             *)
UserKeysApart(f, g) ==
  Largest(f)[1] < Smallest(g)[1] \/ Largest(g)[1] < Smallest(f)[1]
Disjoint(v) ==
  \A l \in Levels \ {0} : \A f, g \in v[l] : f = g \/ UserKeysApart(f, g)
LogAndApply(v) ==
  /\ files' = v /\ seekFile' = NONE
  /\ clean' = (clean /\ Disjoint(v))

(* Mutant of DeleteObsoleteFiles: outputs in the making are not spared.    *)
DeletePendingToo(d, p, v, base) ==
  disk' = d \cap (Numbers(v) \cup base
                   \cup (IF reader = NONE THEN {} ELSE reader))

(* DeleteObsoleteFiles after the disk is d, pending_outputs_ p, the        *)
(* current version v and a compaction pins the files base.                 *)
DeleteObsoleteFiles(d, p, v, base) ==
  disk' = d \cap (Numbers(v) \cup p \cup base
                   \cup (IF reader = NONE THEN {} ELSE reader))

Idle == [at |-> "idle", flush |-> 0]
Fault == Use("errors", MaxErrors)
BgFrame == UNCHANGED <<mem, written, callerVars>>

(* WriteLevel0Table: the number is taken and the table is built without    *)
(* the lock.  It starts between two compactions, or between two keys.      *)
StartFlush ==
  /\ imm # {} /\ bg.flush = 0
  /\ bg' = [bg EXCEPT !.flush = nextFile]
  /\ nextFile' = nextFile + 1
  /\ pending' = pending \cup {nextFile} /\ disk' = disk \cup {nextFile}
  /\ BgFrame /\ UNCHANGED <<imm, files, seekFile, pointer, manual, clean, uses>>

PinnedByWork == IF bg.at = "work" THEN Numbers(bg.c.base) ELSE {}

(* CompactMemTable from the built table to DeleteObsoleteFiles.            *)
FlushEnds ==
  LET f == [number |-> bg.flush, entries |-> imm]
      level == PickLevelForMemTableOutput(files, Smallest(f)[1], Largest(f)[1])
      v == [files EXCEPT ![level] = @ \cup {f}]
  IN  /\ bg.flush # 0
      /\ LogAndApply(v)
      /\ imm' = {} /\ bg' = [bg EXCEPT !.flush = 0]
      /\ pending' = pending \ {bg.flush}
      /\ DeleteObsoleteFiles(disk, pending', v, PinnedByWork)
      /\ BgFrame /\ UNCHANGED <<pointer, manual, nextFile, uses>>

(* BuildTable fails and removes its file, or the MANIFEST fails and the    *)
(* table stays until the next sweep.                                       *)
FlushFails ==
  /\ bg.flush # 0 /\ Fault
  /\ bg' = [bg EXCEPT !.flush = 0]
  /\ pending' = pending \ {bg.flush}
  /\ disk' \in {disk, disk \ {bg.flush}}
  /\ BgFrame /\ UNCHANGED <<imm, files, seekFile, pointer, manual, nextFile, clean>>
-----------------------------------------------------------------------------
(* VersionSet::Finalize: the level with the best score, the lowest of      *)
(* several.  The score is Amount / Limit.                                  *)
Amount(v, l) == IF l = 0 THEN Cardinality(v[0]) ELSE TotalFileSize(v[l])
Limit(l) == IF l = 0 THEN kL0_CompactionTrigger ELSE LevelBytes * 10 ^ (l - 1)
compaction_level(v) ==
  CHOOSE l \in 0 .. kNumLevels - 2 : \A m \in 0 .. kNumLevels - 2 :
    LET a == Amount(v, l) * Limit(m)
        b == Amount(v, m) * Limit(l)
    IN  a >= b /\ (m < l => a > b)
SizeCompaction(v) ==
  Amount(v, compaction_level(v)) >= Limit(compaction_level(v))

(* The file after compact_pointer_, or the first one.                      *)
FileAfterPointer(v, l) ==
  LET fs == InOrder(v[l])
      after == {i \in DOMAIN fs : pointer[l] = NONE \/ Before(pointer[l], Largest(fs[i]))}
  IN  fs[IF after = {} THEN 1 ELSE Min(after)]

(* PickCompaction: level 0 takes all files that overlap the picked one.    *)
PickedFiles(v, l, f) == IF l = 0 THEN Overlapping(v, 0, {f}) ELSE {f}

(* SetupOtherInputs: the overlapping files of the next level, then more    *)
(* files of this level if that takes none more of the next.                *)
Grown(in0, in1, more0, more1) ==
  IF /\ in1 # {} /\ Cardinality(more0) > Cardinality(in0)
     /\ TotalFileSize(in1) + TotalFileSize(more0) < ExpandedBytes
     /\ Cardinality(more1) = Cardinality(in1)
  THEN <<more0, more1>> ELSE <<in0, in1>>
Expanded(v, l, in0, in1) ==
  LET more0 == Overlapping(v, l, in0 \cup in1)
  IN  Grown(in0, in1, more0, Overlapping(v, l + 1, more0))
Inputs(v, l, in0) == Expanded(v, l, in0, Overlapping(v, l + 1, in0))

smallest_snapshot ==
  IF snapshots = {} THEN LastSequence ELSE Min(snapshots)

(* The Compaction object and the state of DoCompactionWork.                *)
NoOutput == [number |-> 0, entries |-> {}]
CompactionOf(l, in) ==
  [level |-> l, in0 |-> in[1], in1 |-> in[2], base |-> files,
   grandparents |-> IF l + 2 < kNumLevels
                    THEN InOrder(Overlapping(files, l + 2, in[1] \cup in[2]))
                    ELSE <<>>,
   index |-> 1, seen |-> FALSE, overlapped |-> 0,
   todo |-> Contents(in[1] \cup in[2]), snapshot |-> smallest_snapshot,
   key |-> NONE, last |-> 0, out |-> NoOutput, outs |-> {}]
NewCompaction(l, in0) == CompactionOf(l, Inputs(files, l, in0))

IsTrivialMove(c) ==
  /\ Cardinality(c.in0) = 1 /\ c.in1 = {}
  /\ TotalFileSize(ToSet(c.grandparents)) <= GrandParentBytes

Pick(c) ==
  /\ bg' = [at |-> "work", flush |-> 0, c |-> c]
  /\ UNCHANGED <<files, seekFile, clean, uses>>

(* The move is one edit; when LogAndApply fails the file stays, and only   *)
(* the compaction pointer has moved on.                                    *)
TrivialMove(c) ==
  /\ \/ /\ LogAndApply([files EXCEPT ![c.level] = @ \ c.in0,
                                     ![c.level + 1] = @ \cup c.in0])
        /\ UNCHANGED uses
     \/ Fault /\ UNCHANGED <<files, seekFile, clean>>
  /\ bg' = Idle

(* BackgroundCompaction without a memtable to flush: PickCompaction.       *)
Picked ==
  LET l == compaction_level(files)
  IN  IF SizeCompaction(files)
      THEN [level |-> l, file |-> FileAfterPointer(files, l)] ELSE seekFile
PickCompaction ==
  /\ bg = Idle /\ imm = {} /\ (manual # NONE => manual.at # "set")
  /\ SizeCompaction(files) \/ seekFile # NONE
  /\ \E p \in {Picked} :
       \E c \in {NewCompaction(p.level, PickedFiles(files, p.level, p.file))} :
         /\ IF IsTrivialMove(c) THEN TrivialMove(c) ELSE Pick(c)
         /\ pointer' = [pointer EXCEPT ![c.level] = LastOf(Contents(c.in0))]
  /\ BgFrame /\ UNCHANGED <<imm, manual, disk, pending, nextFile>>
-----------------------------------------------------------------------------
(* DBImpl::CompactRange calls TEST_CompactRange for one level after the    *)
(* other; each asks the background thread until nothing is left.           *)
CompactRange ==
  /\ manual = NONE /\ Use("manual", MaxManual)
  /\ \E r \in Ranges :
       manual' = [at |-> "set", level |-> 0, from |-> r[1], range |-> r,
                  max |-> Max({1} \cup {l \in Levels \ {0} :
                                 SomeFileOverlapsRange(files, l, r[1], r[2])})]
  /\ UNCHANGED <<memVars, files, seekFile, pointer, bg, disk, pending, nextFile,
                 callerVars, clean>>
CompactRangeAgain ==
  /\ manual # NONE /\ manual.at = "again"
  /\ manual' = [manual EXCEPT !.at = "set"]
  /\ UNCHANGED <<memVars, files, seekFile, pointer, bg, disk, pending, nextFile,
                 callerVars, clean, uses>>

(* The call for one level is done: the next level, or the return.          *)
ManualDone ==
  IF manual.level + 1 < manual.max
  THEN [manual EXCEPT !.level = @ + 1, !.from = manual.range[1], !.at = "again"]
  ELSE NONE

(* VersionSet::CompactRange: below level 0 no more than MaxFileSize.       *)
UpToSize(level, fs) ==
  LET upTo(i) == {fs[j] : j \in 1 .. i}
      full == {i \in DOMAIN fs : TotalFileSize(upTo(i)) >= MaxFileSize}
  IN  IF level = 0 \/ full = {} THEN ToSet(fs) ELSE upTo(Min(full))
ManualInputs ==
  UpToSize(manual.level, InOrder(GetOverlappingInputs(files, manual.level,
                                                      manual.from, manual.range[2])))

ManualCompaction ==
  /\ bg = Idle /\ imm = {} /\ manual # NONE /\ manual.at = "set"
  /\ \E in0 \in {ManualInputs} :
       IF in0 = {}
       THEN manual' = ManualDone /\ UNCHANGED <<bg, pointer>>
       ELSE \E c \in {NewCompaction(manual.level, in0)} :
              /\ bg' = [at |-> "work", flush |-> 0, c |-> c]
              /\ manual' = [manual EXCEPT !.at = "working",
                              !.from = Largest(Last(InOrder(c.in0)))[1]]
              /\ pointer' = [pointer EXCEPT ![c.level] = LastOf(Contents(c.in0))]
  /\ BgFrame /\ UNCHANGED <<imm, files, seekFile, clean, disk, pending,
                            nextFile, uses>>
ManualAfter(ok) ==
  manual' = IF manual = NONE \/ manual.at # "working" THEN manual
            ELSE IF ok THEN [manual EXCEPT !.at = "again"] ELSE ManualDone
-----------------------------------------------------------------------------
(* DoCompactionWork, one key.                                              *)

(* ShouldStopBefore: the grandparents passed since the output began.       *)
Passed(c, e) ==
  {i \in c.index .. Len(c.grandparents) :
     \A j \in c.index .. i : Before(Largest(c.grandparents[j]), e)}
Advance(c, e) ==
  LET P == Passed(c, e)
      bytes == IF c.seen THEN TotalFileSize({c.grandparents[i] : i \in P}) ELSE 0
  IN  [c EXCEPT !.index = @ + Cardinality(P), !.seen = TRUE,
                !.overlapped = @ + bytes]
FinishOutput(c) ==
  IF c.out = NoOutput THEN c
  ELSE [c EXCEPT !.outs = @ \cup {c.out}, !.out = NoOutput]
StopBefore(c, e) ==
  LET d == Advance(c, e)
  IN  IF d.overlapped > GrandParentBytes
      THEN FinishOutput([d EXCEPT !.overlapped = 0]) ELSE d

IsBaseLevelForKey(c, k) ==
  \A l \in c.level + 2 .. kNumLevels - 1 : \A f \in c.base[l] :
    AfterFile(k, f) \/ BeforeFile(k, f)

(* Mutant of Dropped: an entry is dropped although a snapshot sees it.     *)
DroppedForSnapshot(c, e) ==
  c.key = e[1] \/ (e[3] = kTypeDeletion /\ e[2] <= c.snapshot
                    /\ IsBaseLevelForKey(c, e[1]))

(* An entry that a newer one hides from every snapshot is dropped, and so  *)
(* is a deletion that hides nothing below.                                 *)
Dropped(c, e) ==
  LET last == IF c.key = e[1] THEN c.last ELSE MaxWrites + 1
  IN  \/ last <= c.snapshot
      \/ /\ e[3] = kTypeDeletion /\ e[2] <= c.snapshot
         /\ IsBaseLevelForKey(c, e[1])

WorkStep ==
  LET e == FirstOf(bg.c.todo)
      stopped == StopBefore(bg.c, e)
      next == [stopped EXCEPT !.todo = @ \ {e}, !.key = e[1], !.last = e[2]]
      opens == next.out = NoOutput
      added == [next EXCEPT !.out =
                  [number |-> IF opens THEN nextFile ELSE @.number,
                   entries |-> @.entries \cup {e}]]
  IN  /\ bg.at = "work" /\ bg.flush = 0 /\ bg.c.todo # {}
      /\ IF Dropped(stopped, e)
         THEN bg' = [bg EXCEPT !.c = next] /\ UNCHANGED <<nextFile, pending, disk>>
         ELSE /\ bg' = [bg EXCEPT !.c =
                   IF Cardinality(added.out.entries) >= MaxFileSize
                   THEN FinishOutput(added) ELSE added]
              /\ IF opens
                 THEN /\ nextFile' = nextFile + 1
                      /\ pending' = pending \cup {nextFile}
                      /\ disk' = disk \cup {nextFile}
                 ELSE UNCHANGED <<nextFile, pending, disk>>
      /\ BgFrame
      /\ UNCHANGED <<imm, files, seekFile, pointer, manual, clean, uses>>

OutputNumbers(c) == {f.number : f \in c.outs \cup {c.out}}

(* InstallCompactionResults, CleanupCompaction, DeleteObsoleteFiles.       *)
WorkEnds ==
  LET c == FinishOutput(bg.c)
      v == [files EXCEPT ![c.level] = @ \ c.in0,
                         ![c.level + 1] = (@ \ c.in1) \cup c.outs]
  IN  /\ bg.at = "work" /\ bg.flush = 0 /\ bg.c.todo = {}
      /\ LogAndApply(v)
      /\ pending' = pending \ OutputNumbers(c)
      /\ DeleteObsoleteFiles(disk, pending', v, {})
      /\ bg' = Idle /\ ManualAfter(TRUE)
      /\ BgFrame /\ UNCHANGED <<imm, pointer, nextFile, uses>>

(* An error while reading, writing or installing: the outputs are given up.*)
WorkFails ==
  /\ bg.at = "work" /\ bg.flush = 0 /\ Fault
  /\ pending' = pending \ OutputNumbers(bg.c)
  /\ DeleteObsoleteFiles(disk, pending', files, {})
  /\ bg' = Idle /\ ManualAfter(FALSE)
  /\ BgFrame /\ UNCHANGED <<imm, files, seekFile, pointer, nextFile, clean>>
-----------------------------------------------------------------------------
CompactionInit ==
  /\ mem = {} /\ imm = {} /\ written = {}
  /\ files = [l \in Levels |-> {}] /\ seekFile = NONE
  /\ pointer = [l \in Levels |-> NONE]
  /\ bg = Idle /\ manual = NONE
  /\ disk = {} /\ pending = {} /\ nextFile = 1
  /\ snapshots = {} /\ reader = NONE /\ clean = TRUE
  /\ uses = [seeks |-> 0, manual |-> 0, snapshots |-> 0, readers |-> 0, errors |-> 0]

CompactionNext ==
  \/ Write \/ SwitchMemTable \/ UpdateStats
  \/ GetSnapshot \/ ReleaseSnapshot \/ NewIterator \/ CleanupIteratorState
  \/ StartFlush \/ FlushEnds \/ FlushFails
  \/ PickCompaction \/ CompactRange \/ CompactRangeAgain \/ ManualCompaction
  \/ WorkStep \/ WorkEnds \/ WorkFails

CompactionSpec == CompactionInit /\ [][CompactionNext]_compactionVars
-----------------------------------------------------------------------------
(* What a reader at a sequence should find of a key.                       *)
Value(e) == IF e = NONE THEN NONE ELSE IF e[3] = kTypeDeletion THEN NONE ELSE e
Wanted(k, seq) ==
  LET S == VisibleIn(written, k, seq)
  IN  IF S = {} THEN NONE ELSE Value(FirstOf(S))

(* The search of Version::Get through the levels finds the newest entry of *)
(* every key, and the one a snapshot is entitled to, whatever flushes,     *)
(* moves, merges and drops happened, as long as no level below 0 has held  *)
(* a user key in two files.                                                *)
GetsNewest ==
  clean => \A k \in Keys, s \in snapshots \cup {LastSequence} :
             Value(Get(files, k, s)) = Wanted(k, s)

(* Every file of a version in use is on disk: of the current version, of   *)
(* the version a reader pins, the inputs and the finished outputs of the   *)
(* running compaction (DeleteObsoleteFiles, pending_outputs_).  When the   *)
(* background thread is idle and nobody has pinned a version, there is no  *)
(* other, except after an error.                                           *)
TablesPresent ==
  /\ Numbers(files) \subseteq disk
  /\ reader # NONE => reader \subseteq disk
  /\ bg.at = "work" => Numbers(bg.c.base) \cup (OutputNumbers(bg.c) \ {0}) \subseteq disk
  /\ bg = Idle /\ uses.errors = 0 /\ uses.readers = 0 => disk = Numbers(files)

(* Without snapshots and manual compactions the levels below 0 stay free   *)
(* of overlap, a flush in the middle of a compaction included.             *)
AutomaticDisjoint == uses.snapshots = 0 /\ uses.manual = 0 => Disjoint(files)

(* What version_set.cc asserts when it adds a file below level 0: the      *)
(* files of the level do not overlap.                                      *)
MustNotOverlap ==
  \A l \in Levels \ {0} : \A f, g \in files[l] :
    f = g \/ Before(Largest(f), Smallest(g)) \/ Before(Largest(g), Smallest(f))

(* What db_impl.cc says where it drops deletions: data in lower levels     *)
(* have larger sequence numbers.                                           *)
LowerLevelsNewer ==
  \A l, m \in Levels : l < m =>
    \A e \in Contents(files[l]), d \in Contents(files[m]) :
      e[1] = d[1] => e[2] > d[2]
=============================================================================
