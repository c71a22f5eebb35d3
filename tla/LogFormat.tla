----------------------------- MODULE LogFormat ------------------------------
(***************************************************************************)
(* A log file from its writer to its reader: log::Writer puts records in   *)
(* fragments into blocks of a mapped file (MmapFile), the file is closed,  *)
(* or the process or the machine dies, and log::Reader reads what is left. *)
(* A header is three cells, the checksum, the length and the type, each of *)
(* which can be lost alone.  A checksum is what it was computed from: it   *)
(* fits nothing else.  Payload cells are unique.                           *)
(***************************************************************************)
EXTENDS MmapFile

CONSTANTS
  kBlockSize,   \* in cells
  Sizes,        \* the sizes of the records that are added
  MaxRecords,   \* bound: calls of AddRecord
  MaxFaults     \* bound: failing system calls

kHeaderSize == 3
kZeroType == 0
kFullType == 1
kFirstType == 2
kMiddleType == 3
kLastType == 4
kEof == 5
kBadRecord == 6

ASSUME LogAssumption ==
  /\ kBlockSize \in Nat /\ kBlockSize > kHeaderSize
  /\ Sizes \subseteq Nat \ {0} /\ {MaxRecords, MaxFaults} \subseteq Nat

VARIABLES
  dest_,          \* the file that is written
  block_offset_,
  left, begin,    \* AddRecord's: what is to be written, and whether nothing was
  records,        \* the payload of every record, and what its writer was told
  want,           \* WriteOptions::sync of the record that is being added
  faults,
  at,             \* "idle", "add", "sync"; then "read", "done" or "cut"
  how,            \* how the writing ended: "closed", "process", "machine"
  file_,          \* what the reader has not read yet
  buffer_, eof_,
  scratch, in_fragmented_record,
  found,          \* the records that ReadRecord has returned
  drops           \* the calls of the reporter

writer == <<dest_, block_offset_, left, begin, records, want, faults>>
reader == <<file_, buffer_, eof_, scratch, in_fragmented_record, found, drops>>
logVars == <<writer, at, how, reader>>

LogInit ==
  /\ dest_ = NewFile /\ block_offset_ = 0 /\ left = <<>> /\ begin = TRUE
  /\ records = <<>> /\ want = FALSE /\ faults = 0
  /\ at = "idle" /\ how = "none"
  /\ file_ = <<>> /\ buffer_ = <<>> /\ eof_ = FALSE
  /\ scratch = <<>> /\ in_fragmented_record = FALSE
  /\ found = <<>> /\ drops = 0
-----------------------------------------------------------------------------
(* log::Writer, and the Sync of DBImpl::Write that follows it.             *)

Payload(r, n) == [i \in 1 .. n |-> <<1, <<r, i>>>>]
LengthCell(n) == IF n = 0 THEN Zero ELSE <<2, <<n>>>>
TypeCell(t) == <<3, <<t>>>>
Crc(t, data) == <<4, <<t, data>>>>

(* Mutant of OffsetAfter: the header counts for one byte more than it has. *)
OffsetAfterLong(offset, n) == offset + kHeaderSize + 1 + n

(* block_offset_ += kHeaderSize + n, whether or not Append has succeeded.  *)
OffsetAfter(offset, n) == offset + kHeaderSize + n

(* One turn of AddRecord's loop: the trailer of the block, the header and  *)
(* the fragment that are appended, and the block_offset_ after them.       *)
Turn ==
  LET rest == kBlockSize - block_offset_
      newBlock == rest < kHeaderSize
      start == IF newBlock THEN 0 ELSE block_offset_
      avail == kBlockSize - start - kHeaderSize
      n == IF Len(left) < avail THEN Len(left) ELSE avail
      end == n = Len(left)
      type == CASE begin /\ end -> kFullType
                [] begin /\ ~end -> kFirstType
                [] ~begin /\ end -> kLastType
                [] OTHER -> kMiddleType
      data == SubSeq(left, 1, n)
  IN  [trailer |-> IF newBlock THEN Zeros(rest) ELSE <<>>,
       header |-> <<Crc(type, data), LengthCell(n), TypeCell(type)>>,
       data |-> data, end |-> end, block_offset |-> OffsetAfter(start, n)]

(* EmitPhysicalRecord; the status of the trailer is not looked at.         *)
Emit(turn, fails) ==
  LET t == AppendTo(dest_, turn.trailer, fails = "trailer")
      h == AppendTo(t.file, turn.header, fails = "header")
      d == AppendTo(h.file, turn.data, fails = "data")
  IN  [file |-> IF h.ok THEN d.file ELSE h.file, ok |-> h.ok /\ d.ok,
       failed |-> ~(t.ok /\ h.ok /\ d.ok)]

AddRecord(n, s) ==
  /\ at = "idle" /\ Len(records) < MaxRecords
  /\ left' = Payload(Len(records) + 1, n) /\ begin' = TRUE /\ want' = s
  /\ records' = Append(records, [data |-> left', status |-> "adding"])
  /\ at' = "add"
  /\ UNCHANGED <<dest_, block_offset_, faults, how, reader>>

Told(status) == [records EXCEPT ![Len(records)].status = status]

AddTurn(fails) ==
  /\ at = "add"
  /\ LET turn == Turn
         e == Emit(turn, fails)
     IN  /\ e.failed = (fails # "none")
         /\ faults' = faults + IF e.failed THEN 1 ELSE 0
         /\ faults' <= MaxFaults
         /\ dest_' = e.file /\ block_offset_' = turn.block_offset
         /\ left' = SubSeq(left, Len(turn.data) + 1, Len(left))
         /\ begin' = FALSE
         /\ at' = IF ~e.ok THEN "idle" ELSE IF ~turn.end THEN "add"
                  ELSE IF want THEN "sync" ELSE "idle"
         /\ records' = IF ~e.ok THEN Told("failed")
                       ELSE IF turn.end /\ ~want THEN Told("ok") ELSE records
  /\ UNCHANGED <<want, how, reader>>

SyncRecord(ok) ==
  /\ at = "sync" /\ at' = "idle"
  /\ faults' = faults + (IF ok THEN 0 ELSE 1) /\ faults' <= MaxFaults
  /\ dest_' = IF ok THEN Sync(dest_) ELSE SyncFails(dest_)
  /\ records' = Told(IF ok THEN "synced" ELSE "failed")
  /\ UNCHANGED <<block_offset_, left, begin, want, how, reader>>

(* The file is closed, or a crash leaves a part of it: the last step of a  *)
(* process may be a part of what a turn appends.                           *)
ReadImage(image, why) ==
  /\ file_' = image /\ how' = why /\ at' = "read"
  /\ UNCHANGED <<writer, buffer_, eof_, scratch, in_fragmented_record, found, drops>>

CloseFile == at = "idle" /\ ReadImage(Close(dest_).cells, "closed")

ProcessCrash ==
  /\ at \in {"idle", "add", "sync"}
  /\ LET next == Turn.trailer \o Turn.header \o Turn.data
     IN  \E n \in IF at = "add" THEN 0 .. Len(next) ELSE {0} :
           ReadImage(AppendTo(dest_, SubSeq(next, 1, n), FALSE).file.cells, "process")

MachineCrash ==
  /\ at \in {"idle", "add", "sync"}
  /\ \E image \in MachineCrashImages(dest_) : ReadImage(image, "machine")
-----------------------------------------------------------------------------
(* log::Reader.                                                            *)

Length(cell) == IF cell = Zero THEN 0 ELSE IF cell[1] = 2 THEN cell[2][1]
                ELSE kBlockSize   \* garbage: any other length fails the same way
Type(cell) == IF cell[1] = 3 THEN cell[2][1] ELSE kZeroType

(* A header and what follows it in the buffer.                             *)
Physical(b) ==
  LET n == Length(b[2])
      type == Type(b[3])
      data == SubSeq(b, kHeaderSize + 1, kHeaderSize + n)
      bad(report) == [type |-> kBadRecord, data |-> <<>>, buffer |-> <<>>,
                      drop |-> report]
  IN  IF kHeaderSize + n > Len(b) THEN bad(TRUE)
      ELSE IF b[3] = Zero /\ n = 0 THEN bad(FALSE)
      ELSE IF b[1] # Crc(type, data) THEN bad(TRUE)
      ELSE [type |-> type, data |-> data, drop |-> FALSE,
            buffer |-> SubSeq(b, kHeaderSize + n + 1, Len(b))]

Refill ==
  LET n == IF Len(file_) < kBlockSize THEN Len(file_) ELSE kBlockSize
  IN  [block |-> SubSeq(file_, 1, n), rest |-> SubSeq(file_, n + 1, Len(file_)),
       eof |-> n < kBlockSize]

(* ReadPhysicalRecord skips a trailer by reading the next block.           *)
ReadBlock ==
  /\ at = "read" /\ Len(buffer_) < kHeaderSize /\ ~eof_
  /\ buffer_' = Refill.block /\ file_' = Refill.rest /\ eof_' = Refill.eof
  /\ UNCHANGED <<writer, at, how, scratch, in_fragmented_record, found, drops>>

(* ReadRecord at kEof: a record in progress is dropped, after what the     *)
(* buffer or a read has made the reporter hear of.                         *)
AtEof(label, reported) ==
  /\ buffer_' = <<>> /\ at' = label /\ scratch' = <<>> /\ eof_' = TRUE
  /\ drops' = drops + (IF reported THEN 1 ELSE 0)
                    + (IF in_fragmented_record THEN 1 ELSE 0)
  /\ UNCHANGED <<writer, how, file_, in_fragmented_record, found>>

(* The end of the file, in a header or not.                                *)
ReadEof ==
  /\ at = "read" /\ Len(buffer_) < kHeaderSize /\ eof_
  /\ AtEof("done", buffer_ # <<>>)

(* A read that fails is reported and counts as the end of the file.        *)
ReadFails ==
  /\ at = "read" /\ Len(buffer_) < kHeaderSize /\ ~eof_
  /\ AtEof("cut", TRUE)

(* What ReadRecord does with a physical record, case by case.              *)
Reports(yes) == drops' = drops + IF yes THEN 1 ELSE 0

FullRecord(data) ==
  /\ found' = Append(found, data)
  /\ scratch' = <<>> /\ in_fragmented_record' = FALSE
  /\ Reports(in_fragmented_record /\ scratch # <<>>)

FirstRecord(data) ==
  /\ scratch' = data /\ in_fragmented_record' = TRUE
  /\ Reports(in_fragmented_record /\ scratch # <<>>)
  /\ UNCHANGED found

MiddleRecord(data) ==
  /\ scratch' = IF in_fragmented_record THEN scratch \o data ELSE scratch
  /\ Reports(~in_fragmented_record)
  /\ UNCHANGED <<in_fragmented_record, found>>

LastRecord(data) ==
  /\ found' = IF in_fragmented_record THEN Append(found, scratch \o data) ELSE found
  /\ scratch' = <<>> /\ in_fragmented_record' = FALSE
  /\ Reports(~in_fragmented_record)

(* Mutant of BadRecord: it does not end the record in progress.            *)
BadRecordGoesOn == UNCHANGED <<scratch, in_fragmented_record, found>>

BadRecord ==
  /\ scratch' = <<>> /\ in_fragmented_record' = FALSE
  /\ UNCHANGED found

ReadRecord ==
  /\ at = "read" /\ Len(buffer_) >= kHeaderSize
  /\ LET p == Physical(buffer_)
     IN  /\ buffer_' = p.buffer
         /\ \/ p.type = kFullType /\ FullRecord(p.data)
            \/ p.type = kFirstType /\ FirstRecord(p.data)
            \/ p.type = kMiddleType /\ MiddleRecord(p.data)
            \/ p.type = kLastType /\ LastRecord(p.data)
            \/ p.type = kBadRecord /\ BadRecord /\ Reports(p.drop \/ in_fragmented_record)
  /\ UNCHANGED <<writer, at, how, file_, eof_>>
-----------------------------------------------------------------------------
LogNext ==
  \/ \E n \in Sizes, s \in BOOLEAN : AddRecord(n, s)
  \/ \E fails \in {"none", "trailer", "header", "data"} : AddTurn(fails)
  \/ \E ok \in BOOLEAN : SyncRecord(ok)
  \/ CloseFile \/ ProcessCrash \/ MachineCrash
  \/ ReadBlock \/ ReadEof \/ ReadFails \/ ReadRecord
  \/ at \in {"done", "cut"} /\ UNCHANGED logVars

LogSpec == LogInit /\ [][LogNext]_logVars
-----------------------------------------------------------------------------
ToldOk(statuses) == SelectSeq(records, LAMBDA r : r.status \in statuses)
(* s is got from t by leaving elements out; the elements of t are unique.  *)
IsSubSeqOf(s, t) == s = SelectSeq(t, LAMBDA e : e \in ToSet(s))
Data(rs) == [i \in DOMAIN rs |-> rs[i].data]

(* ReadRecord: what the reader returns are whole records of the writer in  *)
(* the order they were added, none twice, whatever a crash or a failing    *)
(* call has left of the file and wherever a read fails.  Fragments of two  *)
(* records are never joined.                                               *)
NothingInvented == IsSubSeqOf(found, Data(records))

(* AddRecord and ReadRecord: when the file was closed or the process died  *)
(* at any byte, every record whose write was acknowledged is returned,     *)
(* unless a call on the file has failed, a read included; and a file that  *)
(* was closed is read without a report, so that a caller with              *)
(* paranoid_checks opens it.                                               *)
AcknowledgedRead ==
  faults = 0 =>
    /\ at = "done" /\ how \in {"closed", "process"} =>
         IsSubSeqOf(Data(ToldOk({"ok", "synced"})), found)
    /\ at # "cut" /\ how = "closed" => drops = 0

(* The comment of WriteOptions::sync: "if it is just the process that      *)
(* crashes ... no writes will be lost even if sync==false", also after a   *)
(* call on the file has failed.                                            *)
AcknowledgedReadAnyway ==
  at = "done" /\ how \in {"closed", "process"} =>
    IsSubSeqOf(Data(ToldOk({"ok", "synced"})), found)

(* PosixMmapFile::Sync: a record acknowledged with sync is returned after  *)
(* a crash of the machine, whichever unsynced pages were lost, unless a    *)
(* call on the file has failed.                                            *)
SyncedRead ==
  at = "done" /\ faults = 0 => IsSubSeqOf(Data(ToldOk({"synced"})), found)

=============================================================================
