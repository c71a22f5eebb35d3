------------------------------- MODULE Snappy -------------------------------
(* The compression of a table's blocks (snappy/snappy.cc): Compress, one       *)
(* fragment after another, then RawUncompress of the result into an array of   *)
(* exactly the uncompressed length, as ReadBlock calls it.                     *)
(*                                                                            *)
(* Compressed data is the sequence of its tags with their fields; a field      *)
(* keeps only the bits it has.  Positions are counted from 0, as in the code.  *)
(* The sizes of the code are constants, in the proportions its argument        *)
(* depends on.                                                                 *)
EXTENDS Integers, SequencesExt

CONSTANTS
    Letters,         \* the bytes of the input
    MaxInput,        \* its greatest length
    kFragment,       \* kBlockSize (65536)
    kInputMargin,    \* kInputMarginBytes (15)
    Word,            \* the bytes that make a match (4)
    Skips,           \* lookups before the search moves faster (32)
    TagLiteral,      \* literals up to this length have it in their tag (60)
    LengthBase,      \* what a length byte counts to (256)
    MaxCopy,         \* the longest copy of a tag (64)
    ShortCopies,     \* lengths of a one-byte copy (8)
    ShortOffsets,    \* offsets of a one-byte copy (2048)
    Half,            \* the bytes copied at once (8)
    CopyOverflow,    \* kMaxIncrementCopyOverflow (10)
    kMaximumTagLength

ASSUME SnappyAssumption ==
    /\ MaxInput \in Nat /\ Word \in Nat \ {0} /\ Skips \in Nat \ {0}
    /\ kInputMargin >= 2 * Half - 1 /\ kInputMargin > Word
    /\ MaxCopy >= 2 * Word /\ ShortCopies + Word <= MaxCopy
    /\ Half \in Nat \ {0} /\ Half % 2 = 0 /\ CopyOverflow \in Nat /\ kFragment >= kInputMargin

VARIABLES
    input,
    hashing,         \* how words hash: each to itself, or all alike
    stage,           \* where the call is
    base,            \* the start of the fragment
    ip,              \* the place in the input, or the tag to decode next
    next_emit,       \* the first byte that is not in a tag yet
    candidate,       \* where a match for ip starts
    skip,
    table,           \* the places words were seen at, by hash
    tags,            \* the compressed data
    output,          \* the array that is decompressed into
    op,              \* how much of it is done
    outside          \* something was read or written outside its array

snappyVars == <<input, hashing, stage, base, ip, next_emit, candidate, skip, table,
                tags, output, op, outside>>

compressVars == <<input, hashing, output, op>>

------------------------------------------------------------------------------
(* Compressing                                                                *)

Word4(p) == SubSeq(input, p + 1, p + Word)

Hash(p) == IF hashing = "all alike" THEN <<>> ELSE Word4(p)

Fragment == IF Len(input) - base < kFragment THEN Len(input) - base ELSE kFragment

ip_end == base + Fragment

ip_limit == ip_end - kInputMargin

RECURSIVE Digits(_)
Digits(n) == IF n = 0 THEN <<>> ELSE <<n % LengthBase>> \o Digits(n \div LengthBase)

\* A literal's length is in its tag, or in the bytes after it.
EmitLiteral(from, to) ==
    LET n == to - from - 1
    IN  [tag |-> "literal", bytes |-> SubSeq(input, from + 1, to),
         n |-> IF n < TagLiteral THEN n ELSE -1,
         length |-> IF n < TagLiteral THEN <<>> ELSE Digits(n)]

EmitCopyLessThan64(offset, len) ==
    IF len < Word + ShortCopies /\ offset < ShortOffsets
    THEN << [tag |-> "copy1", len |-> (len - Word) % ShortCopies, offset |-> offset % ShortOffsets] >>
    ELSE << [tag |-> "copy2", len |-> (len - 1) % MaxCopy, offset |-> offset] >>

\* Leaves a remainder of any length to the last tag.
RECURSIVE EmitCopyToTheEnd(_, _)
EmitCopyToTheEnd(offset, len) ==
    IF len > MaxCopy
    THEN EmitCopyLessThan64(offset, MaxCopy) \o EmitCopyToTheEnd(offset, len - MaxCopy)
    ELSE EmitCopyLessThan64(offset, len)

\* Long copies are split so that at least Word bytes remain for the last one.
RECURSIVE EmitCopy(_, _)
EmitCopy(offset, len) ==
    IF len >= MaxCopy + Word
    THEN EmitCopyLessThan64(offset, MaxCopy) \o EmitCopy(offset, len - MaxCopy)
    ELSE IF len > MaxCopy
    THEN EmitCopyLessThan64(offset, MaxCopy - Word)
         \o EmitCopyLessThan64(offset, len - (MaxCopy - Word))
    ELSE EmitCopyLessThan64(offset, len)

\* FindMatchLength, from the candidate on and up to the fragment's end.
FindMatchLength(from, to) ==
    Max({n \in 0 .. ip_end - to :
             SubSeq(input, from + 1, from + n) = SubSeq(input, to + 1, to + n)})

SnappyInit ==
    /\ input \in UNION {[1 .. n -> Letters] : n \in 0 .. MaxInput}
    /\ hashing \in {"by word", "all alike"}
    /\ stage = "fragment"
    /\ base = 0 /\ ip = 0 /\ next_emit = 0 /\ candidate = 0 /\ skip = 0
    /\ table = <<>>
    /\ tags = <<>>
    /\ output = <<>> /\ op = 0
    /\ outside = FALSE

\* Compress takes the next fragment with a table of zeros; a short one is a
\* single literal.
StartFragment ==
    /\ stage = "fragment"
    /\ base < Len(input)
    /\ next_emit' = base
    /\ table' = [h \in {} |-> 0]
    /\ skip' = Skips
    /\ stage' = IF Fragment >= kInputMargin THEN "scan" ELSE "remainder"
    /\ ip' = IF Fragment >= kInputMargin THEN base + 1 ELSE base
    /\ UNCHANGED <<compressVars, base, candidate, tags, outside>>

Seen(h) == IF h \in DOMAIN table THEN table[h] ELSE 0

Record(h, p) == [k \in DOMAIN table \cup {h} |-> IF k = h THEN p ELSE table[k]]

\* Step 1, one lookup; with a match, step 2 as well.  The literal's bytes are
\* copied 2 * Half at a time.
Scan ==
    /\ stage = "scan"
    /\ LET next_ip == ip + skip \div Skips
           found == base + Seen(Hash(ip))
       IN  IF next_ip > ip_limit
           THEN /\ stage' = "remainder"
                /\ UNCHANGED <<ip, candidate, skip, table, tags, outside>>
           ELSE /\ table' = Record(Hash(ip), ip - base)
                /\ IF Word4(ip) = Word4(found)
                   THEN /\ stage' = "copy"
                        /\ candidate' = found
                        /\ tags' = Append(tags, EmitLiteral(next_emit, ip))
                        /\ outside' = (outside \/ /\ ip - next_emit <= 2 * Half
                                                  /\ next_emit + 2 * Half > ip_end)
                        /\ UNCHANGED <<ip, skip>>
                   ELSE /\ ip' = next_ip
                        /\ skip' = skip + 1
                        /\ UNCHANGED <<stage, candidate, tags, outside>>
    /\ UNCHANGED <<compressVars, base, next_emit>>

\* Step 3: the whole match, then whether another one follows at once.
CopyMatch ==
    /\ stage = "copy"
    /\ LET matched == Word + FindMatchLength(candidate + Word, ip + Word)
           end == ip + matched
           tail == Record(Hash(end - 1), end - base - 1)
           found == base + (IF Hash(end) \in DOMAIN tail THEN tail[Hash(end)] ELSE 0)
       IN  /\ tags' = tags \o EmitCopy(ip - candidate, matched)
           /\ next_emit' = end
           /\ IF end >= ip_limit
              THEN /\ stage' = "remainder"
                   /\ ip' = end
                   /\ UNCHANGED <<candidate, skip, table>>
              ELSE /\ table' = [h \in DOMAIN tail \cup {Hash(end)} |->
                                    IF h = Hash(end) THEN end - base ELSE tail[h]]
                   /\ candidate' = found
                   /\ stage' = IF Word4(end) = Word4(found) THEN "copy" ELSE "scan"
                   /\ ip' = IF Word4(end) = Word4(found) THEN end ELSE end + 1
                   /\ skip' = Skips
    /\ UNCHANGED <<compressVars, base, outside>>

\* emit_remainder.
Remainder ==
    /\ stage = "remainder"
    /\ tags' = IF next_emit < ip_end THEN Append(tags, EmitLiteral(next_emit, ip_end)) ELSE tags
    /\ base' = ip_end
    /\ stage' = "fragment"
    /\ UNCHANGED <<compressVars, ip, next_emit, candidate, skip, table, outside>>

------------------------------------------------------------------------------
(* Decompressing                                                              *)

\* What an array holds that nobody has written, and what a copy of more bytes
\* than asked for leaves behind.
Junk == 0

op_limit == Len(output)

SpaceLeft == op_limit - op

\* The bytes a tag takes in the compressed data.
TagSize(t) ==
    CASE t.tag = "literal" -> 1 + Len(t.length) + Len(t.bytes)
      [] t.tag = "copy1" -> 2
      [] t.tag = "copy2" -> 3

Available == FoldLeft(LAMBDA n, t : n + TagSize(t), 0, SubSeq(tags, ip + 1, Len(tags)))

\* ReadUncompressedLength, and the array ReadBlock makes for it.
Uncompress ==
    /\ stage = "fragment"
    /\ base = Len(input)
    /\ stage' = "decode"
    /\ ip' = 0
    /\ output' = [i \in 1 .. Len(input) |-> Junk]
    /\ UNCHANGED <<input, hashing, base, next_emit, candidate, skip, table, tags, op, outside>>

\* Writes bytes at op; what falls past the array's end is lost.
Written(out, from, bytes) ==
    [i \in 1 .. Len(out) |-> IF i \in from + 1 .. from + Len(bytes) THEN bytes[i - from] ELSE out[i]]

\* Of the bytes from a place on, as many as asked for; the array's end is Junk.
Taken(out, from, n) == [i \in 1 .. n |-> IF from + i <= Len(out) THEN out[from + i] ELSE Junk]

\* UnalignedCopy64: at once, or in two pieces where a pointer has 32 bits; the
\* second may then read what the first has written.
UnalignedCopy64(out, src, dst, narrow) ==
    IF ~narrow THEN Written(out, dst, Taken(out, src, Half))
    ELSE LET piece == Half \div 2
             first == Written(out, dst, Taken(out, src, piece))
         IN  Written(first, dst + piece, Taken(first, src + piece, piece))

DecodeLength(t) ==
    IF t.n # -1 THEN t.n + 1
    ELSE 1 + FoldLeft(LAMBDA sum, i : sum + t.length[i] * LengthBase^(i - 1), 0,
                      [i \in 1 .. Len(t.length) |-> i])

JunkBytes(n) == [i \in 1 .. n |-> Junk]

\* TryFastAppend copies 2 * Half bytes of a short literal, and of what follows
\* it in the compressed data, when there is room on both sides; else Append.
AppendLiteral(t) ==
    LET len == DecodeLength(t)
        fast == /\ t.n # -1 /\ len <= 2 * Half
                /\ Available - 1 >= 2 * Half + kMaximumTagLength
                /\ SpaceLeft >= 2 * Half
        bytes == SubSeq(t.bytes, 1, len) \o (IF fast THEN JunkBytes(2 * Half - len) ELSE <<>>)
    IN  /\ output' = Written(output, op, bytes)
        /\ outside' = (outside \/ op + Len(bytes) > op_limit)
        /\ op' = op + len

\* IncrementalCopyFastPath: doubles a short pattern, then copies Half at a time.
RECURSIVE FastPath(_, _, _, _, _)
FastPath(out, src, dst, len, narrow) ==
    LET copied == UnalignedCopy64(out, src, dst, narrow)
    IN  IF dst - src < Half
        THEN FastPath(copied, src, dst + (dst - src), len - (dst - src), narrow)
        ELSE IF len > 0 THEN FastPath(copied, src + Half, dst + Half, len - Half, narrow)
        ELSE out

RECURSIVE LastWritten(_, _, _, _)
LastWritten(src, dst, len, last) ==
    IF dst - src < Half THEN LastWritten(src, dst + (dst - src), len - (dst - src), dst + Half)
    ELSE IF len > 0 THEN LastWritten(src + Half, dst + Half, len - Half, dst + Half)
    ELSE last

RECURSIVE IncrementalCopy(_, _, _, _)
IncrementalCopy(out, src, dst, len) ==
    IF len = 0 THEN out
    ELSE IncrementalCopy(Written(out, dst, Taken(out, src, 1)), src + 1, dst + 1, len - 1)

\* Takes the fast path without room for what it writes too much.
AppendFromSelfWithoutRoom(offset, len) ==
    /\ \E narrow \in BOOLEAN : output' = FastPath(output, op - offset, op, len, narrow)
    /\ outside' = (outside \/ LastWritten(op - offset, op, len, op) > op_limit)
    /\ op' = op + len

\* Two copies of Half bytes, the fast path with room for what it writes too
\* much, or byte by byte.  (Compressed data of Compress never makes it refuse.)
AppendFromSelf(offset, len) ==
    /\ \E narrow \in BOOLEAN :
         IF len <= 2 * Half /\ offset >= Half /\ SpaceLeft >= 2 * Half
         THEN /\ output' = UnalignedCopy64(UnalignedCopy64(output, op - offset, op, narrow),
                                          op - offset + Half, op + Half, narrow)
              /\ outside' = (outside \/ op + 2 * Half > op_limit)
         ELSE IF SpaceLeft >= len + CopyOverflow
         THEN /\ output' = FastPath(output, op - offset, op, len, narrow)
              /\ outside' = (outside \/ LastWritten(op - offset, op, len, op) > op_limit)
         ELSE /\ output' = IncrementalCopy(output, op - offset, op, len)
              /\ outside' = (outside \/ op + len > op_limit)
    /\ op' = op + len

CopyLength(t) == IF t.tag = "copy1" THEN t.len + Word ELSE t.len + 1

\* Where the writer refuses a tag: from before the start of the array, or more
\* than it has room for.
Refused(t) ==
    IF t.tag = "literal" THEN DecodeLength(t) > SpaceLeft
    ELSE op <= t.offset - 1 \/ t.offset = 0 \/ CopyLength(t) > SpaceLeft

\* One turn of DecompressAllTags.
DecodeTag ==
    /\ stage = "decode"
    /\ ip < Len(tags)
    /\ LET t == tags[ip + 1]
       IN  IF Refused(t)
           THEN stage' = "refused" /\ UNCHANGED <<ip, output, op, outside>>
           ELSE /\ IF t.tag = "literal" THEN AppendLiteral(t)
                   ELSE AppendFromSelf(t.offset, CopyLength(t))
                /\ ip' = ip + 1
                /\ UNCHANGED stage
    /\ UNCHANGED <<input, hashing, base, next_emit, candidate, skip, table, tags>>

\* At the end of the input, CheckLength.
DecodeEnds ==
    /\ stage = "decode"
    /\ ip = Len(tags)
    /\ stage' = IF op = op_limit THEN "done" ELSE "refused"
    /\ UNCHANGED <<input, hashing, base, ip, next_emit, candidate, skip, table, tags,
                   output, op, outside>>

SnappyNext ==
    \/ StartFragment \/ Scan \/ CopyMatch \/ Remainder
    \/ Uncompress \/ DecodeTag \/ DecodeEnds

SnappySpec == SnappyInit /\ [][SnappyNext]_snappyVars

------------------------------------------------------------------------------
(* Properties                                                                 *)

\* RawUncompress of what Compress made is accepted and is the input again, for
\* every input: whatever matches the hash table finds or misses, however long
\* copies are split, and although the fast paths write too much.
RoundTrip == stage # "refused" /\ (stage = "done" => output = input)

\* The fast paths of EmitLiteral, TryFastAppend and AppendFromSelf stay inside
\* the input and inside the array for the output.
InsideArrays == ~outside

==============================================================================
