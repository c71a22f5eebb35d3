---------------------------- MODULE BlockFormat ----------------------------
(* Keys and blocks of a table: the comparators (util/comparator.cc,            *)
(* db/dbformat.cc), the block builder and the block's iterator                 *)
(* (table/block_builder.cc, table/block.cc).                                   *)
(*                                                                            *)
(* A user key is a sequence of bytes.  An internal key is a user key and the   *)
(* tag (sequence number and type) as one more element.  An entry takes three   *)
(* bytes for its lengths, the bytes of the key it does not share with the key  *)
(* before it, and its value; offsets are counted in these bytes.               *)
EXTENDS Integers, SequencesExt

CONSTANTS
    MaxByte,         \* the greatest byte (0xff)
    MaxTag           \* kMaxSequenceNumber with kValueTypeForSeek

ASSUME BlockAssumption == MaxByte \in Nat /\ MaxTag \in Nat

ValueSize == 1

------------------------------------------------------------------------------
(* Comparators                                                                *)

MinLength(a, b) == IF Len(a) < Len(b) THEN Len(a) ELSE Len(b)

\* The length of the common prefix.
SharedBytes(a, b) ==
    Max({n \in 0 .. MinLength(a, b) : SubSeq(a, 1, n) = SubSeq(b, 1, n)})

\* Slice::compare.
BytewiseLess(a, b) ==
    LET d == SharedBytes(a, b)
    IN  IF d = MinLength(a, b) THEN Len(a) < Len(b) ELSE a[d + 1] < b[d + 1]

ExtractUserKey(k) == SubSeq(k, 1, Len(k) - 1)

Tag(k) == k[Len(k)]

\* Increasing user keys; decreasing tags for one user key.
Less(a, b) ==
    IF ExtractUserKey(a) = ExtractUserKey(b) THEN Tag(a) > Tag(b)
    ELSE BytewiseLess(ExtractUserKey(a), ExtractUserKey(b))

BytewiseSeparator(start, limit) ==
    LET d == SharedBytes(start, limit)
    IN  IF d >= MinLength(start, limit) THEN start
        ELSE IF start[d + 1] < MaxByte /\ start[d + 1] + 1 < limit[d + 1]
        THEN Append(SubSeq(start, 1, d), start[d + 1] + 1)
        ELSE start

\* Shortens although the byte after the common prefix reaches the limit's.
ShortestSeparatorAtLimit(start, limit) ==
    LET user == ExtractUserKey(start)
        d == SharedBytes(user, ExtractUserKey(limit))
        tmp == IF d >= MinLength(user, ExtractUserKey(limit)) THEN user
               ELSE Append(SubSeq(user, 1, d), user[d + 1] + 1)
    IN  IF Len(tmp) < Len(user) THEN Append(tmp, 0) ELSE start

\* A key at or after start and before limit, shorter where the user key can be.
FindShortestSeparator(start, limit) ==
    LET user == ExtractUserKey(start)
        tmp == BytewiseSeparator(user, ExtractUserKey(limit))
    IN  IF Len(tmp) < Len(user) /\ BytewiseLess(user, tmp) THEN Append(tmp, MaxTag) ELSE start

BytewiseSuccessor(key) ==
    LET low == {i \in 1 .. Len(key) : key[i] # MaxByte}
    IN  IF low = {} THEN key ELSE Append(SubSeq(key, 1, Min(low) - 1), key[Min(low)] + 1)

FindShortSuccessor(key) ==
    LET user == ExtractUserKey(key)
        tmp == BytewiseSuccessor(user)
    IN  IF Len(tmp) < Len(user) /\ BytewiseLess(user, tmp) THEN Append(tmp, MaxTag) ELSE key

------------------------------------------------------------------------------
(* BlockBuilder                                                               *)

NewBlockBuilder == [buffer |-> <<>>, size |-> 0, restarts |-> <<0>>, counter |-> 0, last_key |-> <<>>]

\* Goes on sharing with the key before a restart point.
AddSharesAtRestart(b, interval, key, value) ==
    LET restart == b.counter >= interval
        shared == SharedBytes(b.last_key, key)
        entry == [at |-> b.size, shared |-> shared, value |-> value,
                  delta |-> SubSeq(key, shared + 1, Len(key))]
    IN  [buffer |-> Append(b.buffer, entry),
         size |-> b.size + 3 + Len(entry.delta) + ValueSize,
         restarts |-> IF restart THEN Append(b.restarts, b.size) ELSE b.restarts,
         counter |-> IF restart THEN 1 ELSE b.counter + 1,
         last_key |-> key]

\* Every interval-th entry is a restart point, which shares nothing.
AddEntry(b, interval, key, value) ==
    LET restart == b.counter >= interval
        shared == IF restart THEN 0 ELSE SharedBytes(b.last_key, key)
        entry == [at |-> b.size, shared |-> shared, value |-> value,
                  delta |-> SubSeq(key, shared + 1, Len(key))]
    IN  [buffer |-> Append(b.buffer, entry),
         size |-> b.size + 3 + Len(entry.delta) + ValueSize,
         restarts |-> IF restart THEN Append(b.restarts, b.size) ELSE b.restarts,
         counter |-> IF restart THEN 1 ELSE b.counter + 1,
         last_key |-> key]

\* Four bytes for each restart point and for their number.
CurrentSizeEstimate(b) == b.size + 4 * Len(b.restarts) + 4

------------------------------------------------------------------------------
(* Block::Iter                                                                *)

NumRestarts(b) == Len(b.restarts)

GetRestartPoint(b, index) == b.restarts[index + 1]

\* DecodeEntry, and where the entry ends; no entry starts anywhere else.
EntryAt(b, offset) == {e \in ToSet(b.buffer) : e.at = offset}

EntryEnd(e) == e.at + 3 + Len(e.delta) + ValueSize

\* current_ is b.size, the offset of the restart points, when ~Valid().
NewIter(b) ==
    [current |-> b.size, restart_index |-> NumRestarts(b), key |-> <<>>,
     next |-> 0, value |-> 0, ok |-> TRUE]

IterValid(b, it) == it.current < b.size

\* key_.clear(), and value_ set so that ParseNextKey starts at the point.
SeekToRestartPoint(b, it, index) ==
    [it EXCEPT !.key = <<>>, !.restart_index = index, !.next = GetRestartPoint(b, index)]

CorruptionError(b, it) ==
    [it EXCEPT !.current = b.size, !.restart_index = NumRestarts(b), !.ok = FALSE, !.key = <<>>]

\* The last restart point before the entry, not before the point the iterator
\* has already reached.
RestartIndexAt(b, from, current) ==
    Max({from} \cup {i \in from .. NumRestarts(b) - 1 : GetRestartPoint(b, i) < current})

\* ParseNextKey leaves an iterator past the end invalid.
ParseNextKey(b, it) ==
    IF it.next >= b.size
    THEN [it EXCEPT !.current = b.size, !.restart_index = NumRestarts(b)]
    ELSE IF \E e \in EntryAt(b, it.next) : e.shared <= Len(it.key)
    THEN LET e == CHOOSE e \in EntryAt(b, it.next) : TRUE
         IN  [current |-> e.at, key |-> SubSeq(it.key, 1, e.shared) \o e.delta,
              value |-> e.value, next |-> EntryEnd(e), ok |-> it.ok,
              restart_index |-> RestartIndexAt(b, it.restart_index, e.at)]
    ELSE CorruptionError(b, it)

\* "while (ParseNextKey() && NextEntryOffset() < original)"
RECURSIVE ParseUpTo(_, _, _)
ParseUpTo(b, it, original) ==
    LET parsed == ParseNextKey(b, it)
    IN  IF IterValid(b, parsed) /\ parsed.next < original
        THEN ParseUpTo(b, parsed, original) ELSE parsed

BlockPrev(b, it) ==
    LET before == {i \in 0 .. it.restart_index : GetRestartPoint(b, i) < it.current}
    IN  IF before = {}
        THEN [it EXCEPT !.current = b.size, !.restart_index = NumRestarts(b)]
        ELSE ParseUpTo(b, SeekToRestartPoint(b, it, Max(before)), it.current)

BlockNext(b, it) == ParseNextKey(b, it)

BlockSeekToFirst(b, it) == ParseNextKey(b, SeekToRestartPoint(b, it, 0))

BlockSeekToLast(b, it) ==
    ParseUpTo(b, SeekToRestartPoint(b, it, NumRestarts(b) - 1), b.size)

RestartEntry(b, index) == CHOOSE e \in EntryAt(b, GetRestartPoint(b, index)) : TRUE

\* The binary search for the last restart point with a key before the target;
\* -1 when it meets a restart point that shares with the key before it.
RECURSIVE SearchRestarts(_, _, _, _)
SearchRestarts(b, target, left, right) ==
    LET mid == (left + right + 1) \div 2
        entry == RestartEntry(b, mid)
    IN  IF left >= right THEN left
        ELSE IF entry.shared # 0 THEN -1
        ELSE IF Less(entry.delta, target)
        THEN SearchRestarts(b, target, mid, right)
        ELSE SearchRestarts(b, target, left, mid - 1)

RECURSIVE ParseToTarget(_, _, _)
ParseToTarget(b, it, target) ==
    LET parsed == ParseNextKey(b, it)
    IN  IF IterValid(b, parsed) /\ Less(parsed.key, target)
        THEN ParseToTarget(b, parsed, target) ELSE parsed

BlockSeek(b, it, target) ==
    LET left == SearchRestarts(b, target, 0, NumRestarts(b) - 1)
    IN  IF left = -1 THEN CorruptionError(b, it)
        ELSE ParseToTarget(b, SeekToRestartPoint(b, it, left), target)

==============================================================================
