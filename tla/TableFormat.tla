---------------------------- MODULE TableFormat ----------------------------
(* A table from its builder to its readers: TableBuilder, the filter block and *)
(* the Bloom filter on the way in (table/table_builder.cc,                     *)
(* table/filter_block.cc, util/bloom.cc), Table::InternalGet and a block's     *)
(* iterator on the way out (table/table.cc).  Every write to the file may fail.*)
EXTENDS BlockFormat

CONSTANTS
    TableKeys,       \* the internal keys entries may have
    MaxEntries,      \* entries of a table
    BlockSizes,      \* the values options.block_size may have
    kFilterBase,     \* bytes of data per filter (2048)
    kBlockTrailerSize,
    HashOfKey,       \* BloomHash of a user key
    HashBits,        \* the width of a hash (32)
    Rotation,        \* the bits the second hash is rotated by (17)
    Probes,          \* k_
    FilterBits       \* the least size of a filter (64)

ASSUME TableAssumption ==
    /\ IsFiniteSet(TableKeys)
    /\ \A k \in TableKeys : Tag(k) < MaxTag
    /\ BlockSizes \subseteq Nat \ {0} /\ MaxEntries \in Nat
    /\ kFilterBase \in Nat \ {0} /\ kBlockTrailerSize \in Nat
    /\ Rotation \in 0 .. HashBits /\ Probes \in Nat /\ FilterBits \in Nat \ {0}

VARIABLES
    options,         \* block_size, and whether there is a filter policy
    entries,         \* what was added, in order; an entry's value is its number
    rep,             \* the builder
    phase,           \* building, finished, or deleted by the builder's caller
    block,           \* the block the iterator is over
    iter,            \* the iterator over it
    place            \* where the iterator should be: an entry's place, 0 if ~Valid()

tableVars == <<options, entries, rep, phase, block, iter, place>>

------------------------------------------------------------------------------
(* The Bloom filter                                                           *)

Rotated(h) == h \div 2^Rotation + ((h * 2^(HashBits - Rotation)) % 2^HashBits)

\* The bits of a key: k probes, each a rotated hash further.
Bits(key, bits, k) ==
    {((HashOfKey[key] + j * Rotated(HashOfKey[key])) % 2^HashBits) % bits : j \in 0 .. k - 1}

\* InternalFilterPolicy gives the policy the user keys.
CreateFilter(keys) ==
    [bits |-> FilterBits, k |-> Probes,
     array |-> UNION {Bits(ExtractUserKey(key), FilterBits, Probes) : key \in keys}]

NoFilter == [bits |-> 0, k |-> 0, array |-> {}]

\* An empty filter matches no key.
FilterMayMatch(key, filter) ==
    /\ filter # NoFilter
    /\ Bits(ExtractUserKey(key), filter.bits, filter.k) \subseteq filter.array

------------------------------------------------------------------------------
(* The filter block                                                           *)

\* Keys that wait for a filter make one; without keys the filter is empty.
GenerateFilter(f) ==
    [filters |-> Append(f.filters, IF f.keys = {} THEN NoFilter ELSE CreateFilter(f.keys)),
     keys |-> {}]

\* One filter for each kFilterBase bytes of the file before the block.
RECURSIVE StartBlock(_, _)
StartBlock(f, offset) ==
    IF offset \div kFilterBase > Len(f.filters)
    THEN StartBlock(GenerateFilter(f), offset) ELSE f

FinishFilters(f) == IF f.keys = {} THEN f ELSE GenerateFilter(f)

\* Past the filters there is no telling.
KeyMayMatch(f, offset, key) ==
    LET index == offset \div kFilterBase
    IN  index < Len(f.filters) => FilterMayMatch(key, f.filters[index + 1])

------------------------------------------------------------------------------
(* TableBuilder                                                               *)

NewTable ==
    [data |-> NewBlockBuilder, index |-> NewBlockBuilder, blocks |-> <<>>, offset |-> 0,
     ok |-> TRUE, pending |-> FALSE, handle |-> 0, last_key |-> <<>>,
     filter |-> [filters |-> <<>>, keys |-> {}]]

TableInit ==
    /\ options \in [size : BlockSizes, filter : BOOLEAN]
    /\ entries = <<>>
    /\ rep = NewTable
    /\ phase = "building"
    /\ block = NewBlockBuilder
    /\ iter = NewIter(NewBlockBuilder)
    /\ place = 0

\* A block's handle is its offset in the file.
BlockWritten(r) ==
    [r EXCEPT !.blocks = Append(@, [offset |-> r.offset, block |-> r.data]),
              !.handle = r.offset,
              !.offset = @ + CurrentSizeEstimate(r.data) + kBlockTrailerSize,
              !.data = NewBlockBuilder]

\* Flush writes the block and, if Append has not failed, leaves its index entry
\* pending; the next block's keys go to the filter of the new offset.
Flushed(r, fails) ==
    LET written == IF fails THEN [r EXCEPT !.ok = FALSE, !.data = NewBlockBuilder]
                   ELSE [BlockWritten(r) EXCEPT !.pending = TRUE]
    IN  IF r.data.buffer = <<>> \/ ~r.ok THEN r
        ELSE IF options.filter THEN [written EXCEPT !.filter = StartBlock(@, written.offset)]
        ELSE written

IndexEntry(r, key) ==
    IF r.pending
    THEN [r EXCEPT !.index = AddEntry(@, 1, key, r.handle), !.pending = FALSE]
    ELSE r

RestartInterval == 2

\* The index entry of the block before, the filter, the entry, and the block
\* goes to the file when it is full.
Added(r, key, value, fails) ==
    LET indexed == IndexEntry(r, FindShortestSeparator(r.last_key, key))
        added == [indexed EXCEPT !.filter.keys = IF options.filter THEN @ \cup {key} ELSE @,
                                 !.last_key = key,
                                 !.data = AddEntry(@, RestartInterval, key, value)]
    IN  IF ~r.ok THEN r
        ELSE IF CurrentSizeEstimate(added.data) >= options.size THEN Flushed(added, fails)
        ELSE added

TableAdd(key, fails) ==
    /\ phase = "building"
    /\ Len(entries) < MaxEntries
    /\ entries # <<>> => Less(entries[Len(entries)], key)
    /\ rep' = Added(rep, key, Len(entries) + 1, fails)
    /\ entries' = Append(entries, key)
    /\ UNCHANGED <<options, phase, block, iter, place>>

\* Finish flushes, ends the filters and writes the filter block, the metaindex,
\* the index with its last entry and the footer, until a write fails.
Finished(r, fails) ==
    LET flushed == Flushed(r, fails = "data")
        filtered == IF flushed.ok /\ options.filter
                    THEN [flushed EXCEPT !.filter = FinishFilters(@), !.ok = fails # "filter"]
                    ELSE flushed
        meta == [filtered EXCEPT !.ok = @ /\ fails # "metaindex"]
        indexed == IF meta.ok
                   THEN [IndexEntry(meta, FindShortSuccessor(meta.last_key))
                            EXCEPT !.ok = fails # "index"]
                   ELSE meta
    IN  [indexed EXCEPT !.ok = @ /\ fails # "footer"]

\* BuildTable syncs and closes the file and opens it to see that it is usable; it
\* keeps the table when all of that went well, and deletes it otherwise.
OfBuilder == {"data", "filter", "metaindex", "index", "footer"}
OfFile == {"sync", "close", "verify"}

TableFinish(fails) ==
    /\ phase = "building"
    /\ entries # <<>>
    /\ rep' = Finished(rep, fails)
    /\ phase' = IF rep'.ok /\ fails \notin OfFile THEN "finished" ELSE "deleted"
    /\ UNCHANGED <<options, entries, block, iter, place>>

------------------------------------------------------------------------------
(* Reading                                                                    *)

\* Of an offset, the block written there (BlockReader).
BlockAt(offset) == (CHOOSE b \in ToSet(rep.blocks) : b.offset = offset).block

\* The value InternalGet hands to its caller's saver, which looks at the user
\* key: 0 when there is none or it is not the one asked for.
InternalGet(k) ==
    LET iiter == BlockSeek(rep.index, NewIter(rep.index), k)
        data == BlockAt(iiter.value)
        found == BlockSeek(data, NewIter(data), k)
    IN  IF ~IterValid(rep.index, iiter) THEN 0
        ELSE IF options.filter /\ ~KeyMayMatch(rep.filter, iiter.value, k) THEN 0
        ELSE IF IterValid(data, found) /\ ExtractUserKey(found.key) = ExtractUserKey(k)
        THEN found.value ELSE 0

\* An iterator over one of the table's blocks, or over its index.
NewIterator ==
    /\ phase = "finished"
    /\ \E b \in {rep.index} \cup {d.block : d \in ToSet(rep.blocks)} :
           block' = b /\ iter' = NewIter(b)
    /\ place' = 0
    /\ phase' = "reading"
    /\ UNCHANGED <<options, entries, rep>>

\* The keys of a block in order, by the definition of the format.
RECURSIVE KeysOf(_)
KeysOf(buffer) ==
    IF buffer = <<>> THEN <<>>
    ELSE LET before == KeysOf(SubSeq(buffer, 1, Len(buffer) - 1))
             e == buffer[Len(buffer)]
         IN  Append(before, (IF e.shared = 0 THEN <<>> ELSE SubSeq(Last(before), 1, e.shared))
                            \o e.delta)

Moves(to, there) ==
    /\ phase = "reading"
    /\ iter' = to
    /\ place' = there
    /\ UNCHANGED <<options, entries, rep, phase, block>>

Places == 1 .. Len(block.buffer)

IterSeek(target) ==
    LET from == {i \in Places : ~Less(KeysOf(block.buffer)[i], target)}
    IN  Moves(BlockSeek(block, iter, target), IF from = {} THEN 0 ELSE Min(from))

IterSeekToFirst == Moves(BlockSeekToFirst(block, iter), 1)

IterSeekToLast == Moves(BlockSeekToLast(block, iter), Len(block.buffer))

IterNext ==
    /\ IterValid(block, iter)
    /\ Moves(BlockNext(block, iter), (place + 1) % (Len(block.buffer) + 1))

IterPrev ==
    /\ IterValid(block, iter)
    /\ Moves(BlockPrev(block, iter), place - 1)

TableNext ==
    \/ \E k \in TableKeys, fails \in BOOLEAN : TableAdd(k, fails)
    \/ \E fails \in OfBuilder \cup OfFile \cup {"nothing"} : TableFinish(fails)
    \/ NewIterator
    \/ \E k \in TableKeys : IterSeek(k)
    \/ IterSeekToFirst \/ IterSeekToLast \/ IterNext \/ IterPrev

TableSpec == TableInit /\ [][TableNext]_tableVars

------------------------------------------------------------------------------
(* Properties                                                                 *)

\* The newest entry of a user key that a lookup key may see.
NewestFor(k) ==
    LET seen == {i \in 1 .. Len(entries) : /\ ExtractUserKey(entries[i]) = ExtractUserKey(k)
                                           /\ Tag(entries[i]) <= Tag(k)}
    IN  IF seen = {} THEN 0 ELSE Min(seen)

\* A table whose Finish reported success answers every lookup with the newest
\* entry the lookup key may see: shortened index keys lead to the right block,
\* no filter denies a key that was added, and a failed write is never hidden.
TableGetsNewest ==
    phase = "finished" => \A k \in TableKeys : InternalGet(k) = NewestFor(k)

\* Over any block and its restart points, the iterator is where its calls so
\* far should have taken it, in both directions, and meets no bad entry.
BlockIterExact ==
    phase = "reading" =>
        /\ iter.ok
        /\ IterValid(block, iter) <=> place # 0
        /\ place # 0 => /\ iter.key = KeysOf(block.buffer)[place]
                        /\ iter.value = block.buffer[place].value

==============================================================================
