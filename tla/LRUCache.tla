------------------------------ MODULE LRUCache ------------------------------
(* One shard of the cache of open tables and of data blocks (util/cache.cc),  *)
(* and TableCache::FindTable on top of it (db/table_cache.cc), called by       *)
(* threads that hold no lock between their calls of the cache.                 *)
(*                                                                            *)
(* The shard is a record: its handles by number, the list from the oldest to  *)
(* the newest handle, the hash table's buckets, each the chain of next_hash    *)
(* links, and the counts.  Every method holds mutex_ throughout, so a method   *)
(* is an operator from shard to shard and a call of it is one step.            *)
EXTENDS Integers, SequencesExt

CONSTANTS
    Threads,         \* the callers
    CacheKeys,       \* the file numbers that are looked up
    HashOf,          \* the hash of a key
    Charges,         \* the charges of the values that are inserted
    capacity_,
    kMinLength,      \* the least length of the hash table (4)
    MaxHandles       \* insertions in a behaviour

ASSUME CacheAssumption ==
    /\ IsFiniteSet(Threads) /\ IsFiniteSet(CacheKeys)
    /\ HashOf \in [CacheKeys -> Nat]
    /\ Charges \subseteq Nat \ {0}
    /\ capacity_ \in Nat /\ kMinLength \in Nat \ {0} /\ MaxHandles \in Nat

VARIABLES
    cache,           \* the shard
    calls            \* where each thread is in its use of the cache

cacheVars == <<cache, calls>>

Buckets(length) == 0 .. length - 1

Bucket(c, h) == HashOf[c.handles[h].key] % c.length

EmptyCache ==
    [handles |-> <<>>, lru |-> <<>>, length |-> kMinLength, elems |-> 0,
     list |-> [b \in Buckets(kMinLength) |-> <<>>], usage |-> 0]

------------------------------------------------------------------------------
(* HandleTable                                                                *)

\* The place of a key in a chain; the place after the chain when it has none.
FindPointer(c, chain, key) ==
    LET found == {i \in 1 .. Len(chain) : c.handles[chain[i]].key = key}
    IN  IF found = {} THEN Len(chain) + 1 ELSE Min(found)

Chain(c, key) == c.list[HashOf[key] % c.length]

\* The handle of a key, 0 for NULL.
TableLookup(c, key) ==
    LET chain == Chain(c, key)
        p == FindPointer(c, chain, key)
    IN  IF p > Len(chain) THEN 0 ELSE chain[p]

RECURSIVE NewLength(_, _)
NewLength(length, elems) == IF length < elems THEN NewLength(2 * length, elems) ELSE length

\* The handles in the order Resize meets them; each goes to the front of its
\* new chain.
InOrder(c) ==
    FoldLeft(LAMBDA s, b : s \o c.list[b], <<>>, [i \in 1 .. c.length |-> i - 1])

Resize(c) ==
    LET length == NewLength(kMinLength, c.elems)
        In(b) == SelectSeq(InOrder(c), LAMBDA h : HashOf[c.handles[h].key] % length = b)
    IN  [c EXCEPT !.length = length,
                  !.list = [b \in Buckets(length) |-> Reverse(In(b))]]

\* Replaces the handle of the same key in its chain, or lengthens the chain and
\* grows the table when it holds more handles than it has buckets.
TableInsert(c, h) ==
    LET key == c.handles[h].key
        b == Bucket(c, h)
        p == FindPointer(c, c.list[b], key)
        replaces == p <= Len(c.list[b])
        linked == [c EXCEPT !.list[b] = IF replaces THEN [@ EXCEPT ![p] = h] ELSE Append(@, h),
                            !.elems = IF replaces THEN @ ELSE @ + 1]
    IN  IF linked.elems > linked.length THEN Resize(linked) ELSE linked

TableRemove(c, key) ==
    LET h == TableLookup(c, key)
    IN  IF h = 0 THEN c
        ELSE [c EXCEPT !.list[Bucket(c, h)] = SelectSeq(@, LAMBDA e : e # h),
                       !.elems = @ - 1]

------------------------------------------------------------------------------
(* LRUCache                                                                   *)

\* The last reference runs the deleter and frees the handle.
Unref(c, h) ==
    [c EXCEPT !.handles[h].refs = @ - 1,
              !.usage = IF c.handles[h].refs = 1 THEN @ - c.handles[h].charge ELSE @]

LRU_Remove(c, h) == [c EXCEPT !.lru = SelectSeq(@, LAMBDA e : e # h)]

LRU_Append(c, h) == [c EXCEPT !.lru = Append(@, h)]

\* Does not take a reference for the caller.
LookupUnpinned(c, key) ==
    LET h == TableLookup(c, key)
    IN  IF h = 0 THEN c ELSE LRU_Append(LRU_Remove(c, h), h)

Lookup(c, key) ==
    LET h == TableLookup(c, key)
    IN  IF h = 0 THEN c
        ELSE LRU_Append(LRU_Remove([c EXCEPT !.handles[h].refs = @ + 1], h), h)

\* Stops once the newest handle would go, although the shard is over capacity.
RECURSIVE EvictAllButNewest(_)
EvictAllButNewest(c) ==
    IF c.usage > capacity_ /\ Len(c.lru) > 1
    THEN LET old == Head(c.lru)
         IN  EvictAllButNewest(Unref(TableRemove(LRU_Remove(c, old), c.handles[old].key), old))
    ELSE c

\* Drops the cache's own reference to the oldest handles until the charges fit;
\* a handle somebody else refers to keeps its charge.
RECURSIVE EvictOldest(_)
EvictOldest(c) ==
    IF c.usage > capacity_ /\ c.lru # <<>>
    THEN LET old == Head(c.lru)
         IN  EvictOldest(Unref(TableRemove(LRU_Remove(c, old), c.handles[old].key), old))
    ELSE c

\* The new handle has two references, the cache's and the caller's.
Insert(c, key, charge) ==
    LET h == Len(c.handles) + 1
        made == [c EXCEPT !.handles = Append(@, [key |-> key, charge |-> charge, refs |-> 2]),
                          !.lru = Append(@, h), !.usage = @ + charge]
        old == TableLookup(made, key)
        inserted == TableInsert(made, h)
    IN  EvictOldest(IF old = 0 THEN inserted ELSE Unref(LRU_Remove(inserted, old), old))

Erase(c, key) ==
    LET h == TableLookup(c, key)
    IN  IF h = 0 THEN c ELSE Unref(LRU_Remove(TableRemove(c, key), h), h)

------------------------------------------------------------------------------
(* The threads                                                                *)

NoHandle == [at |-> "idle"]

CacheInit ==
    /\ cache = EmptyCache
    /\ calls = [t \in Threads |-> NoHandle]

\* FindTable: a hit gives the caller the handle; a miss opens the file, with no
\* lock held, before it inserts.
FindTable(t, key) ==
    /\ calls[t] = NoHandle
    /\ cache' = Lookup(cache, key)
    /\ calls' = [calls EXCEPT ![t] =
           IF TableLookup(cache, key) = 0 THEN [at |-> "opening", key |-> key]
           ELSE [at |-> "using", handle |-> TableLookup(cache, key)]]

\* Another thread may have inserted the same file since the miss.
OpenTable(t, charge) ==
    /\ calls[t].at = "opening"
    /\ Len(cache.handles) < MaxHandles
    /\ cache' = Insert(cache, calls[t].key, charge)
    /\ calls' = [calls EXCEPT ![t] = [at |-> "using", handle |-> Len(cache.handles) + 1]]

\* The file cannot be opened: nothing is cached.
OpenFails(t) ==
    /\ calls[t].at = "opening"
    /\ calls' = [calls EXCEPT ![t] = NoHandle]
    /\ UNCHANGED cache

\* Get releases at once; an iterator when it is deleted (UnrefEntry).
Release(t) ==
    /\ calls[t].at = "using"
    /\ cache' = Unref(cache, calls[t].handle)
    /\ calls' = [calls EXCEPT ![t] = NoHandle]

Evict(key) ==
    /\ TableLookup(cache, key) # 0
    /\ cache' = Erase(cache, key)
    /\ UNCHANGED calls

CacheNext ==
    \/ \E t \in Threads :
           \/ \E key \in CacheKeys : FindTable(t, key)
           \/ \E charge \in Charges : OpenTable(t, charge)
           \/ OpenFails(t)
           \/ Release(t)
    \/ \E key \in CacheKeys : Evict(key)

CacheSpec == CacheInit /\ [][CacheNext]_cacheVars

------------------------------------------------------------------------------
(* Properties                                                                 *)

Handles == 1 .. Len(cache.handles)

Users(h) == {t \in Threads : calls[t].at = "using" /\ calls[t].handle = h}

Freed(h) == cache.handles[h].refs = 0

\* A handle's references are its users' and the cache's own, so the deleter
\* closes a table exactly when the last of them is gone: never under a thread
\* that still reads it, although another thread may have evicted, erased or
\* replaced the entry meanwhile, and never later.
ReferencesExact ==
    \A h \in Handles :
        cache.handles[h].refs = Cardinality(Users(h)) + (IF h \in ToSet(cache.lru) THEN 1 ELSE 0)

\* usage_ is what the handles that are not freed are charged, and it exceeds the
\* capacity only by handles that are in use: then the cache keeps none itself.
\* What it keeps is what Lookup finds, one handle for each key, also after
\* evictions, replacements and a resizing of the hash table.
UsageBounded ==
    /\ cache.usage = FoldLeft(LAMBDA sum, e : IF e.refs = 0 THEN sum ELSE sum + e.charge,
                              0, cache.handles)
    /\ cache.usage > capacity_ => cache.lru = <<>>
    /\ {TableLookup(cache, k) : k \in CacheKeys} \ {0} = ToSet(cache.lru)
    /\ \A h \in ToSet(cache.lru) : TableLookup(cache, cache.handles[h].key) = h
    /\ cache.elems = Len(cache.lru)

==============================================================================
