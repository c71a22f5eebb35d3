------------------------------ MODULE SkipList ------------------------------
(* The skip list under a memtable (db/skiplist.h): one writer inserts, with  *)
(* the writers' turn but not the mutex held, while a reader's iterator walks  *)
(* the same nodes without any lock.                                           *)
(*                                                                            *)
(* Memory is the sequence of the writer's stores.  A reader has a view: the   *)
(* number of stores it is sure to see.  A load of a location may return any   *)
(* store to it that is not older than the newest one in the view, so a stale  *)
(* value is a choice the model makes at every load.  An acquire load of a     *)
(* store extends the view to it (AtomicPointer's release and acquire); a      *)
(* NoBarrier load does not.  Taking the database's mutex (MutexLock) extends  *)
(* the view to the last insertion that has returned, since the writer takes   *)
(* the mutex to publish its sequence number.                                  *)
(*                                                                            *)
(* A node is named by its key.  head_ sorts before every key and NULL after,  *)
(* so that both of the code's tests of a link against a key are "<".          *)
EXTENDS Integers, Sequences, FiniteSets

CONSTANTS
    SkipKeys,     \* the keys that may be inserted: a set of positive numbers
    kMaxHeight    \* the height of head_ (12 in the code)

ASSUME SkipAssumption ==
    /\ SkipKeys \subseteq Nat \ {0}
    /\ \E k \in SkipKeys \cup {0} : \A j \in SkipKeys : j <= k
    /\ kMaxHeight \in Nat \ {0}

VARIABLES
    stores,       \* every store of the writer, in its program order
    inserting,    \* the call of Insert that runs, or Idle
    returned,     \* stores made by the calls of Insert that have returned
    view,         \* the stores the reader is sure to see
    search,       \* the search the reader is in, or Idle
    node_,        \* the reader's iterator: a key, or NULL
    passed,       \* the keys the reader's last call moved over
    wild          \* the reader has loaded a link nobody had stored

skipVars == <<stores, inserting, returned, view, search, node_, passed, wild>>

head_ == 0

NULL == 1 + CHOOSE k \in SkipKeys \cup {0} : \A j \in SkipKeys : j <= k

\* A link that was allocated and never stored: arena memory is not cleared.
Uninitialized == -1

Idle == [op |-> "idle"]

Levels == 0 .. kMaxHeight - 1

Link(n, l) == <<n, l>>

\* The location of max_height_.
MaxHeight == Link(-1, 0)

StoresTo(loc) == {i \in 1 .. Len(stores) : stores[i].loc = loc}

\* What the stores up to i leave in a location (0: no store yet).
LatestTo(loc, i) ==
    LET before == {j \in StoresTo(loc) : j <= i}
    IN  IF before = {} THEN 0 ELSE CHOOSE j \in before : \A k \in before : k <= j

ValueAt(loc, i) ==
    IF i # 0 THEN stores[i].value
    ELSE IF loc = MaxHeight THEN 1
    ELSE IF loc[1] = head_ THEN NULL
    ELSE Uninitialized

\* The writer reads its own stores.
Current(loc) == ValueAt(loc, LatestTo(loc, Len(stores)))

\* The stores a load by the reader may return the value of.
Loads(loc) ==
    {LatestTo(loc, view)} \cup {i \in StoresTo(loc) : i > view}

Keys == {k \in SkipKeys : StoresTo(Link(k, 0)) # {}}

\* The keys that are linked at the lowest level by a store of the view.
KeysOf(v) ==
    {k \in SkipKeys : \E i \in 1 .. v : /\ stores[i].loc[2] = 0
                                        /\ stores[i].loc # MaxHeight
                                        /\ stores[i].value = k}

SkipInit ==
    /\ stores = <<>>
    /\ inserting = Idle
    /\ returned = 0
    /\ view = 0
    /\ search = Idle
    /\ node_ = NULL
    /\ passed = {}
    /\ wild = FALSE

------------------------------------------------------------------------------
(* Insert                                                                     *)

\* FindGreaterOrEqual fills prev[level] with the last node before key at every
\* level the list has; the levels above it start at head_.
Prev(key, l) ==
    LET linked == {n \in {head_} \cup Keys :
                      /\ n < key
                      /\ n = head_ \/ StoresTo(Link(n, l)) # {}}
    IN  CHOOSE n \in linked : \A o \in linked : o <= n

\* RandomHeight may return any height; a new greatest height is stored without
\* a barrier before any node is linked at it.
SkipInsert(key, height) ==
    /\ inserting = Idle
    /\ key \notin Keys
    /\ inserting' = [op |-> "insert", key |-> key, height |-> height, level |-> 0]
    /\ stores' = IF height > Current(MaxHeight)
                 THEN Append(stores, [loc |-> MaxHeight, value |-> height])
                 ELSE stores
    /\ UNCHANGED <<returned, view, search, node_, passed, wild>>

\* Publishes the node at a level before its own link there is stored.
LinkNodePublishedFirst ==
    /\ inserting # Idle
    /\ LET l == inserting.level
           prev == Prev(inserting.key, l)
           last == l = inserting.height - 1
       IN  /\ stores' = stores \o
                  << [loc |-> Link(prev, l), value |-> inserting.key],
                     [loc |-> Link(inserting.key, l), value |-> Current(Link(prev, l))] >>
           /\ inserting' = IF last THEN Idle ELSE [inserting EXCEPT !.level = l + 1]
           /\ returned' = IF last THEN Len(stores') ELSE returned
    /\ UNCHANGED <<view, search, node_, passed, wild>>

\* One turn of the linking loop: the node's own link first, without a barrier,
\* then the store of prev's link that publishes the node at this level.
LinkNode ==
    /\ inserting # Idle
    /\ LET l == inserting.level
           prev == Prev(inserting.key, l)
           last == l = inserting.height - 1
       IN  /\ stores' = stores \o
                  << [loc |-> Link(inserting.key, l), value |-> Current(Link(prev, l))],
                     [loc |-> Link(prev, l), value |-> inserting.key] >>
           /\ inserting' = IF last THEN Idle ELSE [inserting EXCEPT !.level = l + 1]
           /\ returned' = IF last THEN Len(stores') ELSE returned
    /\ UNCHANGED <<view, search, node_, passed, wild>>

------------------------------------------------------------------------------
(* The reader's iterator                                                      *)

\* The reader takes and leaves the database's mutex between two calls.
MutexLock ==
    /\ search = Idle
    /\ view < returned
    /\ view' = returned
    /\ passed' = {}
    /\ UNCHANGED <<stores, inserting, returned, search, node_, wild>>

\* What a load of Next(l) of node n may return, and the view after it.
Next(n, l) ==
    { [node |-> ValueAt(Link(n, l), i), view |-> IF i > view THEN i ELSE view] :
          i \in Loads(Link(n, l)) }

\* Every search starts at head_, on a height that may be an old one.
Begin(op, key) ==
    /\ search = Idle
    /\ \E i \in Loads(MaxHeight) :
           search' = [op |-> op, key |-> key, x |-> head_,
                      level |-> ValueAt(MaxHeight, i) - 1]
    /\ passed' = {}
    /\ UNCHANGED <<stores, inserting, returned, view, node_, wild>>

Seek(target) == Begin("FindGreaterOrEqual", target)

IterPrev == node_ # NULL /\ Begin("FindLessThan", node_)

SeekToLast == Begin("FindLessThan", NULL)

Between(lo, hi) == {k \in SkipKeys : lo < k /\ k < hi}

\* Where the call ends, and the keys it has moved over.
Finish(next) ==
    /\ search' = Idle
    /\ IF search.op = "FindGreaterOrEqual"
       THEN /\ node_' = next
            /\ passed' = Between(search.key - 1, next)
       ELSE /\ node_' = IF search.x = head_ THEN NULL ELSE search.x
            /\ passed' = Between(search.x, search.key)

\* Treats a node equal to the key as before it.
SearchStepPastEqual ==
    /\ search # Idle
    /\ \E r \in Next(search.x, search.level) :
        /\ view' = r.view
        /\ wild' = (wild \/ r.node = Uninitialized)
        /\ \/ /\ r.node <= search.key /\ r.node # NULL
              /\ r.node # Uninitialized
              /\ search' = [search EXCEPT !.x = r.node]
              /\ UNCHANGED <<node_, passed>>
           \/ /\ r.node > search.key \/ r.node = NULL \/ r.node = Uninitialized
              /\ search.level > 0
              /\ search' = [search EXCEPT !.level = @ - 1]
              /\ UNCHANGED <<node_, passed>>
           \/ /\ r.node > search.key \/ r.node = NULL
              /\ search.level = 0
              /\ Finish(r.node)
    /\ UNCHANGED <<stores, inserting, returned>>

\* One turn of the loop of FindGreaterOrEqual, FindLessThan or FindLast (whose
\* key is NULL): along the level, down a level, or to the end.
SearchStep ==
    /\ search # Idle
    /\ \E r \in Next(search.x, search.level) :
        /\ view' = r.view
        /\ wild' = (wild \/ r.node = Uninitialized)
        /\ \/ /\ r.node < search.key
              /\ r.node # Uninitialized
              /\ search' = [search EXCEPT !.x = r.node]
              /\ UNCHANGED <<node_, passed>>
           \/ /\ r.node >= search.key \/ r.node = Uninitialized
              /\ search.level > 0
              /\ search' = [search EXCEPT !.level = @ - 1]
              /\ UNCHANGED <<node_, passed>>
           \/ /\ r.node >= search.key
              /\ search.level = 0
              /\ Finish(r.node)
    /\ UNCHANGED <<stores, inserting, returned>>

\* Next and SeekToFirst follow one link of the lowest level.
Follow(from) ==
    /\ search = Idle
    /\ \E r \in Next(from, 0) :
        /\ view' = r.view
        /\ wild' = (wild \/ r.node = Uninitialized)
        /\ node_' = IF r.node = Uninitialized THEN NULL ELSE r.node
        /\ passed' = Between(from, r.node)
    /\ UNCHANGED <<stores, inserting, returned, search>>

IterNext == node_ # NULL /\ Follow(node_)

SeekToFirst == Follow(head_)

SkipNext ==
    \/ \E k \in SkipKeys, h \in 1 .. kMaxHeight : SkipInsert(k, h)
    \/ LinkNode
    \/ MutexLock
    \/ \E k \in SkipKeys : Seek(k)
    \/ SeekToFirst
    \/ SeekToLast
    \/ IterNext
    \/ IterPrev
    \/ SearchStep

SkipSpec == SkipInit /\ [][SkipNext]_skipVars

------------------------------------------------------------------------------
(* Properties                                                                 *)

\* A reader only ever follows links that were stored: a node it can reach at a
\* level has its links at that level and below, whatever mixture of old and
\* new links it has seen ("observes a fully initialized version of the
\* returned Node").
LinksInitialized == ~wild

\* No call of the iterator moves over a key the reader is sure to see: one whose
\* Insert had returned when the reader last took the mutex, or that was linked
\* before a link the reader has loaded.  A search may start from an old height
\* and mix links of before and after a concurrent Insert.
NothingPassedOver == search = Idle => passed \cap KeysOf(view) = {}

==============================================================================
