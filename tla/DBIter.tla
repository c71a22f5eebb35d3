------------------------------- MODULE DBIter -------------------------------
(***************************************************************************)
(* The iterators of LevelDB, from the sources up to the one the key        *)
(* queries use: TwoLevelIterator over the blocks of a table or the files   *)
(* of a level, MergingIterator over all sources, and DBIter, which hides   *)
(* deleted and overwritten entries and those newer than its sequence.      *)
(* The memtable it reads goes on growing under it.                         *)
(*                                                                         *)
(* Source 1 is the memtable, source 2 a table of level 0 with its blocks,  *)
(* source 3 a level with its files.  An entry is <<key, sequence, type>>;  *)
(* the sequence stands for the value.  A user key is an odd number, the    *)
(* even ones are the separators of an index block.  A block whose read     *)
(* fails gives an iterator without entries.                                *)
(***************************************************************************)
EXTENDS Integers, SequencesExt

CONSTANTS
  UserKeys,     \* user keys: odd numbers
  NONE,         \* a position that is not Valid()
  Entries,      \* bound: entries when the iterator is made
  Inserts       \* bound: entries added to the memtable afterwards

ASSUME IterAssumption ==
  /\ \A k \in UserKeys : k \in Nat /\ k % 2 = 1
  /\ Entries \in Nat /\ Inserts \in Nat

VARIABLES
  mem,          \* entries of the memtable
  src,          \* blocks, index keys and bad blocks of sources 2 and 3
  db            \* the DBIter with the iterators below it

dbIterVars == <<mem, src, db>>

kTypeDeletion == 0
kTypeValue == 1
MaxSequence == Entries + Inserts + 1
Types == {kTypeDeletion, kTypeValue}

(* InternalKeyComparator: user keys go up, sequences go down.              *)
Before(a, b) == a[1] < b[1] \/ (a[1] = b[1] /\ a[2] > b[2])
FirstOf(S) == IF S = {} THEN NONE
              ELSE CHOOSE e \in S : \A f \in S : f = e \/ Before(e, f)
LastOf(S) == IF S = {} THEN NONE
             ELSE CHOOSE e \in S : \A f \in S : f = e \/ Before(f, e)
AtOrAfter(S, t) == {e \in S : ~Before(e, t)}
-----------------------------------------------------------------------------
(* TwoLevelIterator.  index 0 is an index iterator that is not Valid(),    *)
(* and no data iterator; pos is the data iterator's entry.                 *)

NoChild == [index |-> 0, pos |-> NONE, err |-> FALSE]
Block(c, i) == IF i = 0 \/ i \in src[c].bad THEN {} ELSE src[c].blocks[i]

(* InitDataBlock, and the data iterator put at an entry of block i; the    *)
(* error of a data iterator is kept when it is replaced.                   *)
InitDataBlock(c, it, i, entry) ==
  [index |-> i, pos |-> entry, err |-> it.err \/ i \in src[c].bad]
AtFirst(c, it, i) == InitDataBlock(c, it, i, FirstOf(Block(c, i)))
AtLast(c, it, i) == InitDataBlock(c, it, i, LastOf(Block(c, i)))

RECURSIVE SkipForward(_, _)
SkipForward(c, it) ==
  IF it.pos # NONE \/ it.index = 0 THEN it
  ELSE SkipForward(c, AtFirst(c, it,
         IF it.index = Len(src[c].blocks) THEN 0 ELSE it.index + 1))

RECURSIVE SkipBackward(_, _)
SkipBackward(c, it) ==
  IF it.pos # NONE \/ it.index = 0 THEN it
  ELSE SkipBackward(c, AtLast(c, it, it.index - 1))

(* The first block or file whose index key is at or after the target: the  *)
(* binary search of FindFile and of Block::Iter::Seek.                     *)
FindFile(c, t) ==
  LET I == {i \in DOMAIN src[c].keys : ~Before(src[c].keys[i], t)}
  IN  IF I = {} THEN 0 ELSE Min(I)

TwoLevelSeek(c, it, t) ==
  LET i == FindFile(c, t)
  IN  SkipForward(c, InitDataBlock(c, it, i, FirstOf(AtOrAfter(Block(c, i), t))))
TwoLevelSeekToFirst(c, it) ==
  SkipForward(c, AtFirst(c, it, Min({1, Len(src[c].blocks)})))
TwoLevelSeekToLast(c, it) ==
  SkipBackward(c, AtLast(c, it, Len(src[c].blocks)))
EntryAfter(S, e) == FirstOf({f \in S : Before(e, f)})
EntryBefore(S, e) == LastOf({f \in S : Before(f, e)})
TwoLevelNext(c, it) ==
  SkipForward(c, [it EXCEPT !.pos = EntryAfter(Block(c, it.index), @)])
TwoLevelPrev(c, it) ==
  SkipBackward(c, [it EXCEPT !.pos = EntryBefore(Block(c, it.index), @)])

(* A memtable iterator stands on a node, whatever is inserted around it.   *)
MemAt(it, e) == [it EXCEPT !.pos = e]
ChildSeek(c, it, t) ==
  IF c = 1 THEN MemAt(it, FirstOf(AtOrAfter(mem, t))) ELSE TwoLevelSeek(c, it, t)
ChildFirst(c, it) ==
  IF c = 1 THEN MemAt(it, FirstOf(mem)) ELSE TwoLevelSeekToFirst(c, it)
ChildLast(c, it) ==
  IF c = 1 THEN MemAt(it, LastOf(mem)) ELSE TwoLevelSeekToLast(c, it)
ChildNext(c, it) ==
  IF c = 1 THEN MemAt(it, EntryAfter(mem, it.pos)) ELSE TwoLevelNext(c, it)
ChildPrev(c, it) ==
  IF c = 1 THEN MemAt(it, EntryBefore(mem, it.pos)) ELSE TwoLevelPrev(c, it)
-----------------------------------------------------------------------------
(* MergingIterator: m.current 0 is NULL, that is not Valid().              *)

Valids(kids) == {c \in DOMAIN kids : kids[c].pos # NONE}
FindSmallest(kids) ==
  LET V == Valids(kids)
  IN  IF V = {} THEN 0
      ELSE CHOOSE c \in V : kids[c].pos = FirstOf({kids[d].pos : d \in V})
FindLargest(kids) ==
  LET V == Valids(kids)
  IN  IF V = {} THEN 0
      ELSE CHOOSE c \in V : kids[c].pos = LastOf({kids[d].pos : d \in V})

FacingForward(kids) == [kids |-> kids, current |-> FindSmallest(kids), forward |-> TRUE]
FacingBack(kids) == [kids |-> kids, current |-> FindLargest(kids), forward |-> FALSE]
MKey(m) == m.kids[m.current].pos
MValid(m) == m.current # 0

MSeekToFirst(m) == FacingForward([c \in DOMAIN m.kids |-> ChildFirst(c, m.kids[c])])
MSeekToLast(m) == FacingBack([c \in DOMAIN m.kids |-> ChildLast(c, m.kids[c])])
MSeek(m, t) == FacingForward([c \in DOMAIN m.kids |-> ChildSeek(c, m.kids[c], t)])

(* A change of direction first puts the other children on the other side   *)
(* of the current key.                                                     *)
AfterKey(c, it, key) ==
  LET s == ChildSeek(c, it, key) IN IF s.pos = key THEN ChildNext(c, s) ELSE s
BeforeKey(c, it, key) ==
  LET s == ChildSeek(c, it, key)
  IN  IF s.pos # NONE THEN ChildPrev(c, s) ELSE ChildLast(c, s)
Turned(m, forward) ==
  [c \in DOMAIN m.kids |->
     IF c = m.current THEN m.kids[c]
     ELSE IF forward THEN AfterKey(c, m.kids[c], MKey(m))
     ELSE BeforeKey(c, m.kids[c], MKey(m))]

MNext(m) ==
  LET kids == IF m.forward THEN m.kids ELSE Turned(m, TRUE)
  IN  FacingForward([kids EXCEPT ![m.current] = ChildNext(m.current, @)])

(* Mutant of MPrev: the other children keep their places.                  *)
MPrevUnturned(m) ==
  FacingBack([m.kids EXCEPT ![m.current] = ChildPrev(m.current, @)])
MPrev(m) ==
  LET kids == IF ~m.forward THEN m.kids ELSE Turned(m, FALSE)
  IN  FacingBack([kids EXCEPT ![m.current] = ChildPrev(m.current, @)])
-----------------------------------------------------------------------------
(* DBIter: d.savedKey and d.savedValue are what it shows when it moves     *)
(* backwards; "" is a cleared string, here 0.                              *)

Visible(d, e) == e[2] <= d.sequence
NotValid(d) == [d EXCEPT !.valid = FALSE, !.savedKey = 0]

RECURSIVE FindNextUserEntry(_, _, _)
FindNextUserEntry(d, skipping, skip) ==
  LET e == MKey(d.m)
      on(s, k) == FindNextUserEntry([d EXCEPT !.m = MNext(@)], s, k)
  IN  IF ~MValid(d.m) THEN NotValid(d)
      ELSE IF ~Visible(d, e) THEN on(skipping, skip)
      ELSE IF e[3] = kTypeDeletion THEN on(TRUE, e[1])
      ELSE IF skipping /\ e[1] <= skip THEN on(skipping, skip)
      ELSE [d EXCEPT !.valid = TRUE, !.savedKey = 0]

RECURSIVE FindPrevUserEntry(_, _)
FindPrevUserEntry(d, type) ==
  LET e == MKey(d.m)
      back == [d EXCEPT !.m = MPrev(@)]
      stops == type # kTypeDeletion /\ Visible(d, e) /\ e[1] < d.savedKey
  IN  IF MValid(d.m) /\ ~stops
      THEN IF ~Visible(d, e) THEN FindPrevUserEntry(back, type)
           ELSE IF e[3] = kTypeDeletion
           THEN FindPrevUserEntry([back EXCEPT !.savedKey = 0, !.savedValue = 0], e[3])
           ELSE FindPrevUserEntry(
                  [back EXCEPT !.savedKey = e[1], !.savedValue = e[2]], e[3])
      ELSE IF type = kTypeDeletion
      THEN [NotValid(d) EXCEPT !.savedValue = 0, !.forward = TRUE]
      ELSE [d EXCEPT !.valid = TRUE]

DBSeekToFirst ==
  /\ db' = LET d == [db EXCEPT !.forward = TRUE, !.savedValue = 0,
                               !.m = MSeekToFirst(@), !.called = <<"SeekToFirst", 0>>]
           IN  IF MValid(d.m) THEN FindNextUserEntry(d, FALSE, 0)
               ELSE [d EXCEPT !.valid = FALSE]
  /\ UNCHANGED <<mem, src>>

DBSeekToLast ==
  /\ db' = FindPrevUserEntry([db EXCEPT !.forward = FALSE, !.savedValue = 0,
                                        !.m = MSeekToLast(@),
                                        !.called = <<"SeekToLast", 0>>], kTypeDeletion)
  /\ UNCHANGED <<mem, src>>

(* The target is the key at the iterator's own sequence, so that newer     *)
(* entries of the key are passed over.                                     *)
DBSeek ==
  /\ \E t \in UserKeys :
       db' = LET d == [db EXCEPT !.forward = TRUE, !.savedValue = 0,
                                 !.m = MSeek(@, <<t, db.sequence>>),
                                 !.called = <<"Seek", t>>]
             IN  IF MValid(d.m) THEN FindNextUserEntry(d, FALSE, 0)
                 ELSE [d EXCEPT !.valid = FALSE, !.savedKey = t]
  /\ UNCHANGED <<mem, src>>

(* Backwards, the iterator below stands before all entries of the key.     *)
DBNext ==
  /\ db.valid
  /\ LET now == [db EXCEPT !.called = <<"Next", 0>>]
         m == IF MValid(db.m) THEN MNext(db.m) ELSE MSeekToFirst(db.m)
         turned == [now EXCEPT !.forward = TRUE, !.m = m]
     IN  db' = IF db.forward THEN FindNextUserEntry(now, TRUE, MKey(db.m)[1])
               ELSE IF MValid(m) THEN FindNextUserEntry(turned, TRUE, db.savedKey)
               ELSE NotValid(turned)
  /\ UNCHANGED <<mem, src>>

RECURSIVE BackOut(_, _)
BackOut(m, key) ==
  LET p == MPrev(m)
  IN  IF ~MValid(p) \/ MKey(p)[1] < key THEN p ELSE BackOut(p, key)

DBPrev ==
  /\ db.valid
  /\ LET now == [db EXCEPT !.called = <<"Prev", 0>>]
         out == [now EXCEPT !.m = BackOut(@, MKey(@)[1]), !.savedKey = MKey(db.m)[1]]
     IN  db' = IF ~db.forward THEN FindPrevUserEntry(now, kTypeDeletion)
               ELSE IF MValid(out.m)
               THEN FindPrevUserEntry([out EXCEPT !.forward = FALSE], kTypeDeletion)
               ELSE [NotValid(out) EXCEPT !.savedValue = 0]
  /\ UNCHANGED <<mem, src>>

(* A writer adds to the memtable; its sequence is above the iterator's.    *)
DBInsert ==
  LET seq == 1 + Max({db.sequence} \cup {e[2] : e \in mem})
  IN  /\ seq <= db.sequence + Inserts
      /\ \E k \in UserKeys, t \in Types : mem' = mem \cup {<<k, seq, t>>}
      /\ UNCHANGED <<src, db>>
-----------------------------------------------------------------------------
(* The ways to cut the entries S into consecutive blocks.                  *)
Sorted(S) == SetToSortSeq(S, Before)
Cuts(S) ==
  {[i \in 1 .. Cardinality(C) |->
      LET c == Sorted(C)
      IN  {e \in S : /\ i > 1 => Before(c[i - 1], e)
                     /\ ~Before(c[i], e)}]
   : C \in {D \in SUBSET S : S # {} => LastOf(S) \in D}}

(* TableBuilder: the index key of a block is shortened to a separator      *)
(* before the next block's first key when there is one, and to a successor *)
(* for the last block.  The index key of a file is its largest key.        *)
Separators(blocks) ==
  [i \in DOMAIN blocks |->
     LET last == LastOf(blocks[i])
     IN  IF i < Len(blocks) => last[1] < FirstOf(blocks[i + 1])[1]
         THEN <<last[1] + 1, MaxSequence>> ELSE last]
Largests(blocks) == [i \in DOMAIN blocks |-> LastOf(blocks[i])]
Sources(S, table) ==
  UNION {{[blocks |-> b, keys |-> IF table THEN Separators(b) ELSE Largests(b), bad |-> w] :
            w \in {{}} \cup {{i} : i \in DOMAIN b}} : b \in Cuts(S)}

NewDBIterator(sequence) ==
  [m |-> [kids |-> [c \in 1 .. 3 |-> NoChild], current |-> 0, forward |-> TRUE],
   sequence |-> sequence, forward |-> TRUE, valid |-> FALSE,
   savedKey |-> 0, savedValue |-> 0, called |-> <<"none", 0>>]

(* The history of writes is split by age: oldest in the level, then the    *)
(* table, then the memtable (DBImpl::NewInternalIterator).                 *)
DBIterInit ==
  \E h \in [1 .. Entries -> UserKeys \X Types], i, j \in 0 .. Entries :
    LET part(a, b) == {<<h[s][1], s, h[s][2]>> : s \in a .. b}
    IN  /\ i <= j
        /\ mem = part(j + 1, Entries)
        /\ \E t \in Sources(part(i + 1, j), TRUE),
              f \in Sources(part(1, i), FALSE) :
             /\ t.bad = {} \/ f.bad = {}
             /\ src = (2 :> t @@ 3 :> f)
        /\ db = NewDBIterator(Entries)

DBIterNext ==
  DBSeekToFirst \/ DBSeekToLast \/ DBSeek \/ DBNext \/ DBPrev \/ DBInsert
DBIterSpec == DBIterInit /\ [][DBIterNext]_dbIterVars
-----------------------------------------------------------------------------
(* What the caller sees: key() and value(), and status().                  *)
Shown ==
  IF ~db.valid THEN NONE
  ELSE IF db.forward THEN <<MKey(db.m)[1], MKey(db.m)[2]>>
  ELSE <<db.savedKey, db.savedValue>>
StatusOk == \A c \in DOMAIN db.m.kids : ~db.m.kids[c].err

AllEntries == mem \cup UNION {UNION Range(src[c].blocks) : c \in 2 .. 3}
Newest(k) == FirstOf({e \in AllEntries : e[1] = k /\ Visible(db, e)})
LiveKeys == {k \in UserKeys : Newest(k) # NONE /\ Newest(k)[3] = kTypeValue}

(* An iterator of the database is a cursor on the keys and values at its   *)
(* creation: for every way the entries lie in memtable, table and level,   *)
(* every order of Seek, Next and Prev with any change of direction, and    *)
(* any writes meanwhile (db_iter.cc, merger.cc, two_level_iterator.cc).    *)
(* A block that cannot be read is skipped, but then status() says so.      *)
Cursor == INSTANCE KeyCursor WITH
  Keys <- UserKeys, Values <- 1 .. Entries,
  live <- [k \in LiveKeys |-> Newest(k)[2]],
  at <- Shown, called <- db.called, ok <- StatusOk
IteratesSnapshot == Cursor!CursorSpec

=============================================================================
