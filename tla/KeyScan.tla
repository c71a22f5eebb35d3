------------------------------ MODULE KeyScan -------------------------------
(***************************************************************************)
(* The key queries of SnappyDB: the scans of findKeys, findKeysBetween,    *)
(* countKeys and countKeysBetween, and the KeyIterator.  Each works on a   *)
(* LevelDB iterator, that is on the set of keys at its creation, while     *)
(* other threads go on writing.  One action is one turn of a native loop.  *)
(*                                                                         *)
(* A behaviour is one query, since queries share nothing but the store.    *)
(* A key is a sequence of bytes.  jint is scaled to MaxInt; the sum of two *)
(* jints that does not fit is undefined in C++: it wraps or it does not.   *)
(***************************************************************************)
EXTENDS Integers, Sequences, FiniteSets

CONSTANTS
  Keys,         \* the keys that may be in the store
  Targets,      \* the prefixes and range ends that callers ask for
  null,         \* Java's null
  MaxInt,       \* Integer.MAX_VALUE
  Pages,        \* the offsets and limits callers give
  Maxes,        \* the sizes of the batches of an iterator
  MaxWrites     \* bound: puts and deletes

ASSUME ScanAssumption ==
  /\ MaxInt \in Nat /\ MaxWrites \in Nat
  /\ Maxes \subseteq 0 .. MaxInt
  /\ \A p \in Pages : {p.offset, p.limit} \subseteq 0 - MaxInt .. MaxInt
  /\ Keys \cup Targets \subseteq Seq(Nat) /\ IsFiniteSet(Keys)
  /\ null \notin Keys \cup Targets

VARIABLES
  store,        \* the keys of the database
  scan,         \* the running or last scan
  keyIter,      \* the KeyIterator and the native iterator behind it
  writes        \* counter of the bound

scanVars == <<store, scan, keyIter, writes>>

(* The order of leveldb::Slice::compare and its starts_with.               *)
Less(a, b) ==
  \E i \in 1 .. Len(b) :
    /\ i <= Len(a) + 1
    /\ SubSeq(a, 1, i - 1) = SubSeq(b, 1, i - 1)
    /\ i <= Len(a) => a[i] < b[i]
LessEq(a, b) == a = b \/ Less(a, b)
StartsWith(k, p) == Len(p) <= Len(k) /\ SubSeq(k, 1, Len(p)) = p

(* Positions of a native iterator on the keys s; null is not Valid().      *)
FirstKey(s) == IF s = {} THEN null ELSE CHOOSE k \in s : \A j \in s : LessEq(k, j)
LastKey(s) == IF s = {} THEN null ELSE CHOOSE k \in s : \A j \in s : LessEq(j, k)
Seek(s, p) == FirstKey({k \in s : LessEq(p, k)})
NextKey(s, k) == FirstKey({j \in s : Less(k, j)})
PrevKey(s, k) == LastKey({j \in s : Less(j, k)})
-----------------------------------------------------------------------------
(* findKeys(prefix, offset, limit) and its variants.                       *)

NoScan == [at |-> "none"]

ScanInit ==
  /\ store \in SUBSET Keys
  /\ scan = NoScan /\ keyIter = [at |-> "none"] /\ writes = 0

(* offset + limit in jint arithmetic.                                      *)
PageEnd(offset, limit) ==
  IF offset + limit <= MaxInt THEN {offset + limit}
  ELSE {offset + limit, offset + limit - 2 * (MaxInt + 1)}

(* The checks of DBImpl.java; a call that fails one throws and does        *)
(* nothing.  checkRange looks at its first argument twice.                 *)
checkArgNotEmpty(arg) == arg # <<>>
checkPrefix(prefix) == checkArgNotEmpty(prefix)
checkRange(startPrefix, endPrefix) ==
  checkArgNotEmpty(startPrefix) /\ checkArgNotEmpty(startPrefix)
checkOffsetLimit(page) == page.offset >= 0 /\ page.limit > 0

(* A scan reads what is in the store when its iterator is made.            *)
StartScan(from, to, byPrefix, page, bound) ==
  /\ scan.at = "none" /\ keyIter.at = "none"
  /\ scan' = [at |-> "loop", snap |-> store, from |-> from, to |-> to,
              byPrefix |-> byPrefix, page |-> page, bound |-> bound,
              cursor |-> Seek(store, from), count |-> 0, result |-> <<>>]
  /\ UNCHANGED <<store, keyIter, writes>>

FindKeys ==
  \E p \in Targets, page \in Pages : \E bound \in PageEnd(page.offset, page.limit) :
    /\ checkPrefix(p) /\ checkOffsetLimit(page)
    /\ StartScan(p, p, TRUE, page, bound)

FindKeysBetween ==
  \E p, q \in Targets, page \in Pages : \E bound \in PageEnd(page.offset, page.limit) :
    /\ checkRange(p, q) /\ checkOffsetLimit(page)
    /\ StartScan(p, q, FALSE, page, bound)

(* The counts have no offset and no limit.                                 *)
NoPage == [offset |-> 0, limit |-> 2 * MaxInt]
CountKeys ==
  \E p \in Targets :
    checkPrefix(p) /\ StartScan(p, p, TRUE, NoPage, 2 * MaxInt)
CountKeysBetween ==
  \E p, q \in Targets :
    checkRange(p, q) /\ StartScan(p, q, FALSE, NoPage, 2 * MaxInt)

(* The condition of the loop, and its body.                                *)
Wanted(s, k) == IF s.byPrefix THEN StartsWith(k, s.to) ELSE LessEq(k, s.to)

ScanGoesOn ==
  /\ scan.count < scan.bound /\ scan.cursor # null /\ Wanted(scan, scan.cursor)

(* Mutant of ScanStep: the offset is one too large.                        *)
ScanStepLate ==
  /\ scan.at = "loop" /\ ScanGoesOn
  /\ scan' = [scan EXCEPT
       !.result = IF scan.count > scan.page.offset
                  THEN Append(@, scan.cursor) ELSE @,
       !.count = @ + 1,
       !.cursor = NextKey(scan.snap, scan.cursor)]
  /\ UNCHANGED <<store, keyIter, writes>>
ScanStep ==
  /\ scan.at = "loop" /\ ScanGoesOn
  /\ scan' = [scan EXCEPT
       !.result = IF scan.count >= scan.page.offset
                  THEN Append(@, scan.cursor) ELSE @,
       !.count = @ + 1,
       !.cursor = NextKey(scan.snap, scan.cursor)]
  /\ UNCHANGED <<store, keyIter, writes>>

ScanEnds ==
  /\ scan.at = "loop" /\ ~ScanGoesOn
  /\ scan' = [scan EXCEPT !.at = "done"]
  /\ UNCHANGED <<store, keyIter, writes>>
-----------------------------------------------------------------------------
(* Mutant of Start: a reverse iterator stays after from.                   *)
StartAfter(s, from, reverse) ==
  LET k == IF from # null THEN Seek(s, from)
           ELSE IF reverse THEN LastKey(s) ELSE FirstKey(s)
  IN  IF reverse /\ k = null THEN LastKey(s) ELSE k

(* __findKeysIterator: where a new iterator stands.  A reverse one starts  *)
(* at the last key that is not after from.                                 *)
Start(s, from, reverse) ==
  LET k == IF from # null THEN Seek(s, from)
           ELSE IF reverse THEN LastKey(s) ELSE FirstKey(s)
  IN  IF ~reverse THEN k
      ELSE IF k = null THEN LastKey(s)
      ELSE IF from # null /\ Less(from, k) THEN PrevKey(s, k)
      ELSE k

(* Mutant of IsValid: the end of the range is not looked at.               *)
IsValidAnywhere(i) == i.cursor # null

(* __iteratorIsValid, and the condition of the loop of __iteratorNextArray.*)
InRange(k, end, reverse) ==
  end # null => IF reverse THEN LessEq(end, k) ELSE LessEq(k, end)

IsValid(i) == i.cursor # null /\ InRange(i.cursor, i.end, i.reverse)

(* allKeysIterator, findKeysIterator, findKeysBetweenIterator and their    *)
(* reverse variants: from and end may be null.                             *)
NewKeyIterator(from, end, reverse) ==
  LET i == [at |-> "open", snap |-> store, from |-> from, end |-> end,
            reverse |-> reverse, cursor |-> Start(store, from, reverse),
            isNextValid |-> FALSE, left |-> 0, delivered |-> <<>>]
  IN  /\ scan.at = "none" /\ keyIter.at = "none"
      /\ keyIter' = [i EXCEPT !.isNextValid = IsValid(i)]
      /\ UNCHANGED <<store, scan, writes>>

(* next(max): __iteratorNextArray collects up to max keys ...              *)
NextArray(max) ==
  /\ keyIter.at = "open" /\ keyIter.isNextValid
  /\ keyIter' = [keyIter EXCEPT !.at = "next", !.left = max]
  /\ UNCHANGED <<store, scan, writes>>

NextGoesOn == keyIter.left > 0 /\ IsValid(keyIter)

(* Mutant of NextStep: the iterator does not move.                         *)
NextStepStays ==
  /\ keyIter.at = "next" /\ NextGoesOn
  /\ keyIter' = [keyIter EXCEPT !.left = @ - 1]
  /\ UNCHANGED <<store, scan, writes>>

NextStep ==
  /\ keyIter.at = "next" /\ NextGoesOn
  /\ keyIter' = [keyIter EXCEPT
       !.delivered = Append(@, keyIter.cursor), !.left = @ - 1,
       !.cursor = IF keyIter.reverse THEN PrevKey(keyIter.snap, keyIter.cursor)
                  ELSE NextKey(keyIter.snap, keyIter.cursor)]
  /\ UNCHANGED <<store, scan, writes>>

(* ... and then isNextValid is asked again, and the iterator closed when   *)
(* it is at its end: "finished" is closed by next, "closed" by its caller. *)
NextEnds ==
  /\ keyIter.at = "next" /\ ~NextGoesOn
  /\ keyIter' = [keyIter EXCEPT
       !.at = IF IsValid(keyIter) THEN "open" ELSE "finished",
       !.isNextValid = IsValid(keyIter), !.left = 0]
  /\ UNCHANGED <<store, scan, writes>>

CloseKeyIterator ==
  /\ keyIter.at = "open"
  /\ keyIter' = [keyIter EXCEPT !.at = "closed", !.isNextValid = FALSE]
  /\ UNCHANGED <<store, scan, writes>>

(* Another thread puts or deletes a key.                                   *)
PutOrDelete(k) ==
  /\ writes < MaxWrites /\ writes' = writes + 1
  /\ store' \in {store \cup {k}, store \ {k}}
  /\ UNCHANGED <<scan, keyIter>>

IteratorClosed == keyIter.at \in {"finished", "closed"}

Stopped == (scan.at = "done" \/ IteratorClosed) /\ UNCHANGED scanVars

ScanNext ==
  \/ FindKeys \/ FindKeysBetween \/ CountKeys \/ CountKeysBetween
  \/ ScanStep \/ ScanEnds
  \/ \E from, end \in Targets \cup {null}, reverse \in BOOLEAN :
       NewKeyIterator(from, end, reverse)
  \/ \E max \in Maxes : NextArray(max)
  \/ NextStep \/ NextEnds \/ CloseKeyIterator
  \/ \E k \in Keys : PutOrDelete(k)
  \/ Stopped

ScanSpec == ScanInit /\ [][ScanNext]_scanVars

(* A caller that works through an iterator, as byBatch does.               *)
IteratorLoop == (\E max \in Maxes : NextArray(max)) \/ NextStep \/ NextEnds
FairScanSpec == ScanSpec /\ WF_scanVars(IteratorLoop)
-----------------------------------------------------------------------------
(* The keys of s in order, ascending or descending, whose position counted *)
(* from 0 is at least lo and below hi.                                     *)
Position(k, s, reverse) ==
  Cardinality({j \in s : IF reverse THEN Less(k, j) ELSE Less(j, k)})

IsListing(seq, s, reverse, lo, hi) ==
  /\ {seq[i] : i \in DOMAIN seq} = {k \in s : Position(k, s, reverse) \in lo .. hi - 1}
  /\ \A i, j \in DOMAIN seq :
       i < j => IF reverse THEN Less(seq[j], seq[i]) ELSE Less(seq[i], seq[j])

(* findKeys, findKeysBetween and the counts: the result is the page of the *)
(* sorted matching keys that offset and limit name, as of the start of the *)
(* scan, whatever is written meanwhile; the counts count all of them.      *)
ScanExact ==
  scan.at = "done" =>
    LET all == {k \in scan.snap : LessEq(scan.from, k) /\ Wanted(scan, k)}
    IN  IsListing(scan.result, all, FALSE, scan.page.offset,
                  scan.page.offset + scan.page.limit)

(* KeyIteratorImpl.next: the batches, put together, are the matching keys  *)
(* of the snapshot from the first on, none lost or repeated between two    *)
(* batches, and all of them when the iterator has closed itself.           *)
Matching(i) == {k \in i.snap :
  /\ i.from # null => IF i.reverse THEN LessEq(k, i.from) ELSE LessEq(i.from, k)
  /\ InRange(k, i.end, i.reverse)}

IteratorExact ==
  keyIter.at # "none" =>
    LET sofar == keyIter.delivered
    IN  /\ IsListing(sofar, Matching(keyIter), keyIter.reverse, 0, Len(sofar))
        /\ keyIter.cursor # null => keyIter.cursor \notin {sofar[n] : n \in DOMAIN sofar}
        /\ keyIter.at = "finished" => Len(sofar) = Cardinality(Matching(keyIter))

(* KeyIteratorImpl.hasNext: it is true exactly while keys are left, so     *)
(* that next neither throws nor returns an empty batch, and next has       *)
(* closed an iterator that has delivered its last key.                     *)
HasNextTells ==
  keyIter.at = "open" =>
    /\ keyIter.isNextValid <=> Len(keyIter.delivered) < Cardinality(Matching(keyIter))
    /\ keyIter.delivered # <<>> => keyIter.isNextValid

(* README.md, on iterators: "need to be closed once finished with"; a loop *)
(* over byBatch has no other way to close its iterator than hasNext and    *)
(* next, so an iterator without a next key must be closed.                 *)
FinishedIsClosed == keyIter.at = "open" => keyIter.isNextValid

(* A loop over an iterator ends.                                           *)
IterationEnds == keyIter.at = "next" ~> IteratorClosed
=============================================================================
