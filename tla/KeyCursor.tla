----------------------------- MODULE KeyCursor ------------------------------
(***************************************************************************)
(* What an iterator of LevelDB promises: a cursor on the keys and values   *)
(* that were in the database when it was made.  The key queries of         *)
(* SnappyDB (KeyScan) are written on such a cursor.                        *)
(*                                                                         *)
(* ok is the iterator's status().  Once it is not OK nothing is promised.  *)
(***************************************************************************)
EXTENDS Naturals

CONSTANTS Keys, Values, NONE    \* NONE: the cursor is not Valid()

VARIABLES
  live,   \* the keys at the creation of the iterator, with their values
  at,     \* <<key, value>>, or NONE
  called, \* the last call, with the key a Seek was for
  ok

cursorVars == <<live, at, called, ok>>

Lowest(S) == IF S = {} THEN NONE
             ELSE LET k == CHOOSE k \in S : \A j \in S : k <= j IN <<k, live[k]>>
Highest(S) == IF S = {} THEN NONE
              ELSE LET k == CHOOSE k \in S : \A j \in S : j <= k IN <<k, live[k]>>

CursorInit ==
  /\ \E S \in SUBSET Keys : live \in [S -> Values]
  /\ at = NONE /\ called = <<"none", 0>> /\ ok \in BOOLEAN

Call(name, key, p) == called' = <<name, key>> /\ at' = p
SeekToFirst == Call("SeekToFirst", 0, Lowest(DOMAIN live))
SeekToLast == Call("SeekToLast", 0, Highest(DOMAIN live))
Seek == \E t \in Keys : Call("Seek", t, Lowest({k \in DOMAIN live : t <= k}))
Next == at # NONE /\ Call("Next", 0, Lowest({k \in DOMAIN live : at[1] < k}))
Prev == at # NONE /\ Call("Prev", 0, Highest({k \in DOMAIN live : k < at[1]}))

CursorNext ==
  /\ UNCHANGED live
  /\ ok' => ok                \* an error is not forgotten
  /\ ok' => SeekToFirst \/ SeekToLast \/ Seek \/ Next \/ Prev

CursorSpec == CursorInit /\ [][CursorNext]_cursorVars
=============================================================================
