------------------------------ MODULE MCScans -------------------------------
(* The key queries, and the iterator of the database they are written on.   *)
(* Which of the two a behaviour is about is chosen at its start.             *)
EXTENDS KeyScan, DBIter

VARIABLE about

allVars == <<about, scanVars, dbIterVars>>

\* Keys of one and two bytes, so that a key can be a prefix of another, before
\* it or after it.
MCKeys == {<<0>>, <<0, 1>>, <<1>>, <<1, 0>>}
MCTargets == {<<>>, <<0, 0>>, <<0, 1>>, <<1>>, <<2>>}

\* Pages, with arguments that the checks of DBImpl.java reject.
Page(o, l) == [offset |-> o, limit |-> l]
MCPages == {Page(0, 1), Page(0, 3), Page(1, 1), Page(1, 6), Page(3, 2),
            Page(0, 0), Page(-1, 2)}

ScansInit ==
  /\ about \in {"query", "iterator"}
  /\ IF about = "query" THEN TRUE ELSE store = {}
  /\ ScanInit
  /\ IF about = "iterator" THEN DBIterInit
     ELSE /\ mem = {}
          /\ src = [c \in 2 .. 3 |-> [blocks |-> <<>>, keys |-> <<>>, bad |-> {}]]
          /\ db = NewDBIterator(0)

InQuery == about = "query" /\ ScanNext /\ UNCHANGED <<about, dbIterVars>>

InIterator == about = "iterator" /\ DBIterNext /\ UNCHANGED <<about, scanVars>>

ScansNext == InQuery \/ InIterator

\* A caller that works through an iterator, as byBatch does.
Fairness == WF_allVars(about = "query" /\ IteratorLoop /\ UNCHANGED <<about, dbIterVars>>)

ScansSpec == ScansInit /\ [][ScansNext]_allVars /\ Fairness
=============================================================================
