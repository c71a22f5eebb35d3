--------------------------- MODULE NativeDBProofs ---------------------------
(***************************************************************************)
(* Proofs about NativeDB, for any number of threads, databases, objects    *)
(* and iterators: the type invariant for any callers, and the safety       *)
(* invariants for callers that keep every rule of AllObligations.  The     *)
(* inductive invariant has three layers, each proved with the help of the  *)
(* ones before: the calls, the globals and the objects, and the iterators. *)
(***************************************************************************)
EXTENDS NativeDB, TLAPS

Opening == {"open.check", "open.begin", "open.recover", "open.flag",
            "open.path", "open.fail"}
Closing == {"close.delete", "close.clear"}

-----------------------------------------------------------------------------
(* The type invariant, kept by every action whatever the callers do.  It   *)
(* is inductive together with the fact that an opening has a path.         *)

OpeningHasPath ==
  \A t \in Threads : pc[t] \in Opening \cup {"with.lock"} => arg[t] \in Paths

TInv == TypeOK /\ OpeningHasPath

LEMMA TInvInit == Init => TInv
<1> SUFFICES ASSUME Init PROVE TInv
  OBVIOUS
<1>1. isDBopen \in BOOLEAN /\ singleton \in BOOLEAN
  BY Zenon DEF Init
<1>2. /\ heap \in [Objects -> {"unused", "live", "freed", "corrupt"}]
      /\ path \in [Objects -> Paths \cup {NULL}]
      /\ iter \in [Iters -> {"unused", "open", "closed"}]
      /\ iterDB \in [Iters -> Objects \cup {NULL}]
  BY DEF Init
<1>3. isNextValid \in [Iters -> BOOLEAN]
  BY DEF Init
<1>4. /\ pc \in [Threads -> Labels]
      /\ job \in [Threads -> Jobs]
      /\ arg \in [Threads -> Paths \cup {NULL}]
      /\ ptr \in [Threads -> Objects \cup {NULL}]
      /\ it \in [Threads -> Iters \cup {NULL}]
  BY DEF Init, Labels, Jobs
<1> QED
  BY <1>1, <1>2, <1>3, <1>4 DEF Init, TInv, TypeOK, OpeningHasPath, Opening

LEMMA TInvNext == TInv /\ [Next]_vars => TInv'
<1> SUFFICES ASSUME TInv, [Next]_vars PROVE TInv'
  OBVIOUS
<1> USE ConstantsAssumption
<1> USE DEF globals, objects, clients, iterators, calls, TInv, TypeOK, Labels,
            Jobs, Exclusive, OpeningHasPath, Opening
<1>1. CASE UNCHANGED vars
  BY <1>1 DEF vars
<1>2. CASE Unload
  BY <1>2, ZenonT(30) DEF Unload, DeleteDB
<1>3. ASSUME NEW t \in Threads, With(t) PROVE TInv'
  BY <1>3 DEF With, Begin
<1>4. ASSUME NEW t \in Threads, WithLock(t) PROVE TInv'
  BY <1>4 DEF WithLock, Goto
<1>5. ASSUME NEW t \in Threads, WithReturn(t) PROVE TInv'
  BY <1>5 DEF WithReturn, Return
<1>6. ASSUME NEW t \in Threads, OpenCheck(t) PROVE TInv'
  <2>1. CASE ~isDBopen
    BY <1>6, <2>1 DEF OpenCheck, Goto
  <2>2. CASE isDBopen /\ ConstructorThrows(t)
    BY <1>6, <2>2 DEF OpenCheck, Return, ConstructorThrows
  <2>3. CASE isDBopen /\ Constructed(t) /\ job[t] = "with"
    BY <1>6, <2>3 DEF OpenCheck, Goto, Constructed
  <2>4. CASE isDBopen /\ Constructed(t) /\ job[t] # "with"
    BY <1>6, <2>4 DEF OpenCheck, Return, Constructed
  <2> QED
    BY <1>6, <2>1, <2>2, <2>3, <2>4 DEF OpenCheck
<1>7. ASSUME NEW t \in Threads, OpenBegin(t) PROVE TInv'
  BY <1>7 DEF OpenBegin, Goto
<1>8. ASSUME NEW t \in Threads, OpenRecover(t) PROVE TInv'
  BY <1>8 DEF OpenRecover, Goto, objects
<1>9. ASSUME NEW t \in Threads, OpenFlag(t) PROVE TInv'
  BY <1>9 DEF OpenFlag, Goto
<1>10. ASSUME NEW t \in Threads, OpenPath(t) PROVE TInv'
  <2>1. CASE ConstructorThrows(t)
    BY <1>10, <2>1 DEF OpenPath, Return, ConstructorThrows
  <2>2. CASE Constructed(t) /\ job[t] = "with"
    BY <1>10, <2>2 DEF OpenPath, Goto, Constructed
  <2>3. CASE Constructed(t) /\ job[t] # "with"
    BY <1>10, <2>3 DEF OpenPath, Return, Constructed
  <2> QED
    BY <1>10, <2>1, <2>2, <2>3 DEF OpenPath
<1>11. ASSUME NEW t \in Threads, OpenFail(t) PROVE TInv'
  BY <1>11, ZenonT(30) DEF OpenFail, ConstructorThrows, Return
<1>12. ASSUME NEW t \in Threads, CloseDelete(t) PROVE TInv'
  BY <1>12 DEF CloseDelete, Goto, DeleteDB
<1>13. ASSUME NEW t \in Threads, CloseClear(t) PROVE TInv'
  <2>1. CASE job[t] = "destroy"
    <3>1. /\ pc' = [pc EXCEPT ![t] = "destroy.files"]
          /\ isDBopen' = FALSE /\ databasePath' = NULL
          /\ UNCHANGED <<job, arg, db, objects, clients, iterators, ptr, it>>
      BY <1>13, <2>1 DEF CloseClear, Goto
    <3>2. TypeOK'
      BY <3>1, ZenonT(30)
    <3>3. OpeningHasPath'
      BY <3>1
    <3> QED
      BY <3>2, <3>3
  <2>2. CASE job[t] # "destroy"
    <3>1. /\ pc' = [pc EXCEPT ![t] = "idle"]
          /\ job' = [job EXCEPT ![t] = "none"]
          /\ arg' = [arg EXCEPT ![t] = NULL]
          /\ isDBopen' = FALSE /\ databasePath' = NULL
          /\ UNCHANGED <<db, objects, clients, iterators, ptr, it>>
      BY <1>13, <2>2 DEF CloseClear, Return
    <3>2. TypeOK'
      BY <3>1, ZenonT(30)
    <3>3. OpeningHasPath'
      BY <3>1
    <3> QED
      BY <3>2, <3>3
  <2> QED
    BY <2>1, <2>2
<1>14. ASSUME NEW t \in Threads, DestroyFiles(t) PROVE TInv'
  BY <1>14, ZenonT(30) DEF DestroyFiles, Return
<1>15. ASSUME NEW t \in Threads, OpEnter(t) PROVE TInv'
  BY <1>15 DEF OpEnter, Goto
<1>16. ASSUME NEW t \in Threads, OpRun(t) PROVE TInv'
  BY <1>16 DEF OpRun, Return
<1>17. ASSUME NEW t \in Threads, NewIterator(t) PROVE TInv'
  BY <1>17 DEF NewIterator, Return
<1>18. ASSUME NEW t \in Threads, IterNextRun(t) PROVE TInv'
  <2>1. isNextValid' \in [Iters -> BOOLEAN]
    BY <1>18, ZenonT(30) DEF IterNextRun
  <2>2. iter' \in [Iters -> {"unused", "open", "closed"}]
    BY <1>18, ZenonT(30) DEF IterNextRun
  <2> QED
    BY <1>18, <2>1, <2>2 DEF IterNextRun, Return
<1>19. ASSUME NEW t \in Threads, CloseIteratorRun(t) PROVE TInv'
  BY <1>19, ZenonT(30) DEF CloseIteratorRun, Return
<1>20. ASSUME NEW t \in Threads, NEW p \in Paths, Open(t, p) PROVE TInv'
  BY <1>20 DEF Open, Begin
<1>21. ASSUME NEW t \in Threads, NEW p \in Paths, Close(t, p) PROVE TInv'
  BY <1>21 DEF Close, Begin, calls
<1>22. ASSUME NEW t \in Threads, NEW p \in Paths, Destroy(t, p) PROVE TInv'
  BY <1>22 DEF Destroy, Begin
<1>23. ASSUME NEW t \in Threads, NEW p \in Paths, OpCheck(t, p) PROVE TInv'
  BY <1>23 DEF OpCheck, Begin, calls
<1>24. ASSUME NEW t \in Threads, NEW i \in Iters, IterNext(t, i) PROVE TInv'
  BY <1>24 DEF IterNext, Begin, calls
<1>25. ASSUME NEW t \in Threads, NEW i \in Iters, CloseIterator(t, i) PROVE TInv'
  BY <1>25 DEF CloseIterator, Begin
<1> HIDE DEF TInv, TypeOK, OpeningHasPath
<1> QED
  BY <1>1, <1>2, <1>3, <1>4, <1>5, <1>6, <1>7, <1>8, <1>9, <1>10, <1>11,
     <1>12, <1>13, <1>14, <1>15, <1>16, <1>17, <1>18, <1>19, <1>20, <1>21,
     <1>22, <1>23, <1>24, <1>25
     DEF Next, Call, Step

(* The variables keep their types in every behaviour, with or without the  *)
(* rules of the callers: the calls of snappydb.cpp and of KeyIteratorImpl  *)
(* leave no global, handle or iterator undefined.                          *)
THEOREM TypeCorrect == Spec => []TypeOK
<1>1. Init => TInv
  BY TInvInit
<1>2. TInv /\ [Next]_vars => TInv'
  BY TInvNext
<1>3. TInv => TypeOK
  BY DEF TInv
<1> QED
  BY <1>1, <1>2, <1>3, PTL DEF Spec

-----------------------------------------------------------------------------
(* The rules of the callers that the safety invariants need: all of them,  *)
(* and a strdup that finds memory.                                         *)
Disciplined == Obligations = AllObligations /\ ~StrdupMayFail

(* Which call a thread at each label is in, and whether it holds the       *)
(* monitor.                                                                *)
CallShape(t) ==
  /\ pc[t] = "idle" <=> job[t] = "none"
  /\ pc[t] \in Opening =>
       /\ job[t] \in {"open", "with"} /\ arg[t] \in Paths
       /\ job[t] = "with" => monitor = t
  /\ pc[t] \in {"with.lock", "with.return"} => job[t] = "with"
  /\ pc[t] \in Closing => job[t] \in {"close", "destroy"}
  /\ pc[t] = "destroy.files" => job[t] = "destroy"
  /\ pc[t] \in {"op.enter", "op.run"} => job[t] \in {"data", "newIterator"}
  /\ pc[t] \in {"it.next", "it.close"} => job[t] = "iterator"
  /\ job[t] = "with" => arg[t] = DefaultPath /\ usable \subseteq {DefaultPath}

(* open, close and destroy are alone.                                      *)
ExclusiveAlone ==
  \A t, u \in Threads : t # u /\ job[t] \in Exclusive => job[u] = "none"

(* First layer of the invariant of NativeDBSafety: the calls.              *)
CallsInv == (\A t \in Threads : CallShape(t)) /\ ExclusiveAlone

(* The calls keep apart as "alone" asks, and a call of with() inside its   *)
(* block holds the monitor.                                                *)
LEMMA CallsInvNext ==
  ASSUME Disciplined, TypeOK, CallsInv, [Next]_vars
  PROVE  CallsInv'
<1>a. /\ pc \in [Threads -> Labels] /\ job \in [Threads -> Jobs]
      /\ arg \in [Threads -> Paths \cup {NULL}] /\ usable \in SUBSET Paths
  BY DEF TypeOK
<1> USE <1>a, ConstantsAssumption
<1> USE DEF clients, calls, Exclusive, Opening, Closing, Disciplined, AllObligations,
            CallsInv, CallShape, ExclusiveAlone
<1>1. CASE UNCHANGED vars
  BY <1>1, SMTT(30) DEF vars
<1>2. CASE Unload
  BY <1>2, SMTT(30) DEF Unload
<1>3. ASSUME NEW t \in Threads, With(t) PROVE CallsInv'
  BY <1>3, SMTT(30) DEF With, Begin, Alone
<1>4. ASSUME NEW t \in Threads, WithLock(t) PROVE CallsInv'
  BY <1>4, SMTT(30) DEF WithLock, Goto
<1>5. ASSUME NEW t \in Threads, WithReturn(t) PROVE CallsInv'
  BY <1>5, SMTT(30) DEF WithReturn, Return
<1>6. ASSUME NEW t \in Threads, OpenCheck(t) PROVE CallsInv'
  BY <1>6, SMTT(30) DEF OpenCheck, Goto, Constructed, ConstructorThrows, Return
<1>7. ASSUME NEW t \in Threads, OpenBegin(t) PROVE CallsInv'
  BY <1>7, SMTT(30) DEF OpenBegin, Goto
<1>8. ASSUME NEW t \in Threads, OpenRecover(t) PROVE CallsInv'
  BY <1>8, SMTT(30) DEF OpenRecover, Goto
<1>9. ASSUME NEW t \in Threads, OpenFlag(t) PROVE CallsInv'
  BY <1>9, SMTT(30) DEF OpenFlag, Goto
<1>10. ASSUME NEW t \in Threads, OpenPath(t) PROVE CallsInv'
  BY <1>10, SMTT(30) DEF OpenPath, Goto, Constructed, ConstructorThrows, Return
<1>11. ASSUME NEW t \in Threads, OpenFail(t) PROVE CallsInv'
  BY <1>11, SMTT(30) DEF OpenFail, ConstructorThrows, Return
<1>12. ASSUME NEW t \in Threads, CloseDelete(t) PROVE CallsInv'
  BY <1>12, SMTT(30) DEF CloseDelete, Goto
<1>13. ASSUME NEW t \in Threads, CloseClear(t) PROVE CallsInv'
  BY <1>13, SMTT(30) DEF CloseClear, Goto, Return
<1>14. ASSUME NEW t \in Threads, DestroyFiles(t) PROVE CallsInv'
  BY <1>14, SMTT(30) DEF DestroyFiles, Return
<1>15. ASSUME NEW t \in Threads, OpEnter(t) PROVE CallsInv'
  BY <1>15, SMTT(30) DEF OpEnter, Goto
<1>16. ASSUME NEW t \in Threads, OpRun(t) PROVE CallsInv'
  BY <1>16, SMTT(30) DEF OpRun, Return
<1>17. ASSUME NEW t \in Threads, NewIterator(t) PROVE CallsInv'
  BY <1>17, SMTT(30) DEF NewIterator, Return
<1>18. ASSUME NEW t \in Threads, IterNextRun(t) PROVE CallsInv'
  BY <1>18, SMTT(30) DEF IterNextRun, Return
<1>19. ASSUME NEW t \in Threads, CloseIteratorRun(t) PROVE CallsInv'
  BY <1>19, SMTT(30) DEF CloseIteratorRun, Return
<1>20. ASSUME NEW t \in Threads, NEW p \in Paths, Open(t, p) PROVE CallsInv'
  BY <1>20, SMTT(30) DEF Open, Begin, Alone
<1>21. ASSUME NEW t \in Threads, NEW p \in Paths, Close(t, p) PROVE CallsInv'
  BY <1>21, SMTT(30) DEF Close, Begin, Alone
<1>22. ASSUME NEW t \in Threads, NEW p \in Paths, Destroy(t, p) PROVE CallsInv'
  BY <1>22, SMTT(30) DEF Destroy, Begin, Alone
<1>23. ASSUME NEW t \in Threads, NEW p \in Paths, OpCheck(t, p) PROVE CallsInv'
  BY <1>23, SMTT(30) DEF OpCheck, Begin, Alone
<1>24. ASSUME NEW t \in Threads, NEW i \in Iters, IterNext(t, i) PROVE CallsInv'
  BY <1>24, SMTT(30) DEF IterNext, Begin, Alone
<1>25. ASSUME NEW t \in Threads, NEW i \in Iters, CloseIterator(t, i) PROVE CallsInv'
  BY <1>25, SMTT(30) DEF CloseIterator, Begin, Alone
<1> HIDE DEF CallsInv, TypeOK
<1> QED
  BY <1>1, <1>2, <1>3, <1>4, <1>5, <1>6, <1>7, <1>8, <1>9, <1>10, <1>11,
     <1>12, <1>13, <1>14, <1>15, <1>16, <1>17, <1>18, <1>19, <1>20, <1>21,
     <1>22, <1>23, <1>24, <1>25
     DEF Next, Call, Step

LEMMA CallsInvInit == Init => CallsInv
  BY DEF Init, CallsInv, CallShape, ExclusiveAlone, Opening, Closing, Exclusive

LEMMA CallsInvAlways == ASSUME Disciplined PROVE Spec => [](TypeOK /\ CallsInv)
<1>1. TypeOK /\ CallsInv /\ [Next]_vars => CallsInv'
  BY CallsInvNext
<1> QED
  BY <1>1, CallsInvInit, TypeCorrect, PTL DEF Spec

-----------------------------------------------------------------------------

LiveDB == db # NULL /\ heap[db] = "live"

(* The globals agree with the heap except in the middle of an opening or   *)
(* of a closing.                                                           *)
Settled ==
  (\A t \in Threads : pc[t] \notin {"open.flag", "open.path", "close.clear"})
    => /\ isDBopen <=> LiveDB
       /\ databasePath = IF isDBopen THEN path[db] ELSE NULL

(* What a thread at each label knows of the globals.                       *)
LabelFacts(t) ==
  /\ pc[t] \in {"open.begin", "open.recover", "open.fail", "open.flag",
                "destroy.files"} => ~isDBopen
  /\ pc[t] \in {"open.recover", "open.fail"} => db = NULL
  /\ pc[t] \in {"open.flag", "open.path"} => LiveDB /\ path[db] = arg[t]
  /\ pc[t] = "open.flag" => databasePath = NULL
  /\ pc[t] = "open.path" => isDBopen
  /\ pc[t] = "close.delete" => LiveDB /\ isDBopen
  /\ pc[t] = "close.clear" => ~LiveDB
  /\ pc[t] \in Closing => usable = {}
  /\ pc[t] = "with.return" => isDBopen /\ LiveDB /\ path[db] = DefaultPath
  /\ pc[t] \in {"op.enter", "op.run"} =>
       isDBopen /\ LiveDB /\ path[db] = arg[t]
  /\ pc[t] = "op.run" => ptr[t] = db

(* An open database is known to a caller, or is the default one, unless an *)
(* open, close or destroy is past its test of the flag.                    *)
OpenIsKnown ==
  (\A t \in Threads : job[t] \in Exclusive => pc[t] = "open.check") /\ LiveDB
    => path[db] \in usable \cup {DefaultPath}

LiveObjects ==
  \A o \in Objects : /\ heap[o] # "corrupt"
                     /\ heap[o] = "live" => o = db /\ path[o] \in Paths

(* Second layer: the globals and the objects.                              *)
GlobalsInv ==
  /\ \A t \in Threads : LabelFacts(t)
  /\ Settled
  /\ OpenIsKnown
  /\ LiveObjects
  /\ UsableHandleIsOpen

OpenIterators ==
  /\ \A i \in Iters : iter[i] = "open" => LiveDB /\ iterDB[i] = db
  /\ \A t \in Threads : pc[t] \in Closing => \A i \in Iters : iter[i] # "open"

IteratorUse ==
  \A t \in Threads :
    /\ pc[t] \in {"it.next", "it.close"} => it[t] \in Iters /\ iter[it[t]] = "open"
    /\ pc[t] \notin {"it.next", "it.close"} => it[t] = NULL
    /\ \A u \in Threads : it[t] = it[u] /\ it[t] # NULL => t = u

(* Third layer: the iterators.                                             *)
IteratorsInv == OpenIterators /\ IteratorUse

IInv == CallsInv /\ GlobalsInv /\ IteratorsInv

-----------------------------------------------------------------------------
(* The globals are what each call relies on.                               *)
LEMMA GlobalsInvNext ==
  ASSUME Disciplined, TypeOK, CallsInv, GlobalsInv, [Next]_vars
  PROVE  GlobalsInv'
<1>a. /\ pc \in [Threads -> Labels] /\ job \in [Threads -> Jobs]
      /\ arg \in [Threads -> Paths \cup {NULL}] /\ usable \in SUBSET Paths
      /\ ptr \in [Threads -> Objects \cup {NULL}] /\ db \in Objects \cup {NULL}
      /\ heap \in [Objects -> {"unused", "live", "freed", "corrupt"}]
      /\ path \in [Objects -> Paths \cup {NULL}] /\ isDBopen \in BOOLEAN
  BY DEF TypeOK
<1> USE <1>a, ConstantsAssumption
<1> USE DEF globals, objects, clients, calls, Exclusive, Opening, Closing, LiveDB,
            Disciplined, AllObligations, CallsInv, CallShape, ExclusiveAlone,
            GlobalsInv, LabelFacts, Settled, OpenIsKnown, LiveObjects,
            UsableHandleIsOpen
<1>1. CASE UNCHANGED vars
  BY <1>1, SMTT(30) DEF vars
<1>2. CASE Unload
  BY <1>2, SMTT(30) DEF Unload, DeleteDB
<1>3. ASSUME NEW t \in Threads, With(t) PROVE GlobalsInv'
  BY <1>3, SMTT(30) DEF With, Begin, Alone
<1>4. ASSUME NEW t \in Threads, WithLock(t) PROVE GlobalsInv'
  BY <1>4, SMTT(30) DEF WithLock, Goto
<1>5. ASSUME NEW t \in Threads, WithReturn(t) PROVE GlobalsInv'
  BY <1>5, SMTT(30) DEF WithReturn, Return
<1>6. ASSUME NEW t \in Threads, OpenCheck(t) PROVE GlobalsInv'
  BY <1>6, SMTT(30) DEF OpenCheck, Goto, Constructed, ConstructorThrows, Return
<1>7. ASSUME NEW t \in Threads, OpenBegin(t) PROVE GlobalsInv'
  BY <1>7, SMTT(30) DEF OpenBegin, Goto
<1>8. ASSUME NEW t \in Threads, OpenRecover(t) PROVE GlobalsInv'
  BY <1>8, SMTT(30) DEF OpenRecover, Goto, Locked
<1>9. ASSUME NEW t \in Threads, OpenFlag(t) PROVE GlobalsInv'
  BY <1>9, SMTT(30) DEF OpenFlag, Goto
<1>10. ASSUME NEW t \in Threads, OpenPath(t) PROVE GlobalsInv'
  BY <1>10, SMTT(30) DEF OpenPath, Goto, Constructed, ConstructorThrows, Return
<1>11. ASSUME NEW t \in Threads, OpenFail(t) PROVE GlobalsInv'
  BY <1>11, SMTT(30) DEF OpenFail, ConstructorThrows, Return
<1>12. ASSUME NEW t \in Threads, CloseDelete(t) PROVE GlobalsInv'
  BY <1>12, SMTT(30) DEF CloseDelete, Goto, DeleteDB
<1>13. ASSUME NEW t \in Threads, CloseClear(t) PROVE GlobalsInv'
  BY <1>13, SMTT(30) DEF CloseClear, Goto, Return
<1>14. ASSUME NEW t \in Threads, DestroyFiles(t) PROVE GlobalsInv'
  BY <1>14, SMTT(30) DEF DestroyFiles, Return
<1>15. ASSUME NEW t \in Threads, OpEnter(t) PROVE GlobalsInv'
  BY <1>15, SMTT(30) DEF OpEnter, Goto
<1>16. ASSUME NEW t \in Threads, OpRun(t) PROVE GlobalsInv'
  BY <1>16, SMTT(30) DEF OpRun, Return
<1>17. ASSUME NEW t \in Threads, NewIterator(t) PROVE GlobalsInv'
  BY <1>17, SMTT(30) DEF NewIterator, Return
<1>18. ASSUME NEW t \in Threads, IterNextRun(t) PROVE GlobalsInv'
  BY <1>18, SMTT(30) DEF IterNextRun, Return
<1>19. ASSUME NEW t \in Threads, CloseIteratorRun(t) PROVE GlobalsInv'
  BY <1>19, SMTT(30) DEF CloseIteratorRun, Return
<1>20. ASSUME NEW t \in Threads, NEW p \in Paths, Open(t, p) PROVE GlobalsInv'
  BY <1>20, SMTT(30) DEF Open, Begin, Alone
<1>21. ASSUME NEW t \in Threads, NEW p \in Paths, Close(t, p) PROVE GlobalsInv'
  BY <1>21, SMTT(30) DEF Close, Begin, Alone, OwnHandle
<1>22. ASSUME NEW t \in Threads, NEW p \in Paths, Destroy(t, p) PROVE GlobalsInv'
  BY <1>22, SMTT(30) DEF Destroy, Begin, Alone, OwnHandle
<1>23. ASSUME NEW t \in Threads, NEW p \in Paths, OpCheck(t, p) PROVE GlobalsInv'
  BY <1>23, SMTT(30) DEF OpCheck, Begin, Alone, OwnHandle
<1>24. ASSUME NEW t \in Threads, NEW i \in Iters, IterNext(t, i) PROVE GlobalsInv'
  BY <1>24, SMTT(30) DEF IterNext, Begin, Alone
<1>25. ASSUME NEW t \in Threads, NEW i \in Iters, CloseIterator(t, i) PROVE GlobalsInv'
  BY <1>25, SMTT(30) DEF CloseIterator, Begin, Alone
<1> HIDE DEF GlobalsInv, TypeOK
<1> QED
  BY <1>1, <1>2, <1>3, <1>4, <1>5, <1>6, <1>7, <1>8, <1>9, <1>10, <1>11,
     <1>12, <1>13, <1>14, <1>15, <1>16, <1>17, <1>18, <1>19, <1>20, <1>21,
     <1>22, <1>23, <1>24, <1>25
     DEF Next, Call, Step


(* An open iterator is one of the open database.                           *)
LEMMA IteratorsInvNext ==
  ASSUME Disciplined, TypeOK, CallsInv, GlobalsInv, IteratorsInv, [Next]_vars
  PROVE  IteratorsInv'
<1>a. /\ pc \in [Threads -> Labels] /\ db \in Objects \cup {NULL}
      /\ iter \in [Iters -> {"unused", "open", "closed"}]
      /\ iterDB \in [Iters -> Objects \cup {NULL}]
      /\ it \in [Threads -> Iters \cup {NULL}]
      /\ heap \in [Objects -> {"unused", "live", "freed", "corrupt"}]
  BY DEF TypeOK
<1>b. /\ \A t \in Threads : pc[t] \in {"open.begin", "open.recover"} => ~LiveDB
      /\ \A t \in Threads : pc[t] = "op.run" => LiveDB /\ ptr[t] = db
  <2>1. ASSUME NEW t \in Threads, pc[t] \in {"open.begin", "open.recover"}
        PROVE  ~LiveDB
    <3>1. job[t] = "with" \/ job[t] = "open"
      BY <2>1 DEF CallsInv, CallShape, Opening
    <3>2. pc[t] = "open.recover" => ~LiveDB
      BY <2>1 DEF GlobalsInv, LabelFacts, LiveDB
    <3>3. pc[t] = "open.begin" => ~LiveDB
      BY <2>1, <3>1 DEF GlobalsInv, LabelFacts, Settled, CallsInv, CallShape,
                        ExclusiveAlone, Exclusive, Opening, Closing
    <3> QED
      BY <2>1, <3>2, <3>3
  <2>2. \A t \in Threads : pc[t] = "op.run" => LiveDB /\ ptr[t] = db
    BY DEF GlobalsInv, LabelFacts
  <2> QED
    BY <2>1, <2>2
<1>c. \A t, u \in Threads : pc[t] \in Closing /\ t # u => pc[u] = "idle"
  BY DEF CallsInv, CallShape, ExclusiveAlone, Exclusive, Closing
<1> USE <1>a, <1>b, <1>c, ConstantsAssumption
<1> USE DEF globals, objects, iterators, calls, Closing, LiveDB, Disciplined,
            AllObligations, IteratorsInv, OpenIterators, IteratorUse
<1>1. CASE UNCHANGED vars
  BY <1>1, SMTT(30) DEF vars
<1>2. CASE Unload
  BY <1>2, SMTT(30) DEF Unload, DeleteDB
<1>3. ASSUME NEW t \in Threads, With(t) PROVE IteratorsInv'
  BY <1>3, SMTT(30) DEF With, Begin, Alone
<1>4. ASSUME NEW t \in Threads, WithLock(t) PROVE IteratorsInv'
  BY <1>4, SMTT(30) DEF WithLock, Goto
<1>5. ASSUME NEW t \in Threads, WithReturn(t) PROVE IteratorsInv'
  BY <1>5, SMTT(30) DEF WithReturn, Return
<1>6. ASSUME NEW t \in Threads, OpenCheck(t) PROVE IteratorsInv'
  BY <1>6, SMTT(30) DEF OpenCheck, Goto, Constructed, ConstructorThrows, Return
<1>7. ASSUME NEW t \in Threads, OpenBegin(t) PROVE IteratorsInv'
  BY <1>7, SMTT(30) DEF OpenBegin, Goto
<1>8. ASSUME NEW t \in Threads, OpenRecover(t) PROVE IteratorsInv'
  BY <1>8, SMTT(30) DEF OpenRecover, Goto
<1>9. ASSUME NEW t \in Threads, OpenFlag(t) PROVE IteratorsInv'
  BY <1>9, SMTT(30) DEF OpenFlag, Goto
<1>10. ASSUME NEW t \in Threads, OpenPath(t) PROVE IteratorsInv'
  BY <1>10, SMTT(30) DEF OpenPath, Goto, Constructed, ConstructorThrows, Return
<1>11. ASSUME NEW t \in Threads, OpenFail(t) PROVE IteratorsInv'
  BY <1>11, SMTT(30) DEF OpenFail, ConstructorThrows, Return
<1>12. ASSUME NEW t \in Threads, CloseDelete(t) PROVE IteratorsInv'
  BY <1>12, SMTT(30) DEF CloseDelete, Goto, DeleteDB
<1>13. ASSUME NEW t \in Threads, CloseClear(t) PROVE IteratorsInv'
  BY <1>13, SMTT(30) DEF CloseClear, Goto, Return
<1>14. ASSUME NEW t \in Threads, DestroyFiles(t) PROVE IteratorsInv'
  BY <1>14, SMTT(30) DEF DestroyFiles, Return
<1>15. ASSUME NEW t \in Threads, OpEnter(t) PROVE IteratorsInv'
  BY <1>15, SMTT(30) DEF OpEnter, Goto
<1>16. ASSUME NEW t \in Threads, OpRun(t) PROVE IteratorsInv'
  BY <1>16, SMTT(30) DEF OpRun, Return
<1>17. ASSUME NEW t \in Threads, NewIterator(t) PROVE IteratorsInv'
  BY <1>17, SMTT(30) DEF NewIterator, Return
<1>18. ASSUME NEW t \in Threads, IterNextRun(t) PROVE IteratorsInv'
  BY <1>18, SMTT(30) DEF IterNextRun, Return
<1>19. ASSUME NEW t \in Threads, CloseIteratorRun(t) PROVE IteratorsInv'
  BY <1>19, SMTT(30) DEF CloseIteratorRun, Return
<1>20. ASSUME NEW t \in Threads, NEW p \in Paths, Open(t, p) PROVE IteratorsInv'
  BY <1>20, SMTT(30) DEF Open, Begin, Alone
<1>21. ASSUME NEW t \in Threads, NEW p \in Paths, Close(t, p) PROVE IteratorsInv'
  BY <1>21, SMTT(30) DEF Close, Begin, Alone, IteratorsClosed
<1>22. ASSUME NEW t \in Threads, NEW p \in Paths, Destroy(t, p) PROVE IteratorsInv'
  BY <1>22, SMTT(30) DEF Destroy, Begin, Alone, IteratorsClosed
<1>23. ASSUME NEW t \in Threads, NEW p \in Paths, OpCheck(t, p) PROVE IteratorsInv'
  BY <1>23, SMTT(30) DEF OpCheck, Begin, Alone
<1>24. ASSUME NEW t \in Threads, NEW i \in Iters, IterNext(t, i) PROVE IteratorsInv'
  BY <1>24, SMTT(30) DEF IterNext, Begin, Alone, OneThread
<1>25. ASSUME NEW t \in Threads, NEW i \in Iters, CloseIterator(t, i) PROVE IteratorsInv'
  BY <1>25, SMTT(30) DEF CloseIterator, Begin, Alone, OneThread
<1> HIDE DEF IteratorsInv, TypeOK
<1> QED
  BY <1>1, <1>2, <1>3, <1>4, <1>5, <1>6, <1>7, <1>8, <1>9, <1>10, <1>11,
     <1>12, <1>13, <1>14, <1>15, <1>16, <1>17, <1>18, <1>19, <1>20, <1>21,
     <1>22, <1>23, <1>24, <1>25
     DEF Next, Call, Step

LEMMA IInvInit == Init => GlobalsInv /\ IteratorsInv
<1> SUFFICES ASSUME Init PROVE GlobalsInv /\ IteratorsInv
  OBVIOUS
<1>1. GlobalsInv
  BY SMTT(30) DEF Init, GlobalsInv, LabelFacts, Settled, LiveDB, OpenIsKnown,
                  LiveObjects, UsableHandleIsOpen, Closing
<1>2. IteratorsInv
  BY SMTT(30) DEF Init, IteratorsInv, OpenIterators, IteratorUse, Closing
<1> QED
  BY <1>1, <1>2

LEMMA IInvAlways == ASSUME Disciplined PROVE Spec => [](TypeOK /\ IInv)
<1>1. TypeOK /\ CallsInv /\ GlobalsInv /\ [Next]_vars => GlobalsInv'
  BY GlobalsInvNext
<1>2. TypeOK /\ CallsInv /\ GlobalsInv /\ IteratorsInv /\ [Next]_vars => IteratorsInv'
  BY IteratorsInvNext
<1> QED
  BY <1>1, <1>2, IInvInit, CallsInvAlways, PTL DEF Spec, IInv

(* No call works inside a freed leveldb::DB or iterator and nothing is     *)
(* deleted twice, for callers that keep the rules: __close and __destroy   *)
(* never run into a call that has passed its isDBopen test.                *)
THEOREM MemorySafety == ASSUME Disciplined PROVE Spec => []MemorySafe
<1>1. TypeOK /\ IInv => MemorySafe
  <2> SUFFICES ASSUME TypeOK, IInv PROVE MemorySafe
    OBVIOUS
  <2>1. \A o \in Objects : heap[o] # "corrupt"
    BY DEF IInv, GlobalsInv, LiveObjects
  <2>2. \A t \in Threads : pc[t] = "op.run" => ptr[t] # NULL /\ heap[ptr[t]] = "live"
    BY DEF IInv, GlobalsInv, LabelFacts, LiveDB
  <2>3. \A t \in Threads : pc[t] \in {"it.next", "it.close"} =>
          iter[it[t]] = "open" /\ heap[iterDB[it[t]]] = "live"
    BY DEF IInv, IteratorsInv, OpenIterators, IteratorUse, LiveDB
  <2> QED
    BY <2>1, <2>2, <2>3 DEF MemorySafe
<1> QED
  BY <1>1, IInvAlways, PTL

(* The handle of DBFactory.open or SnappyDB.with that is not closed yet is *)
(* a handle on the database that is open.                                  *)
THEOREM UsableHandles == ASSUME Disciplined PROVE Spec => []UsableHandleIsOpen
<1>1. IInv => UsableHandleIsOpen
  BY Zenon DEF IInv, GlobalsInv
<1> QED
  BY <1>1, IInvAlways, PTL

(* An operation works on the database of the handle it was called on,      *)
(* although the pointer it uses is the process-wide db.                    *)
THEOREM HandlesReachTheirDatabase ==
  ASSUME Disciplined PROVE Spec => []HandleReachesItsDatabase
<1>1. IInv => HandleReachesItsDatabase
  BY ZenonT(30) DEF IInv, GlobalsInv, LabelFacts, HandleReachesItsDatabase
<1> QED
  BY <1>1, IInvAlways, PTL

(* No live database is out of reach of the global db, so that its LOCK     *)
(* file can always be released by a close.                                 *)
THEOREM NoDatabaseLost == ASSUME Disciplined PROVE Spec => []NoLostDatabase
<1>1. TypeOK /\ IInv => NoLostDatabase
  BY ZenonT(30) DEF IInv, GlobalsInv, LiveObjects, NoLostDatabase
<1> QED
  BY <1>1, IInvAlways, PTL

(* With no call running, isDBopen says whether db is live, and             *)
(* databasePath is the path of that database.                              *)
THEOREM FlagTells == ASSUME Disciplined PROVE Spec => []FlagIsTruth
<1>1. IInv => FlagIsTruth
  BY DEF IInv, GlobalsInv, Settled, LiveDB, FlagIsTruth
<1> QED
  BY <1>1, IInvAlways, PTL
=============================================================================
