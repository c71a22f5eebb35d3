------------------------------ MODULE NativeDB ------------------------------
(***************************************************************************)
(* The native session of SnappyDB: the three process-wide globals of      *)
(* snappydb.cpp (db, isDBopen, databasePath), which no lock protects, as   *)
(* the Java threads reach them through DBImpl, KeyIteratorImpl and         *)
(* SnappyDB.with.                                                          *)
(*                                                                         *)
(* A JNI function is split where it reads or writes the globals: the test  *)
(* of isDBopen, the use of db, the update of the flag and of the path are  *)
(* separate steps, because another thread can run between them.  All the   *)
(* state of a DBImpl that matters here is its path, so a handle is its     *)
(* path.  A leveldb::DB is an element of Objects, never reused once freed. *)
(*                                                                         *)
(* Obligations is the set of rules the callers keep; each rule a run drops *)
(* shows what the code does without it.                                    *)
(***************************************************************************)
EXTENDS Naturals, FiniteSets

CONSTANTS Threads, Paths, DefaultPath, Objects, Iters, NULL,
          Obligations, StrdupMayFail

(* "alone": open, close and destroy run while no other call is running.    *)
(* "ownHandle": a handle is used between its open and its close.           *)
(* "oneDatabase": with() is not called while another database is open.     *)
(* "closeIterators": close and destroy come after the iterators' close.    *)
(* "oneThread": an iterator is used by one thread at a time.               *)
(* "unloadOpen": the library is not unloaded between a close and an open.  *)
AllObligations == {"alone", "ownHandle", "oneDatabase", "closeIterators",
                   "oneThread", "unloadOpen"}

ASSUME ConstantsAssumption ==
  /\ DefaultPath \in Paths
  /\ NULL \notin Paths \cup Objects \cup Iters \cup Threads
  /\ Obligations \subseteq AllObligations
  /\ StrdupMayFail \in BOOLEAN

VARIABLES
  db,            \* leveldb::DB* db
  isDBopen,      \* bool isDBopen
  databasePath,  \* char* databasePath
  heap,          \* the leveldb::DB objects: unused, live, freed, corrupt
  path,          \* path of an object, whose LOCK file a live object holds
  singleton,     \* SnappyDB.singleton is a DBImpl on DefaultPath
  monitor,       \* the thread inside synchronized (SnappyDB.class), or NULL
  handles,       \* paths of the DBImpl objects constructed so far
  usable,        \* the handles their owner opened and has not closed since
  iter,          \* a KeyIteratorImpl: unused, open (ptr # 0), closed (ptr = 0)
  iterDB,        \* the object a native iterator reads
  isNextValid,   \* KeyIteratorImpl.isNextValid
  pc, job, arg,  \* where a thread is, in which call, through which handle
  ptr, it        \* the object and the iterator that a thread works on

globals == <<db, isDBopen, databasePath>>
objects == <<heap, path>>
clients == <<singleton, monitor, handles, usable>>
iterators == <<iter, iterDB, isNextValid>>
calls == <<pc, job, arg>>
vars == <<globals, objects, clients, iterators, calls, ptr, it>>

Exclusive == {"open", "close", "destroy"}
Jobs == Exclusive \cup {"none", "with", "data", "newIterator", "iterator"}
Labels == {"idle", "open.check", "open.begin", "open.recover", "open.flag",
           "open.path", "open.fail", "with.lock", "with.return",
           "close.delete", "close.clear", "destroy.files",
           "op.enter", "op.run", "it.next", "it.close"}

TypeOK ==
  /\ db \in Objects \cup {NULL}
  /\ isDBopen \in BOOLEAN
  /\ databasePath \in Paths \cup {NULL}
  /\ heap \in [Objects -> {"unused", "live", "freed", "corrupt"}]
  /\ path \in [Objects -> Paths \cup {NULL}]
  /\ singleton \in BOOLEAN
  /\ monitor \in Threads \cup {NULL}
  /\ handles \in SUBSET Paths
  /\ usable \in SUBSET Paths
  /\ iter \in [Iters -> {"unused", "open", "closed"}]
  /\ iterDB \in [Iters -> Objects \cup {NULL}]
  /\ isNextValid \in [Iters -> BOOLEAN]
  /\ pc \in [Threads -> Labels]
  /\ job \in [Threads -> Jobs]
  /\ arg \in [Threads -> Paths \cup {NULL}]
  /\ ptr \in [Threads -> Objects \cup {NULL}]
  /\ it \in [Threads -> Iters \cup {NULL}]

(* JNI_OnLoad: the globals of a freshly loaded library.                    *)
Init ==
  /\ db = NULL /\ isDBopen = FALSE /\ databasePath = NULL
  /\ heap = [o \in Objects |-> "unused"]
  /\ path = [o \in Objects |-> NULL]
  /\ singleton = FALSE /\ monitor = NULL
  /\ handles = {} /\ usable = {}
  /\ iter = [i \in Iters |-> "unused"]
  /\ iterDB = [i \in Iters |-> NULL]
  /\ isNextValid = [i \in Iters |-> FALSE]
  /\ pc = [t \in Threads |-> "idle"]
  /\ job = [t \in Threads |-> "none"]
  /\ arg = [t \in Threads |-> NULL]
  /\ ptr = [t \in Threads |-> NULL]
  /\ it = [t \in Threads |-> NULL]

-----------------------------------------------------------------------------
(* Calls, and the rules of the callers.                                    *)

Alone(t, j) ==
  "alone" \in Obligations =>
    \A u \in Threads \ {t} : IF j \in Exclusive THEN job[u] = "none"
                                                ELSE job[u] \notin Exclusive

OwnHandle(p) == "ownHandle" \in Obligations => p \in usable

IteratorsClosed ==
  "closeIterators" \in Obligations => \A i \in Iters : iter[i] # "open"

OneThread(t, i) ==
  "oneThread" \in Obligations => \A u \in Threads \ {t} : it[u] # i

Begin(t, j, p, at) ==
  /\ pc[t] = "idle"
  /\ Alone(t, j)
  /\ pc' = [pc EXCEPT ![t] = at]
  /\ job' = [job EXCEPT ![t] = j]
  /\ arg' = [arg EXCEPT ![t] = p]

Goto(t, at) ==
  /\ pc' = [pc EXCEPT ![t] = at]
  /\ UNCHANGED <<job, arg>>

Return(t) ==
  /\ pc' = [pc EXCEPT ![t] = "idle"]
  /\ job' = [job EXCEPT ![t] = "none"]
  /\ arg' = [arg EXCEPT ![t] = NULL]

(* operator delete on db: deleting NULL is harmless, deleting a freed      *)
(* object corrupts the heap.                                               *)
DeleteDB ==
  heap' = [o \in Objects |->
             IF o # db THEN heap[o]
             ELSE IF heap[o] = "live" THEN "freed" ELSE "corrupt"]

-----------------------------------------------------------------------------
(* DBFactory.open: new DBImpl(path) runs __open.                           *)

Open(t, p) ==
  /\ Begin(t, "open", p, "open.check")
  /\ UNCHANGED <<globals, objects, clients, iterators, ptr, it>>

(* The constructor returned: the caller has a handle.  with() also stores  *)
(* the singleton and leaves the synchronized block.                        *)
Constructed(t) ==
  /\ handles' = handles \cup {arg[t]}
  /\ IF job[t] = "with"
       THEN /\ singleton' = TRUE /\ monitor' = NULL
            /\ Goto(t, "with.return")
            /\ UNCHANGED usable
       ELSE /\ usable' = usable \cup {arg[t]}
            /\ Return(t)
            /\ UNCHANGED <<singleton, monitor>>

(* The constructor threw SnappydbException.                                *)
ConstructorThrows(t) ==
  /\ monitor' = IF job[t] = "with" THEN NULL ELSE monitor
  /\ Return(t)
  /\ UNCHANGED <<singleton, handles, usable>>

(* Mutant of OpenCheck: an open database of another path is not refused.   *)
OpenCheckAnyPath(t) ==
  /\ pc[t] = "open.check"
  /\ IF isDBopen THEN Constructed(t)
                 ELSE Goto(t, "open.begin") /\ UNCHANGED clients
  /\ UNCHANGED <<globals, objects, iterators, ptr, it>>

OpenCheck(t) ==
  /\ pc[t] = "open.check"
  /\ \/ /\ ~isDBopen
        /\ Goto(t, "open.begin")
        /\ UNCHANGED clients
     \/ /\ isDBopen /\ databasePath # NULL /\ databasePath # arg[t]
        /\ ConstructorThrows(t)
     \/ /\ isDBopen /\ (databasePath = NULL \/ databasePath = arg[t])
        /\ Constructed(t)
  /\ UNCHANGED <<globals, objects, iterators, ptr, it>>

(* DB::Open stores NULL in *dbptr before it recovers.                      *)
OpenBegin(t) ==
  /\ pc[t] = "open.begin"
  /\ db' = NULL
  /\ Goto(t, "open.recover")
  /\ UNCHANGED <<isDBopen, databasePath, objects, clients, iterators, ptr, it>>

Locked(p) == \E o \in Objects : heap[o] = "live" /\ path[o] = p

(* The recovery takes the LOCK file of the path, which a live object on    *)
(* the same path holds; any other error can end it too.                    *)
OpenRecover(t) ==
  /\ pc[t] = "open.recover"
  /\ \/ /\ ~Locked(arg[t])
        /\ \E o \in Objects :
             /\ heap[o] = "unused"
             /\ heap' = [heap EXCEPT ![o] = "live"]
             /\ path' = [path EXCEPT ![o] = arg[t]]
             /\ db' = o
        /\ Goto(t, "open.flag")
     \/ /\ Goto(t, "open.fail")
        /\ UNCHANGED <<objects, db>>
  /\ UNCHANGED <<isDBopen, databasePath, clients, iterators, ptr, it>>

OpenFlag(t) ==
  /\ pc[t] = "open.flag"
  /\ isDBopen' = TRUE
  /\ Goto(t, "open.path")
  /\ UNCHANGED <<db, databasePath, objects, clients, iterators, ptr, it>>

(* strdup: its failure throws, and leaves the flag set with no path.       *)
OpenPath(t) ==
  /\ pc[t] = "open.path"
  /\ \/ /\ databasePath' = arg[t]
        /\ Constructed(t)
     \/ /\ StrdupMayFail
        /\ databasePath' = NULL
        /\ ConstructorThrows(t)
  /\ UNCHANGED <<db, isDBopen, objects, iterators, ptr, it>>

OpenFail(t) ==
  /\ pc[t] = "open.fail"
  /\ isDBopen' = FALSE /\ databasePath' = NULL
  /\ ConstructorThrows(t)
  /\ UNCHANGED <<db, objects, iterators, ptr, it>>

-----------------------------------------------------------------------------
(* SnappyDB.with: double-checked locking on the singleton.                 *)

With(t) ==
  /\ "oneDatabase" \in Obligations => usable \subseteq {DefaultPath}
  /\ Begin(t, "with", DefaultPath,
           IF singleton /\ isDBopen THEN "with.return" ELSE "with.lock")
  /\ UNCHANGED <<globals, objects, clients, iterators, ptr, it>>

(* Mutant of WithLock: the block is not synchronized.                      *)
WithLockFree(t) ==
  /\ pc[t] = "with.lock"
  /\ IF singleton /\ isDBopen THEN Goto(t, "with.return")
                              ELSE Goto(t, "open.check")
  /\ UNCHANGED <<globals, objects, clients, iterators, ptr, it>>

WithLock(t) ==
  /\ pc[t] = "with.lock"
  /\ monitor = NULL
  /\ IF singleton /\ isDBopen
       THEN Goto(t, "with.return") /\ UNCHANGED monitor
       ELSE Goto(t, "open.check") /\ monitor' = t
  /\ UNCHANGED <<globals, objects, singleton, handles, usable, iterators,
                 ptr, it>>

WithReturn(t) ==
  /\ pc[t] = "with.return"
  /\ usable' = usable \cup {DefaultPath}
  /\ Return(t)
  /\ UNCHANGED <<globals, objects, singleton, monitor, handles, iterators,
                 ptr, it>>

-----------------------------------------------------------------------------
(* __close, and __destroy, whose first half is a close.                    *)

Close(t, p) ==
  /\ p \in handles
  /\ OwnHandle(p)
  /\ IteratorsClosed
  /\ IF isDBopen
       THEN Begin(t, "close", p, "close.delete") /\ usable' = usable \ {p}
       ELSE pc[t] = "idle" /\ Alone(t, "close") /\ UNCHANGED <<calls, usable>>
  /\ UNCHANGED <<globals, objects, singleton, monitor, handles, iterators,
                 ptr, it>>

Destroy(t, p) ==
  /\ p \in handles
  /\ OwnHandle(p) \/ usable = {}
  /\ IteratorsClosed
  /\ Begin(t, "destroy", p, IF isDBopen THEN "close.delete"
                                        ELSE "destroy.files")
  /\ usable' = usable \ {p}
  /\ UNCHANGED <<globals, objects, singleton, monitor, handles, iterators,
                 ptr, it>>

CloseDelete(t) ==
  /\ pc[t] = "close.delete"
  /\ DeleteDB
  /\ Goto(t, "close.clear")
  /\ UNCHANGED <<globals, path, clients, iterators, ptr, it>>

(* Mutant of CloseClear: the flag is not cleared.                          *)
CloseClearKeepsFlag(t) ==
  /\ pc[t] = "close.clear"
  /\ databasePath' = NULL
  /\ IF job[t] = "destroy" THEN Goto(t, "destroy.files") ELSE Return(t)
  /\ UNCHANGED <<db, isDBopen, objects, clients, iterators, ptr, it>>

(* close leaves db pointing at the freed object.                           *)
CloseClear(t) ==
  /\ pc[t] = "close.clear"
  /\ isDBopen' = FALSE /\ databasePath' = NULL
  /\ IF job[t] = "destroy" THEN Goto(t, "destroy.files") ELSE Return(t)
  /\ UNCHANGED <<db, objects, clients, iterators, ptr, it>>

(* DestroyDB fails on a locked path or on an I/O error; the flag is        *)
(* cleared either way, the path only on success.                           *)
DestroyFiles(t) ==
  /\ pc[t] = "destroy.files"
  /\ isDBopen' = FALSE
  /\ \/ ~Locked(arg[t]) /\ databasePath' = NULL
     \/ UNCHANGED databasePath
  /\ Return(t)
  /\ UNCHANGED <<db, objects, clients, iterators, ptr, it>>

(* JNI_OnUnload, and the JNI_OnLoad of a later load.  The classes are      *)
(* unreachable then: no call, no handle and no iterator is left.           *)
Unload ==
  /\ \A t \in Threads : pc[t] = "idle"
  /\ \A i \in Iters : iter[i] # "open"
  /\ "unloadOpen" \in Obligations /\ db # NULL => heap[db] = "live"
  /\ DeleteDB
  /\ db' = NULL /\ isDBopen' = FALSE /\ databasePath' = NULL
  /\ singleton' = FALSE /\ handles' = {} /\ usable' = {}
  /\ UNCHANGED <<path, monitor, iterators, calls, ptr, it>>

-----------------------------------------------------------------------------
(* The operations on keys: each tests isDBopen, then reads db again.       *)

(* Bound: an iterator is opened only when an element of Iters is left for  *)
(* it (a closed KeyIteratorImpl is inert, so its element is reused).       *)
IteratorLeft ==
  Cardinality({i \in Iters : iter[i] # "open"}) >
    Cardinality({t \in Threads : job[t] = "newIterator"})

OpCheck(t, p) ==
  /\ p \in handles
  /\ OwnHandle(p)
  /\ \E j \in {"data"} \cup (IF IteratorLeft THEN {"newIterator"} ELSE {}) :
       IF isDBopen THEN Begin(t, j, p, "op.enter")
       ELSE pc[t] = "idle" /\ Alone(t, j) /\ UNCHANGED calls
  /\ UNCHANGED <<globals, objects, clients, iterators, ptr, it>>

OpEnter(t) ==
  /\ pc[t] = "op.enter"
  /\ ptr' = [ptr EXCEPT ![t] = db]
  /\ Goto(t, "op.run")
  /\ UNCHANGED <<globals, objects, clients, iterators, it>>

OpRun(t) ==
  /\ pc[t] = "op.run"
  /\ job[t] = "data"
  /\ ptr' = [ptr EXCEPT ![t] = NULL]
  /\ Return(t)
  /\ UNCHANGED <<globals, objects, clients, iterators, it>>

(* __findKeysIterator, and the KeyIteratorImpl constructor, which asks     *)
(* __iteratorIsValid at once.                                              *)
NewIterator(t) ==
  /\ pc[t] = "op.run"
  /\ job[t] = "newIterator"
  /\ \E i \in Iters, v \in BOOLEAN :
       /\ iter[i] # "open"
       /\ iter' = [iter EXCEPT ![i] = "open"]
       /\ iterDB' = [iterDB EXCEPT ![i] = ptr[t]]
       /\ isNextValid' = [isNextValid EXCEPT ![i] = v]
  /\ ptr' = [ptr EXCEPT ![t] = NULL]
  /\ Return(t)
  /\ UNCHANGED <<globals, objects, clients, it>>

(* KeyIteratorImpl.next: __iteratorNextArray tests isDBopen; its exception *)
(* leaves the iterator open.                                               *)
IterNext(t, i) ==
  /\ iter[i] = "open" /\ isNextValid[i]
  /\ OneThread(t, i)
  /\ IF isDBopen
       THEN Begin(t, "iterator", NULL, "it.next") /\ it' = [it EXCEPT ![t] = i]
       ELSE pc[t] = "idle" /\ Alone(t, "iterator") /\ UNCHANGED <<calls, it>>
  /\ UNCHANGED <<globals, objects, clients, iterators, ptr>>

(* The batch is read; an iterator found exhausted is closed.               *)
IterNextRun(t) ==
  /\ pc[t] = "it.next"
  /\ \E v \in BOOLEAN :
       /\ isNextValid' = [isNextValid EXCEPT ![it[t]] = v]
       /\ iter' = IF v THEN iter ELSE [iter EXCEPT ![it[t]] = "closed"]
  /\ it' = [it EXCEPT ![t] = NULL]
  /\ Return(t)
  /\ UNCHANGED <<globals, objects, clients, iterDB, ptr>>

(* KeyIteratorImpl.close, by a caller or by finalize: ptr = 0 makes a      *)
(* second close empty, and isDBopen is not tested.                         *)
CloseIterator(t, i) ==
  /\ iter[i] = "open"
  /\ OneThread(t, i)
  /\ Begin(t, "iterator", NULL, "it.close")
  /\ it' = [it EXCEPT ![t] = i]
  /\ UNCHANGED <<globals, objects, clients, iterators, ptr>>

CloseIteratorRun(t) ==
  /\ pc[t] = "it.close"
  /\ iter' = [iter EXCEPT ![it[t]] = "closed"]
  /\ isNextValid' = [isNextValid EXCEPT ![it[t]] = FALSE]
  /\ it' = [it EXCEPT ![t] = NULL]
  /\ Return(t)
  /\ UNCHANGED <<globals, objects, clients, iterDB, ptr>>

-----------------------------------------------------------------------------
Call(t) ==
  \/ With(t)
  \/ \E p \in Paths : Open(t, p) \/ Close(t, p) \/ Destroy(t, p) \/ OpCheck(t, p)
  \/ \E i \in Iters : IterNext(t, i) \/ CloseIterator(t, i)

Step(t) ==
  \/ OpenCheck(t) \/ OpenBegin(t) \/ OpenRecover(t) \/ OpenFlag(t)
  \/ OpenPath(t) \/ OpenFail(t)
  \/ WithLock(t) \/ WithReturn(t)
  \/ CloseDelete(t) \/ CloseClear(t) \/ DestroyFiles(t)
  \/ OpEnter(t) \/ OpRun(t) \/ NewIterator(t)
  \/ IterNextRun(t) \/ CloseIteratorRun(t)

Next == Unload \/ \E t \in Threads : Call(t) \/ Step(t)

Spec == Init /\ [][Next]_vars

-----------------------------------------------------------------------------
(* No thread is inside an object, or inside an iterator of an object, that *)
(* is not live, and nothing is deleted twice: what keeps close and destroy *)
(* (delete db) apart from the calls that passed their isDBopen test, and   *)
(* from KeyIteratorImpl, whose close and finalize make no test.            *)
MemorySafe ==
  /\ \A o \in Objects : heap[o] # "corrupt"
  /\ \A t \in Threads :
       /\ pc[t] = "op.run" => ptr[t] # NULL /\ heap[ptr[t]] = "live"
       /\ pc[t] \in {"it.next", "it.close"} =>
            /\ iter[it[t]] = "open"
            /\ heap[iterDB[it[t]]] = "live"

(* The handle that open or with returned, and that was not closed since,   *)
(* is a handle on the database that is open: the promise behind the        *)
(* "still open" exception of __open and behind the isOpen test of with.    *)
UsableHandleIsOpen ==
  \A p \in usable : db # NULL /\ heap[db] = "live" /\ path[db] = p

(* An operation reaches the database of the handle it was called on,       *)
(* although all handles share the one global db.                           *)
HandleReachesItsDatabase ==
  \A t \in Threads : pc[t] = "op.run" => path[ptr[t]] = arg[t]

(* A live object is the one db points to: none is lost, so that no LOCK    *)
(* file stays held by an object that nothing can delete, and opening its   *)
(* path again stays possible.                                              *)
NoLostDatabase ==
  \A o \in Objects : heap[o] = "live" => db = o

(* Between calls the flag is the truth: isDBopen, which every operation    *)
(* trusts, holds exactly when db is live, and the path is that object's.   *)
FlagIsTruth ==
  (\A t \in Threads : pc[t] = "idle") =>
    /\ isDBopen <=> (db # NULL /\ heap[db] = "live")
    /\ isDBopen => databasePath = path[db]
    /\ ~isDBopen => databasePath = NULL
=============================================================================
