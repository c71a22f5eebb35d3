------------------------------ MODULE FileLock ------------------------------
(* LockFile and UnlockFile of the POSIX environment (util/env_posix.cc), which *)
(* DB::Open and DestroyDB call on a database's LOCK file: a table of the       *)
(* files this process has locked, and a lock of the kernel on the file that    *)
(* keeps other processes away.  The kernel's lock (fcntl F_SETLK) belongs to   *)
(* the process: it drops when the process closes any descriptor of the file.   *)
EXTENDS Integers, FiniteSets

CONSTANTS
    LockCallers,     \* the threads that open and close the database
    ProcessOf,       \* the process of each
    NoProcess,
    MaxDeaths        \* processes that die in a behaviour

ASSUME LockAssumption ==
    /\ IsFiniteSet(LockCallers)
    /\ NoProcess \notin {ProcessOf[t] : t \in LockCallers}
    /\ DOMAIN ProcessOf = LockCallers
    /\ MaxDeaths \in Nat

Processes == {ProcessOf[t] : t \in LockCallers}

VARIABLES
    at,              \* where each thread is in LockFile or UnlockFile
    locks_,          \* the processes whose PosixLockTable holds the file
    owner,           \* the process the kernel's lock belongs to
    givenAway,       \* a close has released the kernel's lock under a holder
    deaths

lockVars == <<at, locks_, owner, givenAway, deaths>>

LockInit ==
    /\ at = [t \in LockCallers |-> "out"]
    /\ locks_ = {}
    /\ owner = NoProcess
    /\ givenAway = FALSE
    /\ deaths = 0

Goes(t, place) == at' = [at EXCEPT ![t] = place]

\* close(fd) by a process, whichever descriptor of the file it is.
OwnerAfterClose(p) == IF owner = p THEN NoProcess ELSE owner

\* close(fd) by t, with the lock in the hands of another thread of the process
\* or not.
Closes(t) ==
    /\ owner' = OwnerAfterClose(ProcessOf[t])
    /\ givenAway' = (\/ givenAway
                     \/ \E u \in LockCallers \ {t} :
                           at[u] = "held" /\ ProcessOf[u] = ProcessOf[t])

\* LockFile opens the file before it looks at the table.
OpenLockFile(t) ==
    /\ at[t] = "out"
    /\ Goes(t, "opened")
    /\ UNCHANGED <<locks_, owner, givenAway, deaths>>

\* Closes the new descriptor when the process already has the lock.
InsertLock(t) ==
    /\ at[t] = "opened"
    /\ IF ProcessOf[t] \in locks_
       THEN /\ Closes(t)
            /\ Goes(t, "out")
            /\ UNCHANGED locks_
       ELSE /\ locks_' = locks_ \cup {ProcessOf[t]}
            /\ Goes(t, "inserted")
            /\ UNCHANGED <<owner, givenAway>>
    /\ UNCHANGED deaths

\* Goes on although the kernel refuses the lock.
LockUnchecked(t) ==
    /\ at[t] = "inserted"
    /\ owner' = IF owner = NoProcess THEN ProcessOf[t] ELSE owner
    /\ Goes(t, "held")
    /\ UNCHANGED <<locks_, givenAway, deaths>>

\* LockOrUnlock(fd, true): the kernel refuses when another process owns it.
Lock(t) ==
    /\ at[t] = "inserted"
    /\ IF owner \in {NoProcess, ProcessOf[t]}
       THEN /\ owner' = ProcessOf[t]
            /\ Goes(t, "held")
            /\ UNCHANGED locks_
       ELSE /\ locks_' = locks_ \ {ProcessOf[t]}
            /\ Goes(t, "out")
            /\ UNCHANGED owner
    /\ UNCHANGED <<givenAway, deaths>>

\* UnlockFile gives the kernel's lock back, leaves the table and only then
\* closes its descriptor.
Unlock(t) ==
    /\ at[t] = "held"
    /\ owner' = OwnerAfterClose(ProcessOf[t])
    /\ Goes(t, "unlocked")
    /\ UNCHANGED <<locks_, givenAway, deaths>>

RemoveLock(t) ==
    /\ at[t] = "unlocked"
    /\ locks_' = locks_ \ {ProcessOf[t]}
    /\ Goes(t, "removed")
    /\ UNCHANGED <<owner, givenAway, deaths>>

CloseLockFile(t) ==
    /\ at[t] = "removed"
    /\ Closes(t)
    /\ Goes(t, "out")
    /\ UNCHANGED <<locks_, deaths>>

\* A process dies and starts again; the kernel closes its descriptors.
ProcessDies(p) ==
    /\ deaths < MaxDeaths
    /\ deaths' = deaths + 1
    /\ at' = [t \in LockCallers |-> IF ProcessOf[t] = p THEN "out" ELSE at[t]]
    /\ locks_' = locks_ \ {p}
    /\ owner' = OwnerAfterClose(p)
    /\ UNCHANGED givenAway

LockNext ==
    \/ \E t \in LockCallers :
           \/ OpenLockFile(t) \/ InsertLock(t) \/ Lock(t)
           \/ Unlock(t) \/ RemoveLock(t) \/ CloseLockFile(t)
    \/ \E p \in Processes : ProcessDies(p)

LockSpec == LockInit /\ [][LockNext]_lockVars

------------------------------------------------------------------------------
(* Properties                                                                 *)

Holders == {t \in LockCallers : at[t] = "held"}

\* "Used to prevent concurrent access to the same db by multiple processes": at
\* any time at most one thread, of whatever process, is between a LockFile that
\* succeeded and its UnlockFile.
OneHolder == \A t, u \in Holders : t = u

\* PosixLockTable and LockOrUnlock: OneHolder as far as the code keeps it.  Two
\* threads of one process never hold the lock both, however their calls
\* interleave; threads of two processes do not either, unless a process has
\* closed a descriptor of the file while one of its threads held the lock: a
\* LockFile that finds the file in locks_, or an UnlockFile that closes after
\* the next LockFile of its process, gives the kernel's lock away.
LockExcludes ==
    /\ \A t, u \in Holders : ProcessOf[t] = ProcessOf[u] => t = u
    /\ ~givenAway => OneHolder

==============================================================================
