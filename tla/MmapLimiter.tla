---------------------------- MODULE MmapLimiter ----------------------------
(* MmapLimiter and the tables' files that use it (util/env_posix.cc): a file   *)
(* opened for random access is mapped while slots last, otherwise it is read   *)
(* with pread.  Readers open and close files concurrently.                     *)
EXTENDS Integers, FiniteSets

CONSTANTS
    FileReaders,     \* the threads, each with one file at a time
    MmapLimit        \* slots (1000; none where pointers have 32 bits)

ASSUME LimiterAssumption == IsFiniteSet(FileReaders) /\ MmapLimit \in Nat

VARIABLES
    allowed_,        \* slots left
    file             \* what each thread's file is

limiterVars == <<allowed_, file>>

LimiterInit ==
    /\ allowed_ = MmapLimit
    /\ file = [r \in FileReaders |-> "none"]

Becomes(r, state) == file' = [file EXCEPT ![r] = state]

\* NewRandomAccessFile, and Acquire up to its mutex: without a slot the file is
\* a PosixRandomAccessFile.
TryAcquire(r) ==
    /\ file[r] = "none"
    /\ Becomes(r, IF allowed_ <= 0 THEN "pread" ELSE "acquiring")
    /\ UNCHANGED allowed_

\* The rest of Acquire tests again: another thread may have taken the slot.
Acquire(r) ==
    /\ file[r] = "acquiring"
    /\ Becomes(r, IF allowed_ <= 0 THEN "pread" ELSE "slot")
    /\ allowed_' = IF allowed_ <= 0 THEN allowed_ ELSE allowed_ - 1

Map(r) ==
    /\ file[r] = "slot"
    /\ Becomes(r, "mapped")
    /\ UNCHANGED allowed_

\* GetFileSize or mmap fails, and the slot is given back.
MapFails(r) ==
    /\ file[r] = "slot"
    /\ Becomes(r, "none")
    /\ allowed_' = allowed_ + 1

\* The destructors.
CloseFile(r) ==
    /\ file[r] \in {"mapped", "pread"}
    /\ Becomes(r, "none")
    /\ allowed_' = IF file[r] = "mapped" THEN allowed_ + 1 ELSE allowed_

LimiterNext ==
    \E r \in FileReaders :
        TryAcquire(r) \/ Acquire(r) \/ Map(r) \/ MapFails(r) \/ CloseFile(r)

LimiterSpec == LimiterInit /\ [][LimiterNext]_limiterVars

------------------------------------------------------------------------------
(* Properties                                                                 *)

WithSlot == {r \in FileReaders : file[r] \in {"slot", "mapped"}}

\* There are never more mappings than slots, and no slot is lost: those left and
\* those in use are always MmapLimit, on the failing paths too.
SlotsKept == allowed_ >= 0 /\ allowed_ + Cardinality(WithSlot) = MmapLimit

==============================================================================
