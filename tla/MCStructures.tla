---- MODULE MCStructures ----
(* The concurrent structures below the write and the read path, each checked *)
(* on its own: which one a behaviour is about is chosen at its start.         *)
EXTENDS SkipList, Arena, LRUCache, FileLock, BackgroundQueue, MmapLimiter

CONSTANTS p1, p2, a1, a2, b1   \* processes, and the threads of each

VARIABLE structure

allVars == <<structure, skipVars, arenaVars, cacheVars, lockVars, queueVars, limiterVars>>

Hashes == [k \in CacheKeys |-> 2 * k]

Process == [t \in {a1, a2, b1} |-> IF t = b1 THEN p2 ELSE p1]

Init ==
    /\ structure \in {"list", "arena", "cache", "lock", "queue", "limiter"}
    /\ SkipInit /\ ArenaInit /\ CacheInit /\ LockInit /\ QueueInit /\ LimiterInit

InList == structure = "list" /\ SkipNext
          /\ UNCHANGED <<structure, arenaVars, cacheVars, lockVars, queueVars, limiterVars>>

InArena == structure = "arena" /\ ArenaNext
          /\ UNCHANGED <<structure, skipVars, cacheVars, lockVars, queueVars, limiterVars>>

InCache == structure = "cache" /\ CacheNext
          /\ UNCHANGED <<structure, skipVars, arenaVars, lockVars, queueVars, limiterVars>>

InLock == structure = "lock" /\ LockNext
          /\ UNCHANGED <<structure, skipVars, arenaVars, cacheVars, queueVars, limiterVars>>

InQueue == structure = "queue" /\ QueueNext
          /\ UNCHANGED <<structure, skipVars, arenaVars, cacheVars, lockVars, limiterVars>>

InLimiter == structure = "limiter" /\ LimiterNext
          /\ UNCHANGED <<structure, skipVars, arenaVars, cacheVars, lockVars, queueVars>>

StructuresNext == InList \/ InArena \/ InCache \/ InLock \/ InQueue \/ InLimiter

\* The background queue's fairness, in the behaviours that are about it.
Fairness == WF_allVars(structure = "queue" /\ (BGThread \/ Wakes \/ FunctionReturns)
          /\ UNCHANGED <<structure, skipVars, arenaVars, cacheVars, lockVars, limiterVars>>)

Spec == Init /\ [][StructuresNext]_allVars /\ Fairness
====
