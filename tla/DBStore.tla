------------------------------ MODULE DBStore -------------------------------
(* The refinement of KVStore by WritePath.                                 *)
EXTENDS WritePath

ASSUME StoreAssumption ==
  /\ NULL \notin Seq([key : Keys, val : Values \cup {Deleted}])
  /\ NULL \notin [Keys -> Values \cup {Deleted}]

(* What a Get called now would return, after the close what a recovery     *)
(* finds.                                                                  *)
Contents ==
  [k \in Keys |-> IF IsClosed THEN MergedLookUp(<<AfterProcessCrash>>, k, lastSequence)
                  ELSE LookUp(Sources(Now), k, lastSequence)]

(* What the writers in the queue have asked for.                           *)
Asked == [t \in Threads |-> IF t \in Range(writers_) THEN batch[t] ELSE NULL]

(* What the memtables, the version and the sequence number of a reader     *)
(* show.                                                                   *)
Shown(v) == [k \in Keys |-> LookUp(Sources(v), k, v.seq)]
Snapshots == [t \in Threads |-> IF view[t] = NULL THEN NULL ELSE Shown(view[t])]

(* DBImpl implements the store of KVStore.  Flushes, compactions, the      *)
(* insertions in the memtable, the deletion of files and the close change  *)
(* neither its map nor the map of a reader.                                *)
KV == INSTANCE KVStore WITH kv <- Contents, pending <- Asked, snap <- Snapshots,
                            got <- ret

LinearizableStore == KV!KVSpec
=============================================================================
