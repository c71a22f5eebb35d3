---------------------------- MODULE MCWritePath -----------------------------
(* Instances of WritePath and of its refinement for TLC.                   *)
EXTENDS DBStore, TLC

CONSTANTS t1, t2, t3, k1, k2, v1

Put(k) == [key |-> k, val |-> v1]
Del(k) == [key |-> k, val |-> Deleted]

\* A value and its deletion.
MCBatches == {<<Put(k1)>>, <<Del(k1)>>}
\* With a second key, in a batch of two entries.
MCPairBatches == {<<Put(k1), Put(k2)>>, <<Del(k1)>>}
\* With the NULL batch of TEST_CompactMemTable.
MCNullBatches == {<<Put(k1)>>, <<>>}

Symmetry == Permutations(Threads)
=============================================================================
