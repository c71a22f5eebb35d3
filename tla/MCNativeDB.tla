----------------------------- MODULE MCNativeDB -----------------------------
(* Instances of NativeDB for TLC: two callers, the default database and    *)
(* another one, and enough objects for a reopening of each.                *)
EXTENDS NativeDB, TLC

CONSTANTS t1, t2, o1, o2, o3, i1, i2

Symmetry == Permutations(Threads) \cup Permutations(Objects)
              \cup Permutations(Iters)
=============================================================================
