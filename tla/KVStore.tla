------------------------------ MODULE KVStore -------------------------------
(***************************************************************************)
(* What leveldb::DB promises its callers: a map that writers change one    *)
(* batch at a time and that readers see through snapshots.  A write takes  *)
(* effect once, between its call and its return, or not at all; a Get or   *)
(* an iterator reads the map as it was at one moment of its life.          *)
(***************************************************************************)
EXTENDS Naturals, Sequences, FiniteSets, Concatenation

CONSTANTS Threads, Keys, Values, Deleted, Batches, NULL

VARIABLES
  kv,       \* the map; an absent key has the value Deleted
  pending,  \* the batch a thread has asked to write, or NULL
  snap,     \* the map a thread's reader sees, or NULL
  got       \* the last value a thread's open reader returned

kvars == <<kv, pending, snap, got>>

KVInit ==
  /\ kv = [k \in Keys |-> Deleted]
  /\ pending = [t \in Threads |-> NULL]
  /\ snap = [t \in Threads |-> NULL]
  /\ got = [t \in Threads |-> NULL]

(* A map after one batch: the last entry of a key in the batch wins.       *)
ApplyBatch(m, b) ==
  [k \in Keys |->
     LET hits == {i \in DOMAIN b : b[i].key = k}
     IN  IF hits = {} THEN m[k]
         ELSE b[CHOOSE i \in hits : \A j \in hits : j <= i].val]

Ask(t, b) ==
  /\ pending[t] = NULL
  /\ pending' = [pending EXCEPT ![t] = b]
  /\ UNCHANGED <<kv, snap, got>>

Answered(ts) ==
  pending' = [t \in Threads |-> IF t \in ts THEN NULL ELSE pending[t]]

(* The writers of a group are answered together, their batches applied in  *)
(* some order.                                                             *)
Orders(ts) ==
  {order \in [1 .. Cardinality(ts) -> ts] :
     \A t \in ts : \E i \in 1 .. Cardinality(ts) : order[i] = t}

Commit(ts) ==
  /\ \A t \in ts : pending[t] # NULL
  /\ Answered(ts)
  /\ \E order \in Orders(ts) :
       kv' = ApplyBatch(kv, Concat([i \in 1 .. Cardinality(ts) |->
                                      pending[order[i]]]))
  /\ UNCHANGED <<snap, got>>

(* The writers of a group get an error, and their batches are not applied. *)
Abort(ts) ==
  /\ \A t \in ts : pending[t] # NULL
  /\ Answered(ts)
  /\ UNCHANGED <<kv, snap, got>>

OpenSnap(t) ==
  /\ snap[t] = NULL
  /\ snap' = [snap EXCEPT ![t] = kv]
  /\ UNCHANGED <<kv, pending, got>>

ReadSnap(t, k) ==
  /\ snap[t] # NULL
  /\ got' = [got EXCEPT ![t] = snap[t][k]]
  /\ UNCHANGED <<kv, pending, snap>>

CloseSnap(t) ==
  /\ snap[t] # NULL
  /\ snap' = [snap EXCEPT ![t] = NULL] /\ got' = [got EXCEPT ![t] = NULL]
  /\ UNCHANGED <<kv, pending>>

KVNext ==
  \/ \E t \in Threads : \/ \E b \in Batches : Ask(t, b)
                        \/ OpenSnap(t) \/ CloseSnap(t)
                        \/ \E k \in Keys : ReadSnap(t, k)
  \/ \E ts \in (SUBSET Threads) \ {{}} : Commit(ts) \/ Abort(ts)

KVSpec == KVInit /\ [][KVNext]_kvars
=============================================================================
