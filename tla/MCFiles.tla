------------------------------ MODULE MCFiles -------------------------------
(* The files of a database: what compactions do to the versions of an open  *)
(* database, and what openings and crashes do to the files they find.       *)
(* Which of the two a behaviour is about is chosen at its start.            *)
EXTENDS Compaction, Recovery

VARIABLE about

allVars == <<about, compactionVars, recoveryVars>>

\* The whole key space, as CompactRange(NULL, NULL).
Whole == {<<NONE, NONE>>}

Init == about \in {"compaction", "recovery"} /\ CompactionInit /\ RecoveryInit

InCompaction ==
  about = "compaction" /\ CompactionNext /\ UNCHANGED <<about, recoveryVars>>

InRecovery ==
  about = "recovery" /\ RecoveryNext /\ UNCHANGED <<about, compactionVars>>

FilesNext == InCompaction \/ InRecovery

Spec == Init /\ [][FilesNext]_allVars
=============================================================================
