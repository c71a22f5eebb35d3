---------------------------- MODULE MCCompaction ----------------------------
EXTENDS Compaction
\* The whole key space, as CompactRange(NULL, NULL).
Whole == {<<NONE, NONE>>}
=============================================================================
