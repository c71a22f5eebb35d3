--------------------------- MODULE Concatenation ----------------------------
(* The sequences of a sequence strung together.                            *)
EXTENDS Naturals, Sequences

Concat(ss) ==
  LET upTo[i \in 0 .. Len(ss)] == IF i = 0 THEN <<>> ELSE upTo[i - 1] \o ss[i]
  IN  upTo[Len(ss)]
=============================================================================
