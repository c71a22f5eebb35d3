----------------------------- MODULE MCFormats ------------------------------
(* What is written in some form is read back: typed values, log records,     *)
(* compressed blocks, and the blocks, the index and the filter of a table.   *)
(* Which form a behaviour is about is chosen at its start.                   *)
EXTENDS Codec, LogFormat, Snappy, TableFormat

VARIABLE form

allVars == <<form, codecVars, logVars, snappyVars, tableVars>>

\* The ends of each range, and values whose bytes differ in sign and order.
Ends(w) == {0, 1, -1, Byte - 1, Byte ^ w \div 2 - 1, 0 - Byte ^ w \div 2,
            Byte ^ w \div 4 + 1}
TestNumbers == [t \in IntTypes |-> IF t = "boolean" THEN {0, 1} ELSE Ends(Width[t])]
\* Every significand with the exponents around 1.
TestDoubles == {<<m, e>> : m \in 2 ^ (Significand - 1) .. 2 ^ Significand - 1, e \in -4 .. 3}
TestStrings == {<<>>, <<1, 3>>}
TestArrays == {<<>>, <<3, 0, 1, 2>>}
TestObjects == {[class |-> "A", array |-> FALSE, bytes |-> <<1, 1>>],
                [class |-> "A", array |-> TRUE, bytes |-> <<1, 1, 2>>]}

\* User keys with a prefix in common, next to each other, and at the ends.
TableUserKeys == {<<>>, <<0, 2>>, <<0, 3>>, <<1>>, <<3>>, <<3, 3>>}
\* Some of them have an older and a newer entry.
InternalKeys == {Append(u, 1) : u \in TableUserKeys}
                \cup {Append(u, 2) : u \in {<<>>, <<0, 2>>, <<3>>}}
HashOfKeys == [u \in TableUserKeys |-> FoldLeft(LAMBDA h, b : (3 * h + 5 * b + 1) % 16, 7, u)]

\* The forms a behaviour is not about stay in one initial state.
Init ==
  /\ form \in {"value", "log", "compressed", "table"}
  /\ IF form = "value" THEN TRUE ELSE charSigned = FALSE
  /\ IF form = "compressed" THEN TRUE ELSE input = <<>> /\ hashing = "by word"
  /\ IF form = "table" THEN TRUE ELSE options = [size |-> Min(BlockSizes), filter |-> FALSE]
  /\ CodecInit /\ LogInit /\ SnappyInit /\ TableInit

InValue == form = "value" /\ CodecNext
           /\ UNCHANGED <<form, logVars, snappyVars, tableVars>>

InLog == form = "log" /\ LogNext
         /\ UNCHANGED <<form, codecVars, snappyVars, tableVars>>

InCompressed == form = "compressed" /\ SnappyNext
                /\ UNCHANGED <<form, codecVars, logVars, tableVars>>

InTable == form = "table" /\ TableNext
           /\ UNCHANGED <<form, codecVars, logVars, snappyVars>>

FormatsNext == InValue \/ InLog \/ InCompressed \/ InTable

Spec == Init /\ [][FormatsNext]_allVars
=============================================================================
