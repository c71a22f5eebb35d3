------------------------------- MODULE MCCodec ------------------------------
EXTENDS Codec
\* The ends of each range, and values whose bytes differ in sign and order.
Ends(w) == {0, 1, -1, Byte - 1, Byte ^ w \div 2 - 1, 0 - Byte ^ w \div 2,
            Byte ^ w \div 4 + 1}
TestNumbers == [t \in IntTypes |-> IF t = "boolean" THEN {0, 1} ELSE Ends(Width[t])]
\* Every significand with the exponents around 1.
TestDoubles == {<<m, e>> : m \in 2 ^ (Significand - 1) .. 2 ^ Significand - 1, e \in -4 .. 3}
TestStrings == {<<>>, <<1, 3>>}
TestArrays == {<<>>, <<3, 0, 1, 2>>}
TestObjects == {[class |-> "A", array |-> FALSE, bytes |-> <<1, 1>>],
                [class |-> "A", array |-> TRUE, bytes |-> <<1, 1, 2>>]}
=============================================================================
