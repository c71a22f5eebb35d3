----------------------------- MODULE MCKeyScan ------------------------------
(* Instances of KeyScan for TLC: keys of one and two bytes, so that a key  *)
(* can be a prefix of another, before it or after it; and arguments that    *)
(* the checks of DBImpl.java reject.                                        *)
EXTENDS KeyScan

MCKeys == {<<0>>, <<0, 1>>, <<1>>, <<1, 0>>}
MCTargets == {<<>>, <<0, 0>>, <<0, 1>>, <<1>>, <<2>>}

Page(o, l) == [offset |-> o, limit |-> l]
MCPages == {Page(0, 1), Page(0, 3), Page(1, 1), Page(1, 6), Page(3, 2),
            Page(0, 0), Page(-1, 2)}
\* findKeys(prefix, offset) and findKeysBetween(start, end, offset), whose
\* limit is LIMIT_MAX, just below MaxInt.
MCLimitMax == {Page(0, MaxInt - 1), Page(1, MaxInt - 1), Page(2, MaxInt - 1)}
=============================================================================
