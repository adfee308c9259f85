---------------------------- MODULE MCDequantize ----------------------------
(* One call of a dequantizer on up to two blocks and a rest, at the real      *)
(* sizes, beside one conversion of a scale. Neither reads what the other has, *)
(* so the calls go with one pattern and the patterns with one call.           *)
EXTENDS Dequantize, HalfFloat

\* bound: two blocks, and no rest, one byte or all of a third block but one
MCRawLengths ==
    [k \in Kinds |-> {n * BlockBytesOf[k] + r : n \in 0 .. 2, r \in {0, 1, BlockBytesOf[k] - 1}}]

Init ==
    /\ DequantizeInit
    /\ HalfInit
    /\ bits = 0 \/ (kind = "Q8" /\ length = 0)

Next ==
    \/ DequantizeNext /\ UNCHANGED halfVars
    \/ HalfNext /\ UNCHANGED dequantizeVars

vars == <<dequantizeVars, halfVars>>

Spec == Init /\ [][Next]_vars /\ WF_vars(HalfNext /\ UNCHANGED dequantizeVars)
=============================================================================
