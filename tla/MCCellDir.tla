------------------------------ MODULE MCCellDir ------------------------------
(* Instances of CellDir for TLC: two blocks that share the overflow area. A    *)
(* full ring of chunks of the first block takes its counter to the last value *)
(* of the bit-field; there are more chunks of it than the counter could count. *)
EXTENDS CellDir, TLC

CONSTANTS a1, a2, a3, a4, a5, a6, b1, b2, b3

FirstBlock == {a1, a2, a3, a4, a5, a6}
SecondBlock == {b1, b2, b3}

MCChecksums == FirstBlock \cup SecondBlock

MCBlockOf == [c \in MCChecksums |-> IF c \in FirstBlock THEN 0 ELSE 1]

Symmetric == Permutations(FirstBlock) \cup Permutations(SecondBlock)
=============================================================================
