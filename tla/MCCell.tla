------------------------------- MODULE MCCell -------------------------------
(* Instances of Cell for TLC, in units of half a body entry's header.      *)
EXTENDS Cell, TLC

CONSTANTS a1, a2, b1, b2, b3, c1, c2

MCChecksums == {a1, a2, b1, b2, b3, c1, c2}

\* Three sizes: a is shorter than a header, b as long as one and c as long as two.
MCSizeOf == [x \in MCChecksums |->
    IF x \in {a1, a2} THEN 1 ELSE IF x \in {b1, b2, b3} THEN 2 ELSE 4]

MCBlockOf == [x \in MCChecksums |-> IF x \in {a1, a2, b1} THEN 0 ELSE 1]

Symmetric == Permutations({a1, a2}) \cup Permutations({b2, b3}) \cup Permutations({c1, c2})
=============================================================================
