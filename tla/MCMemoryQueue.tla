--------------------------- MODULE MCMemoryQueue ---------------------------
(***************************************************************************)
(* A small instance of MemoryQueue: two small envelopes and two large ones.*)
(***************************************************************************)
EXTENDS MemoryQueue, TLC

CONSTANTS e1, e2, e3, e4

MCSize == [e \in Envelope |-> IF e \in {e1, e2} THEN 1 ELSE 2]

MCSymmetry == Permutations({e1, e2}) \union Permutations({e3, e4})
=============================================================================
