----------------------------- MODULE MCDelivery -----------------------------
(* Small instances of Delivery for TLC. *)
EXTENDS Delivery

CONSTANTS note, photo, memo

MCChunks == [m \in File |-> IF m = photo THEN 2 ELSE 1]

=============================================================================
