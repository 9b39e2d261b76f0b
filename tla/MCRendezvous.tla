---------------------------- MODULE MCRendezvous ----------------------------
(***************************************************************************)
(* A small instance of Rendezvous: one user calls Exchange twice (x1, x2), *)
(* the other side once (y1), and a third account may use the same code.    *)
(***************************************************************************)
EXTENDS Rendezvous, TLC

CONSTANTS x1, x2, y1, z1, alice, bob, carol

MCAccountOf ==
    [x \in Party |-> IF x \in {x1, x2} THEN alice ELSE IF x = y1 THEN bob ELSE carol]
=============================================================================
