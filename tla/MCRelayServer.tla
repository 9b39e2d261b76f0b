--------------------------- MODULE MCRelayServer ---------------------------
(***************************************************************************)
(* Small instances of RelayServer for TLC.  All envelopes go to one mailbox, *)
(* so that publishers race for it; one of them is large.                     *)
(***************************************************************************)
EXTENDS RelayServer

CONSTANTS s1, s2, alice, bob, e1, e2

\* s1 only publishes, as relayapi.PublishEnvelopes does.
MCRoles == [s \in Session |-> IF s = s1 THEN 0 ELSE 1]
MCTwice == [s \in Session |-> IF s = s1 THEN 0 ELSE 2]

MCRecipient == [e \in Envelope |-> alice]

MCSize == [e \in Envelope |-> IF e = e2 THEN 2 ELSE 1]
=============================================================================
