-------------------------- MODULE MCContactRequests --------------------------
(* A small instance of ContactRequests for TLC: ann and ben ask each other,  *)
(* cat has asked ann before.                                                 *)
EXTENDS ContactRequests

CONSTANTS ann, ben, cat

MCAsks == {<<ann, ben>>, <<ben, ann>>}
MCEarlier == {<<cat, ann>>}
MCVerifies == {<<ann, ben>>}
MCAnswers == [a \in Account |-> IF a = ann THEN 1 ELSE IF a = ben THEN 1 ELSE 0]
MCCli == {<<ben, "resolve">>}

=============================================================================
