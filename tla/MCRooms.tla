------------------------------- MODULE MCRooms -------------------------------
(* A small instance of Rooms for TLC: ben knows ann and cat, who do not know *)
(* each other.                                                               *)
EXTENDS Rooms

CONSTANTS ann, ben, cat

MCContacts == {{ann, ben}, {ben, cat}}

=============================================================================
