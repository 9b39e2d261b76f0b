-------------------------- MODULE MCProtectedStore --------------------------
(* A chat client and a pandoctl command on a store that is new, still in the *)
(* clear, or half migrated.                                                  *)
EXTENDS ProtectedStore

Files(i, c, e) == [f \in File |-> CASE f = "identity" -> i
                                    [] f = "contacts" -> c
                                    [] OTHER -> e]
Held(k) == [key |-> k, value |-> 1]

MCOriginal == {Files(Missing, Missing, Missing),
               Files(Held(Clear), Held(Clear), Missing),
               Files(Held("k1"), Held(Clear), Missing),
               Files(Held("k1"), Missing, Held("k1"))}
=============================================================================
