-------------------------- MODULE MCRelayDirectory --------------------------
(***************************************************************************)
(* A small instance of RelayDirectory: two accounts that may be published  *)
(* under two signing keys each, two device mailboxes and two device keys.  *)
(***************************************************************************)
EXTENDS RelayDirectory, TLC

MCSymmetry == Permutations(Account) \union Permutations(AccountKey)
                \union Permutations(Key) \union Permutations(Request)
=============================================================================
