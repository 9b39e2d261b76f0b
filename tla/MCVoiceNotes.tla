---------------------------- MODULE MCVoiceNotes ----------------------------
(* A small instance of VoiceNotes; goroutines are interchangeable.         *)
EXTENDS VoiceNotes, TLC

Symmetry == Permutations(Routine) \cup Permutations(Speaker)
=============================================================================
