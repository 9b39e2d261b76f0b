---------------------------- MODULE MCEnrollment ----------------------------
(* The laptop that made the account and a phone that enrolls. *)
EXTENDS Enrollment
CONSTANTS laptop, phone
=============================================================================
