---------------------------- MODULE MCEnrollment ----------------------------
(* Small instances of Enrollment for TLC: attempts differ only in name. *)
EXTENDS Enrollment, TLC

AttemptSymmetry == Permutations(Attempts)
=============================================================================
