---------------------------- MODULE MCAdmission ----------------------------
(***************************************************************************)
(* A small instance of Admission for TLC.                                  *)
(***************************************************************************)
EXTENDS Admission, TLC

KindSymmetry == Permutations(Media) \cup Permutations(Requests \ Media)
=============================================================================
