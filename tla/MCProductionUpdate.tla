------------------------ MODULE MCProductionUpdate ------------------------
(***************************************************************************)
(* Two runs of the production update, which are alike.                     *)
(***************************************************************************)
EXTENDS ProductionUpdate, TLC

RunSymmetry == Permutations(Runs)
=============================================================================
