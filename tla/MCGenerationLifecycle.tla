----------------------- MODULE MCGenerationLifecycle -----------------------
(***************************************************************************)
(* Small instances of GenerationLifecycle for TLC.                         *)
(***************************************************************************)
EXTENDS LifecycleRefinement, LifecycleInvariant

(* Every worker carries every accepted revision.                           *)
CarriedEverywhere == [g \in Gens |-> Instances]

(* Every start configures the same pool.                                   *)
OnePool == {Instances}

NoPins == [g \in Gens |-> NoInst]
=============================================================================
