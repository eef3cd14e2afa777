-------------------------- MODULE MCLoraOperations -------------------------
(* Three instances, one of them the model writer.                         *)
EXTENDS LoraOperations

CONSTANTS r1, r2, r3

MCReplicas == {r1, r2, r3}

=============================================================================
