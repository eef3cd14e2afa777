----------------------------- MODULE MCServices -----------------------------
(***************************************************************************)
(* Services that work in the background, as small instances of parts that  *)
(* share no state: LoRA operations over three replicas, demo reels of two  *)
(* images with at most two rows, and the catalog of an instance with one   *)
(* workflow.  A behaviour follows one of them (focus).                     *)
(***************************************************************************)
EXTENDS MCLoraOperations, DemoReels, WorkflowRegistry

VARIABLE focus

CONSTANTS k1, k2

MCOrder   == <<k1, k2>>
MCSources == {"workflow"}

allVars == <<vars, reelVars, registryVars, focus>>

(* What is not followed starts in one state.                               *)
FocusInit ==
    /\ focus \in {"lora", "reels", "catalog"}
    /\ Init /\ DemoReelsInit /\ RegistryInit
    /\ focus # "lora" => action = "edit" /\ ~using
    /\ focus # "catalog" => up /\ classes

OfL(A) == focus = "lora" /\ A /\ UNCHANGED <<reelVars, registryVars, focus>>
OfD(A) == focus = "reels" /\ A /\ UNCHANGED <<vars, registryVars, focus>>
OfC(A) == focus = "catalog" /\ A /\ UNCHANGED <<vars, reelVars, focus>>

FocusNext == OfL(Next) \/ OfD(DemoReelsNext) \/ OfC(RegistryNext)

(* The fairness of LoRA operations and of the catalog; conditions of both  *)
(* share a formula.  That of the reels is in MCProgress.                   *)
FocusSpec ==
    /\ FocusInit /\ [][FocusNext]_allVars
    /\ WF_allVars(OfL(TaskStep) \/ OfC(Discovery))
    /\ WF_allVars(OfL(Stopped) \/ OfC(HealthLoop))
    /\ WF_allVars(OfL(Restart))

(* See the modules for what the properties say, and for SettledInOrder,    *)
(* ReelsGiveWay and CatalogKept, which hold of a part that is not followed *)
(* as well.                                                                *)
TypesOK ==
    CASE focus = "lora" -> TypeOK [] focus = "reels" -> ReelsTypeOK [] focus = "catalog" -> RegistryTypeOK
CatalogRecovers == focus = "catalog" => ReadyAgain
=============================================================================
