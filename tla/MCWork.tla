------------------------------- MODULE MCWork -------------------------------
(***************************************************************************)
(* The coordinators that go on by themselves, as small instances of parts  *)
(* that share no state: automatic generation with the preparations, and    *)
(* expectation checks.  A behaviour follows one of them (focus).           *)
(***************************************************************************)
EXTENDS ExpectationChecks, AutoGeneration

VARIABLE focus

vars == <<autoVars, checkVars, focus>>

Init == focus \in {"automatic", "checks"} /\ AutoInit /\ ChecksInit

OfA(Action) == focus = "automatic" /\ Action /\ UNCHANGED <<checkVars, focus>>
OfE(Action) == focus = "checks" /\ Action /\ UNCHANGED <<autoVars, focus>>

Next == OfA(AutoNext) \/ OfE(ChecksNext)

(* The fairness of each of the parts.  A behaviour follows one of them, so *)
(* that conditions of different parts can share a formula.                 *)
Spec ==
    /\ Init /\ [][Next]_vars
    /\ WF_vars(OfA(Coordinator) \/ OfE(CheckSteps))
    /\ WF_vars(OfA(Advancing) \/ OfE(ProbesEnd))
    /\ SF_vars(OfA(Loads))
    /\ WF_vars(OfA(TextsGoOn))
    /\ WF_vars(OfA(ManualEnds))
    /\ WF_vars(OfA(CycleEnds))

(* The values of the state of both parts.                                  *)
TypesOK == AutoTypeOK /\ ChecksTypeOK

(* OneCycle, EndsHold and AutoProceeds are those of AutoGeneration,        *)
(* ChecksKept and ChecksSettle those of ExpectationChecks.                 *)
=============================================================================
