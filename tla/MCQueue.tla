------------------------------ MODULE MCQueue ------------------------------
(***************************************************************************)
(* How work comes into the queue and out of it, as small instances of      *)
(* three parts that share no state: submissions, the order of claims, and  *)
(* prompt runs.  A behaviour follows one of them (focus).                  *)
(***************************************************************************)
EXTENDS Submissions, TextRuns, FairClaim

CONSTANTS
    single, someone, only, t1, t2

VARIABLE
    focus

ItemsOf == [k \in Keys |-> IF k = single THEN 1 ELSE 2]
ChecksOf == Keys \ {single}

(* Every account makes automatic images and prompt runs by hand.           *)
WorkOf == {[text |-> FALSE, automatic |-> TRUE, on |-> {only}], [text |-> TRUE, automatic |-> FALSE, on |-> {only}]}
KindsOf == [o \in Owners |-> WorkOf]
OneWorker == <<only>>

vars == <<submissionVars, claimVars, textVars, focus>>

Init ==
    /\ focus \in {"submissions", "claims", "texts"}
    /\ SubmissionsInit /\ FairClaimInit /\ TextRunsInit

OfS(A) == focus = "submissions" /\ A /\ UNCHANGED <<claimVars, textVars, focus>>
OfC(A) == focus = "claims" /\ A /\ UNCHANGED <<submissionVars, textVars, focus>>
OfT(A) == focus = "texts" /\ A /\ UNCHANGED <<submissionVars, claimVars, focus>>

Next == OfS(SubmissionsNext) \/ OfC(FairClaimNext) \/ OfT(TextRunsNext)

(* The fairness of each of the parts.  A behaviour follows one of them, so *)
(* that conditions of different parts can share a formula.                 *)
Spec ==
    /\ Init /\ [][Next]_vars
    /\ WF_vars(OfS(TabStep) \/ OfC(Dispatcher) \/ OfT(Restarts))
    /\ WF_vars(OfC(EndsOn(only)) \/ OfT(Executors))
    /\ WF_vars(OfC(Recovers(only)) \/ OfT(Natives))
    /\ SF_vars(OfT(Claims))

(* The values of the state of the three parts.                             *)
TypesOK == SubmissionsTypeOK /\ FairClaimTypeOK /\ TextRunsTypeOK

(* The tab learns that the server took a key it saved, and may submit      *)
(* again; an account with claimable work is served next at some time,      *)
(* however much the others submit; and every text run is settled.          *)
Resolved == KeyResolved /\ Served(someone, only) /\ (focus = "texts" => TextSettles)
=============================================================================
