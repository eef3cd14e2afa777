--------------------------- MODULE AutoGeneration ---------------------------
(***************************************************************************)
(* Automatic generation (auto_generation.py) over the preparations of one  *)
(* account: settings with a revision, cycles of images that follow one     *)
(* another, and the step task that prepares, composes and accepts them.    *)
(* A request names the revision it saw and is refused with another one, so *)
(* that a change is one action.                                            *)
(***************************************************************************)
EXTENDS Preparations

CONSTANTS
    Quantity,   \* images of a cycle: variants times quantity
    Limits,     \* values of max_generations
    MaxChanges  \* bound on changes of the settings

\* A limit that is never reached stands for settings without one.
ASSUME SizesAssumption ==
    /\ Batch \in Nat /\ Quantity \in Nat /\ MaxChanges \in Nat
    /\ Limits \subseteq Nat /\ Limits # {}

VARIABLES
    step,      \* the step task: [stage, revision, cycle]
    recovered  \* this start has cleared the claims of the last one

autoVars == <<auto, cycles, groups, work, task, up, trouble, step, recovered>>

NoStep == [stage |-> "none", revision |-> 0, cycle |-> 0]
Off == [enabled |-> FALSE, blocked |-> "no", revision |-> 0, accepted |-> 0, since |-> 0,
        limit |-> CHOOSE n \in Limits : TRUE, prompt |-> FALSE]

AutoInit ==
    /\ auto = Off /\ cycles = << >> /\ groups = << >> /\ work = [c \in {0} |-> NoWork]
    /\ task = Idle /\ up = TRUE /\ trouble = 0 /\ step = NoStep /\ recovered = FALSE

-----------------------------------------------------------------------------
(* change                                                                  *)

\* _invalidate, but for the revision
Invalidate ==
    /\ cycles' = [c \in DOMAIN cycles |->
                    IF cycles[c].state \in {"preparing", "ready"}
                    THEN [cycles[c] EXCEPT !.state = "discarded", !.claim = FALSE] ELSE cycles[c]]
    /\ groups' = Failed({g \in DOMAIN groups : groups[g].cycle # 0}, "discarded")

(* The new settings s take effect: everything not yet accepted is of an    *)
(* older revision, and a limit that is already reached switches off.       *)
Changes(s) ==
    /\ up /\ auto.revision < MaxChanges
    /\ Invalidate
    /\ auto' = [s EXCEPT !.revision = @ + 1, !.blocked = "no",
                         !.enabled = @ /\ s.accepted < s.limit]
    /\ UNCHANGED <<work, task, up, trouble, step, recovered>>

Enable == \* a fresh count
    /\ ~auto.enabled
    /\ \E limit \in Limits, prompt \in BOOLEAN :
          Changes([auto EXCEPT !.enabled = TRUE, !.accepted = 0, !.since = 0,
                               !.limit = limit, !.prompt = prompt])
Disable == auto.enabled /\ Changes([auto EXCEPT !.enabled = FALSE])
Edit ==
    /\ auto.enabled /\ auto.blocked # "gone"
    /\ \E prompt \in BOOLEAN : Changes([auto EXCEPT !.prompt = prompt])
Relimit ==
    /\ auto.revision > 0 /\ ~(auto.enabled /\ auto.blocked = "gone")
    /\ \E limit \in Limits : Changes([auto EXCEPT !.limit = limit])

(* CollectionService.delete: reruns into the folder stop, and automation   *)
(* into it is blocked until it is switched off.  What it has prepared is   *)
(* left to be found invalid (ValidCycle) or of another revision.           *)
DeleteFolder ==
    /\ up /\ auto.revision \in 1 .. MaxChanges - 1 /\ auto.blocked # "gone"
    /\ \E R \in SUBSET {g \in DOMAIN groups : groups[g].kind = "rerun"} :
          groups' = Failed(R, "cancelled")
    /\ auto' = [auto EXCEPT !.revision = @ + 1, !.blocked = "gone"]
    /\ UNCHANGED <<cycles, work, task, up, trouble, step, recovered>>

-----------------------------------------------------------------------------
(* step                                                                    *)

Budget == LET rest == auto.limit - auto.accepted IN IF Quantity < rest THEN Quantity ELSE rest
Switched == [auto EXCEPT !.enabled = FALSE]

ClearClaims == \* clear_abandoned_claims, once per start
    /\ up /\ ~recovered /\ recovered' = TRUE
    /\ cycles' = [c \in DOMAIN cycles |->
                    IF cycles[c].state = "preparing" THEN [cycles[c] EXCEPT !.claim = FALSE] ELSE cycles[c]]
    /\ UNCHANGED <<auto, groups, work, task, up, trouble, step>>

Begins == up /\ recovered /\ step = NoStep /\ auto.enabled /\ auto.blocked = "no"

(* _prepare_cycle looks at the accepted cycles that have run out.          *)
RanOut(c) == /\ cycles[c].state = "accepted" /\ work[c].active = 0
             /\ \A g \in DOMAIN groups : groups[g].cycle = c => ~IsActive(g)
Fell(c) == RanOut(c) /\ work[c].failed /\ cycles[c].revision = auto.revision
Completed(last) == [c \in DOMAIN cycles |->
    IF c <= last /\ RanOut(c) THEN [cycles[c] EXCEPT !.state = "completed"] ELSE cycles[c]]

BlockOnFailure == \* a failed cycle is observed once
    /\ Begins
    /\ \E c \in DOMAIN cycles :
          /\ Fell(c) /\ \A d \in DOMAIN cycles : Fell(d) => c <= d
          /\ cycles' = Completed(c)
    /\ auto' = [auto EXCEPT !.blocked = "yes"]
    /\ UNCHANGED <<groups, work, task, up, trouble, step, recovered>>

Continues == Begins /\ ~\E c \in DOMAIN cycles : Fell(c)
AddCycle(state, claim) ==
    /\ cycles' = Append(Completed(Len(cycles)), [revision |-> auto.revision, state |-> state, claim |-> claim])
    /\ work' = [c \in 0 .. Len(cycles) + 1 |-> IF c \in DOMAIN work THEN work[c] ELSE NoWork]

Mut_PromptCycle == \* does not wait for the images of the cycle before
    /\ Continues /\ auto.prompt /\ \A g \in DOMAIN groups : ~IsActive(g)
    /\ Budget > 0 /\ Len(groups) < MaxGroups
    /\ AddCycle("accepted", FALSE)
    /\ groups' = Append(groups, NewGroup("auto", Len(cycles) + 1, Budget, TRUE))
    /\ UNCHANGED <<auto, task, up, trouble, step, recovered>>

(* _prepare_prompt_cycle: with a text source the cycle is a group of       *)
(* preparations, made once the account has nothing else under way.         *)
PromptCycle ==
    /\ Continues /\ auto.prompt /\ ~Busy /\ \A g \in DOMAIN groups : ~IsActive(g)
    /\ IF Budget <= 0
       THEN auto' = Switched /\ cycles' = Completed(Len(cycles)) /\ UNCHANGED <<groups, work>>
       ELSE /\ Len(groups) < MaxGroups
            /\ AddCycle("accepted", FALSE)
            /\ groups' = Append(groups, NewGroup("auto", Len(cycles) + 1, Budget, TRUE))
            /\ UNCHANGED auto
    /\ UNCHANGED <<task, up, trouble, step, recovered>>

Open == {c \in DOMAIN cycles : cycles[c].revision = auto.revision /\ cycles[c].state \in {"preparing", "ready"}}

(* The other cycles: a new one or the one under way is claimed and goes to *)
(* the language model; a composed one goes to acceptance.                  *)
DirectCycle ==
    /\ Continues /\ ~auto.prompt
    /\ IF Open = {}
       THEN /\ AddCycle("preparing", TRUE) /\ Len(cycles) < MaxGroups
            /\ step' = [stage |-> "compose", revision |-> auto.revision, cycle |-> Len(cycles) + 1]
       ELSE LET c == CHOOSE c \in Open : TRUE
            IN  /\ cycles[c].state = "preparing" => ~cycles[c].claim
                /\ cycles' = [Completed(Len(cycles)) EXCEPT ![c].claim = (cycles[c].state = "preparing")]
                /\ step' = [stage |-> IF cycles[c].state = "ready" THEN "accept" ELSE "compose",
                            revision |-> auto.revision, cycle |-> c]
                /\ UNCHANGED work
    /\ UNCHANGED <<auto, groups, task, up, trouble, recovered>>

SetError == \E b \in {"no", "yes"} : auto' = [auto EXCEPT !.blocked = b]

PrepareFails == \* _normalize_assignments raises; the row is retried or blocked
    /\ Continues /\ Troubles /\ SetError
    /\ cycles' = Completed(Len(cycles))
    /\ UNCHANGED <<groups, work, task, up, step, recovered>>

(* _complete_composition: the answer counts for the revision and the claim *)
(* it was asked under.                                                     *)
CycleComposed ==
    /\ step.stage = "compose"
    /\ IF auto.enabled /\ auto.revision = step.revision /\ cycles[step.cycle].claim
       THEN /\ cycles' = [cycles EXCEPT ![step.cycle].state = "ready", ![step.cycle].claim = FALSE]
            /\ step' = [step EXCEPT !.stage = "accept"]
       ELSE step' = NoStep /\ UNCHANGED cycles
    /\ UNCHANGED <<auto, groups, work, task, up, trouble, recovered>>

Mut_AcceptReady == \* counts on the limit the cycle was begun with
    /\ step.stage = "accept" /\ step' = NoStep
    /\ IF ~auto.enabled \/ auto.revision # step.revision \/ cycles[step.cycle].state # "ready" \/ Busy
       THEN UNCHANGED <<auto, cycles, work>>
       ELSE /\ cycles' = [cycles EXCEPT ![step.cycle].state = "accepted"]
            /\ work' = Started(step.cycle, Quantity)
            /\ auto' = Counted(Quantity)
    /\ UNCHANGED <<groups, task, up, trouble, recovered>>

(* _accept_ready                                                           *)
AcceptReady ==
    /\ step.stage = "accept" /\ step' = NoStep
    /\ IF ~auto.enabled \/ auto.revision # step.revision \/ cycles[step.cycle].state # "ready" \/ Busy
       THEN UNCHANGED <<auto, cycles, work>>
       ELSE IF Budget <= 0 THEN auto' = Switched /\ UNCHANGED <<cycles, work>>
       ELSE /\ cycles' = [cycles EXCEPT ![step.cycle].state = "accepted"]
            /\ work' = Started(step.cycle, Budget)
            /\ auto' = Counted(Budget)
    /\ UNCHANGED <<groups, task, up, trouble, recovered>>

Mut_StepFails == \* leaves the claim where it is
    /\ step.stage \in {"compose", "accept"} /\ Troubles /\ step' = NoStep
    /\ IF auto.enabled /\ auto.revision = step.revision THEN SetError ELSE UNCHANGED auto
    /\ UNCHANGED <<cycles, groups, work, task, up, recovered>>

(* The model or the acceptance failed: _record_error.                      *)
StepFails ==
    /\ step.stage \in {"compose", "accept"} /\ Troubles /\ step' = NoStep
    /\ IF auto.enabled /\ auto.revision = step.revision
       THEN /\ SetError
            /\ cycles' = [c \in DOMAIN cycles |->
                 IF cycles[c].state = "preparing" THEN [cycles[c] EXCEPT !.claim = FALSE] ELSE cycles[c]]
       ELSE UNCHANGED <<auto, cycles>>
    /\ UNCHANGED <<groups, work, task, up, recovered>>

-----------------------------------------------------------------------------
(* The rest of the system.                                                 *)

(* submissions.accept, while automation is off.                            *)
SubmitManual ==
    /\ up /\ ~auto.enabled /\ work[0].active = 0 /\ work' = Started(0, 1)
    /\ UNCHANGED <<auto, cycles, groups, task, up, trouble, step, recovered>>

Stop == \* a stop: the step task gives its claim back
    /\ up /\ Troubles /\ up' = FALSE /\ task' = Idle /\ step' = NoStep
    /\ cycles' = IF step.stage = "compose" THEN [cycles EXCEPT ![step.cycle].claim = FALSE] ELSE cycles
    /\ UNCHANGED <<auto, groups, work, recovered>>

Crash ==
    /\ up /\ Troubles /\ up' = FALSE /\ task' = Idle /\ step' = NoStep
    /\ UNCHANGED <<auto, cycles, groups, work, recovered>>

StartUp ==
    /\ ~up /\ up' = TRUE /\ recovered' = FALSE
    /\ UNCHANGED <<auto, cycles, groups, work, task, trouble, step>>

StepTask == ClearClaims \/ BlockOnFailure \/ PromptCycle \/ DirectCycle \/ CycleComposed \/ AcceptReady
AutoNext ==
    \/ Enable \/ Disable \/ Edit \/ Relimit \/ DeleteFolder
    \/ StepTask \/ PrepareFails \/ StepFails
    \/ SubmitManual \/ Stop \/ Crash \/ StartUp
    \/ /\ UNCHANGED <<step, recovered>>
       /\ \/ \E kind \in {"manual", "rerun"} : Prepare(kind)
          \/ StopRerun \/ Advances
          \/ \E g \in DOMAIN groups : TextMoves(g) \/ TextGivesUp(g)
          \/ \E c \in DOMAIN work : WorkEnds(c)

Helpful(A) == A /\ UNCHANGED <<step, recovered>>

Coordinator == StepTask \/ StartUp
Advancing == Helpful(Compose \/ Accept \/ Fail)
Loads == Helpful(\E g \in DOMAIN groups : LoadBatch(g))
TextsGoOn == Helpful(\E g \in DOMAIN groups : TextMoves(g))
ManualEnds == Helpful(WorkEnds(0))
CycleEnds == Helpful(\E c \in DOMAIN work \ {0} : WorkEnds(c))

(* Both coordinators run on, prompt runs and images end.  (Groups and      *)
(* cycles are finitely many: none needs fairness of its own.)              *)
AutoSpec ==
    /\ AutoInit /\ [][AutoNext]_autoVars
    /\ WF_autoVars(Coordinator) /\ WF_autoVars(Advancing) /\ SF_autoVars(Loads)
    /\ WF_autoVars(TextsGoOn) /\ WF_autoVars(ManualEnds) /\ WF_autoVars(CycleEnds)

-----------------------------------------------------------------------------
AutoTypeOK ==
    /\ auto.blocked \in {"no", "yes", "gone"} /\ auto.revision \in 0 .. MaxChanges
    /\ auto.enabled \in BOOLEAN /\ (auto.enabled => auto.accepted < auto.limit)
    /\ \A c \in DOMAIN cycles :
          /\ cycles[c].state \in {"preparing", "ready", "accepted", "completed", "discarded"}
          /\ cycles[c].claim => cycles[c].state = "preparing"
    /\ DOMAIN work = 0 .. Len(cycles)
    /\ task.stage \in {"none", "compose", "accept", "fail"} /\ task.group \in 0 .. Len(groups)
    /\ step.stage \in {"none", "compose", "accept"} /\ step.cycle \in 0 .. Len(cycles)

(* Images of one automatic cycle at a time, accepted in one go: whatever   *)
(* was edited, switched or retried in between, cycles never overlap.       *)
OneCycleAtATime ==
    /\ \A c, d \in DOMAIN cycles : work[c].active > 0 /\ work[d].active > 0 => c = d
    /\ \A c \in DOMAIN cycles : work[c].batches <= 1

(* Automation never accepts more than its limit since it was switched on,  *)
(* and accepts only under the settings in force: what was prepared or      *)
(* composed under others is dropped, however late its text, its refinement *)
(* or its answer arrives.                                                  *)
AcceptsInForce ==
    [][\A c \in DOMAIN cycles :
          work'[c].batches > work[c].batches =>
              /\ cycles[c].revision = auto.revision /\ auto.enabled /\ auto.blocked # "gone"
              /\ auto'.since <= auto'.limit]_autoVars

(* A change leaves nothing of the old settings waiting: every group still  *)
(* active is manual or of the present revision, and so is every cycle that *)
(* is being composed or waits for acceptance.  (A deleted folder blocks    *)
(* the automation instead, and the change that frees it clears the rest.)  *)
NothingLeftBehind ==
    auto.blocked # "gone" =>
        /\ \A g \in DOMAIN groups :
              IsActive(g) /\ groups[g].cycle # 0 => cycles[groups[g].cycle].revision = auto.revision
        /\ \A c \in DOMAIN cycles :
              cycles[c].state \in {"preparing", "ready"} => cycles[c].revision = auto.revision

(* What was stopped, dropped or failed stays so: an answer of the language *)
(* model that was on its way does not bring its images back.               *)
FateIsFinal ==
    [][\A g \in DOMAIN groups : ~IsActive(g) => groups'[g].status = groups[g].status]_autoVars

(* Automation goes on until its limit, an error or its user stops it: no   *)
(* claim, group or image of a dead step holds it up for ever.              *)
AutomationGoesOn == []<>(~auto.enabled \/ auto.blocked # "no" \/ Len(groups) = MaxGroups \/ Len(cycles) >= MaxGroups)

(* Every group of preparations is accepted, fails or is dropped.           *)
GroupsSettle == []<>(\A g \in DOMAIN groups : ~IsActive(g))

(* Automatic cycles never overlap, whatever was edited, switched or        *)
(* retried in between, and a change leaves no group and no cycle of the    *)
(* old settings waiting.                                                   *)
OneCycle == OneCycleAtATime /\ NothingLeftBehind

(* A dropped group does not come back, whatever answer was under way, and  *)
(* automation accepts only under the settings in force and within its      *)
(* limit.                                                                  *)
EndsHold == AcceptsInForce /\ FateIsFinal

(* Automation goes on until its limit, an error or its user stops it, and  *)
(* every group of preparations is accepted, fails or is dropped.           *)
AutoProceeds == AutomationGoesOn /\ GroupsSettle
=============================================================================
