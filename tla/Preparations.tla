---------------------------- MODULE Preparations ----------------------------
(***************************************************************************)
(* Images that wait for a prompt (prompt_generation.py: create_preparations,*)
(* advance and _advance_batch; prompt_rerun.py; _save_run of               *)
(* prompt_assistant.py), for one account.  The rows of a group share their *)
(* prompt run, their refinement and their fate, so that a group is one     *)
(* record; groups of older releases, where each row had a run of its own,  *)
(* are not modelled.  Of a prompt run only what TextPromise says is used.  *)
(*                                                                         *)
(* A database transaction under lock_user_state is one action; the         *)
(* coordinator's task for the account goes from one to the next.           *)
(***************************************************************************)
EXTENDS Integers, Sequences, FiniteSets

CONSTANTS
    Batch,       \* images of a manual group or rerun
    MaxGroups,   \* bound on groups
    MaxTrouble   \* bound on errors, stops and crashes

VARIABLES
    auto,     \* the AutoGeneration row
    cycles,   \* AutoGenerationCycle, oldest first
    groups,   \* groups of GenerationPreparation, oldest first
    work,     \* the images of cycle c; work[0] are those of no cycle
    task,     \* what the coordinator does for this account: [group, stage]
    up,       \* the program is running
    trouble

preparationVars == <<groups, task>>

PreparationActive == {"preparing", "refining", "ready"}
IsActive(g) == groups[g].status \in PreparationActive
Idle == [group |-> 0, stage |-> "none"]
NoWork == [active |-> 0, failed |-> FALSE, batches |-> 0]
Troubles == trouble < MaxTrouble /\ trouble' = trouble + 1
Busy == \E c \in DOMAIN work : work[c].active > 0

NewGroup(kind, cycle, size, wants) ==
    [kind |-> kind, cycle |-> cycle, size |-> size, status |-> "preparing", wants |-> wants,
     refined |-> FALSE, text |-> IF kind = "rerun" THEN "none" ELSE "queued"]

(* fail_preparation for every row of the groups S that is still active.    *)
Failed(S, word) ==
    [g \in DOMAIN groups |->
        IF g \in S /\ IsActive(g)
        THEN [groups[g] EXCEPT !.status = word,
                               !.text = IF @ = "queued" THEN "discarded" ELSE @]
        ELSE groups[g]]

(* valid_cycle: the automation that asked for it still wants it.           *)
ValidCycle(g) ==
    groups[g].cycle # 0 =>
        /\ auto.enabled /\ auto.blocked = "no"
        /\ auto.revision = cycles[groups[g].cycle].revision
        /\ cycles[groups[g].cycle].state # "discarded"

-----------------------------------------------------------------------------
(* Requests.                                                               *)

\* require_manual_generation
Prepare(kind) ==
    /\ up /\ ~auto.enabled /\ Len(groups) < MaxGroups
    /\ groups' = Append(groups, NewGroup(kind, 0, Batch, TRUE))
    /\ UNCHANGED <<auto, cycles, work, task, up, trouble>>

StopRerun == \* stop_in_session
    /\ up
    /\ \E g \in DOMAIN groups :
          /\ groups[g].kind = "rerun" /\ IsActive(g)
          /\ groups' = Failed({g}, "cancelled")
    /\ UNCHANGED <<auto, cycles, work, task, up, trouble>>

(* The prompt run of a group, as far as TextPromise tells.                 *)
TextMoves(g) ==
    /\ \/ groups[g].text = "queued" /\ groups' = [groups EXCEPT ![g].text = "active"]
       \/ groups[g].text = "active" /\ groups' = [groups EXCEPT ![g].text = "succeeded"]
    /\ UNCHANGED <<auto, cycles, work, task, up, trouble>>

TextGivesUp(g) ==
    /\ groups[g].text \in {"queued", "active", "discarded"} /\ Troubles
    /\ groups' = [groups EXCEPT ![g].text = "failed"]
    /\ UNCHANGED <<auto, cycles, work, task, up>>

-----------------------------------------------------------------------------
(* The coordinator.                                                        *)

\* _advance_reruns: refined reruns in any case, of the others the oldest.
Takes(g) ==
    IsActive(g) /\ (groups[g].kind = "rerun" /\ ~groups[g].refined =>
        \A h \in DOMAIN groups : h < g => ~(groups[h].kind = "rerun" /\ IsActive(h) /\ ~groups[h].refined))

(* load() of _advance_batch.                                               *)
LoadBatch(g) ==
    LET has == groups[g].kind = "rerun" \/ groups[g].text = "succeeded"
        refines == groups[g].wants /\ ~groups[g].refined
    IN  /\ up /\ task = Idle /\ Takes(g)
        /\ IF ~ValidCycle(g)
           THEN groups' = Failed({g}, "discarded") /\ UNCHANGED task
           ELSE /\ groups' = IF has THEN [groups EXCEPT ![g].status = IF refines THEN "refining" ELSE "ready"]
                             ELSE groups
                /\ task' = CASE groups[g].text \in {"queued", "active"} -> Idle
                             [] groups[g].text \in {"failed", "discarded"} -> [group |-> g, stage |-> "fail"]
                             [] OTHER -> [group |-> g, stage |-> IF refines THEN "compose" ELSE "accept"]
        /\ UNCHANGED <<auto, cycles, work, up, trouble>>

(* compose_prompt returns: _save_run puts the answer on the leader, if it  *)
(* still waits for it.                                                     *)
Compose ==
    /\ task.stage = "compose"
    /\ \/ /\ groups' = IF groups[task.group].status \in {"preparing", "refining"}
                       THEN [groups EXCEPT ![task.group].refined = TRUE, ![task.group].status = "ready"]
                       ELSE groups
          /\ task' = [task EXCEPT !.stage = "accept"] /\ UNCHANGED trouble
       \/ task' = [task EXCEPT !.stage = "fail"] /\ Troubles /\ UNCHANGED groups
    /\ UNCHANGED <<auto, cycles, work, up>>

Mut_Counted(n) == \* the limit is looked at when the next cycle is prepared
    [auto EXCEPT !.accepted = @ + n, !.since = @ + n, !.blocked = "no"]

(* The account's automation after n more images of cycle c were accepted.  *)
Counted(n) ==
    LET total == auto.accepted + n
    IN  [auto EXCEPT !.accepted = total, !.since = @ + n, !.blocked = "no",
                     !.enabled = @ /\ total < auto.limit]

Started(c, n) == [work EXCEPT ![c].active = @ + n, ![c].batches = IF c = 0 THEN 0 ELSE @ + 1]

(* accept_batch: every image of the group or none.                         *)
Accept ==
    /\ task.stage = "accept" /\ task' = Idle
    /\ LET g == task.group
           c == groups[g].cycle
       IN  IF ~IsActive(g) \/ ~ValidCycle(g) THEN UNCHANGED <<groups, auto, work>>
           ELSE /\ groups' = [groups EXCEPT ![g].status = "accepted"]
                /\ work' = Started(c, groups[g].size)
                /\ auto' = IF c = 0 THEN auto ELSE Counted(groups[g].size)
    /\ UNCHANGED <<cycles, up, trouble>>

AcceptFails == \* the pool is unavailable: later; any other error: _fail
    /\ task.stage = "accept" /\ IsActive(task.group) /\ ValidCycle(task.group) /\ Troubles
    /\ \/ task' = Idle
       \/ task' = [task EXCEPT !.stage = "fail"]
    /\ UNCHANGED <<groups, auto, cycles, work, up>>

(* _fail                                                                   *)
Fail ==
    /\ task.stage = "fail" /\ task' = Idle
    /\ groups' = Failed({task.group}, "failed")
    /\ auto' = IF groups[task.group].cycle # 0 /\ ValidCycle(task.group)
               THEN [auto EXCEPT !.blocked = "yes"] ELSE auto
    /\ UNCHANGED <<cycles, work, up, trouble>>

Advances == (\E g \in DOMAIN groups : LoadBatch(g)) \/ Compose \/ Accept \/ AcceptFails \/ Fail

WorkEnds(c) ==
    /\ work[c].active > 0
    /\ \/ work' = [work EXCEPT ![c].active = @ - 1] /\ UNCHANGED trouble
       \/ c # 0 /\ work' = [work EXCEPT ![c].active = @ - 1, ![c].failed = TRUE] /\ Troubles
    /\ UNCHANGED <<auto, cycles, groups, task, up>>
=============================================================================
