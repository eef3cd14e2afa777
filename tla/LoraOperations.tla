--------------------------- MODULE LoraOperations --------------------------
(***************************************************************************)
(* One LoRA operation of the application (services/lora_operations.py) over *)
(* the companions of its replicas: the row, the coroutine that runs it,    *)
(* the restart that recovers it, and the generations that may use the file.*)
(*                                                                         *)
(* A row that is not terminal excludes another (reserve()), and the next   *)
(* operation has its own journals: one operation is all of the interaction.*)
(***************************************************************************)
EXTENDS LoraCompanion, Integers

CONSTANT MaxFaults   \* requests that fail, leases that lapse, crashes

ASSUME MaxFaultsAssumption == MaxFaults \in Nat

VARIABLES
    status,   \* LoraOperation.status, "none" before the row exists
    task,     \* the coroutine at work on the row
    process,  \* the application
    using,    \* an active generation's graph names the file
    pruned,   \* _reconcile_after_success removed pictures and selections
    faults

application == <<status, task, process, using, pruned>>
vars == <<companion, application, faults>>

Steps == {"none", "preflight", "check", "put", "prepare", "commit", "verify",
          "quarantine", "absent", "finalize", "reconcile", "succeed",
          "rollback", "inspect", "states", "refinalize", "inventory"}

\* Whom a step has to ask.
Asked(step) ==
    CASE step \in {"prepare", "commit", "finalize", "rollback"} -> Replicas
      [] step \in {"put", "quarantine"} -> {Writer}
      [] OTHER -> {}

Task == [kind : {"none", "run", "again", "upload", "cancel", "recover"},
         step : Steps,
         left : SUBSET Replicas,    \* still to be asked
         finalized : BOOLEAN,       \* _run's finalized > 0
         ok : BOOLEAN,              \* _rollback's success
         err : {"none", "app", "other", "stop"}]   \* what _run re-raises
NoTask == [kind |-> "none", step |-> "none", left |-> {},
           finalized |-> FALSE, ok |-> TRUE, err |-> "none"]
Start(kind, step) ==
    [NoTask EXCEPT !.kind = kind, !.step = step, !.left = Asked(step)]

Init ==
    /\ CompanionInit
    /\ status = "none"
    /\ task = NoTask
    /\ process = "up"
    /\ using \in BOOLEAN
    /\ pruned = FALSE
    /\ faults = 0

Fault == faults < MaxFaults /\ faults' = faults + 1
NoFault == faults' = faults

-----------------------------------------------------------------------------
(* How a coroutine goes on.                                                *)

Mut_GoTo(step) == \* the loop over the replicas is not started afresh
    task' = [task EXCEPT !.step = step]

GoTo(step) == task' = [task EXCEPT !.step = step, !.left = Asked(step)]

(* The coroutine ends and leaves the row as it says; with the recovery the *)
(* application opens.                                                      *)
End(s) ==
    /\ status' = s
    /\ task' = NoTask
    /\ process' = IF process = "starting" THEN "up" ELSE process

Stays == UNCHANGED <<status, process, using, pruned>>

(* An exception in the try block of _run; after a first finalization there *)
(* is no way back.  A recovery has one handler for everything.             *)
Raise(err) ==
    IF task.kind = "recover" \/ task.finalized
    THEN End("repair_required") /\ UNCHANGED <<using, pruned>>
    ELSE /\ task' = [Start(task.kind, "rollback") EXCEPT !.err = err]
         /\ Stays

(* An exception leaves _run with every replica as it was: _run_guarded. An *)
(* installation has staged its file before and rolls back once more.       *)
Leave(err) ==
    /\ IF err = "app" /\ action = "install"
       THEN task' = Start("again", "rollback") /\ UNCHANGED <<status, process>>
       ELSE End(CASE err = "app" -> "failed"
                  [] err = "other" -> "repair_required"
                  [] err = "stop" -> status)
    /\ UNCHANGED <<using, pruned>>

-----------------------------------------------------------------------------
(* Requests to the companions.                                             *)

Request ==
    CASE task.step = "put" -> "stage"
      [] task.step = "refinalize" -> "finalize"
      [] OTHER -> task.step

(* The writer establishes the journals and the file, is the last to give   *)
(* up its backup, and restores first what a removal took.                  *)
WriterFirst ==
    \/ task.step \in {"prepare", "commit"}
    \/ task.step = "rollback" /\ action = "remove"
WriterLast ==
    \/ task.step = "finalize"
    \/ task.step = "rollback" /\ action # "remove"

NextAsked ==
    IF Writer \notin task.left \/ task.left = {Writer} THEN task.left
    ELSE IF WriterFirst THEN {Writer}
    ELSE IF WriterLast THEN task.left \ {Writer}
    ELSE task.left

\* The step after the last answer.
After ==
    [prepare |-> "commit", commit |-> "verify", quarantine |-> "absent",
     finalize |-> "reconcile", refinalize |-> "inventory", rollback |-> "inspect"]

Mut_ContinueOk(r, ok) == \* a rollback that failed is not remembered
    LET left == task.left \ {r}
        t == [task EXCEPT !.left = left, !.finalized = @ \/ task.step = "finalize"]
    IN  task' = IF left # {} THEN t
                ELSE [t EXCEPT !.step = After[task.step], !.left = Asked(After[task.step])]

(* One replica of the loop is dealt with.                                  *)
Continue(r, ok) ==
    LET left == task.left \ {r}
        t == [task EXCEPT !.left = left, !.ok = @ /\ ok,
                          !.finalized = @ \/ task.step = "finalize"]
    IN  task' = IF left # {} THEN t
                ELSE [t EXCEPT !.step = After[task.step], !.left = Asked(After[task.step])]

(* The request is answered.  Storing what it said is part of the step: a   *)
(* crash in between is a lost answer and a crash.                          *)
Answered(r) ==
    /\ Performs(Request, r)
    /\ IF task.step = "put"
       THEN task' = Start("run", "preflight")
       ELSE Continue(r, TRUE)
    /\ Stays /\ NoFault

(* An error instead of an answer: a refusal, no connection, a lost reply, a *)
(* companion that died on the way.                                         *)
NotAnswered(r) ==
    /\ \/ Refuses(Request, r) /\ NoFault
       \/ Fault /\ UNCHANGED companion
       \/ Fault /\ Performs(Request, r)
       \/ Fault /\ Breaks(Request, r)
    /\ CASE task.step = "put"      -> End("awaiting_upload") /\ UNCHANGED <<using, pruned>>
         [] task.step = "rollback" -> Continue(r, FALSE) /\ Stays
         [] OTHER                  -> Raise("app")

Ask == task.left # {} /\ \E r \in NextAsked : Answered(r) \/ NotAnswered(r)

-----------------------------------------------------------------------------
(* The steps of _run that look at the replicas.                            *)

AtStep(step) == task.step = step /\ UNCHANGED companion

\* A check that fails, or a request of it that does.
Doubt(holds) ==
    \/ ~holds /\ NoFault /\ Raise("app")
    \/ Fault /\ \E err \in {"app", "other"} : Raise(err)

AllAre(bundle) == \A r \in Replicas : publication[r] = bundle
Healthy == AllAre("old") /\ (action # "install" => weight)

(* _preflight, before the try block.                                       *)
PreflightOperation ==
    /\ AtStep("preflight")
    /\ \/ /\ Healthy /\ NoFault
          /\ GoTo(IF action = "remove" THEN "check" ELSE "prepare")
          /\ Stays
       \/ ~Healthy /\ NoFault /\ Leave("app")
       \/ Fault /\ \E err \in {"app", "other"} : Leave(err)

CheckActiveGenerations ==
    /\ AtStep("check") /\ NoFault
    /\ IF using THEN Leave("app") ELSE GoTo("prepare") /\ Stays

VerifyPublications ==
    /\ AtStep("verify")
    /\ \/ /\ AllAre("new") /\ weight /\ NoFault
          /\ GoTo(IF action = "remove" THEN "quarantine" ELSE "finalize")
          /\ Stays
       \/ Doubt(AllAre("new") /\ weight)

VerifyAbsent ==
    /\ AtStep("absent")
    /\ \/ ~weight /\ NoFault /\ GoTo("finalize") /\ Stays
       \/ Doubt(~weight)

(* The bundles after a rollback, and what becomes of the operation.        *)
Inspect ==
    /\ AtStep("inspect")
    /\ \E ok \in BOOLEAN :
          /\ IF ok THEN task.ok /\ AllAre("old") /\ NoFault
                   ELSE IF task.ok /\ AllAre("old") THEN Fault ELSE NoFault
          /\ CASE ~ok -> End("repair_required") /\ UNCHANGED <<using, pruned>>
               [] ok /\ task.kind = "run" -> Leave(task.err)
               [] OTHER -> End("failed") /\ UNCHANGED <<using, pruned>>

ReconcileAfterSuccess ==
    /\ AtStep("reconcile")
    /\ \/ /\ NoFault /\ GoTo("succeed")
          /\ pruned' = (pruned \/ action = "remove")
          /\ UNCHANGED <<status, process, using>>
       \/ Fault /\ Raise("other")

Succeed == AtStep("succeed") /\ NoFault /\ End("succeeded") /\ UNCHANGED <<using, pruned>>

-----------------------------------------------------------------------------
(* recover(), before the application opens.                                *)

Finalized == {r \in Replicas : journal[r] = "finalized"}

RecoverStates ==
    /\ AtStep("states")
    /\ \/ /\ NoFault /\ Finalized # {} /\ AllAre("new")
          /\ task' = [task EXCEPT !.step = IF Finalized = Replicas THEN "inventory"
                                           ELSE "refinalize",
                                  !.left = Replicas \ Finalized]
          /\ Stays
       \/ NoFault /\ Finalized # {} /\ ~AllAre("new") /\ Raise("app")
       \/ /\ NoFault /\ Finalized = {} /\ status = "repair_required"
          /\ End(status) /\ UNCHANGED <<using, pruned>>
       \/ /\ NoFault /\ Finalized = {} /\ status = "running"
          /\ GoTo("rollback") /\ Stays
       \/ Fault /\ Raise("other")

RecoverInventory ==
    /\ AtStep("inventory")
    /\ LET agrees == AllAre("new") /\ weight = (action # "remove")
       IN  \/ agrees /\ NoFault /\ GoTo("reconcile") /\ Stays
           \/ Doubt(agrees)

TaskStep ==
    \/ Ask
    \/ PreflightOperation \/ CheckActiveGenerations \/ VerifyPublications \/ VerifyAbsent
    \/ Inspect \/ ReconcileAfterSuccess \/ Succeed \/ RecoverStates \/ RecoverInventory

-----------------------------------------------------------------------------
(* Requests of users, and the process.                                     *)

Ready == process = "up" /\ task = NoTask /\ NoFault /\ UNCHANGED companion

Create ==
    /\ Ready /\ status = "none" /\ Healthy
    /\ IF action = "install"
       THEN status' = "awaiting_upload" /\ task' = NoTask
       ELSE status' = "running" /\ task' = Start("run", "preflight")
    /\ UNCHANGED <<process, using, pruned>>

Upload ==
    /\ Ready /\ status = "awaiting_upload" /\ Healthy
    /\ status' = "running"
    /\ task' = Start("upload", "put")
    /\ UNCHANGED <<process, using, pruned>>

\* Also _expire_uploads; the capabilities may be out of reach.
Cancel ==
    /\ process = "up" /\ task = NoTask /\ UNCHANGED companion
    /\ status = "awaiting_upload"
    /\ \/ NoFault /\ status' = "running" /\ task' = Start("cancel", "rollback")
       \/ Fault /\ status' = "repair_required" /\ task' = NoTask
    /\ UNCHANGED <<process, using, pruned>>

Mut_Maintenance == status = "repair_required"

Maintenance == status = "repair_required" \/ (action = "remove" /\ status = "running")

(* A generation whose graph names the file is accepted, and one ends.      *)
AcceptGeneration ==
    /\ process = "up" /\ ~using /\ ~Maintenance
    /\ using' = TRUE
    /\ UNCHANGED <<companion, status, task, process, pruned, faults>>

GenerationEnds ==
    /\ process = "up" /\ using
    /\ using' = FALSE
    /\ UNCHANGED <<companion, status, task, process, pruned, faults>>

\* A request that was sent may still be carried out.
InFlight ==
    \/ UNCHANGED companion
    \/ task.left # {} /\ \E r \in NextAsked : Performs(Request, r)

(* close(): the coroutine is cancelled where it waits; a transaction that  *)
(* has begun is waited for.                                                *)
Close ==
    /\ process = "up" /\ process' = "stopping"
    /\ InFlight
    /\ CASE task.kind = "run" /\ task.step \notin {"preflight", "check", "rollback", "inspect"} ->
              IF task.finalized
              THEN status' = "repair_required" /\ task' = NoTask
              ELSE /\ task' = [Start("run", "rollback") EXCEPT !.err = "stop"]
                   /\ UNCHANGED status
         [] task.kind = "upload" -> status' = "awaiting_upload" /\ task' = NoTask
         [] OTHER -> task' = NoTask /\ UNCHANGED status
    /\ pruned' \in {pruned, pruned \/ (task.step = "reconcile" /\ action = "remove")}
    /\ UNCHANGED <<using, faults>>

Stopped ==
    /\ process = "stopping" /\ task = NoTask
    /\ process' = "down"
    /\ UNCHANGED <<companion, status, task, using, pruned, faults>>

Crash ==
    /\ process # "down" /\ Fault
    /\ process' = "down" /\ task' = NoTask
    /\ UNCHANGED <<companion, status, using, pruned>>

Mut_Restart == \* recovers only what asks for repair
    /\ process = "down"
    /\ IF status = "repair_required"
       THEN process' = "starting" /\ task' = Start("recover", "states")
       ELSE process' = "up" /\ UNCHANGED task
    /\ UNCHANGED <<companion, status, using, pruned, faults>>

Restart ==
    /\ process = "down"
    /\ IF status \in {"running", "repair_required"}
       THEN process' = "starting" /\ task' = Start("recover", "states")
       ELSE process' = "up" /\ UNCHANGED task
    /\ UNCHANGED <<companion, status, using, pruned, faults>>

Publisher ==
    /\ \E r \in Replicas :
          \/ AcquireLease(r) /\ NoFault
          \/ LeaseLapses(r) /\ Fault
          \/ SaveAndPublish(r) /\ NoFault
    /\ UNCHANGED application

Next ==
    \/ TaskStep
    \/ Create \/ Upload \/ Cancel \/ AcceptGeneration \/ GenerationEnds
    \/ Close \/ Stopped \/ Crash \/ Restart
    \/ Publisher

(* The coroutine goes on (requests time out), a stop ends, the container   *)
(* is started again.  Users, browsers and faults owe nothing.              *)
Spec == Init /\ [][Next]_vars /\ WF_vars(TaskStep) /\ WF_vars(Stopped) /\ WF_vars(Restart)

-----------------------------------------------------------------------------

(* Types, and the coroutine asks exactly in the steps that are requests.   *)
TypeOK ==
    /\ CompanionTypeOK
    /\ status \in {"none", "awaiting_upload", "running", "succeeded", "failed",
                   "repair_required"}
    /\ task \in Task
    /\ (task.left # {}) = (Asked(task.step) # {} \/ task.step = "refinalize")
    /\ process \in {"up", "stopping", "down", "starting"}
    /\ {using, pruned} \subseteq BOOLEAN
    /\ faults \in 0 .. MaxFaults

(* An operation that reports failure changed nothing and left nothing, one *)
(* that reports success is complete on every replica, whatever failed on   *)
(* the way.  (Save & Publish may have replaced a publication since.)       *)
Settled ==
    /\ status = "failed" =>
          /\ \A r \in Replicas : /\ publication[r] \in {"old", "other"}
                                 /\ journal[r] \in {"none", "rolled_back"}
          /\ weight = (action # "install") /\ ~stage /\ ~quarantine
    /\ status = "succeeded" =>
          /\ \A r \in Replicas : /\ publication[r] \in {"new", "other"}
                                 /\ journal[r] = "finalized"
          /\ weight = (action # "remove") /\ ~stage /\ ~quarantine

(* No replica publishes a candidate before all of them have journaled how  *)
(* to take it back.                                                        *)
PreparedFirst ==
    (\E r \in Replicas : publication[r] \in {"mixed", "new"}) =>
        \A r \in Replicas : journal[r] \notin {"none", "staged"}

(* Pictures and saved selections are pruned only when no replica can roll  *)
(* back any more.                                                          *)
PruneLast == pruned => Finalized = Replicas

(* What an operation leaves, and the order in which it goes ahead.         *)
SettledInOrder == Settled /\ PreparedFirst /\ PruneLast

(* A removal never takes the file from an active generation that names it. *)
RemovalWaitsForWork ==
    [][action = "remove" /\ weight /\ ~weight' => ~using]_vars

(* An operation does not stay "running": what a stop or a crash interrupts *)
(* is finished, rolled back or marked for repair.                          *)
Released == (status = "running") ~> (status # "running")

=============================================================================
