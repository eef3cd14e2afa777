------------------------ MODULE GenerationLifecycle ------------------------
(***************************************************************************)
(* The life of an accepted image generation: the HTTP handlers that cancel *)
(* and delete it (services/generations.py, services/user_deletion.py), the *)
(* dispatcher and the per-generation executor (services/queue_worker.py),  *)
(* the ComfyUI prompts it causes, graceful stop, crash and startup         *)
(* recovery.                                                               *)
(*                                                                         *)
(* A transaction that starts with lock_user_state holds the SQLite writer  *)
(* from its first statement and is one action.  A transaction that starts  *)
(* with a SELECT takes the writer only at its first UPDATE: its read and   *)
(* its write are two actions wherever the write depends on the read.       *)
(***************************************************************************)
EXTENDS Naturals, FiniteSets

CONSTANTS
    Gens,         \* generation ids
    Instances,    \* ComfyUI instance ids any deployment may configure
    NoInst,       \* comfyui_instance_id IS NULL
    NoGen,        \* no generation: the dispatcher holds no claim
    Deployments,  \* the sets of instances a (re)start may configure as the image pool
    Carries,      \* Carries[g]: the workers that hold g's accepted revision
    LegacyPin,    \* LegacyPin[g]: the runtime a row of an older release is pinned to
    Doomed,       \* generations of the one account an administrator may delete
    Slots,        \* concurrency of one instance
    MaxPrompts,   \* bound: native prompts ever accepted
    FaultKinds,   \* the kinds of fault a run admits
    MaxFaults     \* bound: how many faults happen in one behaviour

Prompts  == 1 .. MaxPrompts
NoPrompt == 0

AllFaults == {"crash", "stop", "connect", "ambiguous", "reject", "vanish",
              "absent", "archive", "cancelfail", "cancelmiss"}

ASSUME ConstantsAssumption ==
    /\ NoInst \notin Instances
    /\ NoGen \notin Gens
    /\ Deployments \subseteq SUBSET Instances
    /\ Deployments # {}
    /\ Carries \in [Gens -> SUBSET Instances]
    /\ LegacyPin \in [Gens -> Instances \cup {NoInst}]
    /\ Doomed \subseteq Gens
    /\ Slots \in Nat
    /\ MaxPrompts \in Nat
    /\ MaxFaults \in Nat
    /\ FaultKinds \subseteq AllFaults

VARIABLES
    row,      \* generations table: the columns dispatch and recovery decide by
    task,     \* _active: the live executor of a generation
    disp,     \* a committed claim whose task is not started yet
    rec,      \* startup recovery: its stage and its plan
    mode,     \* the process: recovering, running, stopping or down
    pool,     \* the image workers this process is configured with
    notices,  \* prompts an HTTP handler still has to cancel on ComfyUI
    account,  \* the state of the account that owns Doomed
    native,   \* ComfyUI's prompts
    faults    \* faults left

vars == <<row, task, disp, rec, mode, pool, notices, account, native, faults>>

-----------------------------------------------------------------------------
(* Statuses (models.py).  With- and without-artifact forms of a terminal   *)
(* status are one; "absent" and "deleted" say that there is no row.        *)

InFlight == {"dispatching", "running", "cancel_requested"}
Terminal == {"succeeded", "cancelled", "failed", "interrupted"}
NoRow    == {"absent", "deleted"}
Statuses == {"queued"} \cup InFlight \cup Terminal \cup NoRow

Failures == {"none", "absent", "other"}
Outcomes == {"none", "success", "failed", "cancelled", "interrupted"}

Row == [st : Statuses, prompt : Prompts \cup {NoPrompt}, inst : Instances \cup {NoInst},
        pend : BOOLEAN, sent : BOOLEAN, retried : BOOLEAN,
        arts : BOOLEAN, fails : Failures]

Pcs == {"none", "loading", "saving", "submitting", "accepted", "marking",
        "cancelling", "monitoring", "sending", "finalizing", "persisted",
        "resetting", "deleting", "requeueRead", "requeueWrite", "failRead",
        "failWrite", "ending"}

(* ctx: an ordinary task, a task that has absorbed a stop request inside   *)
(* the submission section, or startup recovery finalizing in line.         *)
Task == [pc : Pcs, inst : Instances \cup {NoInst}, prompt : Prompts \cup {NoPrompt},
         out : Outcomes, seen : BOOLEAN, ctx : {"task", "held", "startup"}]

Native == [st : {"unused", "live", "succeeded", "failed", "cancelled", "lost"},
           gen : Gens \cup {NoGen}, inst : Instances \cup {NoInst}, known : BOOLEAN]
Unused == [st |-> "unused", gen |-> NoGen, inst |-> NoInst, known |-> FALSE]

Job == [gen : Gens, inst : Instances \cup {NoInst}, prompt : Prompts]

AcceptedRow == [st |-> "queued", prompt |-> NoPrompt, inst |-> NoInst, pend |-> FALSE,
                sent |-> FALSE, retried |-> FALSE, arts |-> FALSE, fails |-> "none"]
AbsentRow   == [AcceptedRow EXCEPT !.st = "absent"]
DeletedRow  == [AcceptedRow EXCEPT !.st = "deleted"]

Idle    == [pc |-> "none", inst |-> NoInst, prompt |-> NoPrompt, out |-> "none",
            seen |-> FALSE, ctx |-> "task"]

Claim   == [pc : {"none", "claimed", "returning"}, gen : Gens \cup {NoGen},
            inst : Instances \cup {NoInst}, seen : BOOLEAN]
NoClaim == [pc |-> "none", gen |-> NoGen, inst |-> NoInst, seen |-> FALSE]

Plan    == [pc : {"idle", "read", "write", "jobs"}, requeue : SUBSET Gens,
            cancelled : SUBSET Gens, release : SUBSET Gens,
            unconfigured : SUBSET Gens, jobs : SUBSET Job]
NoPlan  == [pc |-> "idle", requeue |-> {}, cancelled |-> {}, release |-> {},
            unconfigured |-> {}, jobs |-> {}]

-----------------------------------------------------------------------------
(* What one transaction does to the row it has loaded.                     *)

CancelRow(r, deleting) == [r EXCEPT !.st = "cancel_requested", !.pend = @ \/ deleting]

Cancellable(r) == r.st \in InFlight

ClaimedRow(r, i)  == [r EXCEPT !.st = "dispatching", !.inst = i]

Mut_MarkedRow(r, p, cancelled) == IF cancelled THEN r
                                  ELSE [r EXCEPT !.prompt = p, !.st = "running"]
MarkedRow(r, p, cancelled) ==
    [r EXCEPT !.prompt = p, !.st = IF cancelled THEN @ ELSE "running"]

ArchivedRow(r, archived, f) == [r EXCEPT !.arts = @ \/ archived, !.fails = f]
SentRow(r)        == [r EXCEPT !.sent = TRUE]
ReleasedRow(r)    == [r EXCEPT !.inst = NoInst]
RequeuedRow(r)    == [r EXCEPT !.st = "queued", !.inst = NoInst]
FailedRow(r)      == [r EXCEPT !.st = "failed"]

(* The one retry of a success whose declared sources were all absent.      *)
RetryDue(r) == r.fails = "absent" /\ ~r.arts /\ ~r.retried

Mut_RetryRow(r) == [RequeuedRow(r) EXCEPT !.prompt = NoPrompt, !.fails = "none"]
RetryRow(r) == [RequeuedRow(r) EXCEPT !.prompt = NoPrompt, !.fails = "none",
                                      !.retried = TRUE]

(* The status _commit_finalization writes for an outcome.                  *)
Mut_FinalStatus(r, out) == out
FinalStatus(r, out) == IF out = "success" THEN IF r.fails = "none" THEN "succeeded"
                                               ELSE "failed"
                       ELSE out

Mut_UnsentRow(r) == r
UnsentRow(r) == [r EXCEPT !.sent = FALSE]

-----------------------------------------------------------------------------
(* ComfyUI as the adapter shows it: a prompt is in the queue, in the       *)
(* history, or in neither.                                                 *)

Mut_OutcomeOf(p) == CASE native[p].st \in {"succeeded", "failed"} -> "success"
                      [] native[p].st = "cancelled" -> "cancelled"
                      [] OTHER -> "none"
OutcomeOf(p) == CASE native[p].st = "succeeded" -> "success"
                  [] native[p].st = "failed"    -> "failed"
                  [] native[p].st = "cancelled" -> "cancelled"
                  [] OTHER -> "none"
InHistory(p) == native[p].known /\ OutcomeOf(p) # "none"

Mut_Missing(p) == native[p].st # "live"
Mut_NeverMissing(p) == native[p].known /\ native[p].st = "unused"
Missing(p) == ~native[p].known

Fault(kind) == kind \in FaultKinds /\ faults > 0 /\ faults' = faults - 1
NoFault     == UNCHANGED faults

(* A cancel request reaches a running prompt (its history then says        *)
(* interrupted) or a pending one (it leaves the queue without a history).  *)
CancelsNative(p) ==
    IF native[p].st = "live"
    THEN \E known \in BOOLEAN :
           native' = [native EXCEPT ![p] = [@ EXCEPT !.st = "cancelled", !.known = known]]
    ELSE UNCHANGED native

-----------------------------------------------------------------------------
(* HTTP handlers.  They run from the moment recovery starts until stop.    *)

Serving == mode \in {"recovering", "running"}
UserMayAct(g) == Serving /\ (g \in Doomed => account = "active")

Accept(g) ==
    /\ UserMayAct(g)
    /\ row[g].st = "absent"
    /\ row' = [row EXCEPT ![g] = AcceptedRow]
    /\ UNCHANGED <<task, disp, rec, mode, pool, notices, account, native, faults>>

CancelQueued(g) ==
    /\ UserMayAct(g)
    /\ row[g].st = "queued"
    /\ row' = [row EXCEPT ![g] = DeletedRow]
    /\ UNCHANGED <<task, disp, rec, mode, pool, notices, account, native, faults>>

RequestCancel(g, deleting) ==
    /\ UserMayAct(g)
    /\ Cancellable(row[g])
    /\ row' = [row EXCEPT ![g] = CancelRow(row[g], deleting)]
    /\ notices' = notices \cup ({row[g].prompt} \ {NoPrompt})
    /\ UNCHANGED <<task, disp, rec, mode, pool, account, native, faults>>

DeleteTerminal(g) ==
    /\ UserMayAct(g)
    /\ row[g].st \in Terminal
    /\ row' = [row EXCEPT ![g] = DeletedRow]
    /\ UNCHANGED <<task, disp, rec, mode, pool, notices, account, native, faults>>

(* _notify_cancel: one best-effort call; its failure is suppressed.        *)
NotifyCancel(p) ==
    /\ p \in notices
    /\ notices' = notices \ {p}
    /\ \/ CancelsNative(p) /\ NoFault
       \/ Fault("cancelfail") /\ UNCHANGED native
       \/ Fault("cancelmiss") /\ UNCHANGED native
    /\ UNCHANGED <<row, task, disp, rec, mode, pool, account>>

(* delete_user: cancel everything the account owns, then, once nothing is  *)
(* active or after twenty polls, remove the account and all its rows.      *)
MarkAccountDeleting ==
    /\ Serving
    /\ Doomed # {} /\ account \in {"active", "abandoned"}
    /\ account' = "deleting"
    /\ row' = [g \in Gens |->
                 IF g \in Doomed /\ row[g].st = "queued"
                 THEN [row[g] EXCEPT !.st = "cancelled"]
                 ELSE IF g \in Doomed /\ row[g].st \in InFlight
                 THEN [row[g] EXCEPT !.st = "cancel_requested"]
                 ELSE row[g]]
    /\ notices' = notices \cup
         {row[g].prompt : g \in {h \in Doomed : row[h].st \in InFlight /\ row[h].prompt # NoPrompt}}
    /\ UNCHANGED <<task, disp, rec, mode, pool, native, faults>>

RemoveAccount ==
    /\ Serving
    /\ account = "deleting"
    /\ account' = "removed"
    /\ row' = [g \in Gens |-> IF g \in Doomed /\ row[g].st # "absent" THEN DeletedRow
                             ELSE row[g]]
    /\ UNCHANGED <<task, disp, rec, mode, pool, notices, native, faults>>

-----------------------------------------------------------------------------
(* The dispatcher.                                                         *)

Live(g) == task[g].pc # "none"
Busy(i) == Cardinality({g \in Gens : Live(g) /\ task[g].ctx # "startup" /\ task[g].inst = i})

Mut_HasSlot(i) == Busy(i) <= Slots
HasSlot(i) == Busy(i) < Slots

Eligible(g, i) == i \in Carries[g]
Claimable(g, i) == \/ row[g].inst = NoInst /\ Eligible(g, i)
                   \/ row[g].inst = i

(* _claim_next commits in a worker thread.  Which claimable generation     *)
(* comes first is FairClaim's subject.                                     *)
ClaimNext(i, g) ==
    /\ mode = "running"
    /\ disp.pc = "none"
    /\ i \in pool /\ HasSlot(i)
    /\ row[g].st = "queued" /\ Claimable(g, i)
    /\ row' = [row EXCEPT ![g] = ClaimedRow(row[g], i)]
    /\ disp' = [pc |-> "claimed", gen |-> g, inst |-> i, seen |-> FALSE]
    /\ UNCHANGED <<task, rec, mode, pool, notices, account, native, faults>>

NewTask(pc, i, ctx) == [Idle EXCEPT !.pc = pc, !.inst = i, !.ctx = ctx]

(* The event loop resumes: the executor starts, unless one is still live   *)
(* for this generation; then the new coroutine is closed.                  *)
StartTask ==
    /\ disp.pc = "claimed" /\ mode = "running"
    /\ LET g == disp.gen IN
         task' = IF Live(g) THEN task
                 ELSE [task EXCEPT ![g] = NewTask("loading", disp.inst, "task")]
    /\ disp' = NoClaim
    /\ UNCHANGED <<row, rec, mode, pool, notices, account, native, faults>>

(* A stop between the claim and the start returns the claim to the queue.  *)
RequeueClaimRead ==
    /\ disp.pc = "claimed" /\ mode = "stopping"
    /\ disp' = [disp EXCEPT !.pc = "returning",
                            !.seen = /\ row[disp.gen].st = "dispatching"
                                     /\ row[disp.gen].prompt = NoPrompt]
    /\ UNCHANGED <<row, task, rec, mode, pool, notices, account, native, faults>>

RequeueClaimWrite ==
    /\ disp.pc = "returning"
    /\ row' = IF disp.seen /\ row[disp.gen].st \notin NoRow
              THEN [row EXCEPT ![disp.gen] = RequeuedRow(row[disp.gen])]
              ELSE row
    /\ disp' = NoClaim
    /\ UNCHANGED <<task, rec, mode, pool, notices, account, native, faults>>

-----------------------------------------------------------------------------
(* The executor of one generation.                                         *)

At(g, pc) == task[g].pc = pc
Goto(g, pc) == task' = [task EXCEPT ![g].pc = pc]
GotoWith(g, pc, seen) == task' = [task EXCEPT ![g] = [@ EXCEPT !.pc = pc, !.seen = seen]]
Finalizing(g, out) == task' = [task EXCEPT ![g] = [@ EXCEPT !.pc = "finalizing", !.out = out]]

(* Nothing is left to do but to return: the done callback then frees the   *)
(* slot.  A recovery job has no slot to free.                              *)
Ended(t) == IF t.ctx = "startup" THEN Idle ELSE NewTask("ending", t.inst, t.ctx)
End(g) == task' = [task EXCEPT ![g] = Ended(task[g])]

TaskDone(g) ==
    /\ At(g, "ending")
    /\ task' = [task EXCEPT ![g] = Idle]
    /\ UNCHANGED <<row, disp, rec, mode, pool, notices, account, native, faults>>

LoadExecution(g) ==
    /\ At(g, "loading")
    /\ \/ row[g].st \in NoRow /\ End(g)
       \/ row[g].st = "cancel_requested" /\ Finalizing(g, "cancelled")
       \/ row[g].st \notin NoRow \cup {"cancel_requested"} /\ Goto(g, "saving")
    /\ UNCHANGED <<row, disp, rec, mode, pool, notices, account, native, faults>>

(* _materialize_uploads: the instance is away, or an input is not accepted. *)
MaterializeFails(g) ==
    \/ Fault("connect") /\ Goto(g, "requeueRead")
    \/ Fault("reject")  /\ Goto(g, "failRead")
(* Upload the inputs, then save the graph unless the row says otherwise.   *)
SaveGraph(g) ==
    /\ At(g, "saving")
    /\ \/ NoFault /\ \/ row[g].st \in NoRow /\ End(g)
                     \/ row[g].st = "cancel_requested" /\ Finalizing(g, "cancelled")
                     \/ row[g].st \notin NoRow \cup {"cancel_requested"} /\ Goto(g, "submitting")
       \/ MaterializeFails(g)
    /\ UNCHANGED <<row, disp, rec, mode, pool, notices, account, native>>

NextPrompt(p) == /\ native[p].st = "unused"
                 /\ \A q \in Prompts : q < p => native[q].st # "unused"
AcceptNative(g, p) ==
    native' = [native EXCEPT ![p] = [st |-> "live", gen |-> g, inst |-> task[g].inst,
                                     known |-> TRUE]]

SubmitAccepted(g) ==
    /\ At(g, "submitting")
    /\ \E p \in Prompts :
         /\ NextPrompt(p)
         /\ AcceptNative(g, p)
         /\ task' = [task EXCEPT ![g] = [@ EXCEPT !.pc = "accepted", !.prompt = p]]
    /\ UNCHANGED <<row, disp, rec, mode, pool, notices, account, faults>>

(* Where a submission goes that ComfyUI may have accepted.                 *)
AmbiguousNext == "failRead"

SubmitFails(g) ==
    /\ At(g, "submitting")
    /\ \/ Fault("connect") /\ Goto(g, "requeueRead") /\ UNCHANGED native
       \/ Fault("reject")  /\ Goto(g, "failRead")    /\ UNCHANGED native
       \/ /\ Fault("ambiguous") /\ Goto(g, AmbiguousNext)
          /\ \/ UNCHANGED native
             \/ \E p \in Prompts : NextPrompt(p) /\ AcceptNative(g, p)
    /\ UNCHANGED <<row, disp, rec, mode, pool, notices, account>>

(* submit_and_mark_running_transaction: its read ...                       *)
MarkRead(g) ==
    /\ At(g, "accepted")
    /\ IF row[g].st \in NoRow THEN Goto(g, "failRead")
       ELSE GotoWith(g, "marking", row[g].st = "cancel_requested")
    /\ UNCHANGED <<row, disp, rec, mode, pool, notices, account, native, faults>>

(* ... and its write, which decides by what the read has seen.             *)
MarkWrite(g) ==
    /\ At(g, "marking")
    /\ IF row[g].st \in NoRow
       THEN Goto(g, "failRead") /\ UNCHANGED row
       ELSE /\ row' = [row EXCEPT ![g] = MarkedRow(row[g], task[g].prompt, task[g].seen)]
            /\ IF task[g].seen THEN Goto(g, "cancelling")
               ELSE IF task[g].ctx = "held" THEN End(g) ELSE Goto(g, "monitoring")
    /\ UNCHANGED <<disp, rec, mode, pool, notices, account, native, faults>>

CancelSubmitted(g) ==
    /\ At(g, "cancelling")
    /\ \/ CancelsNative(task[g].prompt) /\ NoFault
       \/ Fault("cancelfail") /\ UNCHANGED native
       \/ Fault("cancelmiss") /\ UNCHANGED native
    /\ IF task[g].ctx = "held" THEN End(g) ELSE Goto(g, "monitoring")
    /\ UNCHANGED <<row, disp, rec, mode, pool, notices, account>>

-----------------------------------------------------------------------------
(* The monitor.                                                            *)

(* A progressive output is retrieved and archived while the prompt runs.   *)
ArchiveOutput(g) ==
    /\ At(g, "monitoring")
    /\ native[task[g].prompt].st \in {"live", "succeeded"}
    /\ row[g].st \notin NoRow /\ ~row[g].arts
    /\ row' = [row EXCEPT ![g] = ArchivedRow(row[g], TRUE, row[g].fails)]
    /\ UNCHANGED <<task, disp, rec, mode, pool, notices, account, native, faults>>

(* _ensure_cancel_sent marks the row first, then calls ComfyUI, then       *)
(* removes the mark if the call raised.                                    *)
MarkCancelSent(g) ==
    /\ At(g, "monitoring")
    /\ row[g].st = "cancel_requested" /\ ~row[g].sent
    /\ row' = [row EXCEPT ![g] = SentRow(row[g])]
    /\ Goto(g, "sending")
    /\ UNCHANGED <<disp, rec, mode, pool, notices, account, native, faults>>

SendCancel(g) ==
    /\ At(g, "sending")
    /\ \/ CancelsNative(task[g].prompt) /\ NoFault /\ UNCHANGED row
       \/ Fault("cancelmiss") /\ UNCHANGED <<native, row>>
       \/ /\ Fault("cancelfail") /\ UNCHANGED native
          /\ row' = IF row[g].st \in NoRow THEN row
                    ELSE [row EXCEPT ![g] = UnsentRow(row[g])]
    /\ Goto(g, "monitoring")
    /\ UNCHANGED <<disp, rec, mode, pool, notices, account>>

ObserveTerminal(g) ==
    /\ At(g, "monitoring")
    /\ InHistory(task[g].prompt)
    /\ Finalizing(g, OutcomeOf(task[g].prompt))
    /\ UNCHANGED <<row, disp, rec, mode, pool, notices, account, native, faults>>

(* Absent from a reachable queue and history for the whole grace period.   *)
ObserveMissing(g) ==
    /\ At(g, "monitoring")
    /\ Missing(task[g].prompt)
    /\ Finalizing(g, "interrupted")
    /\ UNCHANGED <<row, disp, rec, mode, pool, notices, account, native, faults>>

-----------------------------------------------------------------------------
(* Finalization: archive every file of the history, commit, then clear the *)
(* execution cache of a retried job or carry out a pending deletion.       *)

(* A job that never reached ComfyUI, or whose runtime is gone, has none.   *)
HasFiles(g) == task[g].prompt # NoPrompt /\ task[g].inst \in pool

PersistFiles(g) ==
    /\ At(g, "finalizing")
    /\ IF row[g].st \in NoRow \cup Terminal
       THEN End(g) /\ UNCHANGED <<row, faults>>
       ELSE /\ Goto(g, "persisted")
            /\ \E archived \in BOOLEAN, f \in Failures :
                 /\ archived \/ f # "none" => HasFiles(g)
                 /\ CASE f = "none"   -> NoFault
                      [] f = "absent" -> Fault("absent")
                      [] f = "other"  -> Fault("archive")
                 /\ row' = [row EXCEPT ![g] = ArchivedRow(row[g], archived, f)]
    /\ UNCHANGED <<disp, rec, mode, pool, notices, account, native>>

Mut_AfterFinal(r) == "ending"
AfterFinal(r) == IF r.pend THEN "deleting" ELSE "ending"

(* After the last commit of a task: a pending deletion, or nothing more.   *)
Leave(g, r) == IF AfterFinal(r) = "deleting" THEN Goto(g, "deleting") ELSE End(g)

CommitFinalization(g) ==
    /\ At(g, "persisted")
    /\ LET r == row[g]  out == task[g].out IN
         IF r.st \in NoRow \cup Terminal
         THEN End(g) /\ UNCHANGED row
         ELSE IF out = "success" /\ RetryDue(r)
         THEN row' = [row EXCEPT ![g] = RetryRow(r)] /\ Goto(g, "resetting")
         ELSE /\ row' = [row EXCEPT ![g].st = FinalStatus(r, out)]
              /\ Leave(g, r)
    /\ UNCHANGED <<disp, rec, mode, pool, notices, account, native, faults>>

ResetExecutionCache(g) ==
    /\ At(g, "resetting")
    /\ End(g)
    /\ UNCHANGED <<row, disp, rec, mode, pool, notices, account, native, faults>>

DeleteTerminalIfPresent(g) ==
    /\ At(g, "deleting")
    /\ row' = IF row[g].st \in Terminal THEN [row EXCEPT ![g] = DeletedRow] ELSE row
    /\ End(g)
    /\ UNCHANGED <<disp, rec, mode, pool, notices, account, native, faults>>

-----------------------------------------------------------------------------
(* Nothing was submitted, or it is not known whether it was.               *)

RequeueRead(g) ==
    /\ At(g, "requeueRead")
    /\ \/ row[g].st \in NoRow /\ End(g)
       \/ row[g].st = "cancel_requested" /\ Finalizing(g, "cancelled")
       \/ row[g].st \notin NoRow \cup {"cancel_requested"} /\ Goto(g, "requeueWrite")
    /\ UNCHANGED <<row, disp, rec, mode, pool, notices, account, native, faults>>

RequeueWrite(g) ==
    /\ At(g, "requeueWrite")
    /\ row' = IF row[g].st \in NoRow THEN row ELSE [row EXCEPT ![g] = RequeuedRow(row[g])]
    /\ End(g)
    /\ UNCHANGED <<disp, rec, mode, pool, notices, account, native, faults>>

FailRead(g) ==
    /\ At(g, "failRead")
    /\ IF row[g].st \in NoRow THEN End(g) ELSE GotoWith(g, "failWrite", row[g].pend)
    /\ UNCHANGED <<row, disp, rec, mode, pool, notices, account, native, faults>>

FailWrite(g) ==
    /\ At(g, "failWrite")
    /\ IF row[g].st \in NoRow
       THEN End(g) /\ UNCHANGED row
       ELSE /\ row' = [row EXCEPT ![g] = FailedRow(row[g])]
            /\ IF task[g].seen THEN Goto(g, "deleting") ELSE End(g)
    /\ UNCHANGED <<disp, rec, mode, pool, notices, account, native, faults>>

-----------------------------------------------------------------------------
(* Startup recovery: a plan is read, written in one transaction, and its   *)
(* prompt jobs are then reconciled one after another.                      *)

Mut_Unsubmitted(g) == row[g].st \in InFlight
Unsubmitted(g) == row[g].st \in InFlight /\ row[g].prompt = NoPrompt

InFlightPlan == [requeue   |-> {g \in Gens : Unsubmitted(g) /\ row[g].st # "cancel_requested"},
                 cancelled |-> {g \in Gens : Unsubmitted(g) /\ row[g].st = "cancel_requested"},
                 jobs |-> {[gen |-> g, inst |-> row[g].inst, prompt |-> row[g].prompt] :
                             g \in {h \in Gens : row[h].st \in InFlight /\ ~Unsubmitted(h)}}]

PinnedQueued == {g \in Gens : row[g].st = "queued" /\ row[g].inst # NoInst}
Releasable   == {g \in PinnedQueued : \E i \in pool : Eligible(g, i)}
Unconfigured == {g \in PinnedQueued \ Releasable : row[g].inst \notin pool}

RecoverRead ==
    /\ rec.pc = "read" /\ mode = "recovering"
    /\ LET f == InFlightPlan IN
         rec' = [pc |-> "write", requeue |-> f.requeue, cancelled |-> f.cancelled,
                 release |-> Releasable, unconfigured |-> Unconfigured, jobs |-> f.jobs]
    /\ UNCHANGED <<row, task, disp, mode, pool, notices, account, native, faults>>

(* The in-flight rows are read after the pinned rows were updated, if any  *)
(* was; that update already holds the writer.                              *)
WritePlan == IF rec.release \cup rec.unconfigured = {} THEN rec
             ELSE LET f == InFlightPlan IN
                  [rec EXCEPT !.requeue = f.requeue, !.cancelled = f.cancelled, !.jobs = f.jobs]

Recovered(plan, g) ==
    IF g \in plan.requeue THEN RequeuedRow(row[g])
    ELSE IF g \in plan.cancelled THEN IF row[g].st \in NoRow THEN row[g]
                                      ELSE [row[g] EXCEPT !.st = "cancelled"]
    ELSE IF g \in plan.release THEN ReleasedRow(row[g])
    ELSE IF g \in plan.unconfigured THEN FailedRow(row[g])
    ELSE row[g]

(* An event for a row deleted meanwhile breaks its foreign key: the whole  *)
(* transaction rolls back and the supervisor retries recovery.             *)
RecoverWrite ==
    /\ rec.pc = "write"
    /\ LET plan == WritePlan IN
         IF \E g \in plan.requeue \cup plan.release \cup plan.unconfigured : row[g].st \in NoRow
         THEN rec' = [NoPlan EXCEPT !.pc = "read"] /\ UNCHANGED row
         ELSE /\ row' = [g \in Gens |-> Recovered(plan, g)]
              /\ rec' = [NoPlan EXCEPT !.pc = "jobs", !.jobs = plan.jobs]
    /\ UNCHANGED <<task, disp, mode, pool, notices, account, native, faults>>

Inline == {g \in Gens : task[g].ctx = "startup"}

StartJob(j, pc, out, ctx) ==
    task' = [task EXCEPT ![j.gen] = [NewTask(pc, j.inst, ctx) EXCEPT !.prompt = j.prompt,
                                                                     !.out = out]]

RecoverJob(j) ==
    /\ rec.pc = "jobs" /\ mode = "recovering" /\ Inline = {}
    /\ j \in rec.jobs
    /\ rec' = [rec EXCEPT !.jobs = @ \ {j}]
    /\ \/ /\ j.inst \notin pool \/ Missing(j.prompt)
          /\ StartJob(j, "finalizing", "interrupted", "startup") /\ NoFault
       \/ /\ j.inst \in pool /\ InHistory(j.prompt)
          /\ StartJob(j, "finalizing", OutcomeOf(j.prompt), "startup") /\ NoFault
       \/ /\ j.inst \in pool /\ native[j.prompt].st = "live"
          /\ StartJob(j, "monitoring", "none", "task") /\ NoFault
       \/ /\ j.inst \in pool /\ Fault("connect")
          /\ StartJob(j, "monitoring", "none", "task")
    /\ UNCHANGED <<row, disp, mode, pool, notices, account, native>>

FinishRecovery ==
    /\ rec.pc = "jobs" /\ rec.jobs = {} /\ Inline = {}
    /\ mode = "recovering"
    /\ mode' = "running"
    /\ rec' = NoPlan
    /\ UNCHANGED <<row, task, disp, pool, notices, account, native, faults>>

-----------------------------------------------------------------------------
(* The process: graceful stop, crash, restart.                             *)

RequestStop ==
    /\ Fault("stop")
    /\ Serving
    /\ mode' = "stopping"
    /\ UNCHANGED <<row, task, disp, rec, pool, notices, account, native>>

(* Cancelling the supervisor: a transaction in its thread still completes. *)
StopRecovery ==
    /\ mode = "stopping"
    /\ rec.pc \in {"read", "jobs"}
    /\ rec' = NoPlan
    /\ UNCHANGED <<row, task, disp, mode, pool, notices, account, native, faults>>

(* Where an executor awaits something other than its own transaction.      *)
AwaitingPcs == {"loading", "saving", "submitting", "monitoring", "sending", "finalizing",
                    "persisted", "resetting", "deleting", "requeueRead", "failRead"}
SubmissionPcs   == {"submitting", "accepted", "marking", "cancelling"}

StopTask(g) ==
    /\ mode = "stopping" /\ task[g].ctx # "held"
    /\ \/ task[g].pc \in AwaitingPcs /\ task' = [task EXCEPT ![g] = Idle]
       \/ task[g].pc \in SubmissionPcs   /\ task' = [task EXCEPT ![g].ctx = "held"]
    /\ UNCHANGED <<row, disp, rec, mode, pool, notices, account, native, faults>>

Forget ==
    /\ mode' = "down"
    /\ task' = [g \in Gens |-> Idle]
    /\ disp' = NoClaim
    /\ rec' = NoPlan
    /\ notices' = {}
    /\ account' = IF account = "deleting" THEN "abandoned" ELSE account

Halt ==
    /\ mode = "stopping"
    /\ disp.pc = "none" /\ rec.pc = "idle"
    /\ \A g \in Gens : ~Live(g)
    /\ Forget
    /\ UNCHANGED <<row, pool, native, faults>>

Crash ==
    /\ Fault("crash")
    /\ mode # "down"
    /\ Forget
    /\ UNCHANGED <<row, pool, native>>

Restart ==
    /\ mode = "down"
    /\ mode' = "recovering"
    /\ rec' = [NoPlan EXCEPT !.pc = "read"]
    /\ pool' \in Deployments
    /\ UNCHANGED <<row, task, disp, notices, account, native, faults>>

-----------------------------------------------------------------------------
(* ComfyUI itself (external).                                              *)

NativeFinish(p) ==
    /\ native[p].st = "live"
    /\ \E st \in {"succeeded", "failed"} : native' = [native EXCEPT ![p].st = st]
    /\ UNCHANGED <<row, task, disp, rec, mode, pool, notices, account, faults>>

(* ComfyUI restarts: its queue and its history of the prompt are gone.     *)
LostNative(n) == [n EXCEPT !.known = FALSE, !.st = IF @ = "live" THEN "lost" ELSE @]
NativeLost(p) ==
    /\ Fault("vanish")
    /\ native[p].st # "unused" /\ native[p].known
    /\ native' = [native EXCEPT ![p] = LostNative(native[p])]
    /\ UNCHANGED <<row, task, disp, rec, mode, pool, notices, account>>

-----------------------------------------------------------------------------
LegacyRow(i) == [AcceptedRow EXCEPT !.inst = i]

Init ==
    /\ row = [g \in Gens |-> IF LegacyPin[g] = NoInst THEN AbsentRow ELSE LegacyRow(LegacyPin[g])]
    /\ task = [g \in Gens |-> Idle]
    /\ disp = NoClaim
    /\ rec = [NoPlan EXCEPT !.pc = "read"]
    /\ mode = "recovering"
    /\ pool \in Deployments
    /\ notices = {}
    /\ account = "active"
    /\ native = [p \in Prompts |-> Unused]
    /\ faults = MaxFaults

Execute(g) ==
    \/ LoadExecution(g) \/ SaveGraph(g) \/ SubmitAccepted(g) \/ SubmitFails(g)
    \/ MarkRead(g) \/ MarkWrite(g) \/ CancelSubmitted(g)
Monitor(g) ==
    \/ ArchiveOutput(g) \/ MarkCancelSent(g) \/ SendCancel(g)
    \/ ObserveTerminal(g) \/ ObserveMissing(g)
Settle(g) ==
    \/ PersistFiles(g) \/ CommitFinalization(g) \/ ResetExecutionCache(g)
    \/ DeleteTerminalIfPresent(g) \/ RequeueRead(g) \/ RequeueWrite(g)
    \/ FailRead(g) \/ FailWrite(g) \/ TaskDone(g)
Handlers ==
    \/ \E g \in Gens : \/ Accept(g) \/ CancelQueued(g) \/ DeleteTerminal(g)
                       \/ \E deleting \in BOOLEAN : RequestCancel(g, deleting)
    \/ \E p \in Prompts : NotifyCancel(p)
    \/ MarkAccountDeleting \/ RemoveAccount
Dispatcher ==
    \/ \E i \in Instances, g \in Gens : ClaimNext(i, g)
    \/ StartTask \/ RequeueClaimRead \/ RequeueClaimWrite
Recovery ==
    RecoverRead \/ RecoverWrite \/ (\E j \in rec.jobs : RecoverJob(j)) \/ FinishRecovery
Process ==
    \/ RequestStop \/ StopRecovery \/ (\E g \in Gens : StopTask(g))
    \/ Halt \/ Crash \/ Restart
ComfyUI == \E p \in Prompts : NativeFinish(p) \/ NativeLost(p)

Next ==
    \/ \E g \in Gens : Execute(g) \/ Monitor(g) \/ Settle(g)
    \/ Handlers \/ Dispatcher \/ Recovery \/ Process \/ ComfyUI

Spec == Init /\ [][Next]_vars

-----------------------------------------------------------------------------
(* Fairness.  The event loop resumes every coroutine whose await is over;  *)
(* every HTTP call has a timeout and the worker threads run each admitted  *)
(* transaction; the container runtime restarts a process that ended.  The  *)
(* API's users, and faults, are under no obligation.                       *)

Resume(g) ==
    \/ LoadExecution(g) \/ SaveGraph(g) \/ SubmitAccepted(g) \/ SubmitFails(g)
    \/ MarkRead(g) \/ MarkWrite(g) \/ CancelSubmitted(g)
    \/ MarkCancelSent(g) \/ SendCancel(g) \/ ObserveTerminal(g) \/ ObserveMissing(g)
    \/ Settle(g) \/ StopTask(g)

ApplicationFairness ==
    /\ \A g \in Gens : WF_vars(Resume(g))
    /\ \A p \in Prompts : WF_vars(NotifyCancel(p))
    /\ WF_vars(Dispatcher)
    /\ WF_vars(Recovery)
    /\ WF_vars(StopRecovery \/ Halt \/ Restart)

(* A prompt ComfyUI works on ends at some time.                            *)
NativeFairness == \A p \in Prompts : WF_vars(NativeFinish(p))

CancelSpec == Spec /\ ApplicationFairness
FairSpec   == CancelSpec /\ NativeFairness

-----------------------------------------------------------------------------
(* Properties.                                                             *)

(* The columns, the executor states and ComfyUI's prompts range over the   *)
(* values the code can give them.                                          *)
TypeOK ==
    /\ row \in [Gens -> Row]
    /\ task \in [Gens -> Task]
    /\ disp \in Claim
    /\ rec \in Plan
    /\ mode \in {"recovering", "running", "stopping", "down"}
    /\ pool \in Deployments
    /\ notices \subseteq Prompts
    /\ account \in {"active", "deleting", "abandoned", "removed"}
    /\ native \in [Prompts -> Native]
    /\ faults \in 0 .. MaxFaults

LivePrompts(g) == {p \in Prompts : native[p].gen = g /\ native[p].st = "live"}
Successes(g)   == {p \in Prompts : native[p].gen = g /\ native[p].st = "succeeded"}

(* ComfyUI never works on two prompts of one generation at once: a job is  *)
(* offered again only when nothing of it can still be running              *)
(* (queue_worker.py _execute, docs/architecture.md "Restart").             *)
OneNativeRun == \A g \in Gens : Cardinality(LivePrompts(g)) <= 1

(* Whoever acts on a prompt of a generation acts on the prompt and the     *)
(* worker its row records, and ComfyUI knows that prompt as this           *)
(* generation's: events and outputs reach their owner (EXEC-004), whatever *)
(* was requeued, lost or recovered in between.                             *)
MonitorOwnsPrompt ==
    \A g \in Gens :
        /\ task[g].pc \in {"cancelling", "monitoring", "sending", "finalizing", "persisted"}
        /\ task[g].prompt # NoPrompt
        /\ row[g].st \in InFlight
        => /\ row[g].prompt = task[g].prompt
           /\ row[g].inst = task[g].inst
           /\ native[task[g].prompt].gen = g
           /\ native[task[g].prompt].inst = task[g].inst

(* A generation is reported as succeeded only if ComfyUI executed the      *)
(* prompt its row names to success, for this generation and on the worker  *)
(* its row names (_monitor: native history is authoritative).              *)
SuccessIsEarned ==
    \A g \in Gens : row[g].st = "succeeded" =>
        \E p \in Successes(g) : row[g].prompt = p /\ row[g].inst = native[p].inst

(* A generation ends as interrupted only when its outcome is really beyond *)
(* reach: ComfyUI has neither queue entry nor history for its prompt, or   *)
(* its runtime is not configured any more (_reconcile_startup, _monitor).  *)
InterruptedOnlyIfUnknown ==
    [][\A g \in Gens : row[g].st # "interrupted" /\ row'[g].st = "interrupted" =>
           \/ row[g].prompt # NoPrompt /\ ~native[row[g].prompt].known
           \/ row[g].inst \notin pool]_row

(* A job whose outputs were absent is executed once more, never in a loop  *)
(* (_commit_finalization's retry marker).                                  *)
ReexecutedAtMostOnce ==
    \A g \in Gens : Cardinality(Successes(g)) <=
        IF row[g].retried \/ row[g].st \in NoRow THEN 2 ELSE 1

(* Both: nothing runs beside or after another execution of its job.        *)
RunsOnce == OneNativeRun /\ ReexecutedAtMostOnce

(* No worker holds more executors than its concurrency, restarts and       *)
(* recovered monitors included (QUEUE-005).                                *)
ConcurrencyBound == \A i \in Instances : Busy(i) <= Slots

(* A claimed or submitted generation has someone who will bring it to an   *)
(* end: an executor, or the dispatcher's claim, or the recovery plan.      *)
NobodyStranded ==
    mode = "running" =>
        \A g \in Gens : row[g].st \in InFlight => Live(g) \/ disp.gen = g

(* The execution cache of a released job is cleared before the job is      *)
(* offered again (_reset_execution_cache).                                 *)
CacheResetBeforeOffer ==
    \A g \in Gens : At(g, "resetting") => row[g].st # "dispatching"

(* A terminal status never changes; the row may only go away.              *)
EndsOnce == \A g \in Gens : row[g].st \in Terminal => row'[g].st \in {row[g].st, "deleted"}
TerminalIsFinal == [][EndsOnce]_row

(* domain/status.py: ALLOWED_TRANSITIONS, deletion of the row aside.       *)
AllowedTransitions == [
    queued           |-> {"dispatching", "cancelled"},
    dispatching      |-> {"queued", "running", "cancel_requested", "failed", "interrupted"},
    running          |-> {"cancel_requested"} \cup Terminal,
    cancel_requested |-> Terminal]
StatusTable ==
    [][\A g \in Gens : row[g].st \in DOMAIN AllowedTransitions =>
           row'[g].st \in {row[g].st, "deleted"} \cup AllowedTransitions[row[g].st]]_row

(* Every accepted generation reaches a terminal status or is deleted.      *)
SettlesEventually ==
    \A g \in Gens : row[g].st \in {"queued"} \cup InFlight ~> row[g].st \in Terminal \cup NoRow

(* A deletion the API has acknowledged (202) for an active generation is   *)
(* carried out (DEL-005), as long as the process is not stopped and does   *)
(* not crash.                                                              *)
DeletionUnlessStopped ==
    \A g \in Gens :
        row[g].pend /\ row[g].st \in InFlight /\ mode = "running"
            ~> row[g].st = "deleted" \/ mode \in {"stopping", "down"}

(* A cancellation of a submitted prompt takes the prompt off ComfyUI; it   *)
(* is not enough that the prompt would end by itself (EXEC-016).           *)
CancelReachesNative ==
    \A g \in Gens, p \in Prompts :
        (row[g].st = "cancel_requested" /\ row[g].prompt = p /\ native[p].st = "live")
            ~> native[p].st # "live"
=============================================================================
