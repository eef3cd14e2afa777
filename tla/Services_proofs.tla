--------------------------- MODULE Services_proofs --------------------------
(***************************************************************************)
(* Services that work in the background.                                   *)
(*                                                                         *)
(* What a LoRA operation leaves, and that it waits for the generations     *)
(* which use the file: for any replicas, and any requests that fail, are   *)
(* lost or carried out in part, stops, crashes and leases that lapse.      *)
(*                                                                         *)
(* SafeInv ties the coroutine and its row to the journals: how far each    *)
(* loop over the replicas has come (Loops), what may run at which status   *)
(* (TaskRow), and that a removal which goes on has no user (NoUser).  It   *)
(* carries PreparedFirst, PruneLast and RemovalWaitsForWork.               *)
(*                                                                         *)
(* Settled needs FullInv: what the journal of the writer says about the    *)
(* files, and that the file of a removal is gone for good only where       *)
(* nothing rolls back any more.  The latter is the order of _finalize: the *)
(* writer is the last, and another replica finalized before it (Mirrored). *)
(* A writer alone can lose the file, report it, and be rolled back.        *)
(*                                                                         *)
(* The reels give way to people (ReelsGiveWay): for any images, requests   *)
(* and rows, every generation that is to be kept is the attempt of one     *)
(* entry (ReelsFit), whatever is revoked, reconciled or deleted when.      *)
(*                                                                         *)
(* The catalog is never older than it was (CatalogKept): for any sources,  *)
(* publications, outages and restarts.                                     *)
(***************************************************************************)
EXTENDS MCServices, FiniteSetTheorems, TLAPS


-----------------------------------------------------------------------------
(* The steps of _run before its first finalization that succeeded, those   *)
(* of recover() alone, and those that go back.                             *)
RunSteps == {"preflight", "check", "prepare", "commit", "verify", "quarantine", "absent", "finalize"}
RecoverySteps == {"states", "refinalize", "inventory"}
WayBack == {"rollback", "inspect"}
Asking == {"put", "prepare", "commit", "quarantine", "finalize", "refinalize", "rollback"}

LoraTyped ==
    /\ CompanionTypeOK
    /\ status \in {"none", "awaiting_upload", "running", "succeeded", "failed", "repair_required"}
    /\ task \in Task
    /\ process \in {"up", "stopping", "down", "starting"}
    /\ using \in BOOLEAN /\ pruned \in BOOLEAN /\ faults \in 0 .. MaxFaults

(* Which coroutine t can be at which step, and what the row, at status z,  *)
(* says meanwhile.                                                         *)
TaskRow(t, z) ==
    /\ (t.left # {}) = (t.step \in Asking)
    /\ t.step = "none" => t = NoTask
    /\ t # NoTask => z = "running" \/ (z = "repair_required" /\ t.kind = "recover")
    /\ t.step \in RunSteps => t.kind = "run"
    /\ t.step \in RecoverySteps => t.kind = "recover"
    /\ t.step = "put" <=> t.kind = "upload"
    /\ t.step \in {"reconcile", "succeed"} => t.finalized \/ t.kind = "recover"
    /\ t.step \in WayBack /\ t.kind = "run" => t.err # "none"
    /\ t.finalized => t.step \in {"finalize", "reconcile", "succeed"}
    /\ z = "awaiting_upload" \/ t.kind = "upload" => action = "install"
    /\ t.step \in {"quarantine", "absent"} => action = "remove"

(* Nothing has been done yet: at most the file was staged.                 *)
Pristine == \A r \in Replicas : journal[r] = "none" \/ (journal[r] = "staged" /\ r = Writer)
Freshness(t, z) ==
    /\ z \in {"none", "awaiting_upload"} \/ t.step \in {"put", "preflight", "check"} => Pristine
    /\ \A r \in Replicas : journal[r] = "staged" => action = "install"

(* A removal that goes on has no generation to wait for.                   *)
NoUser(t) ==
    action = "remove" /\ t.step \in {"prepare", "commit", "verify", "quarantine"} => ~using

(* How far the loops over the replicas have come.                          *)
Begun(r)      == journal[r] \notin {"none", "staged"}
TakenBack(r)  == journal[r] \in {"none", "rolled_back"}
Complete(r)   == journal[r] = "finalized"
ShownNew      == \A r \in Replicas : publication[r] \in {"new", "other"}
FilesNew      == weight = (action # "remove")
Loops(t) ==
    /\ t.step = "prepare" => \A r \in Replicas \ t.left : Begun(r)
    /\ t.step = "commit" => \A r \in Replicas : Begun(r)
    /\ t.step \in {"finalize", "refinalize"} => \A r \in Replicas \ t.left : Complete(r)
    /\ t.step = "finalize" /\ ~t.finalized => t.left = Replicas
    /\ t.step = "refinalize" => \E r \in Replicas : Complete(r)
    /\ t.step \in {"inventory", "reconcile", "succeed"} => \A r \in Replicas : Complete(r)
    /\ t.step \in {"quarantine", "absent", "finalize", "reconcile", "succeed"} => ShownNew
    /\ t.step \in {"finalize", "reconcile", "succeed"} => FilesNew
    /\ t.step = "rollback" /\ t.ok => \A r \in Replicas \ t.left : TakenBack(r)
    /\ t.step = "inspect" /\ t.ok => \A r \in Replicas : TakenBack(r)

Going(t, z) == TaskRow(t, z) /\ Freshness(t, z) /\ NoUser(t) /\ Loops(t)

SafeInv == LoraTyped /\ Going(task, status) /\ PreparedFirst /\ PruneLast

-----------------------------------------------------------------------------
(* What the coroutine becomes.                                             *)
Kinds  == {"none", "run", "again", "upload", "cancel", "recover"}
Errors == {"none", "app", "other", "stop"}
Becomes(kind, step, left, finalized, ok, err) ==
    /\ task' \in Task
    /\ task'.kind = kind /\ task'.step = step /\ task'.left = left
    /\ task'.finalized = finalized /\ task'.ok = ok /\ task'.err = err

LEMMA AskedIs ==
    ASSUME NEW s \in Steps
    PROVE  /\ Asked(s) \in SUBSET Replicas
           /\ (Asked(s) # {}) = (s \in Asking \ {"refinalize"})
           /\ s \in {"prepare", "commit", "finalize", "rollback"} => Asked(s) = Replicas
           /\ s \in {"put", "quarantine"} => Asked(s) = {Writer}
           /\ s \notin Asking \/ s = "refinalize" => Asked(s) = {}
    BY ReplicasAssumption DEF Asked, Asking, Steps

LEMMA StartIs ==
    ASSUME NEW k \in Kinds, NEW s \in Steps, NEW e \in Errors
    PROVE  /\ task' = Start(k, s) => Becomes(k, s, Asked(s), FALSE, TRUE, "none")
           /\ task' = [Start(k, s) EXCEPT !.err = e] => Becomes(k, s, Asked(s), FALSE, TRUE, e)
    <1>1. PICK a \in SUBSET Replicas : a = Asked(s)
        BY AskedIs
    <1>2. ASSUME task' = Start(k, s)
          PROVE  Becomes(k, s, a, FALSE, TRUE, "none")
        BY <1>1, <1>2 DEF Start, NoTask, Becomes, Task, Kinds
    <1>3. ASSUME task' = [Start(k, s) EXCEPT !.err = e]
          PROVE  Becomes(k, s, a, FALSE, TRUE, e)
        BY <1>1, <1>3 DEF Start, NoTask, Becomes, Task, Kinds, Errors
    <1>4. QED
        BY <1>1, <1>2, <1>3

LEMMA NoTaskIs ==
    /\ NoTask \in Task /\ NoTask.kind = "none" /\ NoTask.step = "none" /\ NoTask.left = {}
    /\ NoTask.finalized = FALSE /\ NoTask.ok = TRUE /\ NoTask.err = "none"
    BY DEF NoTask, Task, Steps

LEMMA GoToIs ==
    ASSUME task \in Task, NEW s \in Steps, GoTo(s)
    PROVE  Becomes(task.kind, s, Asked(s), task.finalized, task.ok, task.err)
    <1>1. Asked(s) \in SUBSET Replicas
        BY AskedIs
    <1>2. QED
        BY <1>1 DEF Becomes, Task, GoTo

LEMMA AfterIs ==
    /\ After["prepare"] = "commit" /\ After["commit"] = "verify" /\ After["quarantine"] = "absent"
    /\ After["finalize"] = "reconcile" /\ After["refinalize"] = "inventory"
    /\ After["rollback"] = "inspect"
    BY DEF After

LEMMA ContinueIs ==
    ASSUME task \in Task, task.step \in Asking \ {"put"}, NEW r, NEW ok \in BOOLEAN, Continue(r, ok)
    PROVE  \/ /\ task.left \ {r} # {}
              /\ Becomes(task.kind, task.step, task.left \ {r},
                         task.finalized \/ task.step = "finalize", task.ok /\ ok, task.err)
           \/ /\ task.left \ {r} = {}
              /\ Becomes(task.kind, After[task.step], Asked(After[task.step]),
                         task.finalized \/ task.step = "finalize", task.ok /\ ok, task.err)
    <1>1. PICK s \in Steps : s = After[task.step]
        BY AfterIs DEF Asking, Steps
    <1>2. Asked(s) \in SUBSET Replicas
        BY AskedIs
    <1>3. /\ task.left \in SUBSET Replicas /\ task.finalized \in BOOLEAN /\ task.ok \in BOOLEAN
          /\ task.kind \in Kinds /\ task.err \in Errors /\ task.step \in Steps
        BY DEF Task, Kinds, Errors
    <1>4. CASE task.left \ {r} # {}
        <2>1. task' = [task EXCEPT !.left = task.left \ {r}, !.ok = task.ok /\ ok,
                                   !.finalized = task.finalized \/ task.step = "finalize"]
            BY <1>4 DEF Continue
        <2>2. QED
            BY <1>3, <1>4, <2>1 DEF Becomes, Task
    <1>5. CASE task.left \ {r} = {}
        <2>1. task' = [task EXCEPT !.left = Asked(s), !.ok = task.ok /\ ok, !.step = s,
                                   !.finalized = task.finalized \/ task.step = "finalize"]
            BY <1>1, <1>5 DEF Continue, Task
        <2>2. QED
            BY <1>1, <1>2, <1>3, <1>5, <2>1 DEF Becomes, Task
    <1>6. QED
        BY <1>4, <1>5

-----------------------------------------------------------------------------
(* What a request makes of the companion it is sent to, carried out in     *)
(* full, in part, or refused.                                              *)
AnyMove == {"stage", "prepare", "commit", "quarantine", "rollback", "finalize"}
Moves(q, r) == Performs(q, r) \/ Refuses(q, r) \/ Breaks(q, r)
Effect(q, r) ==
    /\ CompanionTypeOK' /\ action' = action
    /\ \A o \in Replicas \ {r} : journal'[o] = journal[o] /\ publication'[o] = publication[o]
    /\ journal'[r] = "none" => journal[r] = "none"
    /\ journal'[r] = "staged" => journal[r] = "staged" \/ (q = "stage" /\ r = Writer /\ journal[r] = "none")
    /\ q = "stage" => journal'[r] \in {journal[r], "staged"}
    /\ journal[r] = "finalized" => journal'[r] = "finalized"
    /\ publication'[r] \in {"mixed", "new"} => q = "commit" \/ publication[r] \in {"mixed", "new"}
    /\ publication'[r] = publication[r] \/ q \in {"commit", "rollback"}
    /\ weight' = weight \/ q \in {"commit", "quarantine", "rollback"}

LEMMA StageIs ==
    ASSUME CompanionTypeOK, NEW r \in Replicas, Moves("stage", r)
    PROVE  Effect("stage", r)
    <1>1. CASE Performs("stage", r)
        BY <1>1 DEF Performs, Accepts, CanStage, Stage, Enters, CompanionTypeOK, States, Effect
    <1>2. CASE Breaks("stage", r)
        BY <1>2 DEF Breaks, PartOfStage, CompanionTypeOK, Effect
    <1>3. CASE Refuses("stage", r)
        BY <1>3 DEF Refuses, companion, CompanionTypeOK, Effect
    <1>4. QED
        BY <1>1, <1>2, <1>3 DEF Moves

LEMMA PrepareIs ==
    ASSUME CompanionTypeOK, NEW r \in Replicas, Moves("prepare", r)
    PROVE  /\ Effect("prepare", r)
           /\ Performs("prepare", r) => journal'[r] = "prepared"
    <1>1. CASE Performs("prepare", r)
        BY <1>1 DEF Performs, Accepts, CanPrepare, Prepare, Enters, files, CompanionTypeOK, States, Effect
    <1>2. ~Breaks("prepare", r)
        BY DEF Breaks
    <1>3. CASE Refuses("prepare", r) /\ ~Performs("prepare", r)
        BY <1>3 DEF Refuses, companion, CompanionTypeOK, Effect
    <1>4. QED
        BY <1>1, <1>2, <1>3 DEF Moves

LEMMA CommitIs ==
    ASSUME CompanionTypeOK, NEW r \in Replicas, Moves("commit", r)
    PROVE  Effect("commit", r) /\ (action = "remove" /\ weight => weight')
    <1>1. CASE Performs("commit", r)
        <2>1. CanCommit(r) /\ Commit(r)
            BY <1>1 DEF Performs, Accepts
        <2>2. QED
            BY <2>1 DEF CanCommit, Commit, Enters, Publishes, Activates, companion, CompanionTypeOK,
                        States, Ours, Effect
    <1>2. CASE Breaks("commit", r)
        <2>1. CanCommit(r) /\ PartOfCommit(r)
            BY <1>2 DEF Breaks, Accepts
        <2>2. QED
            BY <2>1 DEF CanCommit, PartOfCommit, Between, Enters, Publishes, Activates, Withdraws,
                        CompanionTypeOK, States, Ours, Effect
    <1>3. CASE Refuses("commit", r)
        BY <1>3 DEF Refuses, companion, CompanionTypeOK, Effect
    <1>4. QED
        BY <1>1, <1>2, <1>3 DEF Moves

LEMMA QuarantineIs ==
    ASSUME CompanionTypeOK, NEW r \in Replicas, Moves("quarantine", r)
    PROVE  Effect("quarantine", r)
    <1>1. CASE Performs("quarantine", r)
        <2>1. CanQuarantine(r) /\ Quarantine(r)
            BY <1>1 DEF Performs, Accepts
        <2>2. QED
            BY <2>1 DEF CanQuarantine, Quarantine, Enters, CompanionTypeOK, States, Effect
    <1>2. CASE Breaks("quarantine", r)
        BY <1>2 DEF Breaks, PartOfQuarantine, CompanionTypeOK, Effect
    <1>3. CASE Refuses("quarantine", r)
        BY <1>3 DEF Refuses, companion, CompanionTypeOK, Effect
    <1>4. QED
        BY <1>1, <1>2, <1>3 DEF Moves

LEMMA RollbackIs ==
    ASSUME CompanionTypeOK, NEW r \in Replicas, Moves("rollback", r)
    PROVE  /\ Effect("rollback", r)
           /\ Performs("rollback", r) => journal'[r] \in {"none", "rolled_back"}
           /\ action = "remove" /\ weight => weight'
    <1>1. CASE Performs("rollback", r)
        <2>1. CanRollback(r) /\ Rollback(r)
            BY <1>1 DEF Performs, Accepts
        <2>2. CASE journal[r] \in {"none", "rolled_back"}
            <3>1. \/ UNCHANGED companion
                  \/ stage' = (stage /\ r # Writer) /\ UNCHANGED <<action, journal, publication, weight, quarantine, lease>>
                BY <2>1, <2>2 DEF Rollback
            <3>2. /\ UNCHANGED <<action, journal, publication, weight, quarantine, lease>>
                  /\ stage' \in BOOLEAN
                BY <3>1 DEF companion, CompanionTypeOK
            <3>3. QED
                BY <2>2, <3>2 DEF CompanionTypeOK, Effect
        <2>3. CASE journal[r] \notin {"none", "rolled_back"}
            BY <2>1, <2>3 DEF CanRollback, Rollback, HasTargets, Restores, Withdraws, Enters, Publishes,
                              CompanionTypeOK, States, Ours, Effect
        <2>4. QED
            BY <2>2, <2>3
    <1>2. CASE Breaks("rollback", r) /\ ~Performs("rollback", r)
        <2>1. CanRollback(r) /\ PartOfRollback(r)
            BY <1>2 DEF Breaks, Accepts
        <2>2. /\ journal[r] \notin {"none", "staged", "finalized"}
              /\ publication[r] \in Ours
              /\ journal' = journal \/ journal' = [journal EXCEPT ![r] = "repair_required"]
            BY <2>1 DEF CanRollback, PartOfRollback, HasTargets, Closed, Enters
        <2>3. PICK bundle \in Between(publication[r], "old") : publication' = [publication EXCEPT ![r] = bundle]
            BY <2>1 DEF PartOfRollback, Publishes
        <2>4. /\ weight' \in BOOLEAN /\ quarantine' \in BOOLEAN /\ action' = action /\ stage' = stage
              /\ lease' = lease /\ (action = "remove" /\ weight => weight')
            BY <2>1 DEF PartOfRollback, CompanionTypeOK, Withdraws, Restores
        <2>5. QED
            BY <1>2, <2>2, <2>3, <2>4 DEF Between, CompanionTypeOK, States, Ours, Effect
    <1>3. CASE Refuses("rollback", r) /\ ~Performs("rollback", r)
        BY <1>3 DEF Refuses, Accepts, CanRollback, ReferencedElsewhere, Enters, files, companion, CompanionTypeOK,
                    States, Effect
    <1>4. QED
        BY <1>1, <1>2, <1>3 DEF Moves

LEMMA FinalizeIs ==
    ASSUME CompanionTypeOK, NEW r \in Replicas, Moves("finalize", r)
    PROVE  /\ Effect("finalize", r)
           /\ Performs("finalize", r) => journal'[r] = "finalized"
    <1>1. CASE Performs("finalize", r)
        BY <1>1 DEF Performs, Accepts, CanFinalize, Finalize, Enters, CompanionTypeOK, States, Effect
    <1>2. CASE Breaks("finalize", r) /\ ~Performs("finalize", r)
        BY <1>2 DEF Breaks, PartOfFinalize, CompanionTypeOK, Effect
    <1>3. CASE Refuses("finalize", r) /\ ~Performs("finalize", r)
        BY <1>3 DEF Refuses, companion, CompanionTypeOK, Effect
    <1>4. QED
        BY <1>1, <1>2, <1>3 DEF Moves

-----------------------------------------------------------------------------
(* A request moves its companion while the coroutine waits for the answer. *)
LEMMA RequestIs ==
    ASSUME SafeInv, task.left # {}
    PROVE  /\ task.step \in Asking /\ Request \in AnyMove
           /\ task.step \notin {"put", "refinalize"} => Request = task.step
           /\ task.step = "put" => Request = "stage"
           /\ task.step = "refinalize" => Request = "finalize"
           /\ NextAsked \subseteq task.left /\ task.left \subseteq Replicas
    <1>1. task.step \in Asking /\ task \in Task
        BY DEF SafeInv, LoraTyped, Going, TaskRow
    <1>2. NextAsked \subseteq task.left
        BY DEF NextAsked
    <1>3. QED
        BY <1>1, <1>2 DEF Asking, Request, AnyMove, Task

LEMMA EffectKeeps ==
    ASSUME CompanionTypeOK, NEW t \in Task, NEW z, Going(t, z), PreparedFirst, UNCHANGED using,
           NEW r \in t.left, NEW q \in AnyMove, Effect(q, r),
           t.step \in Asking, t.step \notin {"put", "refinalize"} => q = t.step,
           t.step = "put" => q = "stage", t.step = "refinalize" => q = "finalize"
    PROVE  Going(t, z)' /\ PreparedFirst'
    <1>1. /\ r \in Replicas /\ t.left \subseteq Replicas
          /\ TaskRow(t, z) /\ Freshness(t, z) /\ NoUser(t) /\ Loops(t)
        BY DEF Going, Task
    <1>2. \A o \in Replicas : /\ journal'[o] = "none" => journal[o] = "none"
                              /\ journal[o] = "finalized" => journal'[o] = "finalized"
                              /\ publication'[o] \in {"mixed", "new"} =>
                                     q = "commit" \/ publication[o] \in {"mixed", "new"}
                              /\ journal'[o] = "staged" =>
                                     journal[o] = "staged" \/ (q = "stage" /\ o = Writer /\ journal[o] = "none")
                              /\ publication'[o] = publication[o] \/ q \in {"commit", "rollback"}
                              /\ o # r => journal'[o] = journal[o]
        BY <1>1 DEF Effect
    <1>3. PreparedFirst'
        BY <1>1, <1>2 DEF PreparedFirst, Loops, Begun, Asking
    <1>4. TaskRow(t, z)' /\ NoUser(t)'
        BY <1>1 DEF TaskRow, NoUser, Effect
    <1>5. Freshness(t, z)'
        <2>1. q = "stage" => action = "install" /\ t.step = "put"
            BY <1>1 DEF TaskRow, Asking
        <2>2. ASSUME z \in {"none", "awaiting_upload"} \/ t.step \in {"put", "preflight", "check"}
              PROVE  Pristine'
            <3>1. Pristine /\ t.step = "put" /\ q = "stage"
                BY <1>1, <2>2, NoTaskIs DEF Freshness, TaskRow, Asking
            <3>2. QED
                BY <1>1, <3>1 DEF Pristine, Effect
        <2>3. QED
            BY <1>1, <1>2, <2>1, <2>2 DEF Freshness, Effect
    <1>6. Loops(t)'
        BY <1>1, <1>2 DEF Loops, Begun, Complete, ShownNew, FilesNew, TakenBack, Effect, Asking
    <1>7. QED
        BY <1>3, <1>4, <1>5, <1>6 DEF Going

LEMMA MovesIs ==
    ASSUME CompanionTypeOK, NEW r \in Replicas, NEW q \in AnyMove, Moves(q, r)
    PROVE  Effect(q, r)
    BY StageIs, PrepareIs, CommitIs, QuarantineIs, RollbackIs, FinalizeIs DEF AnyMove

(* The companions are where a coroutine t can go on, or is at rest.        *)
Mid(t, z) == CompanionTypeOK /\ Going(t, z) /\ PreparedFirst

LEMMA MoveKeeps ==
    ASSUME SafeInv, task.left # {}, NEW r \in NextAsked, Moves(Request, r), UNCHANGED using,
           NEW t \in Task, NEW z, t = task, z = status
    PROVE  /\ Mid(t, z)' /\ Effect(Request, r) /\ r \in task.left /\ r \in Replicas
           /\ Request \in AnyMove /\ task.step \in Asking
    <1>1. /\ CompanionTypeOK /\ Going(t, z) /\ PreparedFirst
        BY DEF SafeInv, LoraTyped
    <1>2. /\ task.step \in Asking /\ Request \in AnyMove
          /\ task.step \notin {"put", "refinalize"} => Request = task.step
          /\ task.step = "put" => Request = "stage"
          /\ task.step = "refinalize" => Request = "finalize"
          /\ r \in task.left /\ r \in Replicas
        BY RequestIs
    <1>3. PICK q \in AnyMove : q = Request
        BY <1>2
    <1>4. Effect(q, r)
        BY <1>1, <1>2, <1>3, MovesIs
    <1>5. Going(t, z)' /\ PreparedFirst'
        BY <1>1, <1>2, <1>3, <1>4, EffectKeeps
    <1>6. QED
        BY <1>2, <1>3, <1>4, <1>5 DEF Mid, Effect

LEMMA RestKeeps ==
    ASSUME SafeInv, UNCHANGED companion, UNCHANGED using,
           NEW t \in Task, NEW z, t = task, z = status
    PROVE  Mid(t, z)'
    <1>1. /\ CompanionTypeOK /\ TaskRow(t, z) /\ Freshness(t, z) /\ NoUser(t) /\ Loops(t) /\ PreparedFirst
        BY DEF SafeInv, LoraTyped, Going
    <1>2. /\ CompanionTypeOK' /\ TaskRow(t, z)' /\ PreparedFirst'
        BY <1>1 DEF companion, CompanionTypeOK, TaskRow, PreparedFirst
    <1>3. Freshness(t, z)' /\ NoUser(t)'
        BY <1>1 DEF companion, Freshness, Pristine, NoUser
    <1>4. Loops(t)'
        BY <1>1 DEF companion, Loops, Begun, Complete, ShownNew, FilesNew, TakenBack
    <1>5. QED
        BY <1>2, <1>3, <1>4 DEF Mid, Going

LEMMA Landed ==
    ASSUME NEW t \in Task, NEW z, Going(t, z)', task' = t, status' = z
    PROVE  Going(task, status)'
    BY DEF Going, TaskRow, Freshness, NoUser, Loops

-----------------------------------------------------------------------------
(* How a coroutine goes on.                                                *)
Statuses  == {"none", "awaiting_upload", "running", "succeeded", "failed", "repair_required"}
Processes == {"up", "stopping", "down", "starting"}
Lands == /\ task' \in Task /\ status' \in Statuses /\ process' \in Processes
         /\ Going(task, status)'

LEMMA Pauses ==
    ASSUME NEW t \in Task, NEW z, Mid(t, z)', NEW y \in Statuses, task' = NoTask, status' = y,
           process' \in Processes,
           y \in {"none", "awaiting_upload"} => Pristine', y = "awaiting_upload" => action' = "install"
    PROVE  Lands
    <1>1. (\A r \in Replicas : journal[r] = "staged" => action = "install")'
        BY DEF Mid, Going, Freshness
    <1>2. PICK u \in Task : u = NoTask
        BY NoTaskIs
    <1>3. TaskRow(u, y)' /\ Freshness(u, y)' /\ NoUser(u)' /\ Loops(u)'
        BY <1>1, <1>2, NoTaskIs DEF TaskRow, Freshness, NoUser, Loops, Asking, RunSteps, RecoverySteps, WayBack
    <1>4. QED
        BY <1>2, <1>3, Landed DEF Lands, Going

LEMMA EndLands ==
    ASSUME NEW t \in Task, NEW z, Mid(t, z)', process \in Processes,
           NEW y \in Statuses \ {"none"}, End(y),
           y = "awaiting_upload" => Pristine' /\ action' = "install"
    PROVE  Lands
    <1>1. task' = NoTask /\ status' = y /\ process' \in Processes
        BY DEF End, Processes
    <1>2. QED
        BY <1>1, Pauses

LEMMA WayBackLands ==
    ASSUME NEW t \in Task, NEW z, Mid(t, z)', status' = "running",
           NEW k \in {"run", "again", "cancel"}, NEW e \in Errors, k = "run" => e # "none",
           Becomes(k, "rollback", Asked("rollback"), FALSE, TRUE, e),
           process' \in Processes
    PROVE  Lands
    <1>1. Asked("rollback") = Replicas /\ Replicas # {}
        BY ReplicasAssumption, AskedIs DEF Steps
    <1>2. PICK u \in Task : u = task'
        BY DEF Becomes
    <1>3. u.kind = k /\ u.step = "rollback" /\ u.left = Replicas /\ u.finalized = FALSE /\ u.err = e
        BY <1>1, <1>2 DEF Becomes
    <1>4. (\A r \in Replicas : journal[r] = "staged" => action = "install")'
        BY DEF Mid, Going, Freshness
    <1>5. TaskRow(u, "running")' /\ Freshness(u, "running")' /\ NoUser(u)' /\ Loops(u)'
        BY <1>1, <1>3, <1>4, NoTaskIs
           DEF TaskRow, Freshness, NoUser, Loops, Asking, RunSteps, RecoverySteps, WayBack
    <1>6. QED
        BY <1>2, <1>5, Landed DEF Lands, Going, Statuses

LEMMA RaiseLands ==
    ASSUME NEW t \in Task, NEW z, t = task, z = status, Mid(t, z)', process \in Processes,
           t.kind \in {"run", "recover"} \/ t.finalized, NEW err \in {"app", "other"}, Raise(err)
    PROVE  Lands /\ UNCHANGED <<using, pruned>>
    <1>1. CASE task.kind = "recover" \/ task.finalized
        <2>1. End("repair_required") /\ UNCHANGED <<using, pruned>>
            BY <1>1 DEF Raise
        <2>2. QED
            BY <2>1, EndLands DEF Statuses
    <1>2. CASE ~(task.kind = "recover" \/ task.finalized)
        <2>1. /\ task' = [Start("run", "rollback") EXCEPT !.err = err]
              /\ UNCHANGED <<status, process, using, pruned>>
            BY <1>2 DEF Raise, Stays
        <2>2. Becomes("run", "rollback", Asked("rollback"), FALSE, TRUE, err)
            BY <2>1, StartIs DEF Kinds, Steps, Errors
        <2>3. z = "running"
            BY <1>2, NoTaskIs DEF Mid, Going, TaskRow
        <2>4. QED
            BY <2>1, <2>2, <2>3, WayBackLands DEF Errors
    <1>3. QED
        BY <1>1, <1>2

LEMMA LeaveLands ==
    ASSUME NEW t \in Task, NEW z, t = task, z = status, Mid(t, z)', process \in Processes,
           t.kind = "run", NEW err \in {"app", "other", "stop"}, Leave(err)
    PROVE  Lands /\ UNCHANGED <<using, pruned>>
    <1>1. z = "running"
        BY NoTaskIs DEF Mid, Going, TaskRow
    <1>2. CASE err = "app" /\ action = "install"
        <2>1. task' = Start("again", "rollback") /\ UNCHANGED <<status, process, using, pruned>>
            BY <1>2 DEF Leave
        <2>2. Becomes("again", "rollback", Asked("rollback"), FALSE, TRUE, "none")
            BY <2>1, StartIs DEF Kinds, Steps, Errors
        <2>3. QED
            BY <1>1, <2>1, <2>2, WayBackLands DEF Errors
    <1>3. CASE ~(err = "app" /\ action = "install")
        <2>1. PICK y \in {"failed", "repair_required", "running"} : End(y) /\ UNCHANGED <<using, pruned>>
            BY <1>1, <1>3 DEF Leave
        <2>2. QED
            BY <2>1, EndLands DEF Statuses
    <1>4. QED
        BY <1>2, <1>3

LEMMA ContinueLands ==
    ASSUME NEW t \in Task, NEW z, t = task, z = status, Mid(t, z)', UNCHANGED <<status, process>>,
           z \in Statuses, process \in Processes,
           t.step \in Asking \ {"put"}, NEW r \in t.left, NEW ok \in BOOLEAN, Continue(r, ok),
           t.step = "prepare" => Begun(r)',
           t.step \in {"finalize", "refinalize"} => Complete(r)',
           t.step = "rollback" /\ ok => TakenBack(r)'
    PROVE  Lands
    <1>1. TaskRow(t, z)' /\ Freshness(t, z)' /\ NoUser(t)' /\ Loops(t)'
        BY DEF Mid, Going
    <1>2. PICK u \in Task : u = task'
        BY ContinueIs DEF Becomes
    <1>3. CASE t.left \ {r} # {}
        <2>1. /\ u.kind = t.kind /\ u.step = t.step /\ u.left = t.left \ {r} /\ u.err = t.err
              /\ u.finalized = (t.finalized \/ t.step = "finalize") /\ u.ok = (t.ok /\ ok)
            BY <1>2, <1>3, ContinueIs DEF Becomes
        <2>2. TaskRow(u, z)' /\ Freshness(u, z)' /\ NoUser(u)'
            BY <1>1, <1>3, <2>1, NoTaskIs DEF TaskRow, Freshness, NoUser, Asking
        <2>3. Loops(u)'
            BY <1>1, <1>3, <2>1 DEF Loops, Asking
        <2>4. QED
            BY <1>2, <2>2, <2>3, Landed DEF Lands, Going
    <1>4. CASE t.left \ {r} = {}
        <2>1. /\ u.kind = t.kind /\ u.step = After[t.step] /\ u.left = Asked(After[t.step]) /\ u.err = t.err
              /\ u.finalized = (t.finalized \/ t.step = "finalize") /\ u.ok = (t.ok /\ ok)
            BY <1>2, <1>4, ContinueIs DEF Becomes
        <2>2. /\ t.step = "prepare" => u.step = "commit" /\ u.left = Replicas
              /\ t.step = "commit" => u.step = "verify" /\ u.left = {}
              /\ t.step = "quarantine" => u.step = "absent" /\ u.left = {}
              /\ t.step = "finalize" => u.step = "reconcile" /\ u.left = {}
              /\ t.step = "refinalize" => u.step = "inventory" /\ u.left = {}
              /\ t.step = "rollback" => u.step = "inspect" /\ u.left = {}
            BY <2>1, AfterIs, AskedIs DEF Steps, Asking
        <2>3. t.step \in {"prepare", "commit", "quarantine", "finalize", "refinalize", "rollback"} /\ Replicas # {}
            BY ReplicasAssumption DEF Asking
        <2>4. TaskRow(u, z)'
            <3>1. t.finalized => t.step = "finalize"
                BY <1>1, <2>3 DEF TaskRow
            <3>2. u.finalized => t.step = "finalize"
                BY <2>1, <3>1
            <3>3. t.step = "finalize" => u.finalized
                BY <2>1
            <3>4. /\ (u.left # {}) = (u.step \in Asking)
                  /\ u.step # "none" /\ u.step # "put" /\ t # NoTask /\ t.kind # "upload"
                BY <1>1, <2>2, <2>3, NoTaskIs DEF Asking, TaskRow
            <3>5. QED
                BY <1>1, <2>1, <2>2, <2>3, <3>2, <3>3, <3>4 DEF TaskRow, RunSteps, RecoverySteps, WayBack
        <2>5. Freshness(u, z)' /\ NoUser(u)'
            BY <1>1, <2>2, <2>3 DEF Freshness, NoUser
        <2>6. Loops(u)'
            BY <1>1, <1>4, <2>1, <2>2, <2>3 DEF Loops
        <2>7. QED
            BY <1>2, <2>4, <2>5, <2>6, Landed DEF Lands, Going
    <1>5. QED
        BY <1>3, <1>4

LEMMA RestLands ==
    ASSUME NEW t \in Task, NEW z \in Statuses, Mid(t, z)', task' = NoTask, status' = z,
           process' \in Processes
    PROVE  Lands
    <1>1. /\ z \in {"none", "awaiting_upload"} => Pristine'
          /\ z = "awaiting_upload" => action' = "install"
        BY DEF Mid, Going, TaskRow, Freshness
    <1>2. QED
        BY <1>1, Pauses

(* A coroutine that starts, or moves on to another step.                   *)
LEMMA GoLands ==
    ASSUME NEW z \in Statuses, status' = z, process' \in Processes,
           NEW u \in Task, task' = u, Going(u, z)'
    PROVE  Lands
    BY Landed DEF Lands

-----------------------------------------------------------------------------
(* The steps that look at the replicas leave the companions alone.         *)
Looked == Lands /\ UNCHANGED using /\ (pruned' \in BOOLEAN /\ (pruned' => pruned \/ Finalized = Replicas))

LEMMA StepIs ==
    ASSUME SafeInv
    PROVE  /\ task \in Task /\ status \in Statuses /\ process \in Processes /\ using \in BOOLEAN
           /\ pruned \in BOOLEAN /\ CompanionTypeOK /\ faults \in 0 .. MaxFaults
           /\ task.kind \in Kinds /\ task.finalized \in BOOLEAN /\ task.ok \in BOOLEAN /\ task.err \in Errors
           /\ task.step \in Steps /\ task.left \subseteq Replicas
           /\ TaskRow(task, status) /\ Freshness(task, status) /\ NoUser(task) /\ Loops(task)
    <1>1. task \in Task
        BY DEF SafeInv, LoraTyped
    <1>2. QED
        BY <1>1 DEF SafeInv, LoraTyped, Going, Statuses, Processes, Task, Kinds, Errors

LEMMA DoubtLooks ==
    ASSUME SafeInv, UNCHANGED <<companion, using, pruned>>, task.kind \in {"run", "recover"} \/ task.finalized,
           \E err \in {"app", "other"} : Raise(err)
    PROVE  Looked
    <1>1. PICK t \in Task, z \in Statuses : t = task /\ z = status
        BY StepIs
    <1>2. Mid(t, z)'
        BY <1>1, RestKeeps
    <1>3. QED
        BY <1>1, <1>2, StepIs, RaiseLands DEF Looked

LEMMA PreflightLooks ==
    ASSUME SafeInv, PreflightOperation
    PROVE  Looked
    <1>1. PICK t \in Task, z \in Statuses : t = task /\ z = status
        BY StepIs
    <1>2. task.step = "preflight" /\ UNCHANGED companion /\ UNCHANGED <<using, pruned>>
        BY DEF PreflightOperation, AtStep, Stays, Leave
    <1>3. Mid(t, z)'
        BY <1>1, <1>2, RestKeeps
    <1>4. task.kind = "run" /\ z = "running" /\ ~task.finalized /\ Pristine
        BY <1>1, <1>2, NoTaskIs, StepIs DEF TaskRow, RunSteps, Freshness
    <1>5. ASSUME NEW s \in {"check", "prepare"}, GoTo(s), Stays, s = "prepare" => action # "remove"
          PROVE  Lands
        <2>1. Becomes("run", s, Asked(s), FALSE, task.ok, task.err)
            BY <1>4, <1>5, GoToIs, StepIs DEF Steps
        <2>2. /\ s = "prepare" => Asked(s) = Replicas /\ Replicas # {}
              /\ s = "check" => Asked(s) = {}
            BY <1>5, ReplicasAssumption, AskedIs DEF Steps, Asking
        <2>3. /\ status' = z /\ process' \in Processes /\ CompanionTypeOK' /\ action' = action
              /\ (\A r \in Replicas : journal[r] = "staged" => action = "install")' /\ Pristine'
            BY <1>1, <1>2, <1>3, <1>4, <1>5, StepIs DEF Stays, Mid, Going, Freshness, companion, Pristine
        <2>4. PICK u \in Task : u = task'
            BY <2>1 DEF Becomes
        <2>5. u.kind = "run" /\ u.step = s /\ u.left = Asked(s) /\ u.finalized = FALSE
            BY <2>1, <2>4 DEF Becomes
        <2>6. Going(u, z)'
            BY <1>4, <1>5, <2>2, <2>3, <2>5
               DEF Going, TaskRow, Freshness, NoUser, Loops, Asking, RunSteps, RecoverySteps, WayBack
        <2>7. QED
            BY <2>3, <2>4, <2>6, GoLands
    <1>6. ASSUME NEW err \in {"app", "other"}, Leave(err)
          PROVE  Lands
        BY <1>1, <1>3, <1>4, <1>6, StepIs, LeaveLands
    <1>7. Lands
        <2>1. CASE \E err \in {"app", "other"} : Leave(err)
            BY <1>6, <2>1
        <2>2. CASE Leave("app")
            BY <1>6, <2>2
        <2>3. CASE GoTo(IF action = "remove" THEN "check" ELSE "prepare") /\ Stays
            <3>1. CASE action = "remove"
                BY <1>5, <2>3, <3>1
            <3>2. CASE action # "remove"
                BY <1>5, <2>3, <3>2
            <3>3. QED
                BY <3>1, <3>2
        <2>4. QED
            BY <2>1, <2>2, <2>3 DEF PreflightOperation
    <1>8. QED
        BY <1>2, <1>7, StepIs DEF Looked

LEMMA GoesTo ==
    ASSUME SafeInv, NEW s \in Steps, GoTo(s)
    PROVE  \E u \in Task : /\ u = task' /\ u.kind = task.kind /\ u.step = s /\ u.left = Asked(s)
                           /\ u.finalized = task.finalized /\ u.ok = task.ok /\ u.err = task.err
    BY GoToIs, StepIs DEF Becomes

LEMMA CheckLooks ==
    ASSUME SafeInv, CheckActiveGenerations
    PROVE  Looked
    <1>1. PICK t \in Task, z \in Statuses : t = task /\ z = status
        BY StepIs
    <1>2. task.step = "check" /\ UNCHANGED companion /\ UNCHANGED <<using, pruned>>
        BY DEF CheckActiveGenerations, AtStep, Stays, Leave
    <1>3. Mid(t, z)'
        BY <1>1, <1>2, RestKeeps
    <1>4. task.kind = "run" /\ z = "running" /\ ~task.finalized
        BY <1>1, <1>2, NoTaskIs, StepIs DEF TaskRow, RunSteps
    <1>5. CASE using
        <2>1. Leave("app")
            BY <1>5 DEF CheckActiveGenerations
        <2>2. QED
            BY <1>1, <1>2, <1>3, <1>4, <2>1, StepIs, LeaveLands DEF Looked
    <1>6. CASE ~using
        <2>1. GoTo("prepare") /\ Stays
            BY <1>6 DEF CheckActiveGenerations
        <2>2. PICK u \in Task : /\ u = task' /\ u.kind = "run" /\ u.step = "prepare" /\ u.left = Asked("prepare")
                                /\ u.finalized = task.finalized
            BY <1>4, <2>1, GoesTo DEF Steps
        <2>3. Asked("prepare") = Replicas /\ Replicas # {}
            BY ReplicasAssumption, AskedIs DEF Steps
        <2>4. (\A r \in Replicas : journal[r] = "staged" => action = "install")'
            BY <1>3 DEF Mid, Going, Freshness
        <2>5. Going(u, z)'
            BY <1>2, <1>4, <1>6, <2>2, <2>3, <2>4, NoTaskIs
               DEF Going, TaskRow, Freshness, NoUser, Loops, Asking, RunSteps, RecoverySteps, WayBack
        <2>6. QED
            BY <1>1, <1>2, <2>1, <2>2, <2>5, StepIs, GoLands DEF Stays, Looked
    <1>7. QED
        BY <1>5, <1>6

LEMMA VerifyLooks ==
    ASSUME SafeInv, VerifyPublications \/ VerifyAbsent
    PROVE  Looked
    <1>1. PICK t \in Task, z \in Statuses : t = task /\ z = status
        BY StepIs
    <1>2. /\ task.step \in {"verify", "absent"} /\ UNCHANGED companion /\ UNCHANGED <<using, pruned>>
          /\ (\E err \in {"app", "other"} : Raise(err)) \/ UNCHANGED <<status, process>>
        BY DEF VerifyPublications, VerifyAbsent, Doubt, AtStep, Stays, Raise
    <1>3. Mid(t, z)'
        BY <1>1, <1>2, RestKeeps
    <1>4. task.kind = "run" /\ z = "running" /\ ~task.finalized
        BY <1>1, <1>2, NoTaskIs, StepIs DEF TaskRow, RunSteps
    <1>5. \/ \E err \in {"app", "other"} : Raise(err)
          \/ /\ Stays
             /\ \/ GoTo("quarantine") /\ action = "remove" /\ task.step = "verify" /\ AllAre("new")
                \/ GoTo("finalize") /\ task.step = "verify" /\ AllAre("new") /\ weight /\ action # "remove"
                \/ GoTo("finalize") /\ task.step = "absent" /\ ~weight
        <2>1. CASE VerifyPublications
            <3>1. CASE action = "remove"
                BY <2>1, <3>1 DEF VerifyPublications, Doubt, AtStep
            <3>2. CASE action # "remove"
                BY <2>1, <3>2 DEF VerifyPublications, Doubt, AtStep
            <3>3. QED
                BY <3>1, <3>2
        <2>2. CASE VerifyAbsent
            BY <2>2 DEF VerifyAbsent, Doubt, AtStep
        <2>3. QED
            BY <2>1, <2>2
    <1>6. CASE \E err \in {"app", "other"} : Raise(err)
        BY <1>2, <1>4, <1>6, DoubtLooks
    <1>7. /\ (\A r \in Replicas : journal[r] = "staged" => action = "install")'
          /\ action' = action /\ weight' = weight /\ publication' = publication /\ using' = using
          /\ CompanionTypeOK
        BY <1>2, <1>3, StepIs DEF Mid, Going, Freshness, companion
    <1>8. Replicas # {} /\ Asked("quarantine") = {Writer} /\ Asked("finalize") = Replicas
        BY ReplicasAssumption, AskedIs DEF Steps
    <1>9. CASE Stays /\ GoTo("quarantine") /\ action = "remove" /\ task.step = "verify" /\ AllAre("new")
        <2>1. PICK u \in Task : /\ u = task' /\ u.kind = "run" /\ u.step = "quarantine" /\ u.left = {Writer}
                                /\ u.finalized = task.finalized
            BY <1>4, <1>8, <1>9, GoesTo DEF Steps
        <2>2. NoUser(u)'
            BY <1>7, <1>9, <2>1, StepIs DEF NoUser
        <2>3. Going(u, z)'
            BY <1>4, <1>7, <1>9, <2>1, <2>2, NoTaskIs
               DEF Going, TaskRow, Freshness, Loops, Asking, RunSteps, RecoverySteps, WayBack, ShownNew, AllAre
        <2>4. QED
            BY <1>1, <1>2, <1>9, <2>1, <2>3, StepIs, GoLands DEF Stays, Looked
    <1>10. ASSUME GoTo("finalize"), Stays, ShownNew, FilesNew
           PROVE  Looked
        <2>1. PICK u \in Task : /\ u = task' /\ u.kind = "run" /\ u.step = "finalize" /\ u.left = Replicas
                                /\ u.finalized = task.finalized
            BY <1>4, <1>8, <1>10, GoesTo DEF Steps
        <2>2. Going(u, z)'
            BY <1>4, <1>7, <1>8, <1>10, <2>1, NoTaskIs
               DEF Going, TaskRow, Freshness, NoUser, Loops, Asking, RunSteps, RecoverySteps, WayBack, ShownNew, FilesNew
        <2>3. QED
            BY <1>1, <1>2, <1>10, <2>1, <2>2, StepIs, GoLands DEF Stays, Looked
    <1>11. task.step = "absent" => ShownNew /\ action = "remove"
        BY StepIs DEF Loops, TaskRow
    <1>12. QED
        BY <1>5, <1>6, <1>7, <1>9, <1>10, <1>11 DEF AllAre, ShownNew, FilesNew, CompanionTypeOK

LEMMA InspectLooks ==
    ASSUME SafeInv, Inspect
    PROVE  Looked
    <1>1. PICK t \in Task, z \in Statuses : t = task /\ z = status
        BY StepIs
    <1>2. task.step = "inspect" /\ UNCHANGED companion /\ UNCHANGED <<using, pruned>>
        BY DEF Inspect, AtStep, Leave
    <1>3. Mid(t, z)'
        BY <1>1, <1>2, RestKeeps
    <1>4. \/ End("repair_required") \/ End("failed")
          \/ task.kind = "run" /\ Leave(task.err)
        BY DEF Inspect
    <1>5. CASE End("repair_required") \/ End("failed")
        BY <1>1, <1>2, <1>3, <1>5, StepIs, EndLands DEF Statuses, Looked
    <1>6. CASE task.kind = "run" /\ Leave(task.err)
        <2>1. PICK err \in {"app", "other", "stop"} : err = task.err
            BY <1>2, <1>6, StepIs DEF TaskRow, WayBack, Errors
        <2>2. QED
            BY <1>1, <1>2, <1>3, <1>6, <2>1, StepIs, LeaveLands DEF Looked
    <1>7. QED
        BY <1>4, <1>5, <1>6

LEMMA ReconcileLooks ==
    ASSUME SafeInv, ReconcileAfterSuccess \/ Succeed
    PROVE  Looked
    <1>1. PICK t \in Task, z \in Statuses : t = task /\ z = status
        BY StepIs
    <1>2. task.step \in {"reconcile", "succeed"} /\ UNCHANGED companion /\ UNCHANGED using
        BY DEF ReconcileAfterSuccess, Succeed, AtStep, Raise, Stays
    <1>3. Mid(t, z)' /\ Loops(t) /\ TaskRow(t, z)
        BY <1>1, <1>2, RestKeeps, StepIs
    <1>4. CASE Succeed
        BY <1>1, <1>2, <1>3, <1>4, StepIs, EndLands DEF Succeed, Statuses, Looked
    <1>5. CASE ReconcileAfterSuccess /\ Raise("other")
        <2>1. UNCHANGED pruned
            BY <1>5 DEF Raise, Stays
        <2>2. QED
            BY <1>1, <1>2, <1>3, <1>5, <2>1, DoubtLooks DEF TaskRow
    <1>6. CASE ReconcileAfterSuccess /\ ~Raise("other")
        <2>1. /\ GoTo("succeed") /\ UNCHANGED <<status, process, using>>
              /\ pruned' = (pruned \/ action = "remove") /\ task.step = "reconcile"
            BY <1>6 DEF ReconcileAfterSuccess, AtStep
        <2>2. PICK u \in Task : /\ u = task' /\ u.kind = task.kind /\ u.step = "succeed" /\ u.left = {}
                                /\ u.finalized = task.finalized
            BY <2>1, GoesTo, AskedIs DEF Steps, Asking
        <2>3. Loops(t)' /\ Freshness(t, z)'
            BY <1>3 DEF Mid, Going
        <2>4. Loops(u)' /\ Freshness(u, z)' /\ NoUser(u)'
            BY <1>1, <1>3, <2>1, <2>2, <2>3, NoTaskIs DEF Loops, Freshness, NoUser, TaskRow
        <2>5. TaskRow(u, z)'
            BY <1>1, <1>3, <2>1, <2>2, NoTaskIs DEF TaskRow, Asking, RunSteps, RecoverySteps, WayBack
        <2>6. Finalized = Replicas
            BY <1>1, <1>3, <2>1 DEF Loops, Complete, Finalized
        <2>7. Lands
            BY <1>1, <2>1, <2>2, <2>4, <2>5, StepIs, GoLands DEF Going
        <2>8. pruned' \in BOOLEAN
            BY <2>1, StepIs
        <2>9. QED
            BY <1>2, <2>6, <2>7, <2>8 DEF Looked
    <1>7. QED
        BY <1>4, <1>5, <1>6

LEMMA RecoverLooks ==
    ASSUME SafeInv, RecoverStates
    PROVE  Looked
    <1>1. PICK t \in Task, z \in Statuses : t = task /\ z = status
        BY StepIs
    <1>2. task.step = "states" /\ UNCHANGED companion /\ UNCHANGED <<using, pruned>>
        BY DEF RecoverStates, AtStep, Stays, Raise
    <1>3. Mid(t, z)' /\ task.kind = "recover" /\ TaskRow(t, z)
        BY <1>1, <1>2, RestKeeps, StepIs DEF TaskRow, RecoverySteps
    <1>4. ~task.finalized /\ z \in {"running", "repair_required"}
        BY <1>1, <1>2, <1>3, NoTaskIs DEF TaskRow
    <1>5. /\ (\A r \in Replicas : journal[r] = "staged" => action = "install")'
          /\ action' = action /\ journal' = journal
        BY <1>2, <1>3 DEF Mid, Going, Freshness, companion
    <1>6. CASE \E err \in {"app", "other"} : Raise(err)
        BY <1>2, <1>3, <1>6, DoubtLooks
    <1>7. CASE End(status)
        BY <1>1, <1>2, <1>3, <1>4, <1>7, StepIs, EndLands DEF Looked
    <1>8. CASE GoTo("rollback") /\ Stays
        <2>1. PICK u \in Task : /\ u = task' /\ u.kind = "recover" /\ u.step = "rollback" /\ u.left = Replicas
                                /\ u.finalized = task.finalized
            BY <1>3, <1>8, GoesTo, AskedIs DEF Steps
        <2>2. Going(u, z)'
            BY <1>4, <1>5, <2>1, NoTaskIs, ReplicasAssumption
               DEF Going, TaskRow, Freshness, NoUser, Loops, Asking, RunSteps, RecoverySteps, WayBack
        <2>3. QED
            BY <1>1, <1>2, <1>8, <2>1, <2>2, StepIs, GoLands DEF Stays, Looked
    <1>9. CASE /\ Finalized # {} /\ Stays
               /\ task' = [task EXCEPT !.step = IF Finalized = Replicas THEN "inventory" ELSE "refinalize",
                                       !.left = Replicas \ Finalized]
        <2>1. PICK u \in Task : /\ u = task' /\ u.kind = task.kind /\ u.finalized = task.finalized
                                /\ u.step = IF Finalized = Replicas THEN "inventory" ELSE "refinalize"
                                /\ u.left = Replicas \ Finalized
            <3>1. PICK st \in Steps, rest \in SUBSET Replicas :
                      /\ st = IF Finalized = Replicas THEN "inventory" ELSE "refinalize"
                      /\ rest = Replicas \ Finalized
                BY DEF Steps
            <3>2. task' = [task EXCEPT !.step = st, !.left = rest]
                BY <1>9, <3>1
            <3>3. task \in Task
                BY StepIs
            <3>4. task' \in Task
                BY <3>1, <3>2, <3>3 DEF Task
            <3>5. /\ task'.kind = task.kind /\ task'.finalized = task.finalized
                  /\ task'.step = st /\ task'.left = rest
                BY <3>2, <3>3 DEF Task
            <3>6. QED
                BY <3>1, <3>4, <3>5
        <2>2. /\ Finalized \subseteq Replicas /\ \A r \in Replicas : r \in Finalized <=> journal'[r] = "finalized"
              /\ \E r \in Replicas : journal'[r] = "finalized"
            BY <1>5, <1>9 DEF Finalized
        <2>3. TaskRow(u, z)'
            BY <1>3, <1>4, <2>1, <2>2, NoTaskIs DEF TaskRow, Asking, RunSteps, RecoverySteps, WayBack
        <2>4. Freshness(u, z)' /\ NoUser(u)'
            BY <1>4, <1>5, <2>1 DEF Freshness, NoUser
        <2>5. Loops(u)'
            BY <2>1, <2>2 DEF Loops, Complete
        <2>6. QED
            BY <1>1, <1>2, <1>9, <2>1, <2>3, <2>4, <2>5, StepIs, GoLands DEF Stays, Looked, Going
    <1>10. QED
        BY <1>6, <1>7, <1>8, <1>9 DEF RecoverStates

LEMMA InventoryLooks ==
    ASSUME SafeInv, RecoverInventory
    PROVE  Looked
    <1>1. PICK t \in Task, z \in Statuses : t = task /\ z = status
        BY StepIs
    <1>2. task.step = "inventory" /\ UNCHANGED companion /\ UNCHANGED <<using, pruned>>
        BY DEF RecoverInventory, AtStep, Stays, Raise, Doubt
    <1>3. Mid(t, z)' /\ task.kind = "recover" /\ TaskRow(t, z) /\ Loops(t)
        BY <1>1, <1>2, RestKeeps, StepIs DEF TaskRow, RecoverySteps
    <1>4. ~task.finalized /\ z \in {"running", "repair_required"}
        BY <1>1, <1>2, <1>3, NoTaskIs DEF TaskRow
    <1>5. /\ (\A r \in Replicas : journal[r] = "staged" => action = "install")'
          /\ action' = action /\ journal' = journal /\ weight' = weight /\ publication' = publication
        BY <1>2, <1>3 DEF Mid, Going, Freshness, companion
    <1>6. CASE \E err \in {"app", "other"} : Raise(err)
        BY <1>2, <1>3, <1>6, DoubtLooks
    <1>7. CASE AllAre("new") /\ weight = (action # "remove") /\ GoTo("reconcile") /\ Stays
        <2>1. PICK u \in Task : /\ u = task' /\ u.kind = "recover" /\ u.step = "reconcile" /\ u.left = {}
                                /\ u.finalized = task.finalized
            BY <1>3, <1>7, GoesTo, AskedIs DEF Steps, Asking
        <2>2. /\ ShownNew' /\ FilesNew' /\ \A r \in Replicas : Complete(r)'
            BY <1>1, <1>2, <1>3, <1>5, <1>7 DEF ShownNew, FilesNew, AllAre, Loops, Complete
        <2>3. Going(u, z)'
            BY <1>4, <1>5, <2>1, <2>2, NoTaskIs
               DEF Going, TaskRow, Freshness, NoUser, Loops, Asking, RunSteps, RecoverySteps, WayBack
        <2>4. QED
            BY <1>1, <1>2, <1>7, <2>1, <2>3, StepIs, GoLands DEF Stays, Looked
    <1>8. QED
        BY <1>6, <1>7 DEF RecoverInventory, Doubt

-----------------------------------------------------------------------------
(* An answer, or an error instead of one.                                  *)
Asks(r) ==
    /\ CompanionTypeOK' /\ PreparedFirst' /\ Lands /\ UNCHANGED <<using, pruned>>
    /\ \A o \in Replicas : journal[o] = "finalized" => journal'[o] = "finalized"

LEMMA AnsweredAsks ==
    ASSUME SafeInv, task.left # {}, NEW r \in NextAsked, Answered(r)
    PROVE  Asks(r)
    <1>1. PICK t \in Task, z \in Statuses : t = task /\ z = status
        BY StepIs
    <1>2. UNCHANGED <<status, process, using, pruned>> /\ Performs(Request, r) /\ Moves(Request, r)
        BY DEF Answered, Stays, Moves
    <1>3. /\ Mid(t, z)' /\ Effect(Request, r) /\ r \in task.left /\ r \in Replicas
          /\ Request \in AnyMove /\ task.step \in Asking
        BY <1>1, <1>2, MoveKeeps
    <1>4. /\ task.step = "prepare" => Begun(r)'
          /\ task.step \in {"finalize", "refinalize"} => Complete(r)'
          /\ task.step = "rollback" => TakenBack(r)'
        <2>1. /\ task.step \in {"prepare", "finalize", "rollback"} => Request = task.step
              /\ task.step = "refinalize" => Request = "finalize"
            BY RequestIs
        <2>2. CompanionTypeOK
            BY StepIs
        <2>3. /\ Request = "prepare" => journal'[r] = "prepared"
              /\ Request = "finalize" => journal'[r] = "finalized"
              /\ Request = "rollback" => journal'[r] \in {"none", "rolled_back"}
            BY <1>2, <1>3, <2>2, PrepareIs, FinalizeIs, RollbackIs
        <2>4. QED
            BY <2>1, <2>3 DEF Begun, Complete, TakenBack
    <1>5. Lands
        <2>1. CASE task.step = "put"
            <3>1. task' = Start("run", "preflight") /\ Asked("preflight") = {}
                BY <2>1, AskedIs DEF Answered, Steps, Asking
            <3>2. PICK u \in Task : /\ u = task' /\ u.kind = "run" /\ u.step = "preflight" /\ u.left = {}
                                    /\ u.finalized = FALSE
                BY <3>1, StartIs DEF Becomes, Kinds, Steps, Errors
            <3>3. z = "running" /\ Freshness(t, z)'
                BY <1>1, <1>3, <2>1, NoTaskIs, StepIs DEF TaskRow, Mid, Going
            <3>4. Going(u, z)'
                BY <1>1, <2>1, <3>2, <3>3, NoTaskIs
                   DEF Going, TaskRow, Freshness, NoUser, Loops, Asking, RunSteps, RecoverySteps, WayBack
            <3>5. QED
                BY <1>1, <1>2, <3>2, <3>4, StepIs, GoLands
        <2>2. CASE task.step # "put"
            <3>1. Continue(r, TRUE)
                BY <2>2 DEF Answered
            <3>2. t.step \in Asking \ {"put"} /\ r \in t.left
                BY <1>1, <1>3, <2>2
            <3>3. QED
                BY <1>1, <1>2, <1>3, <1>4, <3>1, <3>2, StepIs, ContinueLands
        <2>3. QED
            BY <2>1, <2>2
    <1>6. QED
        BY <1>2, <1>3, <1>5 DEF Asks, Mid, Effect

LEMMA NotAnsweredAsks ==
    ASSUME SafeInv, task.left # {}, NEW r \in NextAsked, NotAnswered(r)
    PROVE  Asks(r)
    <1>1. PICK t \in Task, z \in Statuses : t = task /\ z = status
        BY StepIs
    <1>2. UNCHANGED companion \/ Moves(Request, r)
        BY DEF NotAnswered, Moves
    <1>3. /\ task.step \in Asking /\ r \in task.left
          /\ \/ End("awaiting_upload") /\ UNCHANGED <<using, pruned>> /\ task.step = "put"
             \/ Continue(r, FALSE) /\ Stays /\ task.step = "rollback"
             \/ Raise("app") /\ task.step \notin {"put", "rollback"}
        BY RequestIs DEF NotAnswered
    <1>4. UNCHANGED <<using, pruned>>
        BY <1>3 DEF Stays, Raise
    <1>5. /\ Mid(t, z)' /\ (\A o \in Replicas : journal[o] = "finalized" => journal'[o] = "finalized")
        <2>1. CASE UNCHANGED companion
            BY <1>1, <1>4, <2>1, RestKeeps DEF companion
        <2>2. CASE Moves(Request, r)
            BY <1>1, <1>4, <2>2, MoveKeeps DEF Effect
        <2>3. QED
            BY <1>2, <2>1, <2>2
    <1>6. CASE End("awaiting_upload") /\ UNCHANGED <<using, pruned>> /\ task.step = "put"
        <2>1. Pristine' /\ action' = "install"
            BY <1>1, <1>5, <1>6 DEF Mid, Going, Freshness, TaskRow
        <2>2. Lands
            BY <1>1, <1>5, <1>6, <2>1, StepIs, EndLands DEF Statuses
        <2>3. QED
            BY <1>4, <1>5, <2>2 DEF Asks, Mid
    <1>7. CASE Continue(r, FALSE) /\ Stays /\ task.step = "rollback"
        <2>1. t.step \in Asking \ {"put"} /\ r \in t.left /\ t.step = "rollback" /\ UNCHANGED <<status, process>>
            BY <1>1, <1>3, <1>7 DEF Stays
        <2>2. Lands
            BY <1>1, <1>5, <1>7, <2>1, StepIs, ContinueLands
        <2>3. QED
            BY <1>4, <1>5, <2>2 DEF Asks, Mid
    <1>8. CASE Raise("app") /\ task.step \notin {"put", "rollback"}
        <2>1. t.kind \in {"run", "recover"}
            BY <1>1, <1>3, <1>8, StepIs DEF TaskRow, Asking, RunSteps, RecoverySteps
        <2>2. Lands
            BY <1>1, <1>5, <1>8, <2>1, StepIs, RaiseLands
        <2>3. QED
            BY <1>4, <1>5, <2>2 DEF Asks, Mid
    <1>9. QED
        BY <1>3, <1>6, <1>7, <1>8

-----------------------------------------------------------------------------
(* Every step keeps the invariant.                                         *)
Kept == /\ CompanionTypeOK' /\ PreparedFirst' /\ PruneLast' /\ Lands
        /\ using' \in BOOLEAN /\ pruned' \in BOOLEAN

LEMMA PrunedStays ==
    ASSUME SafeInv, pruned' => pruned,
           \A o \in Replicas : journal[o] = "finalized" => journal'[o] = "finalized"
    PROVE  PruneLast'
    BY DEF SafeInv, PruneLast, Finalized

LEMMA TaskKeeps ==
    ASSUME SafeInv, TaskStep
    PROVE  Kept
    <1>1. CASE Ask
        <2>1. PICK r \in NextAsked : Asks(r)
            BY <1>1, AnsweredAsks, NotAnsweredAsks DEF Ask
        <2>2. QED
            BY <2>1, StepIs, PrunedStays DEF Asks, Kept
    <1>2. CASE ~Ask
        <2>1. Looked /\ UNCHANGED companion
            BY <1>2, PreflightLooks, CheckLooks, VerifyLooks, InspectLooks, ReconcileLooks,
               RecoverLooks, InventoryLooks
               DEF TaskStep, PreflightOperation, CheckActiveGenerations, VerifyPublications, VerifyAbsent,
                   Inspect, ReconcileAfterSuccess, Succeed, RecoverStates, RecoverInventory, AtStep
        <2>2. PICK t \in Task, z \in Statuses : t = task /\ z = status
            BY StepIs
        <2>3. Mid(t, z)'
            BY <2>1, <2>2, RestKeeps DEF Looked
        <2>4. PruneLast'
            BY <2>1 DEF Looked, SafeInv, PruneLast, Finalized, companion
        <2>5. QED
            BY <2>1, <2>3, <2>4, StepIs DEF Looked, Kept, Mid
    <1>3. QED
        BY <1>1, <1>2

LEMMA UserKeeps ==
    ASSUME SafeInv, Create \/ Upload \/ Cancel
    PROVE  Kept
    <1>1. PICK t \in Task, z \in Statuses : t = task /\ z = status
        BY StepIs
    <1>2. /\ UNCHANGED companion /\ UNCHANGED <<process, using, pruned>>
          /\ t = NoTask /\ z \in {"none", "awaiting_upload"}
        BY <1>1 DEF Create, Upload, Cancel, Ready
    <1>3. Mid(t, z)' /\ process' \in Processes
        BY <1>1, <1>2, RestKeeps, StepIs
    <1>4. Pristine' /\ (z = "awaiting_upload" => action' = "install")
          /\ (\A r \in Replicas : journal[r] = "staged" => action = "install")' /\ action' = action
        BY <1>2, <1>3 DEF Mid, Going, Freshness, TaskRow, companion
    <1>5. PruneLast'
        BY <1>2, PrunedStays DEF companion
    <1>6. ASSUME NEW y \in {"awaiting_upload", "repair_required"}, task' = NoTask, status' = y,
                 y = "awaiting_upload" => action = "install"
          PROVE  Lands
        BY <1>3, <1>4, <1>6, Pauses DEF Statuses
    <1>7. ASSUME NEW k \in Kinds, NEW s \in {"preflight", "put"}, task' = Start(k, s), status' = "running",
                 (k = "run" /\ s = "preflight") \/ (k = "upload" /\ s = "put" /\ action = "install")
          PROVE  Lands
        <2>1. PICK u \in Task : /\ u = task' /\ u.kind = k /\ u.step = s /\ u.left = Asked(s)
                                /\ u.finalized = FALSE
            BY <1>7, StartIs DEF Becomes, Steps, Errors
        <2>2. (s = "put" => u.left = {Writer}) /\ (s = "preflight" => u.left = {})
            BY <2>1, AskedIs DEF Steps, Asking
        <2>3. Going(u, "running")'
            BY <1>4, <1>7, <2>1, <2>2, NoTaskIs
               DEF Going, TaskRow, Freshness, NoUser, Loops, Asking, RunSteps, RecoverySteps, WayBack
        <2>4. QED
            BY <1>3, <1>7, <2>1, <2>3, GoLands DEF Statuses
    <1>8. ASSUME task' = Start("cancel", "rollback"), status' = "running"
          PROVE  Lands
        <2>1. Becomes("cancel", "rollback", Asked("rollback"), FALSE, TRUE, "none")
            BY <1>8, StartIs DEF Kinds, Steps, Errors
        <2>2. QED
            BY <1>3, <1>8, <2>1, WayBackLands DEF Errors
    <1>9. Lands
        <2>1. CASE Create
            BY <1>6, <1>7, <2>1 DEF Create, Kinds
        <2>2. CASE Upload
            BY <1>1, <1>4, <1>7, <1>2, <2>2, StepIs DEF Upload, Kinds, TaskRow
        <2>3. CASE Cancel
            BY <1>6, <1>8, <2>3 DEF Cancel
        <2>4. QED
            BY <2>1, <2>2, <2>3
    <1>10. QED
        BY <1>2, <1>3, <1>5, <1>9, StepIs DEF Mid, Kept

LEMMA GenerationKeeps ==
    ASSUME SafeInv, AcceptGeneration \/ GenerationEnds
    PROVE  Kept
    <1>1. PICK t \in Task, z \in Statuses : t = task /\ z = status
        BY StepIs
    <1>2. /\ UNCHANGED companion /\ UNCHANGED <<process, pruned>> /\ task' = t /\ status' = z
          /\ using' \in BOOLEAN /\ (using' => ~Maintenance)
        BY <1>1 DEF AcceptGeneration, GenerationEnds
    <1>3. /\ CompanionTypeOK' /\ PreparedFirst' /\ TaskRow(t, z)' /\ Freshness(t, z)' /\ Loops(t)'
        BY <1>1, <1>2, StepIs DEF SafeInv, companion, CompanionTypeOK, PreparedFirst, TaskRow, Freshness, Pristine,
             Loops, Begun, Complete, ShownNew, FilesNew, TakenBack
    <1>4. NoUser(t)'
        <2>1. t.step \in {"prepare", "commit", "verify", "quarantine"} => z = "running"
            BY <1>1, NoTaskIs, StepIs DEF TaskRow, RunSteps
        <2>2. action' = action
            BY <1>2 DEF companion
        <2>3. QED
            BY <1>1, <1>2, <2>1, <2>2 DEF NoUser, Maintenance
    <1>5. PruneLast'
        BY <1>2, PrunedStays DEF companion
    <1>6. Lands
        BY <1>1, <1>2, <1>3, <1>4, StepIs, GoLands DEF Going
    <1>7. QED
        BY <1>2, <1>3, <1>5, <1>6, StepIs DEF Kept

LEMMA CloseKeeps ==
    ASSUME SafeInv, Close
    PROVE  Kept
    <1>1. PICK t \in Task, z \in Statuses : t = task /\ z = status
        BY StepIs
    <1>2. /\ InFlight /\ process' = "stopping" /\ UNCHANGED using
          /\ pruned' \in {pruned, pruned \/ (task.step = "reconcile" /\ action = "remove")}
        BY DEF Close
    <1>3. /\ Mid(t, z)' /\ (\A o \in Replicas : journal[o] = "finalized" => journal'[o] = "finalized")
        <2>1. CASE UNCHANGED companion
            BY <1>1, <1>2, <2>1, RestKeeps DEF companion
        <2>2. CASE task.left # {} /\ \E r \in NextAsked : Performs(Request, r)
            <3>1. PICK r \in NextAsked : Moves(Request, r)
                BY <2>2 DEF Moves
            <3>2. QED
                BY <1>1, <1>2, <2>2, <3>1, MoveKeeps DEF Effect
        <2>3. QED
            BY <1>2, <2>1, <2>2 DEF InFlight
    <1>4. TaskRow(t, z)' /\ Freshness(t, z)' /\ Loops(t)' /\ process' \in Processes
        BY <1>2, <1>3 DEF Mid, Going, Processes
    <1>5. PruneLast'
        <2>1. CASE t.step = "reconcile"
            BY <1>4, <2>1 DEF Loops, Complete, PruneLast, Finalized
        <2>2. CASE t.step # "reconcile"
            BY <1>1, <1>2, <1>3, <2>2, StepIs, PrunedStays
        <2>3. QED
            BY <2>1, <2>2
    <1>6. Lands
        <2>1. \/ t.kind = "run" /\ status' = "repair_required" /\ task' = NoTask
              \/ /\ t.kind = "run" /\ UNCHANGED status
                 /\ task' = [Start("run", "rollback") EXCEPT !.err = "stop"]
              \/ t.kind = "upload" /\ status' = "awaiting_upload" /\ task' = NoTask
              \/ task' = NoTask /\ UNCHANGED status
            BY <1>1 DEF Close
        <2>2. CASE status' = "repair_required" /\ task' = NoTask
            BY <1>3, <1>4, <2>2, Pauses DEF Statuses
        <2>3. CASE /\ t.kind = "run" /\ UNCHANGED status
                   /\ task' = [Start("run", "rollback") EXCEPT !.err = "stop"]
            <3>1. Becomes("run", "rollback", Asked("rollback"), FALSE, TRUE, "stop")
                BY <2>3, StartIs DEF Kinds, Steps, Errors
            <3>2. status' = "running"
                BY <1>1, <1>4, <2>3, NoTaskIs DEF TaskRow
            <3>3. QED
                BY <1>3, <1>4, <3>1, <3>2, WayBackLands DEF Errors
        <2>4. CASE t.kind = "upload" /\ status' = "awaiting_upload" /\ task' = NoTask
            <3>1. Pristine' /\ action' = "install"
                BY <1>4, <2>4 DEF TaskRow, Freshness
            <3>2. QED
                BY <1>3, <1>4, <2>4, <3>1, Pauses DEF Statuses
        <2>5. CASE task' = NoTask /\ UNCHANGED status
            BY <1>1, <1>3, <1>4, <2>5, RestLands
        <2>6. QED
            BY <2>1, <2>2, <2>3, <2>4, <2>5
    <1>7. QED
        BY <1>2, <1>3, <1>5, <1>6, StepIs DEF Mid, Kept

LEMMA ProcessKeeps ==
    ASSUME SafeInv, Stopped \/ Crash \/ Restart
    PROVE  Kept
    <1>1. PICK t \in Task, z \in Statuses : t = task /\ z = status
        BY StepIs
    <1>2. UNCHANGED companion /\ UNCHANGED <<using, pruned>> /\ process' \in Processes /\ status' = z
        BY <1>1 DEF Stopped, Crash, Restart, Processes
    <1>3. Mid(t, z)'
        BY <1>1, <1>2, RestKeeps
    <1>4. PruneLast'
        BY <1>2, PrunedStays DEF companion
    <1>5. ASSUME task' = NoTask
          PROVE  Lands
        BY <1>1, <1>2, <1>3, <1>5, RestLands
    <1>6. ASSUME task' = t
          PROVE  Lands
        <2>1. Going(t, z)'
            BY <1>3 DEF Mid
        <2>2. QED
            BY <1>1, <1>2, <1>6, <2>1, GoLands
    <1>7. ASSUME task' = Start("recover", "states"), z \in {"running", "repair_required"}
          PROVE  Lands
        <2>1. Becomes("recover", "states", Asked("states"), FALSE, TRUE, "none") /\ Asked("states") = {}
            BY <1>7, StartIs, AskedIs DEF Kinds, Steps, Errors, Asking
        <2>2. PICK u \in Task : /\ u = task' /\ u.kind = "recover" /\ u.step = "states" /\ u.left = {}
                                /\ u.finalized = FALSE
            BY <2>1 DEF Becomes
        <2>3. (\A r \in Replicas : journal[r] = "staged" => action = "install")'
            BY <1>3 DEF Mid, Going, Freshness
        <2>4. Going(u, z)'
            BY <1>7, <2>2, <2>3, NoTaskIs
               DEF Going, TaskRow, Freshness, NoUser, Loops, Asking, RunSteps, RecoverySteps, WayBack
        <2>5. QED
            BY <1>1, <1>2, <2>2, <2>4, GoLands
    <1>8. Lands
        BY <1>1, <1>5, <1>6, <1>7 DEF Stopped, Crash, Restart
    <1>9. QED
        BY <1>2, <1>3, <1>4, <1>8, StepIs DEF Mid, Kept

LEMMA PublisherKeeps ==
    ASSUME SafeInv, Publisher
    PROVE  Kept
    <1>1. PICK t \in Task, z \in Statuses : t = task /\ z = status
        BY StepIs
    <1>2. PICK r \in Replicas : AcquireLease(r) \/ LeaseLapses(r) \/ SaveAndPublish(r)
        BY DEF Publisher
    <1>3. /\ UNCHANGED <<status, task, process, using, pruned>>
          /\ UNCHANGED <<action, journal, weight, stage, quarantine>>
        BY <1>2 DEF Publisher, application, AcquireLease, LeaseLapses, SaveAndPublish, files
    <1>4. /\ lease' \in [Replicas -> {"free", "held", "lapsed", "over"}]
          /\ publication' \in [Replicas -> Ours \cup {"other"}]
          /\ \A o \in Replicas : publication'[o] \in {publication[o], "other"}
        BY <1>2, StepIs DEF AcquireLease, LeaseLapses, SaveAndPublish, Publishes, CompanionTypeOK
    <1>5. CompanionTypeOK' /\ PreparedFirst' /\ PruneLast'
        BY <1>3, <1>4, StepIs DEF SafeInv, CompanionTypeOK, PreparedFirst, PruneLast, Finalized
    <1>6. TaskRow(t, z)' /\ Freshness(t, z)' /\ NoUser(t)'
        BY <1>1, <1>3, StepIs DEF TaskRow, Freshness, Pristine, NoUser
    <1>7. Loops(t)'
        BY <1>1, <1>3, <1>4, StepIs DEF Loops, Begun, Complete, ShownNew, FilesNew, TakenBack
    <1>8. Going(t, z)'
        BY <1>6, <1>7 DEF Going
    <1>9. Lands
        BY <1>1, <1>3, <1>8, StepIs, GoLands
    <1>10. QED
        BY <1>3, <1>5, <1>9, StepIs DEF Kept

LEMMA SaneKeeps ==
    ASSUME SafeInv, UNCHANGED vars
    PROVE  SafeInv'
    <1>1. UNCHANGED companion /\ UNCHANGED <<status, task, process, using, pruned, faults>>
        BY DEF vars, application
    <1>2. PICK t \in Task, z \in Statuses : t = task /\ z = status
        BY StepIs
    <1>3. Mid(t, z)'
        BY <1>1, <1>2, RestKeeps
    <1>4. Lands /\ PruneLast'
        BY <1>1, <1>2, <1>3, StepIs, GoLands, PrunedStays DEF Mid, companion
    <1>5. QED
        BY <1>1, <1>3, <1>4, StepIs DEF SafeInv, LoraTyped, Lands, Mid, Statuses, Processes

LEMMA FaultsAreCounted ==
    ASSUME SafeInv, Next
    PROVE  faults' \in 0 .. MaxFaults
    <1>1. NoFault \/ Fault \/ UNCHANGED faults
        <2>1. TaskStep => NoFault \/ Fault
            BY DEF TaskStep, Ask, Answered, NotAnswered, PreflightOperation, CheckActiveGenerations,
                   VerifyPublications, VerifyAbsent, Doubt, Inspect, ReconcileAfterSuccess, Succeed,
                   RecoverStates, RecoverInventory
        <2>2. QED
            BY <2>1 DEF Next, Create, Upload, Cancel, Ready, AcceptGeneration, GenerationEnds, Close,
                        Stopped, Crash, Restart, Publisher
    <1>2. QED
        BY <1>1, StepIs, MaxFaultsAssumption DEF NoFault, Fault

LEMMA StepKeeps ==
    ASSUME SafeInv, [Next]_vars
    PROVE  SafeInv'
    <1>1. CASE Next
        <2>1. Kept
            BY <1>1, TaskKeeps, UserKeeps, GenerationKeeps, CloseKeeps, ProcessKeeps, PublisherKeeps DEF Next
        <2>2. QED
            BY <1>1, <2>1, FaultsAreCounted DEF Kept, Lands, SafeInv, LoraTyped, Statuses, Processes
    <1>2. QED
        BY <1>1, SaneKeeps

LEMMA StartsSafe ==
    ASSUME Init
    PROVE  SafeInv
    <1>1. CompanionTypeOK
        BY DEF Init, CompanionInit, CompanionTypeOK, Actions, States, Ours
    <1>5. LoraTyped
        <2>1. /\ status = "none" /\ process = "up" /\ using \in BOOLEAN /\ pruned = FALSE /\ task = NoTask
              /\ faults \in 0 .. MaxFaults
            BY MaxFaultsAssumption DEF Init
        <2>2. QED
            BY <1>1, <2>1, NoTaskIs DEF LoraTyped
    <1>2. Going(task, status)
        BY NoTaskIs DEF Init, CompanionInit, Going, TaskRow, Freshness, Pristine, NoUser, Loops, Asking,
                        RunSteps, RecoverySteps, WayBack
    <1>3. PreparedFirst /\ PruneLast
        BY DEF Init, CompanionInit, PreparedFirst, PruneLast
    <1>4. QED
        BY <1>2, <1>3, <1>5 DEF SafeInv

(* Whichever replicas there are, the coroutine, the row and the journals   *)
(* agree on how far the operation has come, no candidate is published      *)
(* before every replica has journaled how to take it back, and nothing is  *)
(* pruned before every replica finalized.                                  *)
THEOREM OperationInvariance == Spec => []SafeInv
    BY StartsSafe, StepKeeps, PTL DEF Spec

(* The types, and a coroutine asks exactly in the steps that are requests. *)
LEMMA SafeIsTyped == SafeInv => TypeOK
    BY StepIs, AskedIs DEF TypeOK, TaskRow, Asking, Statuses, Processes
LEMMA OperationTyped == Spec => []TypeOK
    BY SafeIsTyped, OperationInvariance, PTL

-----------------------------------------------------------------------------
(* What the journal of the writer says about the files.                    *)
FilesInv ==
    /\ action = "edit" => weight /\ ~stage /\ ~quarantine
    /\ action = "install" =>
          /\ ~quarantine /\ ~(weight /\ stage)
          /\ journal[Writer] \in {"none", "staged"} => ~weight
          /\ journal[Writer] = "rolled_back" => ~weight /\ ~stage
    /\ action = "remove" =>
          /\ ~stage /\ ~(weight /\ quarantine)
          /\ journal[Writer] \in {"none", "prepared", "committing", "rolled_back"} => weight
    /\ journal[Writer] = "finalized" => ~quarantine

(* The file of a removal is gone for good only after a replica finalized.  *)
Gone == action = "remove" /\ ~weight /\ ~quarantine
GoneLate == Gone => Finalized # {} /\ journal[Writer] \in {"quarantined", "finalized"}

(* Nothing rolls back then, and nothing is finalized before the coroutine  *)
(* knows; a way back that went well leaves no stage.                       *)
Unstaged(t) == t.step \in WayBack /\ t.ok /\ Writer \notin t.left => ~stage
Course(t) ==
    /\ Gone => t.step \notin WayBack
    /\ t.kind = "run" /\ ~t.finalized /\ t.step \notin WayBack => Finalized = {}
    /\ Unstaged(t)

FullInv == FilesInv /\ GoneLate /\ Course(task) /\ Settled

LEMMA FilesMove ==
    ASSUME CompanionTypeOK, FilesInv, NEW r \in Replicas, NEW q \in AnyMove, Moves(q, r),
           q = "stage" => action = "install", Gone => q # "rollback"
    PROVE  FilesInv'
    <1>1. CASE Refuses(q, r)
        BY <1>1, ReplicasAssumption DEF Refuses, companion, Enters, files, CompanionTypeOK, FilesInv
    <1>2. CASE q = "stage" /\ ~Refuses(q, r)
        BY <1>2, ReplicasAssumption
           DEF Moves, Performs, Breaks, Accepts, CanStage, Stage, PartOfStage, Enters, CompanionTypeOK, FilesInv
    <1>3. CASE q = "prepare" /\ ~Refuses(q, r)
        BY <1>3, ReplicasAssumption
           DEF Moves, Performs, Breaks, Accepts, CanPrepare, Prepare, Enters, files, CompanionTypeOK, FilesInv
    <1>4. CASE q = "commit" /\ ~Refuses(q, r)
        <2>1. CanCommit(r) /\ (Commit(r) \/ PartOfCommit(r))
            BY <1>4 DEF Moves, Performs, Breaks, Accepts
        <2>2. CASE Commit(r)
            BY <2>1, <2>2, ReplicasAssumption
               DEF CanCommit, Commit, Activates, Enters, companion, CompanionTypeOK, FilesInv
        <2>3. CASE PartOfCommit(r)
            BY <2>1, <2>3, ReplicasAssumption
               DEF CanCommit, PartOfCommit, Activates, Withdraws, Enters, CompanionTypeOK, FilesInv
        <2>4. QED
            BY <2>1, <2>2, <2>3
    <1>5. CASE q = "quarantine" /\ ~Refuses(q, r)
        BY <1>5, ReplicasAssumption
           DEF Moves, Performs, Breaks, Accepts, CanQuarantine, Quarantine, PartOfQuarantine, Enters,
               CompanionTypeOK, FilesInv
    <1>6. CASE q = "rollback" /\ ~Refuses(q, r)
        <2>1. CanRollback(r) /\ (Rollback(r) \/ PartOfRollback(r)) /\ ~Gone
            BY <1>6 DEF Moves, Performs, Breaks, Accepts
        <2>2. CASE Rollback(r)
            <3>1. CASE journal[r] \in {"none", "rolled_back"}
                <4>1. /\ UNCHANGED <<action, journal, weight, quarantine>>
                      /\ stage' = stage \/ stage' = FALSE
                    BY <2>2, <3>1 DEF Rollback, companion, CompanionTypeOK
                <4>2. QED
                    BY <4>1 DEF CompanionTypeOK, FilesInv
            <3>2. CASE journal[r] \notin {"none", "rolled_back"}
                <4>1. /\ journal' = [journal EXCEPT ![r] = "rolled_back"]
                      /\ weight' = IF Withdraws(r) /\ HasTargets(r) THEN FALSE ELSE weight \/ Restores(r)
                      /\ quarantine' = (quarantine /\ ~Restores(r))
                      /\ stage' = (stage /\ ~Withdraws(r)) /\ action' = action
                    BY <2>2, <3>2 DEF Rollback, Enters
                <4>2. CASE action = "install"
                    BY <3>2, <4>1, <4>2, ReplicasAssumption
                       DEF Restores, Withdraws, HasTargets, CompanionTypeOK, FilesInv
                <4>3. CASE action # "install"
                    BY <2>1, <4>1, <4>3, ReplicasAssumption
                       DEF Restores, Withdraws, Gone, CompanionTypeOK, Actions, FilesInv
                <4>4. QED
                    BY <4>2, <4>3
            <3>3. QED
                BY <3>1, <3>2
        <2>3. CASE PartOfRollback(r)
            <3>1. /\ journal[r] \notin Closed /\ journal[r] # "staged" /\ journal[r] # "none"
                  /\ journal' = journal \/ journal' = [journal EXCEPT ![r] = "repair_required"]
                  /\ weight' \in {weight, IF Withdraws(r) THEN FALSE ELSE weight \/ Restores(r)}
                  /\ quarantine' = (quarantine /\ ~(Restores(r) /\ weight'))
                  /\ action' = action /\ stage' = stage
                BY <2>3 DEF PartOfRollback, HasTargets, Enters
            <3>2. QED
                BY <3>1, ReplicasAssumption DEF Closed, Restores, Withdraws, CompanionTypeOK, FilesInv
        <2>4. QED
            BY <2>1, <2>2, <2>3
    <1>7. CASE q = "finalize" /\ ~Refuses(q, r)
        <2>1. CanFinalize(r) /\ (Finalize(r) \/ PartOfFinalize(r))
            BY <1>7 DEF Moves, Performs, Breaks, Accepts
        <2>2. /\ UNCHANGED <<action, weight, stage>> /\ quarantine' = (quarantine /\ r # Writer)
              /\ journal' = journal \/ journal' = [journal EXCEPT ![r] = "finalized"]
            BY <2>1 DEF Finalize, PartOfFinalize, Enters, CompanionTypeOK
        <2>3. QED
            BY <2>2, ReplicasAssumption DEF CompanionTypeOK, FilesInv
    <1>8. QED
        BY <1>1, <1>2, <1>3, <1>4, <1>5, <1>6, <1>7 DEF AnyMove

(* How the file of a removal gets lost, and a stage.                       *)
LEMMA GoneMove ==
    ASSUME CompanionTypeOK, FilesInv, NEW r \in Replicas, NEW q \in AnyMove, Moves(q, r),
           q = "stage" => action = "install", Gone => q # "rollback",
           Gone => journal[Writer] \in {"quarantined", "finalized"}
    PROVE  /\ Gone' => Gone \/ (q = "finalize" /\ r = Writer)
           /\ Gone' => journal'[Writer] \in {"quarantined", "finalized"}
           /\ journal'[r] = "finalized" => journal[r] = "finalized" \/ q = "finalize"
           /\ q = "rollback" /\ ~stage => ~stage'
           /\ q = "rollback" /\ r = Writer /\ Performs(q, r) => ~stage'
    <1>1. CASE Refuses(q, r) /\ ~Performs(q, r)
        <2>1. UNCHANGED <<action, weight, stage, quarantine>>
            BY <1>1 DEF Refuses, companion, files
        <2>2. q # "rollback" => UNCHANGED journal
            BY <1>1 DEF Refuses, companion
        <2>3. q = "rollback" => journal' = journal \/ journal' = [journal EXCEPT ![r] = "repair_required"]
            BY <1>1 DEF Refuses, companion, Enters
        <2>4. QED
            BY <1>1, <2>1, <2>2, <2>3 DEF Gone, CompanionTypeOK
    <1>2. CASE q \in {"stage", "prepare"} /\ (Performs(q, r) \/ Breaks(q, r))
        <2>1. /\ UNCHANGED <<action, weight, quarantine>> /\ journal'[r] # "finalized"
              /\ Writer # r => journal'[Writer] = journal[Writer]
              /\ journal[r] \notin {"quarantined", "finalized"}
            BY <1>2, ReplicasAssumption
               DEF Performs, Breaks, Accepts, CanStage, Stage, PartOfStage, CanPrepare, Prepare, Enters, files,
                   CompanionTypeOK
        <2>2. QED
            BY <1>2, <2>1 DEF Gone
    <1>3. CASE q = "commit" /\ (Performs(q, r) \/ Breaks(q, r))
        <2>1. CanCommit(r) /\ (Commit(r) \/ PartOfCommit(r))
            BY <1>3 DEF Performs, Breaks, Accepts
        <2>2. /\ action' = action /\ quarantine' = quarantine /\ (action = "remove" => weight' = weight)
            BY <2>1 DEF Commit, PartOfCommit, Activates, Withdraws, companion, CompanionTypeOK
        <2>3. /\ journal'[r] # "finalized" /\ (Writer # r => journal'[Writer] = journal[Writer])
              /\ journal[r] \notin {"quarantined", "finalized"}
            BY <2>1, ReplicasAssumption DEF CanCommit, Commit, PartOfCommit, Enters, companion, CompanionTypeOK
        <2>4. QED
            BY <1>3, <2>2, <2>3 DEF Gone
    <1>4. CASE q = "quarantine" /\ (Performs(q, r) \/ Breaks(q, r))
        <2>1. CanQuarantine(r) /\ (Quarantine(r) \/ PartOfQuarantine(r))
            BY <1>4 DEF Performs, Breaks, Accepts
        <2>2. /\ action' = action /\ (Gone' => Gone)
            BY <2>1 DEF Quarantine, PartOfQuarantine, CompanionTypeOK, Gone
        <2>3. /\ journal'[r] # "finalized" /\ (Writer # r => journal'[Writer] = journal[Writer])
              /\ journal'[r] \in {"quarantined", "committed"} /\ journal[r] # "finalized"
              /\ journal'[r] = "committed" => journal[r] = "committed"
            BY <2>1, ReplicasAssumption DEF CanQuarantine, Quarantine, PartOfQuarantine, Enters, CompanionTypeOK
        <2>4. QED
            BY <1>4, <2>2, <2>3 DEF Gone
    <1>5. CASE q = "finalize" /\ (Performs(q, r) \/ Breaks(q, r))
        <2>1. CanFinalize(r) /\ (Finalize(r) \/ PartOfFinalize(r))
            BY <1>5 DEF Performs, Breaks, Accepts
        <2>2. /\ UNCHANGED <<action, weight, stage>> /\ quarantine' = (quarantine /\ r # Writer)
              /\ journal' = journal \/ journal' = [journal EXCEPT ![r] = "finalized"]
            BY <2>1 DEF Finalize, PartOfFinalize, Enters, CompanionTypeOK
        <2>3. action = "remove" /\ r = Writer => journal[r] \in {"finalized", "quarantined"}
            BY <2>1 DEF CanFinalize
        <2>4. QED
            BY <1>5, <2>2, <2>3, ReplicasAssumption DEF Gone, CompanionTypeOK
    <1>6. CASE q = "rollback" /\ (Performs(q, r) \/ Breaks(q, r))
        <2>1. CanRollback(r) /\ (Rollback(r) \/ PartOfRollback(r)) /\ ~Gone
            BY <1>6 DEF Performs, Breaks, Accepts
        <2>2. /\ action' = action /\ journal'[r] # "finalized"
              /\ action = "remove" => weight' = weight \/ weight'
              /\ action = "remove" => quarantine' = quarantine \/ weight'
              /\ stage' = stage \/ stage' = FALSE
            BY <2>1
               DEF CanRollback, Rollback, PartOfRollback, Closed, Restores, Withdraws, Enters, companion, CompanionTypeOK
        <2>3. r = Writer /\ Performs(q, r) => ~stage'
            <3>1. CASE journal[r] = "none"
                BY <1>6, <3>1 DEF Performs, Rollback
            <3>2. CASE journal[r] # "none"
                BY <1>6, <3>2 DEF Performs, Rollback, Withdraws, companion, CompanionTypeOK, Actions, FilesInv
            <3>3. QED
                BY <3>1, <3>2
        <2>4. QED
            BY <1>6, <2>1, <2>2, <2>3 DEF Gone, CompanionTypeOK
    <1>7. QED
        BY <1>1, <1>2, <1>3, <1>4, <1>5, <1>6 DEF Moves, AnyMove

(* With a mirror the writer is not the first to finalize.                  *)
Mirrored == \E r \in Replicas : r # Writer

(* The companions have moved and the coroutine t has not heard of it.      *)
Along(t) ==
    /\ FilesInv /\ GoneLate /\ Unstaged(t)
    /\ Gone => t.step \notin WayBack /\ ~(t.kind = "run" /\ ~t.finalized)
    /\ t.kind = "run" /\ ~t.finalized /\ t.step \notin WayBack \cup {"finalize"} => Finalized = {}

LEMMA AlongNow ==
    ASSUME FullInv, NEW t \in Task, t = task
    PROVE  Along(t)
    BY DEF FullInv, Course, Along, GoneLate

LEMMA AlongRest ==
    ASSUME FullInv, UNCHANGED companion, NEW t \in Task, t = task
    PROVE  Along(t)' /\ Course(t)'
    <1>1. Along(t) /\ Course(t)
        BY AlongNow DEF FullInv
    <1>2. /\ UNCHANGED <<action, journal, weight, stage, quarantine>>
        BY DEF companion
    <1>3. FilesInv' /\ GoneLate' /\ Unstaged(t)'
        BY <1>1, <1>2 DEF Along, FilesInv, GoneLate, Gone, Finalized, Unstaged
    <1>4. QED
        BY <1>1, <1>2, <1>3 DEF Along, Course, Gone, Finalized

LEMMA AlongMove ==
    ASSUME SafeInv, FullInv, Mirrored, UNCHANGED using, task.left # {}, NEW r \in NextAsked, Moves(Request, r),
           NEW t \in Task, t = task
    PROVE  /\ Along(t)'
           /\ t.step = "rollback" /\ r = Writer /\ Performs(Request, r) => ~stage'
    <1>1. PICK z \in Statuses : z = status
        BY StepIs
    <1>2. /\ CompanionTypeOK /\ FilesInv /\ GoneLate /\ Along(t) /\ Course(t)
          /\ TaskRow(t, z) /\ Freshness(t, z) /\ Loops(t)
        BY <1>1, StepIs, AlongNow DEF FullInv
    <1>3. /\ t.step \in Asking /\ r \in t.left /\ r \in Replicas /\ Request \in AnyMove
          /\ t.step \notin {"put", "refinalize"} => Request = t.step
          /\ t.step = "put" => Request = "stage"
          /\ t.step = "refinalize" => Request = "finalize"
        BY RequestIs
    <1>4. PICK q \in AnyMove : q = Request
        BY <1>3
    <1>5. /\ q = "stage" => action = "install"
          /\ q = "rollback" <=> t.step = "rollback"
          /\ q = "finalize" <=> t.step \in {"finalize", "refinalize"}
          /\ Gone => q # "rollback" /\ journal[Writer] \in {"quarantined", "finalized"}
        BY <1>2, <1>3, <1>4 DEF TaskRow, Asking, Along, WayBack, GoneLate
    <1>6. /\ Gone' => Gone \/ (q = "finalize" /\ r = Writer)
          /\ Gone' => journal'[Writer] \in {"quarantined", "finalized"}
          /\ journal'[r] = "finalized" => journal[r] = "finalized" \/ q = "finalize"
          /\ q = "rollback" /\ ~stage => ~stage'
          /\ q = "rollback" /\ r = Writer /\ Performs(q, r) => ~stage'
        BY <1>2, <1>3, <1>4, <1>5, GoneMove
    <1>7. FilesInv'
        BY <1>2, <1>3, <1>4, <1>5, FilesMove
    <1>8. /\ \A o \in Replicas : journal[o] = "finalized" => journal'[o] = "finalized"
          /\ \A o \in Replicas \ {r} : journal'[o] = journal[o]
        <2>1. Effect(q, r)
            BY <1>2, <1>3, <1>4, MovesIs
        <2>2. QED
            BY <2>1 DEF Effect
    <1>9. /\ Finalized # {} => Finalized' # {}
          /\ Finalized = {} /\ q # "finalize" => Finalized' = {}
        BY <1>3, <1>6, <1>8 DEF Finalized
    <1>10. ASSUME ~Gone, q = "finalize", r = Writer
           PROVE  Finalized # {} /\ ~(t.kind = "run" /\ ~t.finalized)
        <2>1. CASE t.step = "refinalize"
            BY <1>2, <2>1 DEF Loops, Complete, Finalized, TaskRow, RecoverySteps
        <2>2. CASE t.step = "finalize"
            <3>1. t.left = {Writer} /\ t.left # Replicas
                BY <1>10, <2>2 DEF NextAsked, WriterFirst, WriterLast, Mirrored
            <3>2. t.finalized /\ \A o \in Replicas \ t.left : Complete(o)
                BY <1>2, <2>2, <3>1 DEF Loops
            <3>3. QED
                BY <3>1, <3>2 DEF Mirrored, Finalized, Complete
        <2>3. QED
            BY <1>5, <1>10, <2>1, <2>2
    <1>11. GoneLate'
        BY <1>2, <1>6, <1>9, <1>10 DEF GoneLate
    <1>12. Unstaged(t)'
        <2>1. t.step \in WayBack => q = "rollback"
            BY <1>3, <1>5 DEF WayBack, Asking
        <2>2. QED
            BY <1>2, <1>6, <2>1 DEF Along, Unstaged
    <1>13. Gone' => t.step \notin WayBack /\ ~(t.kind = "run" /\ ~t.finalized)
        BY <1>2, <1>3, <1>5, <1>6, <1>10 DEF Along, WayBack, Asking
    <1>14. (t.kind = "run" /\ ~t.finalized /\ t.step \notin WayBack \cup {"finalize"} => Finalized = {})'
        BY <1>2, <1>5, <1>9 DEF Along, TaskRow, RecoverySteps
    <1>15. QED
        BY <1>4, <1>5, <1>6, <1>7, <1>11, <1>12, <1>13, <1>14 DEF Along

-----------------------------------------------------------------------------
(* Where a coroutine goes from there.                                      *)
LEMMA RestCourse ==
    ASSUME task' = NoTask
    PROVE  Course(task)'
    BY NoTaskIs DEF Course, Unstaged, WayBack

LEMMA BackCourse ==
    ASSUME NEW k, NEW e, Becomes(k, "rollback", Asked("rollback"), FALSE, TRUE, e), ~Gone'
    PROVE  Course(task)'
    <1>1. Asked("rollback") = Replicas
        BY AskedIs DEF Steps
    <1>2. QED
        BY <1>1, ReplicasAssumption DEF Becomes, Course, Unstaged, WayBack

LEMMA RaiseCourse ==
    ASSUME NEW t \in Task, t = task, Along(t)', t.kind \in {"run", "recover"} \/ t.finalized,
           NEW err \in {"app", "other"}, Raise(err)
    PROVE  Course(task)'
    <1>1. CASE task.kind = "recover" \/ task.finalized
        BY <1>1, RestCourse DEF Raise, End
    <1>2. CASE ~(task.kind = "recover" \/ task.finalized)
        <2>1. task' = [Start("run", "rollback") EXCEPT !.err = err]
            BY <1>2 DEF Raise
        <2>2. Becomes("run", "rollback", Asked("rollback"), FALSE, TRUE, err)
            BY <2>1, StartIs DEF Kinds, Steps, Errors
        <2>3. ~Gone'
            BY <1>2 DEF Along
        <2>4. QED
            BY <2>2, <2>3, BackCourse
    <1>3. QED
        BY <1>1, <1>2

LEMMA LeaveCourse ==
    ASSUME action' = action, NEW err \in {"app", "other", "stop"}, Leave(err)
    PROVE  Course(task)'
    <1>1. CASE err = "app" /\ action = "install"
        <2>1. task' = Start("again", "rollback")
            BY <1>1 DEF Leave
        <2>2. Becomes("again", "rollback", Asked("rollback"), FALSE, TRUE, "none")
            BY <2>1, StartIs DEF Kinds, Steps, Errors
        <2>3. QED
            BY <1>1, <2>2, BackCourse DEF Gone
    <1>2. CASE ~(err = "app" /\ action = "install")
        BY <1>2, RestCourse DEF Leave, End
    <1>3. QED
        BY <1>1, <1>2

LEMMA GoCourse ==
    ASSUME NEW t \in Task, Course(t)', t.step \notin WayBack,
           task'.kind = t.kind, task'.finalized = t.finalized, task'.step \notin WayBack
    PROVE  Course(task)'
    BY DEF Course, Unstaged

LEMMA ContinueCourse ==
    ASSUME SafeInv, NEW t \in Task, t = task, Along(t)', t.step \in Asking \ {"put"}, NEW r \in t.left,
           NEW ok \in BOOLEAN, Continue(r, ok), t.step = "rollback" /\ ok /\ r = Writer => ~stage'
    PROVE  Course(task)'
    <1>1. /\ task'.kind = t.kind /\ task'.finalized = (t.finalized \/ t.step = "finalize")
          /\ task'.ok = (t.ok /\ ok)
          /\ \/ task'.step = t.step /\ task'.left = t.left \ {r}
             \/ task'.step = After[t.step] /\ t.left \ {r} = {}
        BY ContinueIs DEF Becomes
    <1>2. /\ t.step = "rollback" => task'.step \in WayBack
          /\ t.step # "rollback" => task'.step \notin WayBack /\ t.step \notin WayBack
        BY <1>1, AfterIs DEF WayBack, Asking
    <1>3. (Gone => task.step \notin WayBack)'
        BY <1>2 DEF Along, WayBack
    <1>4. (task.kind = "run" /\ ~task.finalized /\ task.step \notin WayBack => Finalized = {})'
        BY <1>1, <1>2 DEF Along, WayBack
    <1>5. Unstaged(task)'
        BY <1>1, <1>2 DEF Along, Unstaged, WayBack
    <1>6. QED
        BY <1>3, <1>4, <1>5 DEF Course

-----------------------------------------------------------------------------
(* Every step keeps its course.                                            *)
Steers == FilesInv' /\ GoneLate' /\ Course(task)'

LEMMA AskSteers ==
    ASSUME SafeInv, FullInv, Mirrored, Ask
    PROVE  Steers
    <1>1. PICK t \in Task : t = task
        BY StepIs
    <1>2. PICK r \in NextAsked : Answered(r) \/ NotAnswered(r)
        BY DEF Ask
    <1>3. /\ task.left # {} /\ r \in t.left /\ t.step \in Asking /\ UNCHANGED using
          /\ t.step = "put" => Request = "stage"
        BY <1>1, <1>2, RequestIs DEF Ask, Answered, NotAnswered, Stays, Raise
    <1>4. CASE Answered(r)
        <2>1. Performs(Request, r) /\ Moves(Request, r)
            BY <1>4 DEF Answered, Moves
        <2>2. Along(t)' /\ (t.step = "rollback" /\ r = Writer => ~stage')
            BY <1>1, <1>3, <2>1, AlongMove
        <2>3. CASE t.step = "put"
            <3>1. task' = Start("run", "preflight")
                BY <1>1, <1>4, <2>3 DEF Answered
            <3>2. Becomes("run", "preflight", Asked("preflight"), FALSE, TRUE, "none")
                BY <3>1, StartIs DEF Kinds, Steps, Errors
            <3>3. Asks(r)
                BY <1>2, <1>3, <1>4, AnsweredAsks
            <3>4. Pristine'
                BY <3>2, <3>3 DEF Asks, Lands, Going, Freshness, Becomes
            <3>5. Course(task)'
                BY <2>2, <3>2, <3>4 DEF Along, Course, Unstaged, Becomes, WayBack, Pristine, Finalized
            <3>6. QED
                BY <2>2, <3>5 DEF Along, Steers
        <2>4. CASE t.step # "put"
            <3>1. Continue(r, TRUE)
                BY <1>1, <1>4, <2>4 DEF Answered
            <3>2. Course(task)'
                BY <1>1, <1>3, <2>2, <2>4, <3>1, ContinueCourse
            <3>3. QED
                BY <2>2, <3>2 DEF Along, Steers
        <2>5. QED
            BY <2>3, <2>4
    <1>5. CASE NotAnswered(r)
        <2>1. Along(t)'
            <3>1. CASE UNCHANGED companion
                BY <1>1, <3>1, AlongRest
            <3>2. CASE Moves(Request, r)
                BY <1>1, <1>3, <3>2, AlongMove
            <3>3. QED
                BY <1>5, <3>1, <3>2 DEF NotAnswered, Moves
        <2>2. \/ End("awaiting_upload")
              \/ Continue(r, FALSE) /\ t.step = "rollback"
              \/ Raise("app") /\ t.step \notin {"put", "rollback"}
            BY <1>1, <1>5 DEF NotAnswered
        <2>3. CASE End("awaiting_upload")
            BY <2>1, <2>3, RestCourse DEF End, Along, Steers
        <2>4. CASE Continue(r, FALSE) /\ t.step = "rollback"
            <3>1. Course(task)'
                BY <1>1, <1>3, <2>1, <2>4, ContinueCourse
            <3>2. QED
                BY <2>1, <3>1 DEF Along, Steers
        <2>5. CASE Raise("app") /\ t.step \notin {"put", "rollback"}
            <3>1. t.kind \in {"run", "recover"}
                BY <1>1, <1>3, <2>5, StepIs DEF TaskRow, Asking, RunSteps, RecoverySteps
            <3>2. Course(task)'
                BY <1>1, <2>1, <2>5, <3>1, RaiseCourse
            <3>3. QED
                BY <2>1, <3>2 DEF Along, Steers
        <2>6. QED
            BY <2>2, <2>3, <2>4, <2>5
    <1>6. QED
        BY <1>2, <1>4, <1>5

LEMMA LookSteers ==
    ASSUME SafeInv, FullInv, TaskStep, ~Ask
    PROVE  Steers
    <1>1. PICK t \in Task : t = task
        BY StepIs
    <1>2. UNCHANGED companion
        BY DEF TaskStep, PreflightOperation, CheckActiveGenerations, VerifyPublications, VerifyAbsent,
               Inspect, ReconcileAfterSuccess, Succeed, RecoverStates, RecoverInventory, AtStep
    <1>3. Along(t)' /\ Course(t)' /\ action' = action
        BY <1>1, <1>2, AlongRest DEF companion
    <1>0. SUFFICES Course(task)'
        BY <1>3 DEF Along, Steers
    <1>4. ASSUME NEW s \in Steps \ WayBack, t.step \notin WayBack, GoTo(s)
          PROVE  Course(task)'
        <2>1. Becomes(task.kind, s, Asked(s), task.finalized, task.ok, task.err)
            BY <1>4, GoToIs, StepIs
        <2>2. QED
            BY <1>1, <1>3, <1>4, <2>1, GoCourse DEF Becomes
    <1>5. ASSUME NEW err \in {"app", "other"}, Raise(err), t.kind \in {"run", "recover"} \/ t.finalized
          PROVE  Course(task)'
        BY <1>1, <1>3, <1>5, RaiseCourse
    <1>6. ASSUME NEW err \in {"app", "other", "stop"}, Leave(err)
          PROVE  Course(task)'
        BY <1>3, <1>6, LeaveCourse
    <1>7. ASSUME NEW y, End(y)
          PROVE  Course(task)'
        BY <1>7, RestCourse DEF End
    <1>8. /\ t.step \in RunSteps => t.kind = "run"
          /\ t.step \in RecoverySteps => t.kind = "recover"
          /\ t.step \in {"reconcile", "succeed"} => t.finalized \/ t.kind = "recover"
          /\ t.step \in WayBack /\ t.kind = "run" => t.err # "none"
          /\ t.err \in Errors
        BY <1>1, StepIs DEF TaskRow
    <1>9. CASE PreflightOperation \/ CheckActiveGenerations
        BY <1>1, <1>4, <1>6, <1>9 DEF PreflightOperation, CheckActiveGenerations, AtStep, Steps, WayBack
    <1>10. CASE VerifyPublications \/ VerifyAbsent
        BY <1>1, <1>4, <1>5, <1>8, <1>10
           DEF VerifyPublications, VerifyAbsent, Doubt, AtStep, Steps, WayBack, RunSteps
    <1>11. CASE Inspect
        <2>1. t.step = "inspect" /\ (End("repair_required") \/ End("failed") \/ (t.kind = "run" /\ Leave(t.err)))
            BY <1>1, <1>11 DEF Inspect, AtStep
        <2>2. QED
            BY <1>6, <1>7, <1>8, <2>1 DEF WayBack, Errors
    <1>12. CASE ReconcileAfterSuccess \/ Succeed
        BY <1>1, <1>4, <1>5, <1>7, <1>8, <1>12 DEF ReconcileAfterSuccess, Succeed, AtStep, Steps, WayBack
    <1>13. CASE RecoverStates
        <2>1. t.step = "states" /\ t.kind = "recover"
            BY <1>1, <1>8, <1>13 DEF RecoverStates, AtStep, RecoverySteps
        <2>2. ASSUME GoTo("rollback"), Finalized = {}
              PROVE  Course(task)'
            <3>1. Becomes(task.kind, "rollback", Asked("rollback"), task.finalized, task.ok, task.err)
                BY <2>2, GoToIs, StepIs DEF Steps
            <3>2. ~Gone' /\ Asked("rollback") = Replicas
                BY <1>2, <2>2, AskedIs DEF FullInv, GoneLate, Gone, companion, Steps
            <3>3. QED
                BY <3>1, <3>2, ReplicasAssumption DEF Becomes, Course, Unstaged, WayBack
        <2>3. ASSUME task' = [task EXCEPT !.step = IF Finalized = Replicas THEN "inventory" ELSE "refinalize",
                                          !.left = Replicas \ Finalized]
              PROVE  Course(task)'
            <3>1. PICK st \in {"inventory", "refinalize"}, rest \in SUBSET Replicas :
                      /\ st = IF Finalized = Replicas THEN "inventory" ELSE "refinalize"
                      /\ rest = Replicas \ Finalized
                OBVIOUS
            <3>2. task' = [task EXCEPT !.step = st, !.left = rest]
                BY <2>3, <3>1
            <3>3. task'.kind = task.kind /\ task'.finalized = task.finalized /\ task'.step = st
                BY <3>2, StepIs DEF Task
            <3>4. QED
                BY <1>1, <1>3, <2>1, <3>1, <3>3, GoCourse DEF WayBack
        <2>4. QED
            BY <1>5, <1>7, <1>13, <2>1, <2>2, <2>3 DEF RecoverStates
    <1>14. CASE RecoverInventory
        BY <1>1, <1>4, <1>5, <1>8, <1>14 DEF RecoverInventory, Doubt, AtStep, Steps, WayBack, RecoverySteps
    <1>15. QED
        BY <1>9, <1>10, <1>11, <1>12, <1>13, <1>14 DEF TaskStep

LEMMA UserSteers ==
    ASSUME SafeInv, FullInv, Create \/ Upload \/ Cancel
    PROVE  Steers
    <1>1. PICK t \in Task, z \in Statuses : t = task /\ z = status
        BY StepIs
    <1>2. UNCHANGED companion /\ UNCHANGED <<process, using, pruned>> /\ z \in {"none", "awaiting_upload"}
        BY <1>1 DEF Create, Upload, Cancel, Ready
    <1>3. Along(t)' /\ Course(t)' /\ Mid(t, z)'
        BY <1>1, <1>2, AlongRest, RestKeeps
    <1>4. Pristine' /\ (z = "awaiting_upload" => action' = "install")
        BY <1>2, <1>3 DEF Mid, Going, Freshness, TaskRow
    <1>5. Finalized' = {}
        BY <1>4 DEF Pristine, Finalized
    <1>6. \/ task' = NoTask
          \/ task' = Start("run", "preflight")
          \/ z = "awaiting_upload" /\ (task' = Start("upload", "put") \/ task' = Start("cancel", "rollback"))
        BY <1>1 DEF Create, Upload, Cancel
    <1>7. Course(task)'
        <2>1. CASE task' = NoTask
            BY <2>1, RestCourse
        <2>2. CASE task' = Start("run", "preflight")
            <3>1. Becomes("run", "preflight", Asked("preflight"), FALSE, TRUE, "none")
                BY <2>2, StartIs DEF Kinds, Steps, Errors
            <3>2. QED
                BY <1>5, <3>1 DEF Becomes, Course, Unstaged, WayBack
        <2>3. CASE task' = Start("upload", "put")
            <3>1. Becomes("upload", "put", Asked("put"), FALSE, TRUE, "none")
                BY <2>3, StartIs DEF Kinds, Steps, Errors
            <3>2. QED
                BY <3>1 DEF Becomes, Course, Unstaged, WayBack
        <2>4. CASE z = "awaiting_upload" /\ task' = Start("cancel", "rollback")
            <3>1. Becomes("cancel", "rollback", Asked("rollback"), FALSE, TRUE, "none")
                BY <2>4, StartIs DEF Kinds, Steps, Errors
            <3>2. QED
                BY <1>4, <2>4, <3>1, BackCourse DEF Gone
        <2>5. QED
            BY <1>6, <2>1, <2>2, <2>3, <2>4
    <1>8. QED
        BY <1>3, <1>7 DEF Along, Steers

LEMMA CloseSteers ==
    ASSUME SafeInv, FullInv, Mirrored, Close
    PROVE  Steers
    <1>1. PICK t \in Task : t = task
        BY StepIs
    <1>2. InFlight /\ UNCHANGED using
        BY DEF Close
    <1>3. Along(t)'
        <2>1. CASE UNCHANGED companion
            BY <1>1, <2>1, AlongRest
        <2>2. CASE task.left # {} /\ \E r \in NextAsked : Performs(Request, r)
            <3>1. PICK r \in NextAsked : Moves(Request, r)
                BY <2>2 DEF Moves
            <3>2. QED
                BY <1>1, <1>2, <2>2, <3>1, AlongMove
        <2>3. QED
            BY <1>2, <2>1, <2>2 DEF InFlight
    <1>4. \/ task' = NoTask
          \/ /\ t.kind = "run" /\ ~t.finalized
             /\ task' = [Start("run", "rollback") EXCEPT !.err = "stop"]
        BY <1>1 DEF Close
    <1>5. CASE task' = NoTask
        BY <1>3, <1>5, RestCourse DEF Along, Steers
    <1>6. CASE /\ t.kind = "run" /\ ~t.finalized
               /\ task' = [Start("run", "rollback") EXCEPT !.err = "stop"]
        <2>1. Becomes("run", "rollback", Asked("rollback"), FALSE, TRUE, "stop")
            BY <1>6, StartIs DEF Kinds, Steps, Errors
        <2>2. ~Gone'
            BY <1>3, <1>6 DEF Along
        <2>3. Course(task)'
            BY <2>1, <2>2, BackCourse
        <2>4. QED
            BY <1>3, <2>3 DEF Along, Steers
    <1>7. QED
        BY <1>4, <1>5, <1>6

LEMMA OtherSteers ==
    ASSUME SafeInv, FullInv,
           AcceptGeneration \/ GenerationEnds \/ Stopped \/ Crash \/ Restart \/ Publisher \/ UNCHANGED vars
    PROVE  Steers
    <1>1. PICK t \in Task : t = task
        BY StepIs
    <1>2. UNCHANGED <<action, journal, weight, stage, quarantine>>
        BY DEF AcceptGeneration, GenerationEnds, Stopped, Crash, Restart, Publisher, AcquireLease, LeaseLapses,
               SaveAndPublish, companion, files, vars
    <1>3. FilesInv' /\ GoneLate' /\ Course(t)'
        BY <1>1, <1>2 DEF FullInv, FilesInv, GoneLate, Gone, Finalized, Course, Unstaged
    <1>4. task' = NoTask \/ UNCHANGED task \/ task' = Start("recover", "states")
        BY DEF AcceptGeneration, GenerationEnds, Stopped, Crash, Restart, Publisher, application, vars
    <1>5. CASE task' = NoTask
        BY <1>3, <1>5, RestCourse DEF Steers
    <1>6. CASE UNCHANGED task
        BY <1>1, <1>3, <1>6 DEF Steers, Course, Unstaged
    <1>7. CASE task' = Start("recover", "states")
        <2>1. Becomes("recover", "states", Asked("states"), FALSE, TRUE, "none")
            BY <1>7, StartIs DEF Kinds, Steps, Errors
        <2>2. Course(task)'
            BY <2>1 DEF Becomes, Course, Unstaged, WayBack
        <2>3. QED
            BY <1>3, <2>2 DEF Steers
    <1>8. QED
        BY <1>4, <1>5, <1>6, <1>7

-----------------------------------------------------------------------------
(* What a row says when it is closed.                                      *)
FailedClean ==
    /\ \A r \in Replicas : publication[r] \in {"old", "other"} /\ journal[r] \in {"none", "rolled_back"}
    /\ weight = (action # "install") /\ ~stage /\ ~quarantine
SucceededWhole ==
    /\ \A r \in Replicas : publication[r] \in {"new", "other"} /\ journal[r] = "finalized"
    /\ weight = (action # "remove") /\ ~stage /\ ~quarantine

LEMMA SettledIs == Settled <=> (status = "failed" => FailedClean) /\ (status = "succeeded" => SucceededWhole)
    BY DEF Settled, FailedClean, SucceededWhole

(* Nothing was begun, or all of it was taken back.                         *)
LEMMA NothingBegun ==
    ASSUME SafeInv, FullInv, Pristine, action # "install"
    PROVE  FailedClean
    <1>1. \A r \in Replicas : journal[r] = "none"
        BY DEF Pristine, SafeInv, Going, Freshness
    <1>2. \A r \in Replicas : publication[r] \in {"old", "other"}
        BY <1>1, ReplicasAssumption, StepIs DEF SafeInv, PreparedFirst, CompanionTypeOK, Ours
    <1>3. weight /\ ~stage /\ ~quarantine
        BY <1>1, ReplicasAssumption, StepIs DEF FullInv, FilesInv, CompanionTypeOK, Actions
    <1>4. QED
        BY <1>1, <1>2, <1>3 DEF FailedClean

LEMMA AllTakenBack ==
    ASSUME SafeInv, FullInv, task.step = "inspect", task.ok, AllAre("old")
    PROVE  FailedClean
    <1>1. (\A r \in Replicas : TakenBack(r)) /\ task.left = {}
        BY StepIs DEF Loops, TaskRow, Asking
    <1>2. /\ \A r \in Replicas : publication[r] \in {"old", "other"} /\ journal[r] \in {"none", "rolled_back"}
          /\ journal[Writer] \in {"none", "rolled_back"}
        BY <1>1, ReplicasAssumption DEF TakenBack, AllAre
    <1>3. ~stage
        BY <1>1 DEF FullInv, Course, Unstaged, WayBack
    <1>4. /\ weight = (action # "install") /\ ~quarantine
        BY <1>2, StepIs DEF FullInv, FilesInv, CompanionTypeOK, Actions
    <1>5. QED
        BY <1>2, <1>3, <1>4 DEF FailedClean

LEMMA AllDone ==
    ASSUME SafeInv, FullInv, task.step = "succeed"
    PROVE  SucceededWhole
    <1>1. (\A r \in Replicas : Complete(r)) /\ ShownNew /\ FilesNew
        BY StepIs DEF Loops
    <1>2. /\ \A r \in Replicas : publication[r] \in {"new", "other"} /\ journal[r] = "finalized"
          /\ journal[Writer] = "finalized"
        BY <1>1, ReplicasAssumption DEF ShownNew, Complete
    <1>3. ~stage /\ ~quarantine
        BY <1>1, <1>2, StepIs DEF FilesNew, FullInv, FilesInv, CompanionTypeOK, Actions
    <1>4. QED
        BY <1>1, <1>2, <1>3 DEF FilesNew, SucceededWhole

LEMMA CompanionRests ==
    ASSUME UNCHANGED companion
    PROVE  (FailedClean => FailedClean') /\ (SucceededWhole => SucceededWhole')
    BY DEF companion, FailedClean, SucceededWhole

(* Only these steps close a row.                                           *)
LEMMA ClosesOnly ==
    ASSUME SafeInv, TaskStep, status' \in {"failed", "succeeded"}
    PROVE  /\ UNCHANGED companion
           /\ \/ status' = "failed" /\ Pristine /\ action # "install"
              \/ status' = "failed" /\ task.step = "inspect" /\ task.ok /\ AllAre("old")
              \/ status' = "succeeded" /\ task.step = "succeed"
    <1>1. task # NoTask => status \in {"running", "repair_required"}
        BY StepIs DEF TaskRow
    <1>2. task # NoTask
        BY NoTaskIs
           DEF TaskStep, Ask, PreflightOperation, CheckActiveGenerations, VerifyPublications, VerifyAbsent,
               Inspect, ReconcileAfterSuccess, Succeed, RecoverStates, RecoverInventory, AtStep
    <1>3. ~Stays
        BY <1>1, <1>2 DEF Stays
    <1>4. \A err : ~Raise(err)
        BY <1>3 DEF Raise, End
    <1>5. \A err \in {"app", "other", "stop"} :
              Leave(err) => status' = "failed" /\ err = "app" /\ action # "install"
        BY <1>1, <1>2 DEF Leave, End
    <1>6. ~Ask
        BY <1>3, <1>4 DEF Ask, Answered, NotAnswered, End
    <1>7. CASE PreflightOperation \/ CheckActiveGenerations
        BY <1>3, <1>5, <1>7, StepIs DEF PreflightOperation, CheckActiveGenerations, AtStep, Freshness
    <1>8. CASE Inspect
        <2>1. task.step = "inspect" /\ (task.kind = "run" => task.err \in {"app", "other", "stop"})
            BY <1>8, StepIs DEF Inspect, AtStep, TaskRow, WayBack, Errors
        <2>2. QED
            BY <1>5, <1>8, <2>1 DEF Inspect, AtStep, End
    <1>9. CASE Succeed
        BY <1>9 DEF Succeed, AtStep, End
    <1>10. ~VerifyPublications /\ ~VerifyAbsent /\ ~RecoverInventory
        BY <1>3, <1>4 DEF VerifyPublications, VerifyAbsent, RecoverInventory, Doubt
    <1>11. ~ReconcileAfterSuccess
        BY <1>1, <1>2, <1>4 DEF ReconcileAfterSuccess
    <1>12. ~RecoverStates
        BY <1>1, <1>2, <1>3, <1>4 DEF RecoverStates, End
    <1>13. QED
        BY <1>6, <1>7, <1>8, <1>9, <1>10, <1>11, <1>12 DEF TaskStep

LEMMA RowStays ==
    ASSUME SafeInv, Settled, [Next]_vars, ~TaskStep
    PROVE  Settled'
    <1>1. status' \notin {"failed", "succeeded"} \/ status' = status
        BY DEF Next, Create, Upload, Cancel, AcceptGeneration, GenerationEnds, Close, Stopped, Crash, Restart,
               Publisher, application, vars
    <1>2. CASE UNCHANGED companion
        BY <1>1, <1>2, CompanionRests, SettledIs DEF Settled, FailedClean, SucceededWhole, companion
    <1>3. CASE Publisher
        <2>1. PICK r \in Replicas : AcquireLease(r) \/ LeaseLapses(r) \/ SaveAndPublish(r)
            BY <1>3 DEF Publisher
        <2>2. /\ UNCHANGED <<status, action, journal, weight, stage, quarantine>>
              /\ \A o \in Replicas : publication'[o] \in {publication[o], "other"}
            BY <1>3, <2>1, StepIs
               DEF Publisher, AcquireLease, LeaseLapses, SaveAndPublish, Publishes, files, application, CompanionTypeOK
        <2>3. QED
            BY <2>2 DEF Settled
    <1>4. CASE ~Publisher /\ ~UNCHANGED companion
        <2>1. Close /\ task.left # {}
            BY <1>4 DEF Next, Create, Upload, Cancel, Ready, AcceptGeneration, GenerationEnds, Close, InFlight,
                        Stopped, Crash, Restart, vars
        <2>2. status \in {"running", "repair_required"}
            BY <2>1, NoTaskIs, StepIs DEF TaskRow
        <2>3. status' \notin {"failed", "succeeded"}
            BY <1>1, <2>2
        <2>4. QED
            BY <2>3 DEF Settled
    <1>5. QED
        BY <1>2, <1>3, <1>4

LEMMA SettledKeeps ==
    ASSUME SafeInv, FullInv, [Next]_vars
    PROVE  Settled'
    <1>1. CASE ~TaskStep
        BY <1>1, RowStays DEF FullInv
    <1>2. CASE TaskStep /\ status' \notin {"failed", "succeeded"}
        BY <1>2 DEF Settled
    <1>3. CASE TaskStep /\ status' \in {"failed", "succeeded"}
        BY <1>3, ClosesOnly, NothingBegun, AllTakenBack, AllDone, CompanionRests
           DEF Settled, FailedClean, SucceededWhole
    <1>4. QED
        BY <1>1, <1>2, <1>3

LEMMA FullKeeps ==
    ASSUME Mirrored, SafeInv, FullInv, [Next]_vars
    PROVE  FullInv'
    <1>1. Steers
        BY AskSteers, LookSteers, UserSteers, CloseSteers, OtherSteers DEF Next
    <1>2. QED
        BY <1>1, SettledKeeps DEF Steers, FullInv

LEMMA StartsFull ==
    ASSUME Init
    PROVE  FullInv
    <1>1. FilesInv /\ GoneLate
        BY ReplicasAssumption DEF Init, CompanionInit, Actions, FilesInv, GoneLate, Gone
    <1>2. Course(task) /\ Settled
        BY NoTaskIs DEF Init, Course, Unstaged, WayBack, Settled
    <1>3. QED
        BY <1>1, <1>2 DEF FullInv

(* With a mirror besides the writer, an operation that reports failure has *)
(* changed nothing and one that reports success is complete everywhere     *)
(* (the statuses _run_guarded, _run and recover write), nothing publishes  *)
(* before all can take it back, and what users saved is pruned last.       *)
THEOREM OperationSettles ==
    ASSUME Mirrored
    PROVE  Spec => []SettledInOrder
    <1>1. Init => SafeInv /\ FullInv
        BY StartsSafe, StartsFull
    <1>2. SafeInv /\ FullInv /\ [Next]_vars => (SafeInv /\ FullInv)'
        BY Mirrored, StepKeeps, FullKeeps
    <1>3. SafeInv /\ FullInv => SettledInOrder
        BY DEF SafeInv, FullInv, SettledInOrder
    <1>4. QED
        BY <1>1, <1>2, <1>3, PTL DEF Spec

-----------------------------------------------------------------------------
(* The file of a removal goes when the writer quarantines it, and there    *)
(* NoUser holds.                                                           *)
LEMMA WeightFalls ==
    ASSUME SafeInv, action = "remove", weight, ~weight', task.left # {},
           NEW r \in NextAsked, Moves(Request, r)
    PROVE  ~using
    <1>1. /\ r \in Replicas /\ Request \in AnyMove /\ task.step \in Asking
          /\ task.step \notin {"put", "refinalize"} => Request = task.step
          /\ task.step = "put" => Request = "stage"
          /\ task.step = "refinalize" => Request = "finalize"
        BY RequestIs
    <1>2. PICK q \in AnyMove : q = Request
        BY <1>1
    <1>3. Effect(q, r)
        BY <1>1, <1>2, StepIs, MovesIs
    <1>4. q = "quarantine"
        BY <1>1, <1>2, <1>3, StepIs, CommitIs, RollbackIs DEF Effect
    <1>5. QED
        BY <1>1, <1>2, <1>4, StepIs DEF NoUser, Asking

LEMMA RemovalStep ==
    ASSUME SafeInv, [Next]_vars, action = "remove", weight, ~weight'
    PROVE  ~using
    <1>1. CASE Ask
        <2>1. PICK r \in NextAsked : Answered(r) \/ NotAnswered(r)
            BY <1>1 DEF Ask
        <2>2. task.left # {} /\ (UNCHANGED companion \/ Moves(Request, r))
            BY <1>1, <2>1 DEF Ask, Answered, NotAnswered, Moves
        <2>3. QED
            BY <2>2, WeightFalls DEF companion
    <1>2. CASE Close
        <2>1. UNCHANGED companion \/ (task.left # {} /\ \E r \in NextAsked : Moves(Request, r))
            BY <1>2 DEF Close, InFlight, Moves
        <2>2. QED
            BY <2>1, WeightFalls DEF companion
    <1>3. CASE ~Ask /\ ~Close
        <2>1. UNCHANGED weight
            BY <1>3
               DEF Next, TaskStep, PreflightOperation, CheckActiveGenerations, VerifyPublications, VerifyAbsent,
                   Inspect, ReconcileAfterSuccess, Succeed, RecoverStates, RecoverInventory, AtStep, Create, Upload,
                   Cancel, Ready, AcceptGeneration, GenerationEnds, Stopped, Crash, Restart, Publisher,
                   AcquireLease, LeaseLapses, SaveAndPublish, files, companion, vars
        <2>2. QED
            BY <2>1
    <1>4. QED
        BY <1>1, <1>2, <1>3

(* A removal never takes the file from an active generation that names it, *)
(* whatever fails: the check of the running row and the maintenance guard  *)
(* of the admission keep out of each other's way.                          *)
THEOREM RemovalWaits == Spec => RemovalWaitsForWork
    <1>1. SafeInv /\ [Next]_vars => [action = "remove" /\ weight /\ ~weight' => ~using]_vars
        BY RemovalStep
    <1>2. QED
        BY <1>1, OperationInvariance, PTL DEF Spec, RemovalWaitsForWork

-----------------------------------------------------------------------------
(* Demo reels.                                                             *)
Wanted     == Signatures \cup {NoSignature}
EntryState == {"absent", "missing", "blocked", "running", "ready", "failed", "discarded"}
Entry      == [signature : Wanted, state : EntryState, generation : Generations \cup {NoGeneration},
               failures : 0 .. Attempts, waiting : BOOLEAN]
ReelRow    == [status : {"none"} \cup ActiveStatuses \cup TerminalStatuses, doomed : BOOLEAN]

(* What the state of an entry says of its generation.                      *)
EntryFits(e, G) ==
    /\ e.failures = Attempts <=> e.state = "failed"
    /\ e.state = "running" =>
          e.generation # NoGeneration /\ G[e.generation].status # "none" /\ ~G[e.generation].doomed
    /\ e.state \in {"absent", "missing", "blocked", "failed"} => e.generation = NoGeneration
    /\ e.state = "ready" =>
          e.generation # NoGeneration /\ G[e.generation].status = "succeeded" /\ ~G[e.generation].doomed
    /\ e.state = "discarded" /\ e.generation # NoGeneration => G[e.generation].doomed

RowFits(row) == (row.doomed => row.status # "none") /\ (row.status = "cancelling" => row.doomed)

(* Each generation that is to be kept is the attempt of one entry, and one *)
(* is under way at most.                                                   *)
ReelsFit(E, G) ==
    /\ E \in [Images -> Entry] /\ G \in [Generations -> ReelRow]
    /\ \A k \in Images : EntryFits(E[k], G)
    /\ \A g \in Generations : RowFits(G[g])
    /\ \A j, k \in Images :
         E[j].generation = E[k].generation /\ E[j].generation # NoGeneration => j = k
    /\ \A g \in Generations :
         G[g].status # "none" /\ ~G[g].doomed => \E k \in Images : E[k].generation = g
    /\ \A g, h \in Active(G) : g = h

Stopping(G) == \A g \in Active(G) : G[g].status = "cancelling"

RowsInv ==
    /\ ReelsFit(entries, gens)
    /\ (\E r \in Requests : requests[r] = "in") => Stopping(gens)

(* What went by since somebody was there is counted in last_activity_at    *)
(* too, but for the step that met him.                                     *)
ClockInv ==
    /\ wanted \in [Images -> Wanted]
    /\ requests \in [Requests -> {"none", "counted", "in"}]
    /\ work \in {"none", "queued", "running"} /\ turn \in {"none", "begun", "resetting", "down"}
    /\ age \in 0 .. Idle /\ calm \in 0 .. Idle
    /\ Up => age <= calm + 1

ReelsInv == RowsInv /\ ClockInv

(* What a row is when its generation is given up.                          *)
LEMMA GivenFits ==
    ASSUME NEW row \in ReelRow, RowFits(row), row.status # "none"
    PROVE  /\ Given(row) \in ReelRow /\ RowFits(Given(row)) /\ Given(row).doomed
           /\ Given(row).status # "none"
           /\ Given(row).status \in ActiveStatuses =>
                 row.status \in ActiveStatuses /\ Given(row).status = "cancelling"
    <1>1. CASE row.status \in ActiveStatuses
      BY <1>1 DEF Given, Revoked, ReelRow, RowFits, ActiveStatuses, TerminalStatuses
    <1>2. CASE row.status \notin ActiveStatuses
      <2>1. Given(row) = [row EXCEPT !.doomed = TRUE] BY <1>2 DEF Given
      <2>2. Given(row).status = row.status /\ Given(row).doomed /\ Given(row) \in ReelRow
        BY <2>1 DEF ReelRow
      <2>3. row.status # "cancelling" BY <1>2 DEF ActiveStatuses
      <2> QED BY <1>2, <2>2, <2>3 DEF RowFits
    <1> QED BY <1>1, <1>2

LEMMA RevokedFits ==
    ASSUME NEW row \in ReelRow, row.status \in ActiveStatuses
    PROVE  /\ Revoked(row) \in ReelRow /\ RowFits(Revoked(row)) /\ Revoked(row).doomed
           /\ Revoked(row).status # "none"
           /\ Revoked(row).status \in ActiveStatuses => Revoked(row).status = "cancelling"
    BY DEF Revoked, ReelRow, RowFits, ActiveStatuses, TerminalStatuses

(* An entry's generation is there.                                         *)
LEMMA GenerationIsThere ==
    ASSUME NEW E, NEW G, ReelsFit(E, G), NEW k \in Images, E[k].generation # NoGeneration
    PROVE  E[k].generation \in Generations /\ G[E[k].generation].status # "none"
    <1>1. E[k] \in Entry /\ EntryFits(E[k], G) BY DEF ReelsFit
    <1>2. E[k].generation \in Generations /\ E[k].state \in EntryState BY <1>1 DEF Entry
    <1>3. RowFits(G[E[k].generation]) BY <1>2 DEF ReelsFit
    <1> QED BY <1>1, <1>2, <1>3 DEF EntryFits, RowFits, EntryState

(* Only state, generation and failures matter.                             *)
LEMMA SameFits ==
    ASSUME NEW E, NEW G, ReelsFit(E, G), NEW F \in [Images -> Entry],
           \A k \in Images : /\ F[k].state = E[k].state /\ F[k].generation = E[k].generation
                             /\ F[k].failures = E[k].failures
    PROVE  ReelsFit(F, G)
    <1>1. \A k \in Images : EntryFits(F[k], G) BY DEF ReelsFit, EntryFits
    <1>2. \A j, k \in Images :
             F[j].generation = F[k].generation /\ F[j].generation # NoGeneration => j = k
      BY DEF ReelsFit
    <1>3. \A g \in Generations :
             G[g].status # "none" /\ ~G[g].doomed => \E k \in Images : F[k].generation = g
      BY DEF ReelsFit
    <1> QED BY <1>1, <1>2, <1>3 DEF ReelsFit

(* Somebody is there: what is under way is told to stop.                   *)
LEMMA ActivityFits ==
    ASSUME NEW E, NEW G, ReelsFit(E, G)
    PROVE  /\ ReelsFit(ActivityEntries(E, G), ActivityRows(G))
           /\ Stopping(ActivityRows(G))
           /\ \A k \in Images : ActivityEntries(E, G)[k].failures = E[k].failures
    <1> DEFINE F == ActivityEntries(E, G)
               H == ActivityRows(G)
    <1>1. ASSUME NEW g \in Generations, g \in Active(G)
          PROVE  /\ H[g] \in ReelRow /\ RowFits(H[g]) /\ H[g].doomed /\ H[g].status # "none"
                 /\ H[g].status \in ActiveStatuses => H[g].status = "cancelling"
      <2>1. G[g] \in ReelRow /\ G[g].status \in ActiveStatuses BY <1>1 DEF ReelsFit, Active
      <2>2. H[g] = Revoked(G[g]) BY <1>1 DEF ActivityRows
      <2> QED BY <2>1, <2>2, RevokedFits
    <1>2. ASSUME NEW g \in Generations, g \notin Active(G)
          PROVE  H[g] = G[g] /\ G[g].status \notin ActiveStatuses
      BY <1>2 DEF ActivityRows, Active
    <1>3. H \in [Generations -> ReelRow] /\ \A g \in Generations : RowFits(H[g])
      <2>1. \A g \in Generations : H[g] \in ReelRow /\ RowFits(H[g]) BY <1>1, <1>2 DEF ReelsFit
      <2> QED BY <2>1 DEF ActivityRows
    <1>4. ASSUME NEW k \in Images
          PROVE  /\ F[k] \in Entry /\ EntryFits(F[k], H) /\ F[k].generation = E[k].generation
                 /\ F[k].failures = E[k].failures
      <2>1. E[k] \in Entry /\ EntryFits(E[k], G) BY DEF ReelsFit
      <2>2. E[k].generation \in Generations \cup {NoGeneration} BY <2>1 DEF Entry
      <2>3. CASE E[k].state = "running" /\ E[k].generation \in Active(G)
        <3>1. F[k] = [E[k] EXCEPT !.state = "discarded"] BY <2>3 DEF ActivityEntries
        <3>2. F[k] \in Entry /\ F[k].state = "discarded" /\ F[k].generation = E[k].generation
              /\ F[k].failures = E[k].failures
          BY <2>1, <3>1 DEF Entry, EntryState
        <3>3. H[E[k].generation].doomed BY <1>1, <2>3 DEF Active
        <3>4. E[k].failures # Attempts BY <2>1, <2>3 DEF EntryFits
        <3> QED BY <3>2, <3>3, <3>4 DEF EntryFits
      <2>4. CASE ~(E[k].state = "running" /\ E[k].generation \in Active(G))
        <3>1. E[k].state = "running" => E[k].generation # NoGeneration
          BY <2>1 DEF EntryFits
        <3>2. F[k] = E[k] BY <2>4, <3>1 DEF ActivityEntries
        <3>3. E[k].state \in {"running", "ready"} =>
                 E[k].generation \in Generations /\ E[k].generation \notin Active(G)
          BY <2>1, <2>2, <2>4 DEF EntryFits, Active, ActiveStatuses
        <3>4. E[k].state = "discarded" /\ E[k].generation # NoGeneration => H[E[k].generation].doomed
          BY <1>1, <1>2, <2>1, <2>2 DEF EntryFits
        <3> QED BY <1>2, <2>1, <3>2, <3>3, <3>4 DEF EntryFits
      <2> QED BY <2>3, <2>4
    <1>5. F \in [Images -> Entry] BY <1>4 DEF ActivityEntries
    <1>6. \A g \in Generations :
             H[g].status # "none" /\ ~H[g].doomed => \E k \in Images : F[k].generation = g
      BY <1>1, <1>2, <1>4 DEF ReelsFit
    <1>7. Active(H) \subseteq Active(G) /\ Stopping(H)
      BY <1>1, <1>2 DEF Active, Stopping
    <1> HIDE DEF F, H
    <1>8. ReelsFit(F, H)
      <2>1. \A j, k \in Images :
               F[j].generation = F[k].generation /\ F[j].generation # NoGeneration => j = k
        BY <1>4 DEF ReelsFit
      <2>2. \A g, h \in Active(H) : g = h BY <1>7 DEF ReelsFit
      <2>3. \A k \in Images : EntryFits(F[k], H) BY <1>4
      <2> QED BY <1>3, <1>5, <1>6, <2>1, <2>2, <2>3 DEF ReelsFit
    <1> QED BY <1>4, <1>7, <1>8 DEF F, H
-----------------------------------------------------------------------------
(* Reconciling.  An entry is emptied, or is given up and waits for its row *)
(* to end, or keeps its row.                                               *)
Emptied(e, f) ==
    f.generation = NoGeneration /\ f.state \in {"absent", "missing", "blocked", "failed"}
Abandoned(e, f) ==
    f.generation = e.generation /\ e.generation # NoGeneration /\ f.state = "discarded"
Retained(e, f) ==
    /\ f.generation = e.generation
    /\ \/ f.state = e.state
       \/ f.state = "ready" /\ e.state = "running" /\ Succeeded(Row(e.generation))
       \/ f.state = "blocked" /\ e.state = "missing"
    /\ f.state = "running" => Row(e.generation).status \in ActiveStatuses

LEMMA FreshEntry ==
    ASSUME NEW w \in Wanted
    PROVE  /\ Fresh(w) \in Entry /\ Fresh(w).generation = NoGeneration /\ Fresh(w).failures = 0
           /\ Fresh(w).state \in {"absent", "missing", "blocked"}
    <1>1. Absent \in Entry /\ Absent.generation = NoGeneration /\ Absent.failures = 0
          /\ Absent.state = "absent"
      BY ReelsAssumption DEF Absent, Entry, EntryState, Wanted, NoGeneration
    <1>2. CASE w = NoSignature BY <1>1, <1>2 DEF Fresh
    <1>3. CASE w # NoSignature
      <2>1. Fresh(w) = [Absent EXCEPT !.signature = w, !.state = IF w \in Broken THEN "blocked" ELSE "missing"]
        BY <1>3 DEF Fresh
      <2> QED BY <1>1, <2>1 DEF Entry, EntryState
    <1> QED BY <1>2, <1>3

LEMMA FailedEntry ==
    ASSUME NEW e \in Entry, e.state = "running", e.failures = Attempts <=> e.state = "failed"
    PROVE  /\ Failed(e) \in Entry /\ Failed(e).generation = NoGeneration
           /\ Failed(e).state \in {"missing", "failed"}
           /\ Failed(e).failures = Attempts <=> Failed(e).state = "failed"
    <1>1. e.failures \in Nat /\ e.failures + 1 <= Attempts BY ReelsAssumption DEF Entry
    <1>2. /\ Failed(e).failures = e.failures + 1 /\ Failed(e).waiting = TRUE
          /\ Failed(e).generation = NoGeneration
          /\ Failed(e).state = IF e.failures + 1 >= Attempts THEN "failed" ELSE "missing"
      BY DEF Failed, Entry
    <1>3. Failed(e).failures = Attempts <=> Failed(e).state = "failed"
      BY <1>1, <1>2, ReelsAssumption
    <1>4. Failed(e).failures \in 0 .. Attempts BY <1>1, <1>2, ReelsAssumption
    <1>5. e.failures + 1 \in 0 .. Attempts BY <1>1, ReelsAssumption
    <1>6. Failed(e) \in Entry
      BY <1>5 DEF Failed, Entry, EntryState, NoGeneration
    <1> QED BY <1>2, <1>3, <1>6

LEMMA EntryReconciled ==
    ASSUME NEW e \in Entry, NEW w \in Wanted, EntryFits(e, gens)
    PROVE  LET f == ReconciledEntry(e, w)
           IN  /\ f \in Entry /\ (f.failures = Attempts <=> f.state = "failed")
               /\ \/ Emptied(e, f) /\ (e.generation # NoGeneration =>
                        GivenUp(e, w) /\ Row(e.generation).status \notin ActiveStatuses)
                  \/ Abandoned(e, f) /\ GivenUp(e, w)
                  \/ Retained(e, f) /\ ~GivenUp(e, w)
               /\ f.failures > e.failures =>
                     Over(e) /\ ~Succeeded(Row(e.generation))
    <1> DEFINE f == ReconciledEntry(e, w)
    <1>0. e.failures \in 0 .. Attempts /\ ~(0 > e.failures) /\ ~(e.failures > e.failures)
          /\ 0 # Attempts /\ (e.failures = Attempts <=> e.state = "failed")
      BY ReelsAssumption DEF Entry, EntryFits
    <1>1. CASE e.state = "absent"
      <2>1. f = Fresh(w) BY <1>1 DEF ReconciledEntry
      <2>2. e.generation = NoGeneration BY <1>1 DEF EntryFits
      <2> QED BY <1>0, <2>1, <2>2, FreshEntry DEF Emptied
    <1>2. CASE e.state # "absent" /\ Obsolete(e, w) /\ Row(e.generation).status \in ActiveStatuses
      <2>1. f = [e EXCEPT !.state = "discarded"] BY <1>2 DEF ReconciledEntry
      <2>2. e.generation # NoGeneration BY <1>2 DEF Row, NoRow, ActiveStatuses
      <2>3. f \in Entry /\ f.generation = e.generation /\ f.failures = e.failures
            /\ f.state = "discarded"
        BY <2>1 DEF Entry, EntryState
      <2>4. e.state # "failed" BY <2>2 DEF EntryFits
      <2> QED BY <1>0, <1>2, <2>2, <2>3, <2>4 DEF Abandoned, GivenUp
    <1>3. CASE e.state # "absent" /\ Obsolete(e, w) /\ Row(e.generation).status \notin ActiveStatuses
      <2>1. f = Fresh(w) BY <1>3 DEF ReconciledEntry
      <2> QED BY <1>0, <1>3, <2>1, FreshEntry DEF Emptied, GivenUp
    <1>4. CASE ~Obsolete(e, w) /\ Over(e) /\ ~Succeeded(Row(e.generation))
      <2>1. e.state = "running" BY <1>4 DEF Over
      <2>2. f = Failed(e) BY <1>4, <2>1 DEF ReconciledEntry
      <2>3. e.generation # NoGeneration => GivenUp(e, w) BY <1>4 DEF GivenUp
      <2>4. Row(e.generation).status \notin ActiveStatuses BY <1>4 DEF Over
      <2> QED BY <1>0, <1>4, <2>1, <2>2, <2>3, <2>4, FailedEntry DEF Emptied
    <1>5. CASE ~Obsolete(e, w) /\ Over(e) /\ Succeeded(Row(e.generation))
      <2>1. e.state = "running" BY <1>5 DEF Over
      <2>2. f = [e EXCEPT !.state = "ready"] BY <1>5, <2>1 DEF ReconciledEntry
      <2>3. f \in Entry /\ f.generation = e.generation /\ f.failures = e.failures /\ f.state = "ready"
        BY <2>2 DEF Entry, EntryState
      <2> QED BY <1>0, <1>5, <2>1, <2>3 DEF Retained, GivenUp
    <1>6. CASE e.state # "absent" /\ ~Obsolete(e, w) /\ ~Over(e) /\ e.state = "missing" /\ w \in Broken
      <2>2. f = [e EXCEPT !.state = "blocked"] BY <1>6 DEF ReconciledEntry
      <2>3. f \in Entry /\ f.generation = e.generation /\ f.failures = e.failures /\ f.state = "blocked"
        BY <2>2 DEF Entry, EntryState
      <2> QED BY <1>0, <1>6, <2>3 DEF Retained, GivenUp
    <1>7. CASE e.state # "absent" /\ ~Obsolete(e, w) /\ ~Over(e) /\ ~(e.state = "missing" /\ w \in Broken)
      <2>1. f = e BY <1>7 DEF ReconciledEntry
      <2>2. e.state = "running" => Row(e.generation).status \in ActiveStatuses BY <1>7 DEF Over
      <2> QED BY <1>0, <1>7, <2>1, <2>2 DEF Retained, GivenUp
    <1>8. ~Over(e) \/ e.state # "absent" BY DEF Over
    <1>9. \/ e.state = "absent"
          \/ e.state # "absent" /\ Obsolete(e, w) /\ Row(e.generation).status \in ActiveStatuses
          \/ e.state # "absent" /\ Obsolete(e, w) /\ Row(e.generation).status \notin ActiveStatuses
          \/ ~Obsolete(e, w) /\ Over(e) /\ ~Succeeded(Row(e.generation))
          \/ ~Obsolete(e, w) /\ Over(e) /\ Succeeded(Row(e.generation))
          \/ e.state # "absent" /\ ~Obsolete(e, w) /\ ~Over(e) /\ e.state = "missing" /\ w \in Broken
          \/ e.state # "absent" /\ ~Obsolete(e, w) /\ ~Over(e) /\ ~(e.state = "missing" /\ w \in Broken)
      BY <1>8
    <1> QED BY <1>1, <1>2, <1>3, <1>4, <1>5, <1>6, <1>7, <1>9
LEMMA ReconcileFits ==
    ASSUME ReelsFit(entries, gens), NEW W \in [Images -> Wanted]
    PROVE  /\ ReelsFit(ReconciledEntries(W), ReconciledRows(W))
           /\ Active(ReconciledRows(W)) \subseteq Active(gens)
           /\ Stopping(gens) => Stopping(ReconciledRows(W))
           /\ \A g \in Generations : gens[g] = NoRow => ReconciledRows(W)[g] = NoRow
           /\ \A k \in Images :
                ReconciledEntries(W)[k].failures > entries[k].failures =>
                    Row(entries[k].generation) = [status |-> "failed", doomed |-> FALSE]
    <1> DEFINE E == ReconciledEntries(W)
               G == ReconciledRows(W)
               given(g) == \E k \in Images : entries[k].generation = g /\ GivenUp(entries[k], W[k])
    <1>1. ASSUME NEW g \in Generations, given(g)
          PROVE  /\ G[g] \in ReelRow /\ RowFits(G[g]) /\ G[g].doomed /\ G[g].status # "none"
                 /\ G[g].status \in ActiveStatuses =>
                       gens[g].status \in ActiveStatuses /\ G[g].status = "cancelling"
                 /\ gens[g] # NoRow
      <2>1. G[g] = Given(gens[g]) BY <1>1 DEF ReconciledRows
      <2>2. PICK k \in Images : entries[k].generation = g BY <1>1
      <2>3. g # NoGeneration BY DEF Generations, NoGeneration
      <2>4. gens[g].status # "none" BY <2>2, <2>3, GenerationIsThere
      <2>5. gens[g] \in ReelRow /\ RowFits(gens[g]) BY DEF ReelsFit
      <2>6. gens[g] # NoRow BY <2>4 DEF NoRow
      <2> QED BY <2>1, <2>4, <2>5, <2>6, GivenFits
    <1>2. ASSUME NEW g \in Generations, ~given(g)
          PROVE  G[g] = gens[g]
      BY <1>2 DEF ReconciledRows
    <1>3. G \in [Generations -> ReelRow] /\ \A g \in Generations : RowFits(G[g])
      <2>1. \A g \in Generations : G[g] \in ReelRow /\ RowFits(G[g]) BY <1>1, <1>2 DEF ReelsFit
      <2> QED BY <2>1 DEF ReconciledRows
    <1>4. ASSUME NEW k \in Images, GivenUp(entries[k], W[k])
          PROVE  entries[k].generation \in Generations /\ given(entries[k].generation)
      <2>1. entries[k].generation # NoGeneration BY <1>4 DEF GivenUp
      <2> QED BY <1>4, <2>1, GenerationIsThere
    <1>5. ASSUME NEW k \in Images, ~GivenUp(entries[k], W[k]), entries[k].generation # NoGeneration
          PROVE  /\ entries[k].generation \in Generations /\ ~given(entries[k].generation)
                 /\ G[entries[k].generation] = gens[entries[k].generation]
      <2>1. entries[k].generation \in Generations BY <1>5, GenerationIsThere
      <2>2. ~given(entries[k].generation) BY <1>5 DEF ReelsFit
      <2> QED BY <1>2, <2>1, <2>2
    <1> HIDE DEF given, G
    <1>6. ASSUME NEW k \in Images
          PROVE  /\ E[k] \in Entry /\ EntryFits(E[k], G)
                 /\ \/ E[k].generation = entries[k].generation
                    \/ E[k].generation = NoGeneration /\
                       (entries[k].generation # NoGeneration => GivenUp(entries[k], W[k]))
                 /\ E[k].failures > entries[k].failures =>
                      Over(entries[k]) /\ ~Succeeded(Row(entries[k].generation))
      <2>1. E[k] = ReconciledEntry(entries[k], W[k]) BY DEF ReconciledEntries
      <2>2. entries[k] \in Entry /\ EntryFits(entries[k], gens) /\ W[k] \in Wanted BY DEF ReelsFit
      <2>3. /\ E[k] \in Entry /\ (E[k].failures = Attempts <=> E[k].state = "failed")
            /\ \/ Emptied(entries[k], E[k]) /\ (entries[k].generation # NoGeneration => GivenUp(entries[k], W[k]))
               \/ Abandoned(entries[k], E[k]) /\ GivenUp(entries[k], W[k])
               \/ Retained(entries[k], E[k]) /\ ~GivenUp(entries[k], W[k])
            /\ E[k].failures > entries[k].failures =>
                     Over(entries[k]) /\ ~Succeeded(Row(entries[k].generation))
        BY <2>1, <2>2, EntryReconciled
      <2> HIDE DEF E
      <2>4. CASE Emptied(entries[k], E[k])
        BY <2>3, <2>4 DEF Emptied, EntryFits, Abandoned, Retained
      <2>5. CASE Abandoned(entries[k], E[k]) /\ GivenUp(entries[k], W[k])
        <3>1. G[E[k].generation].doomed BY <1>1, <1>4, <2>5 DEF Abandoned
        <3> QED BY <2>3, <2>5, <3>1 DEF Abandoned, EntryFits
      <2>6. CASE Retained(entries[k], E[k]) /\ ~GivenUp(entries[k], W[k])
        <3>1. E[k].generation = entries[k].generation BY <2>6 DEF Retained
        <3>2. E[k].generation # NoGeneration =>
                 E[k].generation \in Generations /\ G[E[k].generation] = gens[E[k].generation]
          BY <1>5, <2>6, <3>1
        <3>3. CASE E[k].state = entries[k].state
          BY <2>2, <2>3, <3>1, <3>2, <3>3 DEF EntryFits
        <3>4. CASE E[k].state = "ready" /\ entries[k].state = "running"
                   /\ Succeeded(Row(entries[k].generation))
          <4>1. entries[k].generation # NoGeneration BY <2>2, <3>4 DEF EntryFits
          <4>2. gens[entries[k].generation].status = "succeeded" /\ ~gens[entries[k].generation].doomed
            BY <3>4, <4>1 DEF Succeeded, Row
          <4> QED BY <2>3, <3>1, <3>2, <3>4, <4>1, <4>2 DEF EntryFits
        <3>5. CASE E[k].state = "blocked" /\ entries[k].state = "missing"
          BY <2>2, <2>3, <3>1, <3>5 DEF EntryFits
        <3> QED BY <2>3, <2>6, <3>1, <3>3, <3>4, <3>5 DEF Retained
      <2> QED BY <2>3, <2>4, <2>5, <2>6
    <1>7. E \in [Images -> Entry] BY <1>6 DEF ReconciledEntries
    <1>8. Active(G) \subseteq Active(gens) /\ (Stopping(gens) => Stopping(G))
      <2>1. ASSUME NEW g \in Generations, G[g].status \in ActiveStatuses
            PROVE  gens[g].status \in ActiveStatuses
                   /\ (G[g].status = gens[g].status \/ G[g].status = "cancelling")
        BY <1>1, <1>2, <2>1
      <2> QED BY <2>1 DEF Active, Stopping
    <1>9. ASSUME NEW g \in Generations, G[g].status # "none", ~G[g].doomed
          PROVE  \E k \in Images : E[k].generation = g
      <2>1. ~given(g) /\ G[g] = gens[g] BY <1>1, <1>2, <1>9
      <2>2. PICK k \in Images : entries[k].generation = g BY <1>9, <2>1 DEF ReelsFit
      <2>3. g # NoGeneration BY DEF Generations, NoGeneration
      <2>4. ~GivenUp(entries[k], W[k]) BY <2>1, <2>2 DEF given
      <2> QED BY <1>6, <2>2, <2>3, <2>4
    <1>10. ASSUME NEW k \in Images, Over(entries[k]), ~Succeeded(Row(entries[k].generation))
           PROVE  Row(entries[k].generation) = [status |-> "failed", doomed |-> FALSE]
      <2>1. entries[k].state = "running" BY <1>10 DEF Over
      <2>2. EntryFits(entries[k], gens) BY DEF ReelsFit
      <2>3. /\ entries[k].generation # NoGeneration /\ gens[entries[k].generation].status # "none"
            /\ ~gens[entries[k].generation].doomed
        BY <2>1, <2>2 DEF EntryFits
      <2>4. entries[k].generation \in Generations BY <2>3, GenerationIsThere
      <2>5. Row(entries[k].generation) = gens[entries[k].generation]
            /\ gens[entries[k].generation] \in ReelRow
        BY <2>3, <2>4 DEF Row, ReelsFit
      <2>6. gens[entries[k].generation].status \notin ActiveStatuses
            /\ gens[entries[k].generation].status # "succeeded"
        BY <1>10, <2>3, <2>5 DEF Over, Succeeded
      <2>7. gens[entries[k].generation].status = "failed" /\ gens[entries[k].generation].doomed = FALSE
        BY <2>3, <2>5, <2>6 DEF ReelRow, ActiveStatuses, TerminalStatuses
      <2> QED BY <2>5, <2>7 DEF ReelRow
    <1> HIDE DEF E
    <1>11. ReelsFit(E, G)
      <2>1. \A j, k \in Images :
               E[j].generation = E[k].generation /\ E[j].generation # NoGeneration => j = k
        BY <1>6 DEF ReelsFit
      <2>2. \A g, h \in Active(G) : g = h BY <1>8 DEF ReelsFit
      <2>3. \A k \in Images : EntryFits(E[k], G) BY <1>6
      <2> QED BY <1>3, <1>7, <1>9, <2>1, <2>2, <2>3 DEF ReelsFit
    <1>12. \A g \in Generations : gens[g] = NoRow => G[g] = NoRow BY <1>1, <1>2
    <1>13. \A k \in Images : E[k].failures > entries[k].failures =>
                    Row(entries[k].generation) = [status |-> "failed", doomed |-> FALSE]
      BY <1>6, <1>10
    <1> QED BY <1>8, <1>11, <1>12, <1>13 DEF E, G
-----------------------------------------------------------------------------
(* What a step does.                                                       *)
FailsOwn ==
    \A k \in Images :
        entries'[k].failures > entries[k].failures =>
            Row(entries[k].generation) = [status |-> "failed", doomed |-> FALSE]
BeginsQuiet ==
    (\E g \in Generations : gens[g].status = "none" /\ gens'[g].status = "queued") => calm + 1 >= Idle

LEMMA NoneIsNoRow ==
    ASSUME NEW E, NEW G, ReelsFit(E, G), NEW g \in Generations, G[g].status = "none"
    PROVE  G[g] = NoRow
    <1>1. G[g] \in ReelRow /\ RowFits(G[g]) BY DEF ReelsFit
    <1>2. G[g].doomed = FALSE BY <1>1 DEF RowFits, ReelRow
    <1> QED BY <1>1, <1>2 DEF ReelRow, NoRow

LEMMA FailuresCompare ==
    ASSUME NEW E, NEW G, ReelsFit(E, G), NEW k \in Images
    PROVE  E[k].failures \in Nat /\ ~(E[k].failures > E[k].failures)
    <1>1. E[k].failures \in 0 .. Attempts BY DEF ReelsFit, Entry
    <1> QED BY <1>1

(* The end of a step that leaves E and G.                                  *)
LEMMA StepEnding ==
    ASSUME ReelsInv, NEW E, NEW G, NEW t, StepEnds(E, G, t), ReelsFit(E, G),
           \A k \in Images : E[k].failures > entries[k].failures =>
               Row(entries[k].generation) = [status |-> "failed", doomed |-> FALSE]
    PROVE  ReelsFit(entries', gens') /\ FailsOwn
    <1>1. ASSUME NEW k \in Images
          PROVE  /\ entries'[k] \in Entry /\ entries'[k].state = E[k].state
                 /\ entries'[k].generation = E[k].generation /\ entries'[k].failures = E[k].failures
      <2>1. PICK b \in BOOLEAN : entries'[k] = [E[k] EXCEPT !.waiting = b]
        <3>1. entries'[k] = [E[k] EXCEPT !.waiting = @ /\ ~entries[k].waiting] BY DEF StepEnds
        <3>2. E[k] \in Entry BY DEF ReelsFit
        <3>3. (E[k].waiting /\ ~entries[k].waiting) \in BOOLEAN BY Zenon
        <3> QED BY <3>1, <3>2, <3>3, Zenon DEF Entry
      <2>2. E[k] \in Entry BY DEF ReelsFit
      <2> QED BY <2>1, <2>2 DEF Entry
    <1>2. entries' \in [Images -> Entry]
      <2>1. entries' = [k \in Images |-> [E[k] EXCEPT !.waiting = @ /\ ~entries[k].waiting]]
        BY Zenon DEF StepEnds
      <2>2. \A k \in Images : entries'[k] \in Entry BY <1>1
      <2> QED BY <2>1, <2>2, Zenon
    <1>3. ReelsFit(entries', G) BY <1>1, <1>2, SameFits
    <1>4. gens' = G BY DEF StepEnds
    <1>5. FailsOwn BY <1>1 DEF FailsOwn
    <1> QED BY <1>3, <1>4, <1>5

(* Nothing begins where all that is under way is to stop.                  *)
LEMMA NothingBegins ==
    ASSUME Stopping(gens') \/ \A g \in Generations : gens[g].status = "none" => gens'[g].status # "queued"
    PROVE  BeginsQuiet
    BY DEF BeginsQuiet, Stopping, Active, ActiveStatuses
RowsGood == RowsInv' /\ FailsOwn /\ BeginsQuiet

LEMMA RowsStay ==
    ASSUME ReelsInv, UNCHANGED rows, \A r \in Requests : requests'[r] = "in" => requests[r] = "in"
    PROVE  RowsGood
    <1>1. entries' = entries /\ gens' = gens BY DEF rows
    <1>2. RowsInv' BY <1>1 DEF ReelsInv, RowsInv
    <1>3. FailsOwn BY <1>1, FailuresCompare DEF FailsOwn, ReelsInv, RowsInv
    <1>4. BeginsQuiet BY <1>1, NothingBegins
    <1> QED BY <1>2, <1>3, <1>4 DEF RowsGood

(* What a reconciliation leaves begins nothing.                            *)
LEMMA ReconcileBegins ==
    ASSUME ReelsInv, NEW W \in [Images -> Wanted], NEW g \in Generations, gens[g].status = "none"
    PROVE  ReconciledRows(W)[g].status = "none"
    <1>1. gens[g] = NoRow BY NoneIsNoRow DEF ReelsInv, RowsInv
    <1>2. ReconciledRows(W)[g] = NoRow BY <1>1, ReconcileFits DEF ReelsInv, RowsInv
    <1> QED BY <1>2 DEF NoRow

LEMMA Reconciling ==
    ASSUME ReelsInv
    PROVE  /\ ReelsFit(E1, G1) /\ Active(G1) \subseteq Active(gens)
           /\ \A k \in Images : E1[k].failures > entries[k].failures =>
                  Row(entries[k].generation) = [status |-> "failed", doomed |-> FALSE]
           /\ \A g \in Generations : gens[g].status = "none" => G1[g].status = "none"
           /\ \A g \in Generations : gens[g] = NoRow => G1[g] = NoRow
    <1>1. wanted \in [Images -> Wanted] BY DEF ReelsInv, ClockInv
    <1>2. \A g \in Generations : gens[g].status = "none" => ReconciledRows(wanted)[g].status = "none"
      BY <1>1, ReconcileBegins
    <1>3. ReelsFit(entries, gens) BY DEF ReelsInv, RowsInv
    <1> QED BY <1>1, <1>2, <1>3, ReconcileFits DEF E1, G1

LEMMA GivingWay == ASSUME ReelsInv, StepGivesWay PROVE RowsGood
    <1> DEFINE E == ActivityEntries(E1, G1)
               G == ActivityRows(G1)
    <1>1. ReelsFit(E, G) /\ Stopping(G) /\ \A k \in Images : E[k].failures = E1[k].failures
      BY Reconciling, ActivityFits
    <1>2. \A k \in Images : E[k].failures > entries[k].failures =>
               Row(entries[k].generation) = [status |-> "failed", doomed |-> FALSE]
      BY <1>1, Reconciling
    <1>3. StepEnds(E, G, 0) BY DEF StepGivesWay
    <1> HIDE DEF E, G
    <1>4. ReelsFit(entries', gens') /\ FailsOwn BY <1>1, <1>2, <1>3, StepEnding
    <1>5. Stopping(gens') BY <1>1, <1>3 DEF StepEnds
    <1>6. RowsInv' BY <1>4, <1>5 DEF RowsInv
    <1> QED BY <1>4, <1>5, <1>6, NothingBegins DEF RowsGood

(* A step that nobody stops leaves nobody's request under way.             *)
LEMMA QuietEnding ==
    ASSUME ReelsInv, ~Foreground, NEW E, NEW G, NEW t, StepEnds(E, G, t), ReelsFit(E, G),
           \A k \in Images : E[k].failures > entries[k].failures =>
               Row(entries[k].generation) = [status |-> "failed", doomed |-> FALSE]
    PROVE  RowsInv' /\ FailsOwn
    <1>1. ReelsFit(entries', gens') /\ FailsOwn BY StepEnding
    <1>2. \A r \in Requests : requests'[r] # "in" BY DEF StepEnds, Foreground
    <1> QED BY <1>1, <1>2 DEF RowsInv

LEMMA Waiting == ASSUME ReelsInv, StepWaits PROVE RowsGood
    <1>1. PICK t : StepEnds(E1, G1, t) /\ ~Foreground BY DEF StepWaits
    <1>2. RowsInv' /\ FailsOwn BY <1>1, Reconciling, QuietEnding
    <1>3. gens' = G1 BY <1>1 DEF StepEnds
    <1>4. BeginsQuiet BY <1>3, Reconciling, NothingBegins
    <1> QED BY <1>2, <1>4 DEF RowsGood

LEMMA Refusing == ASSUME ReelsInv, StepRefused PROVE RowsGood
    <1>1. PICK i \in DOMAIN Order :
            /\ NextDue(i)
            /\ \/ StepEnds([E1 EXCEPT ![Order[i]].state = "blocked"], G1, Age)
               \/ StepEnds(E1, G1, Age)
      BY DEF StepRefused
    <1>2. ~Foreground BY DEF StepRefused
    <1>3. CASE StepEnds(E1, G1, Age)
      <2>1. RowsInv' /\ FailsOwn BY <1>2, <1>3, Reconciling, QuietEnding
      <2>2. gens' = G1 BY <1>3 DEF StepEnds
      <2> QED BY <2>1, <2>2, Reconciling, NothingBegins DEF RowsGood
    <1>4. CASE StepEnds([E1 EXCEPT ![Order[i]].state = "blocked"], G1, Age)
      <2> DEFINE k == Order[i]
                 E == [E1 EXCEPT ![k].state = "blocked"]
      <2>1. k \in Images /\ E1[k].state = "missing" BY <1>1 DEF Images, NextDue, Due
      <2>2. ReelsFit(E1, G1) BY Reconciling
      <2>3. E1 \in [Images -> Entry] /\ EntryFits(E1[k], G1) BY <2>1, <2>2 DEF ReelsFit
      <2>4. E1[k].generation = NoGeneration /\ E1[k].failures # Attempts BY <2>1, <2>3 DEF EntryFits
      <2>5. /\ E \in [Images -> Entry]
            /\ E[k].state = "blocked" /\ E[k].generation = NoGeneration /\ E[k].failures = E1[k].failures
            /\ \A j \in Images \ {k} : E[j] = E1[j]
        BY <2>1, <2>3, <2>4 DEF Entry, EntryState
      <2> HIDE DEF E, k
      <2>6. \A j \in Images : EntryFits(E[j], G1)
        <3>1. EntryFits(E[k], G1) BY <2>4, <2>5 DEF EntryFits
        <3> QED BY <2>2, <2>5, <3>1 DEF ReelsFit
      <2>7. \A j \in Images : E[j].generation = E1[j].generation /\ E[j].failures = E1[j].failures
        BY <2>4, <2>5
      <2>8. ReelsFit(E, G1) BY <2>2, <2>5, <2>6, <2>7 DEF ReelsFit
      <2>9. \A j \in Images : E[j].failures > entries[j].failures =>
               Row(entries[j].generation) = [status |-> "failed", doomed |-> FALSE]
        BY <2>7, Reconciling
      <2>10. StepEnds(E, G1, Age) BY <1>4 DEF E, k
      <2>11. RowsInv' /\ FailsOwn BY <1>2, <2>8, <2>9, <2>10, QuietEnding
      <2>12. gens' = G1 BY <2>10 DEF StepEnds
      <2> QED BY <2>11, <2>12, Reconciling, NothingBegins DEF RowsGood
    <1> QED BY <1>1, <1>3, <1>4
LEMMA Submitting == ASSUME ReelsInv, StepSubmits PROVE RowsGood
    <1>1. PICK i \in DOMAIN Order, g \in Generations :
            /\ NextDue(i) /\ gens[g] = NoRow
            /\ StepEnds([E1 EXCEPT ![Order[i]].state = "running", ![Order[i]].generation = g],
                        [G1 EXCEPT ![g].status = "queued"], Age)
      BY DEF StepSubmits
    <1>2. ~Foreground /\ Active(G1) = {} /\ Age >= Idle BY DEF StepSubmits, Quiet
    <1> DEFINE k == Order[i]
               E == [E1 EXCEPT ![k].state = "running", ![k].generation = g]
               G == [G1 EXCEPT ![g].status = "queued"]
    <1>3. k \in Images /\ E1[k].state = "missing" BY <1>1 DEF Images, NextDue, Due
    <1>4. ReelsFit(E1, G1) /\ G1[g] = NoRow BY <1>1, Reconciling
    <1>5. E1 \in [Images -> Entry] /\ EntryFits(E1[k], G1) /\ G1 \in [Generations -> ReelRow]
      BY <1>3, <1>4 DEF ReelsFit
    <1>6. E1[k].generation = NoGeneration /\ E1[k].failures # Attempts BY <1>3, <1>5 DEF EntryFits
    <1>7. /\ E \in [Images -> Entry]
          /\ E[k].state = "running" /\ E[k].generation = g /\ E[k].failures = E1[k].failures
          /\ \A j \in Images \ {k} : E[j] = E1[j]
      <2>1. E = [E1 EXCEPT ![k] = [E1[k] EXCEPT !.state = "running", !.generation = g]]
        BY <1>3, <1>5
      <2>2. E1[k] \in Entry BY <1>3, <1>5
      <2>3. [E1[k] EXCEPT !.state = "running", !.generation = g] \in Entry
        BY <2>2 DEF Entry, EntryState
      <2>4. E[k] = [E1[k] EXCEPT !.state = "running", !.generation = g]
            /\ \A j \in Images \ {k} : E[j] = E1[j]
        BY <1>3, <1>5, <2>1
      <2>5. E \in [Images -> Entry] BY <1>5, <2>1, <2>3
      <2> HIDE DEF E
      <2> QED BY <2>2, <2>4, <2>5 DEF Entry
    <1>8. /\ G \in [Generations -> ReelRow]
          /\ G[g].status = "queued" /\ G[g].doomed = FALSE
          /\ \A h \in Generations \ {g} : G[h] = G1[h]
      <2>1. G1[g] \in ReelRow /\ G1[g].doomed = FALSE
        <3>1. NoRow \in ReelRow /\ NoRow.doomed = FALSE BY DEF NoRow, ReelRow
        <3> HIDE DEF E, G, k
        <3> QED BY <1>4, <3>1, Zenon
      <2>2. [G1[g] EXCEPT !.status = "queued"] \in ReelRow
        BY <2>1 DEF ReelRow, ActiveStatuses
      <2>3. G = [G1 EXCEPT ![g] = [G1[g] EXCEPT !.status = "queued"]] BY <1>5
      <2>4. G \in [Generations -> ReelRow] BY <1>5, <2>2, <2>3
      <2>5. G[g] = [G1[g] EXCEPT !.status = "queued"] /\ \A h \in Generations \ {g} : G[h] = G1[h]
        BY <1>5, <2>3
      <2> HIDE DEF G
      <2> QED BY <2>1, <2>4, <2>5 DEF ReelRow
    <1> HIDE DEF E, G, k
    <1>9. g # NoGeneration BY DEF Generations, NoGeneration
    <1>10. \A j \in Images \ {k} : E[j].generation # g
      <2>1. G1[g].status = "none" BY <1>4 DEF NoRow
      <2> QED BY <1>4, <1>7, <1>9, <2>1, GenerationIsThere
    <1>11. \A j \in Images : EntryFits(E[j], G)
      <2>1. EntryFits(E[k], G) BY <1>6, <1>7, <1>8, <1>9 DEF EntryFits
      <2>2. ASSUME NEW j \in Images \ {k} PROVE EntryFits(E[j], G)
        <3>1. EntryFits(E[j], G1) BY <1>4, <1>7 DEF ReelsFit
        <3>2. E[j].generation # NoGeneration => G[E[j].generation] = G1[E[j].generation]
          BY <1>4, <1>7, <1>8, <1>10, GenerationIsThere
        <3> QED BY <3>1, <3>2 DEF EntryFits
      <2> QED BY <2>1, <2>2
    <1>12. \A h \in Generations : RowFits(G[h])
      <2>1. RowFits(G[g]) BY <1>8 DEF RowFits
      <2> QED BY <1>4, <1>8, <2>1 DEF ReelsFit
    <1>13. \A j, l \in Images :
             E[j].generation = E[l].generation /\ E[j].generation # NoGeneration => j = l
      BY <1>4, <1>7, <1>10 DEF ReelsFit
    <1>14. ASSUME NEW h \in Generations, G[h].status # "none", ~G[h].doomed
           PROVE  \E j \in Images : E[j].generation = h
      <2>1. CASE h = g BY <1>3, <1>7, <2>1
      <2>2. CASE h # g
        <3>1. PICK j \in Images : E1[j].generation = h BY <1>4, <1>8, <1>14, <2>2 DEF ReelsFit
        <3>2. j # k BY <1>6, <3>1 DEF Generations, NoGeneration
        <3> QED BY <1>7, <3>1, <3>2
      <2> QED BY <2>1, <2>2
    <1>15. \A h, l \in Active(G) : h = l
      <2>1. \A h \in Generations \ {g} : h \notin Active(G) BY <1>2, <1>8 DEF Active
      <2> QED BY <2>1 DEF Active
    <1>16. ReelsFit(E, G) BY <1>7, <1>8, <1>11, <1>12, <1>13, <1>14, <1>15 DEF ReelsFit
    <1>17. \A j \in Images : E[j].failures > entries[j].failures =>
               Row(entries[j].generation) = [status |-> "failed", doomed |-> FALSE]
      BY <1>7, Reconciling
    <1>18. StepEnds(E, G, Age) BY <1>1 DEF E, G, k
    <1>19. RowsInv' /\ FailsOwn BY <1>2, <1>16, <1>17, <1>18, QuietEnding
    <1>20. calm + 1 >= Idle
      <2>1. calm \in Nat /\ age \in Nat /\ Idle \in Nat BY ReelsAssumption DEF ReelsInv, ClockInv
      <2>2. age <= calm + 1 BY DEF StepSubmits, Free, Up, ReelsInv, ClockInv
      <2> QED BY <1>2, <2>1, <2>2 DEF Age
    <1>21. BeginsQuiet BY <1>20 DEF BeginsQuiet
    <1> QED BY <1>19, <1>21 DEF RowsGood

LEMMA Failing == ASSUME ReelsInv, StepFails PROVE RowsGood
    <1>1. StepEnds(entries, gens, age) BY DEF StepFails
    <1>2. ReelsFit(entries, gens) /\ gens' = gens /\ requests' = requests
      BY <1>1 DEF StepEnds, ReelsInv, RowsInv
    <1>3. ReelsFit(entries', gens') /\ FailsOwn BY <1>1, <1>2, StepEnding, FailuresCompare
    <1>4. RowsInv' BY <1>2, <1>3 DEF ReelsInv, RowsInv
    <1> QED BY <1>2, <1>3, <1>4, NothingBegins DEF RowsGood

(* A request is admitted, or the process starts.                           *)
LEMMA Admitting ==
    ASSUME ReelsInv, entries' = ActivityEntries(entries, gens), gens' = ActivityRows(gens)
    PROVE  RowsGood
    <1>1. ReelsFit(entries, gens) BY DEF ReelsInv, RowsInv
    <1>2. /\ ReelsFit(entries', gens') /\ Stopping(gens')
          /\ \A k \in Images : entries'[k].failures = entries[k].failures
      BY <1>1, ActivityFits
    <1>3. FailsOwn BY <1>1, <1>2, FailuresCompare DEF FailsOwn
    <1>4. RowsInv' BY <1>2 DEF RowsInv
    <1> QED BY <1>2, <1>3, <1>4, NothingBegins DEF RowsGood

(* A generation goes on: it is taken, or it ends.                          *)
LEMMA StatusChanges ==
    ASSUME NEW E, NEW G, ReelsFit(E, G), NEW g \in Generations, G[g].status \in ActiveStatuses,
           NEW s \in {"running"} \cup TerminalStatuses
    PROVE  ReelsFit(E, [G EXCEPT ![g].status = s])
    <1> DEFINE H == [G EXCEPT ![g].status = s]
    <1>1. G \in [Generations -> ReelRow] BY DEF ReelsFit
    <1>2. /\ H \in [Generations -> ReelRow] /\ H[g].status = s /\ H[g].doomed = G[g].doomed
          /\ \A h \in Generations \ {g} : H[h] = G[h]
      BY <1>1 DEF ReelRow, ActiveStatuses, TerminalStatuses
    <1>3. s \notin {"none", "cancelling"} /\ G[g].status \notin {"none", "succeeded"}
      BY DEF ActiveStatuses, TerminalStatuses
    <1> HIDE DEF H
    <1>4. ASSUME NEW k \in Images PROVE EntryFits(E[k], H)
      <2>1. EntryFits(E[k], G) BY DEF ReelsFit
      <2>2. E[k].generation # NoGeneration => E[k].generation \in Generations
        BY GenerationIsThere
      <2> QED BY <1>2, <1>3, <2>1, <2>2 DEF EntryFits
    <1>5. \A h \in Generations : RowFits(H[h]) BY <1>2, <1>3 DEF ReelsFit, RowFits
    <1>6. \A h \in Generations :
             H[h].status # "none" /\ ~H[h].doomed => \E k \in Images : E[k].generation = h
      BY <1>2, <1>3 DEF ReelsFit
    <1>7. Active(H) \subseteq Active(G) BY <1>2 DEF Active
    <1> QED BY <1>2, <1>4, <1>5, <1>6, <1>7 DEF ReelsFit, H
LEMMA Claiming == ASSUME ReelsInv, ClaimNext PROVE RowsGood
    <1>1. ReelsFit(entries, gens) /\ requests' = requests BY DEF ReelsInv, RowsInv, ClaimNext
    <1>2. CASE Active(gens) # {} /\ work # "none"
      <2> DEFINE H == ActivityRows(gens)
      <2>1. ReelsFit(ActivityEntries(entries, gens), H) /\ Stopping(H) BY <1>1, ActivityFits
      <2>2. entries' = ActivityEntries(entries, gens) BY <1>2, Zenon DEF ClaimNext
      <2>3. \/ gens' = H
            \/ \E g \in Generations : H[g].status = "queued" /\ gens' = [H EXCEPT ![g].status = "running"]
        BY <1>2, Zenon DEF ClaimNext
      <2>4. \A g \in Generations : H[g].status # "queued"
        BY <2>1 DEF Stopping, Active, ActiveStatuses
      <2>5. gens' = H BY <2>3, <2>4
      <2> QED BY <2>2, <2>5, Admitting
    <1>3. CASE ~(Active(gens) # {} /\ work # "none")
      <2>1. entries' = entries BY <1>3, Zenon DEF ClaimNext
      <2>2. \/ gens' = gens
            \/ \E g \in Generations : gens[g].status = "queued" /\ gens' = [gens EXCEPT ![g].status = "running"]
        BY <1>3, Zenon DEF ClaimNext
      <2>3. CASE gens' = gens BY <1>1, <2>1, <2>3, RowsStay DEF rows
      <2>4. ASSUME NEW g \in Generations, gens[g].status = "queued",
                   gens' = [gens EXCEPT ![g].status = "running"]
            PROVE  RowsGood
        <3>1. ReelsFit(entries', gens')
          BY <1>1, <2>1, <2>4, StatusChanges DEF ActiveStatuses
        <3>2. g \in Active(gens) BY <2>4 DEF Active, ActiveStatuses
        <3>3. ~Stopping(gens) BY <2>4, <3>2 DEF Stopping
        <3>4. RowsInv' BY <1>1, <3>1, <3>3 DEF ReelsInv, RowsInv
        <3>5. FailsOwn BY <1>1, <2>1, FailuresCompare DEF FailsOwn
        <3>6. \A h \in Generations : gens[h].status = "none" => gens'[h].status # "queued"
          BY <1>1, <2>4 DEF ReelsFit, ReelRow
        <3> QED BY <3>4, <3>5, <3>6, NothingBegins DEF RowsGood
      <2> QED BY <2>2, <2>3, <2>4
    <1> QED BY <1>2, <1>3

LEMMA Ending == ASSUME ReelsInv, NEW g \in Generations, AttemptEnds(g) PROVE RowsGood
    <1>1. ReelsFit(entries, gens) /\ requests' = requests /\ entries' = entries
      BY DEF ReelsInv, RowsInv, AttemptEnds
    <1>2. PICK s \in TerminalStatuses : gens' = [gens EXCEPT ![g].status = s] BY DEF AttemptEnds
    <1>3. gens[g].status \in ActiveStatuses BY DEF AttemptEnds, ActiveStatuses
    <1>4. ReelsFit(entries', gens') BY <1>1, <1>2, <1>3, StatusChanges
    <1>5. gens \in [Generations -> ReelRow] BY <1>1 DEF ReelsFit
    <1>6. /\ gens'[g].status = s /\ \A h \in Generations \ {g} : gens'[h] = gens[h]
      BY <1>2, <1>5 DEF ReelRow
    <1>7. s \notin ActiveStatuses BY DEF TerminalStatuses, ActiveStatuses
    <1>8. Stopping(gens) => Stopping(gens') BY <1>6, <1>7 DEF Stopping, Active
    <1>9. RowsInv' BY <1>1, <1>4, <1>8 DEF ReelsInv, RowsInv
    <1>10. FailsOwn BY <1>1, FailuresCompare DEF FailsOwn
    <1>11. \A h \in Generations : gens[h].status = "none" => gens'[h].status # "queued"
      BY <1>3, <1>6, <1>7 DEF ActiveStatuses
    <1> QED BY <1>9, <1>10, <1>11, NothingBegins DEF RowsGood

LEMMA Cleaned == ASSUME ReelsInv, NEW g \in Generations, Cleanup(g) PROVE RowsGood
    <1>1. ReelsFit(entries, gens) /\ requests' = requests BY DEF ReelsInv, RowsInv, Cleanup
    <1>2. gens \in [Generations -> ReelRow] /\ entries \in [Images -> Entry] BY <1>1 DEF ReelsFit
    <1>3. gens[g].doomed /\ gens[g].status \in TerminalStatuses BY DEF Cleanup
    <1>4. NoRow \in ReelRow /\ NoRow.status = "none" /\ ~NoRow.doomed BY DEF NoRow, ReelRow
    <1>5. /\ gens' \in [Generations -> ReelRow] /\ gens'[g] = NoRow
          /\ \A h \in Generations \ {g} : gens'[h] = gens[h]
      <2>1. gens' = [gens EXCEPT ![g] = NoRow] BY DEF Cleanup
      <2> QED BY <1>2, <1>4, <2>1
    <1>6. g # NoGeneration BY DEF Generations, NoGeneration
    <1>7. ASSUME NEW k \in Images
          PROVE  /\ entries'[k] \in Entry /\ EntryFits(entries'[k], gens')
                 /\ entries'[k].failures = entries[k].failures
                 /\ entries'[k].generation =
                       IF entries[k].generation = g THEN NoGeneration ELSE entries[k].generation
      <2>1. entries[k] \in Entry /\ EntryFits(entries[k], gens) BY <1>1 DEF ReelsFit
      <2>2. entries'[k] = IF entries[k].generation = g
                          THEN [entries[k] EXCEPT !.generation = NoGeneration] ELSE entries[k]
        BY DEF Cleanup
      <2>3. CASE entries[k].generation = g
        <3>1. /\ entries'[k] \in Entry /\ entries'[k].generation = NoGeneration
              /\ entries'[k].state = entries[k].state /\ entries'[k].failures = entries[k].failures
          BY <2>1, <2>2, <2>3 DEF Entry
        <3>2. entries[k].state = "discarded"
          BY <1>3, <1>6, <2>1, <2>3 DEF EntryFits, Entry, EntryState
        <3> QED BY <2>1, <2>3, <3>1, <3>2 DEF EntryFits
      <2>4. CASE entries[k].generation # g
        <3>1. entries[k].generation # NoGeneration => gens'[entries[k].generation] = gens[entries[k].generation]
          BY <1>1, <1>5, <2>4, GenerationIsThere
        <3> QED BY <2>1, <2>2, <2>4, <3>1 DEF EntryFits
      <2> QED BY <2>3, <2>4
    <1>8. entries' \in [Images -> Entry] BY <1>7 DEF Cleanup
    <1>9. Active(gens') \subseteq Active(gens) /\ (Stopping(gens) => Stopping(gens'))
      BY <1>4, <1>5 DEF Active, Stopping, ActiveStatuses
    <1>10. ReelsFit(entries', gens')
      <2>1. \A h \in Generations : RowFits(gens'[h]) BY <1>1, <1>4, <1>5 DEF ReelsFit, RowFits
      <2>2. \A h \in Generations :
               gens'[h].status # "none" /\ ~gens'[h].doomed => \E k \in Images : entries'[k].generation = h
        BY <1>1, <1>4, <1>5, <1>7 DEF ReelsFit
      <2>3. \A j, k \in Images :
               entries'[j].generation = entries'[k].generation /\ entries'[j].generation # NoGeneration => j = k
        BY <1>1, <1>7 DEF ReelsFit
      <2>4. \A h, i \in Active(gens') : h = i BY <1>1, <1>9 DEF ReelsFit
      <2> QED BY <1>5, <1>7, <1>8, <2>1, <2>2, <2>3, <2>4 DEF ReelsFit
    <1>11. RowsInv' BY <1>1, <1>9, <1>10 DEF ReelsInv, RowsInv
    <1>12. FailsOwn BY <1>1, <1>7, FailuresCompare DEF FailsOwn
    <1>13. \A h \in Generations : gens[h].status = "none" => gens'[h].status # "queued"
      BY <1>4, <1>5
    <1> QED BY <1>11, <1>12, <1>13, NothingBegins DEF RowsGood

(* The settings change.  Nothing is under way that is not told to stop.    *)
LEMMA ReconciledAtOnce ==
    ASSUME ReelsInv, NEW W \in [Images -> Wanted], requests' = requests,
           entries' = ReconciledEntries(W), gens' = ReconciledRows(W)
    PROVE  RowsGood
    <1>1. ReelsFit(entries, gens) BY DEF ReelsInv, RowsInv
    <1>2. RowsInv' BY <1>1, ReconcileFits DEF ReelsInv, RowsInv
    <1>3. FailsOwn BY <1>1, ReconcileFits DEF FailsOwn
    <1>4. \A g \in Generations : gens[g].status = "none" => gens'[g].status # "queued"
      BY ReconcileBegins
    <1> QED BY <1>2, <1>3, <1>4, NothingBegins DEF RowsGood

LEMMA Disabling == ASSUME ReelsInv, NEW k \in Images, Disable(k) PROVE RowsGood
    <1>1. wanted' = [wanted EXCEPT ![k] = NoSignature] /\ requests' = requests
          /\ entries' = ReconciledEntries(wanted') /\ gens' = ReconciledRows(wanted')
      BY DEF Disable
    <1>2. wanted' \in [Images -> Wanted] BY <1>1 DEF ReelsInv, ClockInv, Wanted
    <1> QED BY <1>1, <1>2, ReconciledAtOnce

LEMMA Saving == ASSUME ReelsInv, Save PROVE RowsGood
    <1>1. ReelsFit(entries, gens) /\ Stopping(gens) BY DEF Save, In, ReelsInv, RowsInv
    <1>2. wanted' \in [Images -> Wanted] /\ requests' = requests BY DEF Save, Wanted
    <1>3. ActivityEntries(entries, gens) = entries
      <2>1. ASSUME NEW k \in Images, entries[k].state = "running"
            PROVE  entries[k].generation # NoGeneration /\ entries[k].generation \notin Active(gens)
        <3>1. EntryFits(entries[k], gens) BY <1>1 DEF ReelsFit
        <3>2. entries[k].generation # NoGeneration /\ ~gens[entries[k].generation].doomed
          BY <2>1, <3>1 DEF EntryFits
        <3>3. entries[k].generation \in Generations BY <1>1, <3>2, GenerationIsThere
        <3>4. RowFits(gens[entries[k].generation]) BY <1>1, <3>3 DEF ReelsFit
        <3> QED BY <1>1, <3>2, <3>4 DEF RowFits, Stopping
      <2>2. entries = [k \in Images |-> entries[k]] BY <1>1 DEF ReelsFit
      <2>3. \A k \in Images : ActivityEntries(entries, gens)[k] = entries[k]
        BY <2>1 DEF ActivityEntries
      <2> QED BY <2>2, <2>3 DEF ActivityEntries
    <1>4. entries' = [k \in Images |-> ReconciledEntry(ActivityEntries(entries, gens)[k], wanted'[k])]
          /\ gens' = ReconciledRows(wanted')
      BY Zenon DEF Save
    <1>5. entries' = ReconciledEntries(wanted') BY <1>3, <1>4 DEF ReconciledEntries
    <1> QED BY <1>2, <1>4, <1>5, ReconciledAtOnce
LEMMA Regenerating == ASSUME ReelsInv, NEW k \in Images, Regenerate(k) PROVE RowsGood
    <1> DEFINE g == entries[k].generation
    <1>1. ReelsFit(entries, gens) /\ requests' = requests BY DEF ReelsInv, RowsInv, Regenerate
    <1>2. gens \in [Generations -> ReelRow] /\ entries \in [Images -> Entry] BY <1>1 DEF ReelsFit
    <1>3. entries[k].state = "ready" /\ EntryFits(entries[k], gens)
      BY <1>1 DEF Regenerate, Readable, ReelsFit
    <1>4. g # NoGeneration /\ gens[g].status = "succeeded" BY <1>3 DEF EntryFits
    <1>5. g \in Generations BY <1>1, <1>4, GenerationIsThere
    <1>6. gens' = [gens EXCEPT ![g] = Given(gens[g])] BY DEF Regenerate
    <1>7. Given(gens[g]) = [gens[g] EXCEPT !.doomed = TRUE] BY <1>4 DEF Given, ActiveStatuses
    <1>8. entries' = [entries EXCEPT ![k] = [entries[k] EXCEPT
                !.state = "missing", !.generation = NoGeneration, !.failures = 0, !.waiting = FALSE]]
      BY DEF Regenerate
    <1> HIDE DEF g
    <1>9. /\ gens' \in [Generations -> ReelRow] /\ gens'[g].status = "succeeded" /\ gens'[g].doomed
          /\ \A h \in Generations \ {g} : gens'[h] = gens[h]
      <2>1. Given(gens[g]) \in ReelRow /\ Given(gens[g]).status = "succeeded" /\ Given(gens[g]).doomed
        BY <1>2, <1>4, <1>5, <1>7 DEF ReelRow
      <2> QED BY <1>2, <1>5, <1>6, <2>1
    <1>10. /\ entries' \in [Images -> Entry]
           /\ entries'[k].state = "missing" /\ entries'[k].generation = NoGeneration
           /\ entries'[k].failures = 0 /\ \A j \in Images \ {k} : entries'[j] = entries[j]
      <2> DEFINE f == [entries[k] EXCEPT
                !.state = "missing", !.generation = NoGeneration, !.failures = 0, !.waiting = FALSE]
      <2>1. f \in Entry /\ f.state = "missing" /\ f.generation = NoGeneration /\ f.failures = 0
        <3>1. entries[k] \in Entry /\ 0 \in 0 .. Attempts BY <1>2, ReelsAssumption
        <3>2. f \in Entry BY <3>1, Zenon DEF Entry, EntryState
        <3> QED BY <3>1, <3>2, Zenon DEF Entry
      <2> HIDE DEF f
      <2>2. entries' = [entries EXCEPT ![k] = f] BY <1>8 DEF f
      <2> QED BY <1>2, <2>1, <2>2
    <1>11. ASSUME NEW j \in Images \ {k}
           PROVE  /\ EntryFits(entries'[j], gens')
                  /\ entries'[j].generation # NoGeneration => entries'[j].generation # g
      <2>1. entries'[j] = entries[j] /\ EntryFits(entries[j], gens) BY <1>1, <1>10 DEF ReelsFit
      <2>2. entries[j].generation # NoGeneration => entries[j].generation # g
        BY <1>1 DEF ReelsFit, g
      <2>3. entries[j].generation # NoGeneration => gens'[entries[j].generation] = gens[entries[j].generation]
        BY <1>1, <1>9, <2>2, GenerationIsThere
      <2> QED BY <2>1, <2>2, <2>3 DEF EntryFits
    <1>12. EntryFits(entries'[k], gens')
      <2>1. Attempts # 0 BY ReelsAssumption
      <2> QED BY <1>10, <2>1 DEF EntryFits
    <1>13. Active(gens') \subseteq Active(gens) /\ (Stopping(gens) => Stopping(gens'))
      <2>1. "succeeded" \notin ActiveStatuses BY DEF ActiveStatuses
      <2> QED BY <1>9, <2>1 DEF Active, Stopping
    <1>14. ReelsFit(entries', gens')
      <2>1. \A h \in Generations : RowFits(gens'[h]) BY <1>1, <1>9 DEF ReelsFit, RowFits
      <2>2. \A h \in Generations :
               gens'[h].status # "none" /\ ~gens'[h].doomed => \E j \in Images : entries'[j].generation = h
        BY <1>1, <1>9, <1>10 DEF ReelsFit, g
      <2>3. \A j, l \in Images :
               entries'[j].generation = entries'[l].generation /\ entries'[j].generation # NoGeneration => j = l
        BY <1>1, <1>10 DEF ReelsFit
      <2>4. \A h, i \in Active(gens') : h = i BY <1>1, <1>13 DEF ReelsFit
      <2>5. \A j \in Images : EntryFits(entries'[j], gens') BY <1>11, <1>12
      <2> QED BY <1>9, <1>10, <2>1, <2>2, <2>3, <2>4, <2>5 DEF ReelsFit
    <1>15. RowsInv' BY <1>1, <1>13, <1>14 DEF ReelsInv, RowsInv
    <1>16. FailsOwn
      <2>1. \A j \in Images : entries[j].failures \in Nat /\ ~(entries[j].failures > entries[j].failures)
        BY <1>1, FailuresCompare
      <2>2. ~(entries'[k].failures > entries[k].failures) BY <1>10, <2>1
      <2> QED BY <1>10, <2>1, <2>2 DEF FailsOwn
    <1>17. \A h \in Generations : gens[h].status = "none" => gens'[h].status # "queued" BY <1>9
    <1> QED BY <1>15, <1>16, <1>17, NothingBegins DEF RowsGood

LEMMA Retrying == ASSUME ReelsInv, Retry PROVE RowsGood
    <1>1. ReelsFit(entries, gens) /\ requests' = requests /\ gens' = gens
      BY DEF ReelsInv, RowsInv, Retry
    <1>2. entries \in [Images -> Entry] BY <1>1 DEF ReelsFit
    <1>3. ASSUME NEW k \in Images
          PROVE  /\ entries'[k] \in Entry /\ EntryFits(entries'[k], gens)
                 /\ entries'[k].generation = entries[k].generation
                 /\ entries'[k].failures \in {0, entries[k].failures}
      <2>1. entries[k] \in Entry /\ EntryFits(entries[k], gens) BY <1>1, <1>2 DEF ReelsFit
      <2>2. CASE entries[k].state \in {"failed", "blocked"}
        <3>1. entries'[k] = [entries[k] EXCEPT !.failures = 0, !.waiting = FALSE, !.state = "missing"]
          BY <2>2 DEF Retry
        <3>2. /\ entries'[k] \in Entry /\ entries'[k].state = "missing" /\ entries'[k].failures = 0
              /\ entries'[k].generation = entries[k].generation
          <4>1. 0 \in 0 .. Attempts BY ReelsAssumption
          <4>2. entries'[k] \in Entry BY <2>1, <3>1, <4>1, Zenon DEF Entry, EntryState
          <4> QED BY <2>1, <3>1, <4>2, Zenon DEF Entry
        <3>3. Attempts # 0 BY ReelsAssumption
        <3> QED BY <2>1, <2>2, <3>2, <3>3 DEF EntryFits
      <2>3. CASE entries[k].state \notin {"failed", "blocked"}
        <3>1. entries'[k] = entries[k] BY <2>3 DEF Retry
        <3> QED BY <2>1, <3>1
      <2> QED BY <2>2, <2>3
    <1>4. entries' \in [Images -> Entry] BY <1>3 DEF Retry
    <1>5. ReelsFit(entries', gens')
      <2>1. \A k \in Images : EntryFits(entries'[k], gens') BY <1>1, <1>3
      <2>2. \A g \in Generations :
               gens'[g].status # "none" /\ ~gens'[g].doomed => \E k \in Images : entries'[k].generation = g
        BY <1>1, <1>3 DEF ReelsFit
      <2> QED BY <1>1, <1>3, <1>4, <2>1, <2>2 DEF ReelsFit
    <1>6. RowsInv' BY <1>1, <1>5 DEF ReelsInv, RowsInv
    <1>7. FailsOwn
      <2>1. \A k \in Images : entries[k].failures \in Nat /\ ~(entries[k].failures > entries[k].failures)
        BY <1>1, FailuresCompare
      <2>2. \A k \in Images : ~(entries'[k].failures > entries[k].failures) BY <1>3, <2>1
      <2> QED BY <2>2 DEF FailsOwn
    <1> QED BY <1>1, <1>6, <1>7, NothingBegins DEF RowsGood

LEMMA RowsStep == ASSUME ReelsInv, DemoReelsNext PROVE RowsGood
    <1>1. CASE StepBegins BY <1>1, RowsStay DEF StepBegins
    <1>2. CASE StepGivesWay BY <1>2, GivingWay
    <1>3. CASE StepWaits BY <1>3, Waiting
    <1>4. CASE StepSubmits BY <1>4, Submitting
    <1>5. CASE StepRefused BY <1>5, Refusing
    <1>6. CASE StepFails BY <1>6, Failing
    <1>7. CASE ClaimNext BY <1>7, Claiming
    <1>8. CASE WorkEnds BY <1>8, RowsStay DEF WorkEnds
    <1>9. CASE DownTime BY <1>9, RowsStay DEF DownTime
    <1>10. ASSUME NEW g \in Generations, Cleanup(g) \/ AttemptEnds(g) PROVE RowsGood
      BY <1>10, Cleaned, Ending
    <1>11. ASSUME NEW r \in Requests, RequestArrives(r) PROVE RowsGood
      <2>1. rows' = rows BY <1>11 DEF RequestArrives
      <2>2. \A s \in Requests : requests'[s] = "in" => requests[s] = "in"
        BY <1>11 DEF RequestArrives, ReelsInv, ClockInv
      <2> QED BY <2>1, <2>2, RowsStay
    <1>12. ASSUME NEW r \in Requests, RequestEnds(r) PROVE RowsGood
      <2>1. rows' = rows BY <1>12 DEF RequestEnds
      <2>2. \A s \in Requests : requests'[s] = "in" => requests[s] = "in"
        BY <1>12 DEF RequestEnds, ReelsInv, ClockInv
      <2> QED BY <2>1, <2>2, RowsStay
    <1>13. ASSUME NEW r \in Requests, Activity(r) PROVE RowsGood
      BY <1>13, Admitting DEF Activity
    <1>14. CASE RequestStartsWork BY <1>14, RowsStay DEF RequestStartsWork
    <1>15. CASE Save BY <1>15, Saving
    <1>16. CASE Retry BY <1>16, Retrying
    <1>17. ASSUME NEW k \in Images, Disable(k) \/ Regenerate(k) PROVE RowsGood
      BY <1>17, Disabling, Regenerating
    <1>18. ASSUME NEW k \in Images, CatalogChanges(k) PROVE RowsGood
      BY <1>18, RowsStay DEF CatalogChanges
    <1>19. CASE ProcessEnds BY <1>19, RowsStay DEF ProcessEnds
    <1>20. CASE Recover BY <1>20, Admitting DEF Recover
    <1> QED
      BY <1>1, <1>2, <1>3, <1>4, <1>5, <1>6, <1>7, <1>8, <1>9, <1>10, <1>11, <1>12, <1>13, <1>14,
         <1>15, <1>16, <1>17, <1>18, <1>19, <1>20 DEF DemoReelsNext, Step
-----------------------------------------------------------------------------
(* The clock.                                                              *)
LEMMA LaterCounts ==
    ASSUME NEW s \in 0 .. Idle
    PROVE  Later(s) \in 0 .. Idle /\ Later(s) <= s + 1 /\ s <= Later(s)
    BY ReelsAssumption DEF Later

LEMMA LaterOrdered ==
    ASSUME NEW s \in 0 .. Idle, NEW t \in 0 .. Idle, s <= t + 1
    PROVE  Later(s) <= Later(t) + 1
    BY ReelsAssumption DEF Later

LEMMA ClockTicks ==
    ASSUME ClockInv, NEW E, NEW G, NEW t \in 0 .. Idle, StepEnds(E, G, t),
           (calm' = Later(calm) /\ t <= calm + 1) \/ (t = 0 /\ calm' \in {0, Later(calm)})
    PROVE  ClockInv'
    <1>1. /\ wanted' = wanted /\ requests' = requests /\ work' = work /\ turn' = "none"
          /\ age' = Later(t)
      BY DEF StepEnds
    <1>2. calm \in 0 .. Idle /\ Later(calm) \in 0 .. Idle /\ Later(t) \in 0 .. Idle /\ 0 \in 0 .. Idle
      BY LaterCounts, ReelsAssumption DEF ClockInv
    <1>3. calm' \in 0 .. Idle BY <1>2
    <1>4. Later(t) <= calm' + 1
      <2>1. CASE calm' = Later(calm) /\ t <= calm + 1 BY <1>2, <2>1, LaterOrdered
      <2>2. CASE t = 0
        <3>1. Later(t) \in {0, 1} BY <2>2 DEF Later
        <3>2. calm' \in Nat BY <1>3, ReelsAssumption
        <3> QED BY <3>1, <3>2
      <2> QED BY <2>1, <2>2
    <1> QED BY <1>1, <1>2, <1>3, <1>4 DEF ClockInv, Up

LEMMA ClockStep == ASSUME ClockInv, DemoReelsNext PROVE ClockInv'
    <1>0. /\ age \in 0 .. Idle /\ calm \in 0 .. Idle /\ 0 \in 0 .. Idle /\ 0 <= calm + 1
          /\ Later(calm) \in 0 .. Idle
      BY LaterCounts, ReelsAssumption DEF ClockInv
    <1>1. CASE StepBegins BY <1>1 DEF StepBegins, ClockInv, Up
    <1>2. CASE StepGivesWay
      <2>1. StepEnds(ActivityEntries(E1, G1), ActivityRows(G1), 0) /\ calm' \in {0, Later(calm)}
        BY <1>2 DEF StepGivesWay, Meets
      <2> QED BY <1>0, <2>1, ClockTicks
    <1>3. ASSUME ~Free, ~Foreground, Meets PROVE Age \in 0 .. Idle /\ Age <= calm + 1 /\ calm' = Later(calm)
      <2>1. turn # "down" BY <1>3 DEF Free
      <2>2. age <= calm + 1 BY <2>1 DEF ClockInv, Up
      <2>3. ~Handled BY <1>3 DEF Foreground, Handled
      <2> QED BY <1>0, <1>3, <2>2, <2>3 DEF Age, Meets
    <1>4. CASE StepWaits
      <2>1. StepEnds(E1, G1, IF wasBusy THEN 0 ELSE Age) /\ ~Free /\ ~Foreground /\ Meets
        BY <1>4 DEF StepWaits
      <2>2. PICK t \in {0, Age} : StepEnds(E1, G1, t) BY <2>1
      <2> QED BY <1>0, <1>3, <2>1, <2>2, ClockTicks
    <1>5. CASE StepSubmits
      <2>1. PICK E, G : StepEnds(E, G, Age) BY <1>5 DEF StepSubmits
      <2> QED BY <1>3, <1>5, <2>1, ClockTicks DEF StepSubmits
    <1>6. CASE StepRefused
      <2>1. PICK E, G : StepEnds(E, G, Age) BY <1>6 DEF StepRefused
      <2> QED BY <1>3, <1>6, <2>1, ClockTicks DEF StepRefused
    <1>7. CASE StepFails
      <2>1. StepEnds(entries, gens, age) /\ calm' = Later(calm) BY <1>7 DEF StepFails
      <2>2. age <= calm + 1 BY <1>7 DEF StepFails, Free, ClockInv, Up
      <2> QED BY <1>0, <2>1, <2>2, ClockTicks
    <1>8. CASE ClaimNext
      <2>1. /\ UNCHANGED <<wanted, requests, turn, calm>> /\ Up /\ work' \in {work, "running"}
            /\ age' \in {0, age}
        BY <1>8 DEF ClaimNext
      <2> QED BY <1>0, <2>1 DEF ClockInv, Up
    <1>9. CASE WorkEnds BY <1>9 DEF WorkEnds, ClockInv, Up
    <1>10. CASE DownTime
      <2>1. /\ UNCHANGED <<wanted, requests, work, turn>> /\ ~Up /\ age' = Later(age)
            /\ calm' \in {0, Later(calm)}
        BY <1>10 DEF DownTime
      <2>2. age' \in 0 .. Idle /\ calm' \in 0 .. Idle BY <1>0, <2>1, LaterCounts
      <2> QED BY <2>1, <2>2 DEF ClockInv, Up
    <1>11. ASSUME NEW g \in Generations, Cleanup(g) \/ AttemptEnds(g) PROVE ClockInv'
      BY <1>11 DEF Cleanup, AttemptEnds, ClockInv, Up
    <1>12. ASSUME NEW r \in Requests, RequestArrives(r) \/ RequestEnds(r) PROVE ClockInv'
      BY <1>12 DEF RequestArrives, RequestEnds, ClockInv, Up
    <1>13. ASSUME NEW r \in Requests, Activity(r) PROVE ClockInv'
      BY <1>0, <1>13 DEF Activity, ClockInv, Up
    <1>14. CASE RequestStartsWork BY <1>14 DEF RequestStartsWork, ClockInv, Up
    <1>15. CASE Save
      <2>1. UNCHANGED <<requests, work, turn, calm>> /\ age' = 0 /\ wanted' \in [Images -> Wanted]
        BY <1>15 DEF Save, Wanted
      <2> QED BY <1>0, <2>1 DEF ClockInv, Up
    <1>16. CASE Retry BY <1>16 DEF Retry, ClockInv, Up
    <1>17. ASSUME NEW k \in Images, Disable(k) PROVE ClockInv'
      <2>1. /\ UNCHANGED <<age, requests, work, turn, calm>>
            /\ wanted' = [wanted EXCEPT ![k] = NoSignature]
        BY <1>17 DEF Disable
      <2> QED BY <2>1 DEF ClockInv, Up, Wanted
    <1>18. ASSUME NEW k \in Images, Regenerate(k) PROVE ClockInv'
      BY <1>18 DEF Regenerate, ClockInv, Up
    <1>19. ASSUME NEW k \in Images, CatalogChanges(k) PROVE ClockInv'
      <2>1. UNCHANGED <<age, requests, work, turn, calm>> BY <1>19 DEF CatalogChanges
      <2>2. PICK w \in Wanted : wanted' = [wanted EXCEPT ![k] = w] BY <1>19 DEF CatalogChanges, Wanted
      <2> QED BY <2>1, <2>2 DEF ClockInv, Up
    <1>20. CASE ProcessEnds
      <2>1. /\ UNCHANGED <<wanted, age, work, calm>> /\ turn' = "down"
            /\ requests' = [r \in Requests |-> "none"]
        BY <1>20 DEF ProcessEnds
      <2> QED BY <2>1 DEF ClockInv, Up
    <1>21. CASE Recover BY <1>0, <1>21 DEF Recover, ClockInv, Up
    <1> QED
      BY <1>1, <1>2, <1>4, <1>5, <1>6, <1>7, <1>8, <1>9, <1>10, <1>11, <1>12, <1>13, <1>14, <1>15,
         <1>16, <1>17, <1>18, <1>19, <1>20, <1>21 DEF DemoReelsNext, Step

LEMMA ReelsStep == ASSUME ReelsInv, [DemoReelsNext]_reelVars PROVE RowsGood /\ ClockInv'
    <1>1. CASE DemoReelsNext BY <1>1, RowsStep, ClockStep DEF ReelsInv
    <1>2. CASE UNCHANGED reelVars
      <2>1. UNCHANGED rows /\ UNCHANGED <<wanted, requests, work, turn, age, calm>>
        BY <1>2 DEF reelVars
      <2>2. RowsGood BY <2>1, RowsStay
      <2> QED BY <2>1, <2>2 DEF ReelsInv, ClockInv, Up
    <1> QED BY <1>1, <1>2

LEMMA ReelsBegin == ASSUME DemoReelsInit PROVE ReelsInv
    <1>1. Absent \in Entry /\ Absent.generation = NoGeneration /\ Absent.failures = 0
          /\ Absent.state = "absent"
      BY ReelsAssumption DEF Absent, Entry, EntryState, Wanted, NoGeneration
    <1>2. NoRow \in ReelRow /\ NoRow.status = "none" /\ ~NoRow.doomed BY DEF NoRow, ReelRow
    <1>3. gens = [g \in Generations |-> NoRow] /\ entries = [k \in Images |-> Absent]
          /\ \A r \in Requests : requests[r] = "none"
      BY DEF DemoReelsInit
    <1>4. gens \in [Generations -> ReelRow] /\ entries \in [Images -> Entry] BY <1>1, <1>2, <1>3
    <1>5. \A k \in Images : EntryFits(entries[k], gens)
      <2>1. Attempts # 0 BY ReelsAssumption
      <2> QED BY <1>1, <1>3, <2>1 DEF EntryFits
    <1>6. Active(gens) = {} BY <1>2, <1>3 DEF Active, ActiveStatuses
    <1>7. ReelsFit(entries, gens) BY <1>1, <1>2, <1>3, <1>4, <1>5, <1>6 DEF ReelsFit, RowFits
    <1>8. RowsInv BY <1>3, <1>7 DEF RowsInv
    <1>9. ClockInv BY ReelsAssumption DEF DemoReelsInit, ClockInv, Wanted, Up
    <1> QED BY <1>8, <1>9 DEF ReelsInv
(* The invariant that keeps the reel apart from people's work: one entry   *)
(* for each generation that is to be kept, one generation under way, which *)
(* was told to stop while a request is handled.                            *)
THEOREM ReelsInvariance == DemoReelsSpec => []ReelsInv
    <1>1. ReelsInv /\ [DemoReelsNext]_reelVars => ReelsInv'
      BY ReelsStep DEF RowsGood, ReelsInv
    <1> QED BY <1>1, ReelsBegin, PTL DEF DemoReelsSpec

LEMMA ReelsAreTyped == ReelsInv => ReelsTypeOK
    BY DEF ReelsInv, RowsInv, ClockInv, ReelsFit, EntryFits, ReelsTypeOK, Entry, EntryState, ReelRow, Wanted

LEMMA ReelsKept == ReelsInv => NothingForgotten /\ GivesWay
    <1> SUFFICES ASSUME ReelsInv PROVE NothingForgotten /\ GivesWay OBVIOUS
    <1>1. ReelsFit(entries, gens) BY DEF ReelsInv, RowsInv
    <1>2. ASSUME NEW k \in Images
          PROVE  /\ entries[k].state = "ready" => Succeeded(Row(entries[k].generation))
                 /\ entries[k].state = "discarded" /\ entries[k].generation # NoGeneration =>
                      Row(entries[k].generation).doomed
      <2>1. EntryFits(entries[k], gens) BY <1>1 DEF ReelsFit
      <2> QED BY <2>1 DEF EntryFits, Succeeded, Row
    <1>3. ASSUME NEW g \in Generations, gens[g].status # "none", ~gens[g].doomed
          PROVE  Cardinality({k \in Images : entries[k].generation = g}) = 1
      <2>1. PICK k \in Images : entries[k].generation = g BY <1>1, <1>3 DEF ReelsFit
      <2>2. g # NoGeneration BY DEF Generations, NoGeneration
      <2>3. {j \in Images : entries[j].generation = g} = {k} BY <1>1, <2>1, <2>2 DEF ReelsFit
      <2> QED BY <2>3, FS_Singleton
    <1>4. Cardinality(Active(gens)) <= 1
      <2>1. CASE Active(gens) = {}
        <3>1. Cardinality({}) = 0 BY FS_EmptySet
        <3> QED BY <2>1, <3>1
      <2>2. CASE Active(gens) # {}
        <3>1. PICK g : g \in Active(gens) BY <2>2
        <3>2. Active(gens) = {g} BY <1>1, <3>1 DEF ReelsFit
        <3>3. Cardinality({g}) = 1 BY FS_Singleton
        <3> QED BY <3>2, <3>3
      <2> QED BY <2>1, <2>2
    <1> QED BY <1>2, <1>3, <1>4 DEF NothingForgotten, GivesWay, ReelsInv, RowsInv, Stopping

(* A background image begins after a quiet time, gives way to whoever      *)
(* comes, and is kept or deleted (the step and the activity of             *)
(* services/demo_reels.py).                                                *)
THEOREM ReelsDoGiveWay == DemoReelsSpec => ReelsGiveWay
    <1>1. ReelsInv /\ [DemoReelsNext]_reelVars => FailsOwn /\ BeginsQuiet
      BY ReelsStep DEF RowsGood
    <1>2. DemoReelsSpec => [](NothingForgotten /\ GivesWay) BY ReelsInvariance, ReelsKept, PTL
    <1>3. DemoReelsSpec => [][BeginsQuiet]_reelVars
      BY <1>1, ReelsInvariance, PTL DEF DemoReelsSpec
    <1>4. DemoReelsSpec => [][FailsOwn]_reelVars
      BY <1>1, ReelsInvariance, PTL DEF DemoReelsSpec
    <1>5. DemoReelsSpec => QuietFirst BY <1>3 DEF QuietFirst, BeginsQuiet
    <1>6. DemoReelsSpec => FailuresAreItsOwn BY <1>4 DEF FailuresAreItsOwn, FailsOwn
    <1> QED BY <1>2, <1>5, <1>6, PTL DEF ReelsGiveWay

-----------------------------------------------------------------------------
(* The catalog.  A discovery reads for minutes, and what it commits must   *)
(* still be no older than what is current: it holds the lock (OneAtATime), *)
(* what it has read lies between what is current and what the instance has *)
(* (ReadInv), and the instance never goes back (CurrentInv).               *)
Pair == [manifest : Nat, api : Nat]
RefreshType == [busy : BOOLEAN, classes : BOOLEAN, listed : SUBSET (Sources \cup {"listed"}),
                todo : SUBSET Sources, at : Pair, valid : SUBSET [source : Sources, rev : Pair]]

RegistryType ==
    /\ manifest \in [Sources -> Nat] /\ api \in [Sources -> Nat]
    /\ current \in [Sources -> Pair]
    /\ classes \in BOOLEAN
    /\ health \in [state : HealthStates, available : BOOLEAN, missing : SUBSET Sources]
    /\ refresh \in [Callers -> RefreshType]

(* A manifest of version n was read before those the instance has now.     *)
Past(s, n) == n <= api[s] /\ (manifest[s] # 0 => n <= manifest[s])

(* One discovery at a time; what it has read is no older than what is      *)
(* current, and no newer than what is on the instance.                     *)
OneAtATime ==
    /\ \A c \in Callers : refresh[c].busy \/ refresh[c] = NoRefresh
    /\ \A c, d \in Callers : refresh[c].busy /\ refresh[d].busy => c = d
CurrentInv ==
    \A s \in Sources : /\ manifest[s] <= api[s]
                       /\ Past(s, current[s].manifest) /\ current[s].api <= api[s]
Newer(s, n) == n # 0 /\ Past(s, n) /\ current[s].manifest <= n
ReadInv ==
    \A c \in Callers :
        /\ refresh[c].todo \subseteq refresh[c].listed
        /\ refresh[c].at # NoRevision =>
               refresh[c].todo # {} /\ Newer(Pick(c), refresh[c].at.manifest)
        /\ \A v \in refresh[c].valid :
               /\ Newer(v.source, v.rev.manifest)
               /\ current[v.source].api <= v.rev.api /\ v.rev.api <= api[v.source]

RegistryInv == RegistryType /\ OneAtATime /\ CurrentInv /\ ReadInv /\ AvailableMeansReady

-----------------------------------------------------------------------------
LEMMA PickIs ==
    ASSUME NEW c \in Callers, refresh[c].todo # {}
    PROVE  Pick(c) \in refresh[c].todo
    BY DEF Pick

LEMMA NoRefreshIs ==
    /\ NoRefresh \in RefreshType /\ ~NoRefresh.busy /\ NoRefresh.at = NoRevision
    /\ NoRefresh.valid = {} /\ NoRefresh.todo = {} /\ NoRefresh.listed = {}
    /\ NoRevision \in Pair
    BY DEF NoRefresh, RefreshType, NoRevision, Pair

(* What the steps of a discovery make of its record.                       *)
LEMMA StartedIs ==
    ASSUME NEW r \in RefreshType
    PROVE  /\ [r EXCEPT !.busy = TRUE] \in RefreshType /\ [r EXCEPT !.busy = TRUE].busy
           /\ [r EXCEPT !.busy = TRUE].at = r.at /\ [r EXCEPT !.busy = TRUE].todo = r.todo
           /\ [r EXCEPT !.busy = TRUE].valid = r.valid /\ [r EXCEPT !.busy = TRUE].listed = r.listed
    BY DEF RefreshType

LEMMA OpenedIs ==
    ASSUME NEW r \in RefreshType, NEW a \in Pair
    PROVE  /\ [r EXCEPT !.at = a] \in RefreshType /\ [r EXCEPT !.at = a].busy = r.busy
           /\ [r EXCEPT !.at = a].at = a /\ [r EXCEPT !.at = a].todo = r.todo
           /\ [r EXCEPT !.at = a].valid = r.valid /\ [r EXCEPT !.at = a].listed = r.listed
    BY DEF RefreshType

LEMMA FailedIs ==
    ASSUME NEW r \in RefreshType, NEW s \in Sources
    PROVE  \E q \in RefreshType : /\ q = [r EXCEPT !.todo = @ \ {s}, !.at = NoRevision]
                                  /\ q.busy = r.busy /\ q.at = NoRevision /\ q.todo = r.todo \ {s}
                                  /\ q.valid = r.valid /\ q.listed = r.listed
    <1> DEFINE q == [r EXCEPT !.todo = @ \ {s}, !.at = NoRevision]
    <1>1. /\ q \in RefreshType /\ q.busy = r.busy /\ q.at = NoRevision /\ q.todo = r.todo \ {s}
          /\ q.valid = r.valid /\ q.listed = r.listed
        BY NoRefreshIs DEF RefreshType
    <1> HIDE DEF q
    <1>2. \E p \in RefreshType : /\ p = q /\ p.busy = r.busy /\ p.at = NoRevision /\ p.todo = r.todo \ {s}
                                 /\ p.valid = r.valid /\ p.listed = r.listed
        BY <1>1
    <1>3. QED
        BY <1>2 DEF q

LEMMA RevisionIs ==
    ASSUME NEW a \in Pair, NEW n \in Nat
    PROVE  /\ [a EXCEPT !.api = n] \in Pair /\ [a EXCEPT !.api = n].manifest = a.manifest
           /\ [a EXCEPT !.api = n].api = n
    BY DEF Pair

(* A discovery goes on: r is what it has become.                           *)
LEMMA GoesOn ==
    ASSUME RegistryInv, NEW c \in Callers, NEW r \in RefreshType,
           refresh' = [refresh EXCEPT ![c] = r],
           UNCHANGED <<manifest, api, classes, current, health>>,
           r.busy, r.todo \subseteq r.listed, refresh[c].busy \/ \A d \in Callers : ~refresh[d].busy,
           r.at # NoRevision => /\ r.todo # {}
                                /\ Newer(CHOOSE s \in r.todo : TRUE, r.at.manifest),
           \A v \in r.valid : /\ Newer(v.source, v.rev.manifest)
                              /\ current[v.source].api <= v.rev.api /\ v.rev.api <= api[v.source]
    PROVE  RegistryInv'
    <1>1. RegistryType /\ OneAtATime /\ CurrentInv /\ ReadInv /\ AvailableMeansReady
        BY DEF RegistryInv
    <1>2. /\ refresh' \in [Callers -> RefreshType] /\ refresh'[c] = r
          /\ \A d \in Callers : d # c => refresh'[d] = refresh[d]
        BY <1>1 DEF RegistryType
    <1>3. RegistryType'
        BY <1>1, <1>2 DEF RegistryType
    <1>4. OneAtATime'
        BY <1>1, <1>2 DEF OneAtATime
    <1>5. CurrentInv' /\ AvailableMeansReady'
        BY <1>1 DEF CurrentInv, Past, AvailableMeansReady
    <1>6. ReadInv'
        <2> SUFFICES ASSUME NEW d \in Callers
                     PROVE  /\ refresh'[d].todo \subseteq refresh'[d].listed
                            /\ refresh'[d].at # NoRevision =>
                                   /\ refresh'[d].todo # {}
                                   /\ Newer(CHOOSE s \in refresh'[d].todo : TRUE, refresh'[d].at.manifest)
                            /\ \A v \in refresh'[d].valid :
                                   /\ Newer(v.source, v.rev.manifest)
                                   /\ current[v.source].api <= v.rev.api /\ v.rev.api <= api[v.source]
            BY DEF ReadInv, Pick, Newer, Past
        <2>1. CASE d = c
            BY <1>2, <2>1
        <2>2. CASE d # c
            BY <1>1, <1>2, <2>2 DEF ReadInv, Pick
        <2>3. QED
            BY <2>1, <2>2
    <1>7. QED
        BY <1>3, <1>4, <1>5, <1>6 DEF RegistryInv

(* Discoveries end without a result, or none does; the health may change.  *)
LEMMA Drops ==
    ASSUME RegistryInv, UNCHANGED <<manifest, api, classes, current>>,
           health' \in [state : HealthStates, available : BOOLEAN, missing : SUBSET Sources],
           AvailableMeansReady',
           refresh' \in [Callers -> RefreshType],
           \A c \in Callers : refresh'[c] = refresh[c] \/ refresh'[c] = NoRefresh
    PROVE  RegistryInv'
    <1>1. RegistryType /\ OneAtATime /\ CurrentInv /\ ReadInv
        BY DEF RegistryInv
    <1>2. RegistryType' /\ CurrentInv'
        BY <1>1 DEF RegistryType, CurrentInv, Past
    <1>3. OneAtATime'
        BY <1>1, NoRefreshIs DEF OneAtATime
    <1>4. ReadInv'
        <2> SUFFICES ASSUME NEW d \in Callers
                     PROVE  /\ refresh'[d].todo \subseteq refresh'[d].listed
                            /\ refresh'[d].at # NoRevision =>
                                   /\ refresh'[d].todo # {}
                                   /\ Newer(CHOOSE s \in refresh'[d].todo : TRUE, refresh'[d].at.manifest)
                            /\ \A v \in refresh'[d].valid :
                                   /\ Newer(v.source, v.rev.manifest)
                                   /\ current[v.source].api <= v.rev.api /\ v.rev.api <= api[v.source]
            BY DEF ReadInv, Pick, Newer, Past
        <2>1. CASE refresh'[d] = NoRefresh
            BY <2>1, NoRefreshIs
        <2>2. CASE refresh'[d] = refresh[d]
            BY <1>1, <2>2 DEF ReadInv, Pick
        <2>3. QED
            BY <2>1, <2>2
    <1>5. QED
        BY <1>2, <1>3, <1>4 DEF RegistryInv

(* The instance changes: an API graph is published, then its manifest; or  *)
(* a manifest is withdrawn.                                                *)
LEMMA InstanceKeeps ==
    ASSUME RegistryInv, NEW s \in Sources, PublishApi(s) \/ PublishManifest(s) \/ Withdraw(s)
    PROVE  RegistryInv'
    <1>1. RegistryType /\ OneAtATime /\ CurrentInv /\ ReadInv /\ AvailableMeansReady
        BY DEF RegistryInv
    <1>2. manifest \in [Sources -> Nat] /\ api \in [Sources -> Nat] /\ manifest[s] <= api[s]
        BY <1>1 DEF RegistryType, CurrentInv
    <1>3. /\ manifest' \in [Sources -> Nat] /\ api' \in [Sources -> Nat]
          /\ \A t \in Sources : manifest'[t] <= api'[t] /\ api[t] <= api'[t]
          /\ \A t \in Sources : manifest'[t] = 0 \/ manifest'[t] = api[t] \/ manifest'[t] = manifest[t]
          /\ UNCHANGED <<classes, current, health, refresh>>
        <2>1. CASE PublishApi(s)
            BY <1>1, <1>2, <2>1 DEF PublishApi, CurrentInv
        <2>2. CASE PublishManifest(s)
            BY <1>1, <1>2, <2>2 DEF PublishManifest, CurrentInv
        <2>3. CASE Withdraw(s)
            BY <1>1, <1>2, <2>3 DEF Withdraw, CurrentInv
        <2>4. QED
            BY <2>1, <2>2, <2>3
    <1>4. \A t \in Sources, n \in Nat : Past(t, n) =>
              n <= api'[t] /\ (manifest'[t] # 0 => n <= manifest'[t])
        BY <1>2, <1>3 DEF Past
    <1>5. RegistryType' /\ OneAtATime' /\ AvailableMeansReady'
        BY <1>1, <1>3 DEF RegistryType, OneAtATime, AvailableMeansReady
    <1>6. CurrentInv'
        <2>1. \A t \in Sources : current[t].manifest \in Nat /\ current[t].api \in Nat
            BY <1>1 DEF RegistryType, Pair
        <2>2. \A t \in Sources : current[t].api <= api'[t]
            BY <1>1, <1>2, <1>3, <2>1 DEF CurrentInv
        <2>3. QED
            BY <1>1, <1>3, <1>4, <2>1, <2>2 DEF CurrentInv, Past
    <1>7. ReadInv'
        <2> SUFFICES ASSUME NEW c \in Callers
                     PROVE  /\ refresh[c].todo \subseteq refresh[c].listed
                            /\ refresh[c].at # NoRevision =>
                                   /\ refresh[c].todo # {}
                                   /\ Newer(Pick(c), refresh[c].at.manifest)'
                            /\ \A v \in refresh[c].valid :
                                   /\ Newer(v.source, v.rev.manifest)'
                                   /\ current[v.source].api <= v.rev.api /\ v.rev.api <= api'[v.source]
            BY <1>3 DEF ReadInv, Pick, Newer, Past
        <2>1. refresh[c] \in RefreshType
            BY <1>1 DEF RegistryType
        <2>2. ASSUME refresh[c].at # NoRevision
              PROVE  refresh[c].todo # {} /\ Newer(Pick(c), refresh[c].at.manifest)'
            <3>1. refresh[c].todo # {} /\ Newer(Pick(c), refresh[c].at.manifest)
                BY <1>1, <2>2 DEF ReadInv
            <3>2. Pick(c) \in Sources /\ refresh[c].at.manifest \in Nat
                BY <2>1, <3>1, PickIs DEF RefreshType, Pair
            <3>3. refresh'[c] = refresh[c]
                BY <1>3
            <3>4. QED
                BY <1>3, <1>4, <3>1, <3>2, <3>3 DEF Newer, Past, Pick
        <2>3. ASSUME NEW v \in refresh[c].valid
              PROVE  /\ Newer(v.source, v.rev.manifest)'
                     /\ current[v.source].api <= v.rev.api /\ v.rev.api <= api'[v.source]
            <3>1. /\ Newer(v.source, v.rev.manifest)
                  /\ current[v.source].api <= v.rev.api /\ v.rev.api <= api[v.source]
                BY <1>1 DEF ReadInv
            <3>2. v.source \in Sources /\ v.rev.manifest \in Nat /\ v.rev.api \in Nat
                BY <2>1 DEF RefreshType, Pair
            <3>3. v.rev.api <= api'[v.source]
                BY <1>2, <1>3, <3>1, <3>2
            <3>4. Newer(v.source, v.rev.manifest)'
                BY <1>3, <1>4, <3>1, <3>2 DEF Newer, Past
            <3>5. QED
                BY <3>1, <3>3, <3>4
        <2>4. refresh[c].todo \subseteq refresh[c].listed
            BY <1>1 DEF ReadInv
        <2>5. QED
            BY <2>2, <2>3, <2>4
    <1>8. QED
        BY <1>5, <1>6, <1>7 DEF RegistryInv

-----------------------------------------------------------------------------
(* A discovery starts under the lock.                                      *)
LEMMA StartKeeps ==
    ASSUME RegistryInv, NEW c \in Callers, StartRefresh(c)
    PROVE  RegistryInv'
    <1>1. RegistryType /\ ReadInv
        BY DEF RegistryInv
    <1>2. refresh[c] \in RefreshType
        BY <1>1 DEF RegistryType
    <1> DEFINE r == [refresh[c] EXCEPT !.busy = TRUE]
    <1>3. /\ r \in RefreshType /\ r.busy /\ r.at = refresh[c].at /\ r.todo = refresh[c].todo
          /\ r.valid = refresh[c].valid /\ r.listed = refresh[c].listed
        BY <1>2, StartedIs
    <1>4. /\ refresh' = [refresh EXCEPT ![c] = r]
          /\ UNCHANGED <<manifest, api, classes, current, health>>
          /\ \A d \in Callers : ~refresh[d].busy
        BY DEF StartRefresh
    <1> HIDE DEF r
    <1>5. /\ r.todo \subseteq r.listed
          /\ r.at # NoRevision => r.todo # {} /\ Newer(CHOOSE s \in r.todo : TRUE, r.at.manifest)
          /\ \A v \in r.valid : /\ Newer(v.source, v.rev.manifest)
                                /\ current[v.source].api <= v.rev.api /\ v.rev.api <= api[v.source]
        BY <1>1, <1>3 DEF ReadInv, Pick
    <1>6. QED
        BY <1>3, <1>4, <1>5, GoesOn

(* A discovery that has anything to do is the one that holds the lock.     *)
LEMMA BusyIs ==
    ASSUME RegistryInv, NEW c \in Callers
    PROVE  /\ refresh[c] \in RefreshType
           /\ refresh[c].todo # {} => refresh[c].busy
           /\ refresh[c].listed # {} => refresh[c].busy
           /\ refresh[c].at # NoRevision => refresh[c].busy
           /\ refresh[c].todo \subseteq Sources /\ refresh[c].at \in Pair
           /\ refresh[c].valid \subseteq [source : Sources, rev : Pair]
           /\ refresh[c].listed \subseteq Sources \cup {"listed"}
    <1>1. refresh[c] \in RefreshType
        BY DEF RegistryInv, RegistryType
    <1>2. refresh[c].busy \/ refresh[c] = NoRefresh
        BY DEF RegistryInv, OneAtATime
    <1>3. QED
        BY <1>1, <1>2, NoRefreshIs DEF RefreshType

LEMMA ProbeKeeps ==
    ASSUME RegistryInv, NEW c \in Callers, Probe(c)
    PROVE  RegistryInv'
    <1>1. RegistryType /\ ReadInv
        BY DEF RegistryInv
    <1>2. refresh[c] \in RefreshType
        BY BusyIs
    <1> DEFINE found == {s \in Sources : manifest[s] # 0}
    <1>3. classes \in BOOLEAN /\ found \cup {"listed"} \in SUBSET (Sources \cup {"listed"}) /\ found \in SUBSET Sources
        BY <1>1 DEF RegistryType
    <1>4. PICK r \in RefreshType :
              /\ r = [refresh[c] EXCEPT !.classes = classes, !.listed = found \cup {"listed"}, !.todo = found]
              /\ r.busy = refresh[c].busy /\ r.at = refresh[c].at
              /\ r.todo = found /\ r.valid = refresh[c].valid /\ r.listed = found \cup {"listed"}
        <2> HIDE DEF found
        <2>1. ASSUME NEW q \in RefreshType
              PROVE  \E r \in RefreshType :
                         /\ r = [q EXCEPT !.classes = classes, !.listed = found \cup {"listed"}, !.todo = found]
                         /\ r.busy = q.busy /\ r.at = q.at
                         /\ r.todo = found /\ r.valid = q.valid /\ r.listed = found \cup {"listed"}
            <3> DEFINE r == [q EXCEPT !.classes = classes, !.listed = found \cup {"listed"}, !.todo = found]
            <3>1. /\ r \in RefreshType /\ r.busy = q.busy /\ r.at = q.at
                  /\ r.todo = found /\ r.valid = q.valid /\ r.listed = found \cup {"listed"}
                BY <1>3 DEF RefreshType
            <3>2. QED
                BY <3>1
        <2>2. QED
            BY <1>2, <2>1
    <1>5. /\ refresh' = [refresh EXCEPT ![c] = r]
          /\ UNCHANGED <<manifest, api, classes, current, health>>
          /\ refresh[c].busy /\ refresh[c].listed = {}
        BY <1>4 DEF Probe
    <1>6. refresh[c].at = NoRevision
        BY <1>1, <1>5 DEF ReadInv
    <1> HIDE DEF found
    <1>7. /\ r.busy /\ r.todo \subseteq r.listed
          /\ r.at # NoRevision => r.todo # {} /\ Newer(CHOOSE s \in r.todo : TRUE, r.at.manifest)
          /\ \A v \in r.valid : /\ Newer(v.source, v.rev.manifest)
                                /\ current[v.source].api <= v.rev.api /\ v.rev.api <= api[v.source]
        BY <1>1, <1>4, <1>5, <1>6 DEF ReadInv
    <1>8. QED
        BY <1>4, <1>5, <1>7, GoesOn

(* The manifest that is read is no older than the current revision's.      *)
LEMMA ReadManifestKeeps ==
    ASSUME RegistryInv, NEW c \in Callers, ReadManifest(c)
    PROVE  RegistryInv'
    <1>1. RegistryType /\ ReadInv /\ CurrentInv
        BY DEF RegistryInv
    <1>2. refresh[c] \in RefreshType /\ refresh[c].todo # {} /\ refresh[c].busy
        BY BusyIs DEF ReadManifest
    <1>3. Pick(c) \in refresh[c].todo /\ Pick(c) \in Sources
        BY <1>2, PickIs, BusyIs
    <1> DEFINE a == [manifest |-> manifest[Pick(c)], api |-> 0]
    <1> DEFINE r == [refresh[c] EXCEPT !.at = a]
    <1>4. manifest[Pick(c)] \in Nat /\ api[Pick(c)] \in Nat /\ a \in Pair /\ a.manifest = manifest[Pick(c)]
        BY <1>1, <1>3 DEF RegistryType, Pair
    <1>5. /\ r \in RefreshType /\ r.busy = refresh[c].busy /\ r.at = a
          /\ r.todo = refresh[c].todo /\ r.valid = refresh[c].valid /\ r.listed = refresh[c].listed
        <2> HIDE DEF a
        <2> QED
            BY <1>2, <1>4, OpenedIs
    <1>6. /\ refresh' = [refresh EXCEPT ![c] = r]
          /\ UNCHANGED <<manifest, api, classes, current, health>>
          /\ manifest[Pick(c)] # 0
        BY DEF ReadManifest
    <1>7. Newer(Pick(c), manifest[Pick(c)])
        <2>1. /\ manifest[Pick(c)] <= api[Pick(c)]
              /\ current[Pick(c)].manifest <= manifest[Pick(c)]
            BY <1>1, <1>3, <1>6 DEF CurrentInv, Past
        <2>2. QED
            BY <1>4, <1>6, <2>1 DEF Newer, Past
    <1> HIDE DEF a, r
    <1>8. /\ r.busy /\ r.todo \subseteq r.listed
          /\ r.at # NoRevision => r.todo # {} /\ Newer(CHOOSE s \in r.todo : TRUE, r.at.manifest)
          /\ \A v \in r.valid : /\ Newer(v.source, v.rev.manifest)
                                /\ current[v.source].api <= v.rev.api /\ v.rev.api <= api[v.source]
        BY <1>1, <1>2, <1>4, <1>5, <1>7 DEF ReadInv, Pick
    <1>9. QED
        BY <1>2, <1>5, <1>6, <1>8, GoesOn

(* The revision that was read is no older than the current one.            *)
LEMMA ReadArtifactsKeeps ==
    ASSUME RegistryInv, NEW c \in Callers, ReadArtifacts(c)
    PROVE  RegistryInv'
    <1>1. RegistryType /\ ReadInv /\ CurrentInv
        BY DEF RegistryInv
    <1>2. /\ refresh[c] \in RefreshType /\ refresh[c].busy /\ refresh[c].at \in Pair
          /\ refresh[c].todo # {} /\ Newer(Pick(c), refresh[c].at.manifest)
        BY <1>1, BusyIs DEF ReadArtifacts, ReadInv
    <1>3. PICK s \in Sources : s = Pick(c)
        BY <1>2, PickIs, BusyIs
    <1>4. api[s] \in Nat /\ current[s].api <= api[s]
        BY <1>1 DEF RegistryType, CurrentInv
    <1> DEFINE rev == [refresh[c].at EXCEPT !.api = api[s]]
               more == IF Usable(c, s) THEN {[source |-> s, rev |-> rev]} ELSE {}
    <1>5. rev \in Pair /\ rev.manifest = refresh[c].at.manifest /\ rev.api = api[s]
        BY <1>2, <1>4, RevisionIs
    <1>6. more \in SUBSET [source : Sources, rev : Pair]
        <2> HIDE DEF rev
        <2> QED
            BY <1>5
    <1>7. PICK r \in RefreshType :
              /\ r = [refresh[c] EXCEPT !.todo = @ \ {s}, !.at = NoRevision, !.valid = @ \cup more]
              /\ r.busy = refresh[c].busy /\ r.at = NoRevision /\ r.todo = refresh[c].todo \ {s}
              /\ r.valid = refresh[c].valid \cup more /\ r.listed = refresh[c].listed
        <2> HIDE DEF rev, more
        <2>1. ASSUME NEW q \in RefreshType
              PROVE  \E r \in RefreshType :
                         /\ r = [q EXCEPT !.todo = @ \ {s}, !.at = NoRevision, !.valid = @ \cup more]
                         /\ r.busy = q.busy /\ r.at = NoRevision /\ r.todo = q.todo \ {s}
                         /\ r.valid = q.valid \cup more /\ r.listed = q.listed
            <3> DEFINE r == [q EXCEPT !.todo = @ \ {s}, !.at = NoRevision, !.valid = @ \cup more]
            <3>1. /\ r \in RefreshType
                  /\ r.busy = q.busy /\ r.at = NoRevision /\ r.todo = q.todo \ {s}
                  /\ r.valid = q.valid \cup more /\ r.listed = q.listed
                BY <1>6, NoRefreshIs DEF RefreshType
            <3>2. QED
                BY <3>1
        <2>2. QED
            BY <1>2, <2>1
    <1>8. /\ refresh' = [refresh EXCEPT ![c] = r]
          /\ UNCHANGED <<manifest, api, classes, current, health>>
        BY <1>3, <1>7 DEF ReadArtifacts
    <1>9. ASSUME NEW v \in r.valid
          PROVE  /\ Newer(v.source, v.rev.manifest)
                 /\ current[v.source].api <= v.rev.api /\ v.rev.api <= api[v.source]
        <2>1. CASE v \in refresh[c].valid
            BY <1>1, <2>1 DEF ReadInv
        <2>2. CASE v \in more
            <3>1. v.source = s /\ v.rev = rev
                <4> HIDE DEF rev
                <4> QED
                    BY <2>2
            <3> HIDE DEF rev
            <3>2. api[s] <= api[s]
                BY <1>4
            <3>3. QED
                BY <1>2, <1>3, <1>4, <1>5, <3>1, <3>2
        <2>3. QED
            BY <1>7, <2>1, <2>2
    <1>10. /\ r.busy /\ r.todo \subseteq r.listed
           /\ r.at # NoRevision => r.todo # {} /\ Newer(CHOOSE t \in r.todo : TRUE, r.at.manifest)
           /\ \A v \in r.valid : /\ Newer(v.source, v.rev.manifest)
                                 /\ current[v.source].api <= v.rev.api /\ v.rev.api <= api[v.source]
        <2> HIDE DEF rev, more
        <2> QED
            BY <1>1, <1>2, <1>7, <1>9 DEF ReadInv
    <1>11. QED
        BY <1>2, <1>8, <1>10, GoesOn

LEMMA ReadFailsKeeps ==
    ASSUME RegistryInv, NEW c \in Callers, ReadFails(c)
    PROVE  RegistryInv'
    <1>1. RegistryType /\ ReadInv
        BY DEF RegistryInv
    <1>2. refresh[c] \in RefreshType /\ refresh[c].busy
        BY BusyIs DEF ReadFails
    <1>3. PICK s \in Sources : s = Pick(c)
        BY PickIs, BusyIs DEF ReadFails
    <1>4. PICK r \in RefreshType :
              /\ r = [refresh[c] EXCEPT !.todo = @ \ {s}, !.at = NoRevision]
              /\ r.busy = refresh[c].busy /\ r.at = NoRevision /\ r.todo = refresh[c].todo \ {s}
              /\ r.valid = refresh[c].valid /\ r.listed = refresh[c].listed
        BY <1>2, FailedIs
    <1>5. /\ refresh' = [refresh EXCEPT ![c] = r]
          /\ UNCHANGED <<manifest, api, classes, current, health>>
        BY <1>3, <1>4 DEF ReadFails
    <1>6. /\ r.busy /\ r.todo \subseteq r.listed
          /\ r.at # NoRevision => r.todo # {} /\ Newer(CHOOSE t \in r.todo : TRUE, r.at.manifest)
          /\ \A v \in r.valid : /\ Newer(v.source, v.rev.manifest)
                                /\ current[v.source].api <= v.rev.api /\ v.rev.api <= api[v.source]
        BY <1>1, <1>2, <1>4 DEF ReadInv
    <1>7. QED
        BY <1>2, <1>5, <1>6, GoesOn

-----------------------------------------------------------------------------
(* What a discovery commits is what it has read and validated; a source it *)
(* has listed but not validated keeps its revision.                        *)
LEMMA CommittedIs ==
    ASSUME RegistryInv, NEW c \in Callers, NEW s \in Sources, refresh[c].listed # {}
    PROVE  /\ Committed(c, s) \in Pair
           /\ Committed(c, s) # NoRevision =>
                  /\ Past(s, Committed(c, s).manifest) /\ Committed(c, s).api <= api[s]
                  /\ current[s].manifest <= Committed(c, s).manifest
                  /\ current[s].api <= Committed(c, s).api
           /\ Committed(c, s) = NoRevision => current[s] = NoRevision \/ s \notin refresh[c].listed
    <1>1. RegistryType /\ ReadInv /\ CurrentInv
        BY DEF RegistryInv
    <1>2. current[s] \in Pair /\ current[s].manifest \in Nat /\ current[s].api \in Nat
        BY <1>1 DEF RegistryType, Pair
    <1>3. CASE Accepted(c, s) # {}
        <2>1. PICK v \in Accepted(c, s) : v = CHOOSE w \in Accepted(c, s) : TRUE
            BY <1>3
        <2>2. v \in refresh[c].valid /\ v.source = s
            BY <2>1 DEF Accepted
        <2>3. v.rev \in Pair
            BY <2>2, BusyIs
        <2>4. Committed(c, s) = v.rev
            BY <1>3, <2>1 DEF Committed, Found
        <2>5. /\ Newer(s, v.rev.manifest)
              /\ current[s].api <= v.rev.api /\ v.rev.api <= api[s]
            BY <1>1, <2>2 DEF ReadInv
        <2>6. v.rev.manifest # 0
            BY <2>5 DEF Newer
        <2>7. v.rev # NoRevision
            BY <2>6 DEF NoRevision
        <2>8. QED
            BY <2>3, <2>4, <2>5, <2>7 DEF Newer
    <1>4. CASE Accepted(c, s) = {} /\ s \in refresh[c].listed
        <2>1. Committed(c, s) = current[s]
            BY <1>4 DEF Committed
        <2>2. Past(s, current[s].manifest) /\ current[s].api <= api[s]
            BY <1>1 DEF CurrentInv
        <2>3. current[s].manifest <= current[s].manifest /\ current[s].api <= current[s].api
            BY <1>2
        <2>4. QED
            BY <1>2, <2>1, <2>2, <2>3
    <1>5. CASE Accepted(c, s) = {} /\ s \notin refresh[c].listed
        <2>1. Committed(c, s) = NoRevision
            BY <1>5 DEF Committed
        <2>2. QED
            BY <1>5, <2>1, NoRefreshIs
    <1>6. QED
        BY <1>3, <1>4, <1>5

LEMMA CommitKeeps ==
    ASSUME RegistryInv, NEW c \in Callers, CommitRefresh(c)
    PROVE  /\ RegistryInv'
           /\ \A s \in Sources : current'[s] = Committed(c, s)
           /\ refresh[c].listed # {}
    <1>1. RegistryType /\ OneAtATime /\ CurrentInv
        BY DEF RegistryInv
    <1>2. /\ refresh[c].listed # {} /\ refresh[c].busy
          /\ refresh' = [refresh EXCEPT ![c] = NoRefresh]
          /\ current' = [s \in Sources |-> Committed(c, s)]
          /\ UNCHANGED <<manifest, api, classes>>
        BY BusyIs DEF CommitRefresh, EndsRefresh
    <1>3. health' = [state |-> "ready", available |-> TRUE,
                     missing |-> {s \in Picky : current'[s] # NoRevision /\ ~refresh[c].classes}]
        BY DEF CommitRefresh
    <1>4. \A s \in Sources : current'[s] = Committed(c, s) /\ current'[s] \in Pair
        BY <1>2, CommittedIs
    <1>5. \A d \in Callers : refresh'[d] = NoRefresh
        BY <1>1, <1>2 DEF RegistryType, OneAtATime
    <1>6. RegistryType'
        <2>1. refresh' \in [Callers -> RefreshType]
            BY <1>1, <1>2, NoRefreshIs DEF RegistryType
        <2>2. current' \in [Sources -> Pair]
            BY <1>2, <1>4
        <2>3. health' \in [state : HealthStates, available : BOOLEAN, missing : SUBSET Sources]
            BY <1>3, SourcesAssumption DEF HealthStates
        <2>4. QED
            BY <1>1, <1>2, <2>1, <2>2, <2>3 DEF RegistryType
    <1>7. OneAtATime' /\ ReadInv' /\ AvailableMeansReady'
        <2>1. OneAtATime'
            BY <1>5, NoRefreshIs DEF OneAtATime
        <2>2. ReadInv'
            BY <1>5, NoRefreshIs DEF ReadInv
        <2>3. AvailableMeansReady'
            BY <1>3 DEF AvailableMeansReady
        <2>4. QED
            BY <2>1, <2>2, <2>3
    <1>8. CurrentInv'
        <2> SUFFICES ASSUME NEW s \in Sources
                     PROVE  /\ manifest[s] <= api[s]
                            /\ Past(s, current'[s].manifest) /\ current'[s].api <= api[s]
            BY <1>2 DEF CurrentInv, Past
        <2>1. manifest[s] <= api[s] /\ api[s] \in Nat /\ manifest[s] \in Nat
            BY <1>1 DEF CurrentInv, RegistryType
        <2>2. CASE current'[s] # NoRevision
            BY <1>2, <1>4, <2>1, <2>2, CommittedIs
        <2>3. CASE current'[s] = NoRevision
            BY <2>1, <2>3 DEF NoRevision, Past
        <2>4. QED
            BY <2>2, <2>3
    <1>9. QED
        BY <1>2, <1>4, <1>6, <1>7, <1>8 DEF RegistryInv

-----------------------------------------------------------------------------
(* Whatever is not a commit leaves the current revisions alone.            *)
LEMMA CatalogRestKeeps ==
    ASSUME RegistryInv,
           \/ UNCHANGED registryVars
           \/ Outage \/ ComesBack \/ RequestRefresh \/ RestartRegistry \/ HealthLoop
           \/ \E c \in Callers : NotReached(c)
    PROVE  RegistryInv' /\ UNCHANGED current
    <1>1. RegistryType /\ AvailableMeansReady
        BY DEF RegistryInv
    <1>2. refresh \in [Callers -> RefreshType] /\ classes \in BOOLEAN
          /\ health \in [state : HealthStates, available : BOOLEAN, missing : SUBSET Sources]
        BY <1>1 DEF RegistryType
    <1>3. ASSUME UNCHANGED <<manifest, api, classes, current, health, refresh>>
          PROVE  RegistryInv'
        BY <1>1, <1>2, <1>3, Drops DEF AvailableMeansReady
    <1>4. ASSUME TransportFailure
          PROVE  /\ health' \in [state : HealthStates, available : BOOLEAN, missing : SUBSET Sources]
                 /\ AvailableMeansReady'
        BY <1>2, <1>4 DEF TransportFailure, HealthStates, AvailableMeansReady
    <1>5. CASE UNCHANGED registryVars
        BY <1>3, <1>5 DEF registryVars
    <1>6. CASE Outage \/ RequestRefresh \/ HealthProbe \/ HealthDecides
        BY <1>3, <1>6 DEF Outage, RequestRefresh, HealthProbe, HealthDecides
    <1>7. CASE ComesBack
        <2>1. UNCHANGED <<manifest, api, current, health, refresh>> /\ classes' \in BOOLEAN
            BY <1>7 DEF ComesBack
        <2>2. /\ RegistryType' /\ OneAtATime' /\ CurrentInv' /\ ReadInv' /\ AvailableMeansReady'
            BY <2>1 DEF RegistryInv, RegistryType, OneAtATime, CurrentInv, Past, ReadInv, Newer, Pick,
                        AvailableMeansReady
        <2>3. QED
            BY <2>1, <2>2 DEF RegistryInv
    <1>8. CASE RecordOffline
        <2>1. UNCHANGED <<manifest, api, classes, refresh>>
            BY <1>8 DEF RecordOffline
        <2>2. UNCHANGED <<health, current>> \/ TransportFailure
            BY <1>8 DEF RecordOffline
        <2>3. CASE UNCHANGED <<health, current>>
            BY <1>3, <2>1, <2>3
        <2>4. CASE TransportFailure
            BY <1>2, <1>4, <2>1, <2>4, Drops DEF TransportFailure
        <2>5. QED
            BY <2>2, <2>3, <2>4 DEF TransportFailure
    <1>9. ASSUME NEW c \in Callers, NotReached(c)
          PROVE  RegistryInv' /\ UNCHANGED current
        <2>1. /\ UNCHANGED <<manifest, api, classes>> /\ TransportFailure
              /\ refresh' = [refresh EXCEPT ![c] = NoRefresh]
            BY <1>9 DEF NotReached, EndsRefresh
        <2>2. /\ refresh' \in [Callers -> RefreshType]
              /\ \A d \in Callers : refresh'[d] = refresh[d] \/ refresh'[d] = NoRefresh
            BY <1>2, <2>1, NoRefreshIs
        <2>3. QED
            BY <1>4, <2>1, <2>2, Drops DEF TransportFailure
    <1>10. CASE RestartRegistry
        <2>1. /\ UNCHANGED <<manifest, api, classes, current>>
              /\ refresh' = [c \in Callers |-> NoRefresh]
              /\ health' = [health EXCEPT !.state = "loading", !.available = FALSE]
            BY <1>10 DEF RestartRegistry
        <2>2. /\ refresh' \in [Callers -> RefreshType]
              /\ \A d \in Callers : refresh'[d] = refresh[d] \/ refresh'[d] = NoRefresh
            BY <2>1, NoRefreshIs
        <2>3. /\ health' \in [state : HealthStates, available : BOOLEAN, missing : SUBSET Sources]
              /\ AvailableMeansReady'
            BY <1>2, <2>1 DEF HealthStates, AvailableMeansReady
        <2>4. QED
            BY <2>1, <2>2, <2>3, Drops
    <1>11. QED
        BY <1>3, <1>5, <1>6, <1>7, <1>8, <1>9, <1>10
           DEF HealthLoop, registryVars, Outage, RequestRefresh, HealthProbe, HealthDecides, ComesBack

(* A step of a discovery.                                                  *)
LEMMA DiscoveryKeeps ==
    ASSUME RegistryInv, NEW c \in Callers,
           \/ StartRefresh(c) \/ Probe(c) \/ ReadManifest(c) \/ ReadArtifacts(c) \/ ReadFails(c)
    PROVE  RegistryInv' /\ UNCHANGED current
    <1>1. UNCHANGED current
        BY DEF StartRefresh, Probe, ReadManifest, ReadArtifacts, ReadFails
    <1>2. QED
        BY <1>1, StartKeeps, ProbeKeeps, ReadManifestKeeps, ReadArtifactsKeeps, ReadFailsKeeps

(* A step of the registry: the invariant holds, and the current revisions  *)
(* change only when a discovery commits.                                   *)
LEMMA RegistryStep ==
    ASSUME RegistryInv, [RegistryNext]_registryVars
    PROVE  RegistryInv' /\ (UNCHANGED current \/ \E c \in Callers : CommitRefresh(c))
    <1>1. CASE UNCHANGED registryVars
        BY <1>1, CatalogRestKeeps
    <1>2. ASSUME NEW s \in Sources, PublishApi(s) \/ PublishManifest(s) \/ Withdraw(s)
          PROVE  RegistryInv' /\ UNCHANGED current
        BY <1>2, InstanceKeeps DEF PublishApi, PublishManifest, Withdraw
    <1>3. CASE Outage \/ ComesBack \/ RequestRefresh \/ RestartRegistry \/ HealthLoop
        BY <1>3, CatalogRestKeeps
    <1>4. CASE Discovery
        <2>1. PICK c \in Callers :
                  \/ StartRefresh(c) \/ Probe(c) \/ NotReached(c) \/ ReadManifest(c)
                  \/ ReadArtifacts(c) \/ ReadFails(c) \/ CommitRefresh(c)
            BY <1>4 DEF Discovery
        <2>2. CASE NotReached(c)
            BY <2>2, CatalogRestKeeps
        <2>3. CASE CommitRefresh(c)
            BY <2>3, CommitKeeps
        <2>4. CASE StartRefresh(c) \/ Probe(c) \/ ReadManifest(c) \/ ReadArtifacts(c) \/ ReadFails(c)
            BY <2>4, DiscoveryKeeps
        <2>5. QED
            BY <2>1, <2>2, <2>3, <2>4
    <1>5. QED
        BY <1>1, <1>2, <1>3, <1>4 DEF RegistryNext

LEMMA RegistryStarts ==
    ASSUME RegistryInit
    PROVE  RegistryInv
    <1>1. /\ \A s \in Sources : manifest[s] = 1 /\ api[s] = 1 /\ current[s] = NoRevision
          /\ \A c \in Callers : refresh[c] = NoRefresh
        BY DEF RegistryInit
    <1>2. RegistryType
        BY NoRefreshIs DEF RegistryInit, RegistryType, HealthStates
    <1>3. OneAtATime /\ ReadInv
        BY <1>1, NoRefreshIs DEF OneAtATime, ReadInv
    <1>4. CurrentInv
        BY <1>1 DEF CurrentInv, Past, NoRevision
    <1>5. AvailableMeansReady
        BY DEF RegistryInit, AvailableMeansReady
    <1>6. QED
        BY <1>2, <1>3, <1>4, <1>5 DEF RegistryInv

-----------------------------------------------------------------------------
(* Discoveries hold the lock one at a time, and what one has read lies     *)
(* between what is current and what the instance has.                      *)
THEOREM RegistryInvariance == RegistrySpec => []RegistryInv
    <1>1. RegistryInit => RegistryInv
        BY RegistryStarts
    <1>2. RegistryInv /\ [RegistryNext]_registryVars => RegistryInv'
        BY RegistryStep
    <1>3. QED
        BY <1>1, <1>2, PTL DEF RegistrySpec

(* The catalog is called available only after a discovery that completed,  *)
(* a current revision never goes back to an older one, and a source keeps  *)
(* one until a discovery no longer finds it published.                     *)
THEOREM CatalogIsKept == RegistrySpec => CatalogKept
    <1> DEFINE Forward ==
            \A s \in Sources : current[s] # NoRevision /\ current'[s] # NoRevision =>
                current'[s].manifest >= current[s].manifest /\ current'[s].api >= current[s].api
        Published ==
            \A s \in Sources : current[s] # NoRevision /\ current'[s] = NoRevision =>
                \E c \in Callers : refresh[c].listed # {} /\ s \notin refresh[c].listed
    <1>1. RegistryInv => AvailableMeansReady
        BY DEF RegistryInv
    <1>2. ASSUME RegistryInv, [RegistryNext]_registryVars
          PROVE  Forward /\ Published
        <2>1. \A s \in Sources : /\ current[s].manifest \in Nat /\ current[s].api \in Nat
                                 /\ current'[s].manifest \in Nat /\ current'[s].api \in Nat
            BY <1>2, RegistryStep DEF RegistryInv, RegistryType, Pair
        <2>2. CASE UNCHANGED current
            BY <2>1, <2>2
        <2>3. ASSUME NEW c \in Callers, CommitRefresh(c)
              PROVE  Forward /\ Published
            <3>1. refresh[c].listed # {} /\ \A s \in Sources : current'[s] = Committed(c, s)
                BY <1>2, <2>3, CommitKeeps
            <3>2. ASSUME NEW s \in Sources, current'[s] # NoRevision
                  PROVE  current'[s].manifest >= current[s].manifest /\ current'[s].api >= current[s].api
                <4>1. current[s].manifest <= current'[s].manifest /\ current[s].api <= current'[s].api
                    BY <1>2, <3>1, <3>2, CommittedIs
                <4>2. QED
                    BY <2>1, <4>1
            <3>3. ASSUME NEW s \in Sources, current[s] # NoRevision, current'[s] = NoRevision
                  PROVE  s \notin refresh[c].listed
                BY <1>2, <3>1, <3>3, CommittedIs
            <3>4. QED
                BY <3>1, <3>2, <3>3
        <2>4. QED
            BY <1>2, <2>2, <2>3, RegistryStep
    <1>3. QED
        BY <1>1, <1>2, RegistryInvariance, PTL DEF RegistrySpec, CatalogKept, NeverOlder, KeptWhilePublished

-----------------------------------------------------------------------------
(* The types of all of them.                                               *)

(* What the invariant of the catalog leaves open.                          *)
RegistryBounds ==
    /\ manifest \in [Sources -> Versions] /\ api \in [Sources -> Versions]
    /\ waiting \subseteq Callers /\ loop \in {"rest", "online", "offline", "recording", "refreshing"}
    /\ \A c \in Callers : refresh[c].at.api = 0

LEMMA NoneIsRead ==
    NoRefresh.at.api = 0 /\ NoRevision.api = 0 /\ NoRefresh.at = NoRevision
    BY DEF NoRefresh, NoRevision

LEMMA RefreshEndsBounded ==
    ASSUME RegistryInv, RegistryBounds, NEW c \in Callers, EndsRefresh(c)
    PROVE  /\ loop' \in {"rest", "online", "offline", "recording", "refreshing"}
           /\ \A d \in Callers : refresh'[d].at.api = 0
    BY NoneIsRead DEF EndsRefresh, RegistryInv, RegistryType, RegistryBounds

LEMMA DiscoveryBounded ==
    ASSUME RegistryInv, RegistryBounds, Discovery
    PROVE  RegistryBounds'
    <1>0. refresh \in [Callers -> RefreshType] /\ UNCHANGED <<manifest, api>>
      BY DEF RegistryInv, RegistryType, Discovery, StartRefresh, Probe, NotReached, ReadManifest,
             ReadArtifacts, ReadFails, CommitRefresh
    <1>1. ASSUME NEW c \in Callers, StartRefresh(c) PROVE RegistryBounds'
      <2>1. /\ refresh' = [refresh EXCEPT ![c] = [refresh[c] EXCEPT !.busy = TRUE]]
            /\ waiting' = waiting \ {c} /\ loop' = loop
        BY <1>1 DEF StartRefresh
      <2>2. [refresh[c] EXCEPT !.busy = TRUE].at.api = 0 BY <1>0 DEF RegistryBounds, RefreshType
      <2> QED BY <1>0, <2>1, <2>2 DEF RegistryBounds
    <1>2. ASSUME NEW c \in Callers, Probe(c) PROVE RegistryBounds'
      <2> DEFINE listed == {s \in Sources : manifest[s] # 0}
                 f == [refresh[c] EXCEPT !.classes = classes, !.listed = listed \cup {"listed"}, !.todo = listed]
      <2>1. refresh' = [refresh EXCEPT ![c] = f] /\ waiting' = waiting /\ loop' = loop
        BY <1>2 DEF Probe
      <2>2. f.at.api = 0 BY <1>0 DEF RegistryBounds, RefreshType
      <2> HIDE DEF f
      <2> QED BY <1>0, <2>1, <2>2 DEF RegistryBounds
    <1>3. ASSUME NEW c \in Callers, NotReached(c) \/ CommitRefresh(c) PROVE RegistryBounds'
      <2>1. EndsRefresh(c) /\ waiting' = waiting BY <1>3 DEF NotReached, CommitRefresh
      <2> QED BY <1>0, <2>1, RefreshEndsBounded DEF RegistryBounds
    <1>4. ASSUME NEW c \in Callers, ReadManifest(c) PROVE RegistryBounds'
      <2> DEFINE f == [refresh[c] EXCEPT !.at = [manifest |-> manifest[Pick(c)], api |-> 0]]
      <2>1. refresh' = [refresh EXCEPT ![c] = f] /\ waiting' = waiting /\ loop' = loop
        BY <1>4 DEF ReadManifest
      <2>2. f.at.api = 0 BY <1>0 DEF RefreshType
      <2> HIDE DEF f
      <2> QED BY <1>0, <2>1, <2>2 DEF RegistryBounds
    <1>5. ASSUME NEW c \in Callers, ReadArtifacts(c) \/ ReadFails(c) PROVE RegistryBounds'
      <2>1. PICK f : refresh' = [refresh EXCEPT ![c] = f] /\ f.at = NoRevision
        <3>1. CASE ReadArtifacts(c)
          <4> DEFINE s == Pick(c)
                     found == [source |-> s, rev |-> [refresh[c].at EXCEPT !.api = api[s]]]
                     f == [refresh[c] EXCEPT !.todo = @ \ {s}, !.at = NoRevision,
                               !.valid = @ \cup IF Usable(c, s) THEN {found} ELSE {}]
          <4>1. refresh' = [refresh EXCEPT ![c] = f] BY <3>1 DEF ReadArtifacts
          <4>2. f.at = NoRevision BY <1>0 DEF RefreshType
          <4> HIDE DEF f
          <4> QED BY <4>1, <4>2
        <3>2. CASE ReadFails(c)
          <4> DEFINE f == [refresh[c] EXCEPT !.todo = @ \ {Pick(c)}, !.at = NoRevision]
          <4>1. refresh' = [refresh EXCEPT ![c] = f] BY <3>2 DEF ReadFails
          <4>2. f.at = NoRevision BY <1>0 DEF RefreshType
          <4> HIDE DEF f
          <4> QED BY <4>1, <4>2
        <3> QED BY <1>5, <3>1, <3>2
      <2>2. waiting' = waiting /\ loop' = loop BY <1>5 DEF ReadArtifacts, ReadFails
      <2> QED BY <1>0, <2>1, <2>2, NoneIsRead DEF RegistryBounds
    <1> QED BY <1>1, <1>2, <1>3, <1>4, <1>5 DEF Discovery

LEMMA RegistryStaysBounded ==
    ASSUME RegistryInv, RegistryBounds, [RegistryNext]_registryVars
    PROVE  RegistryBounds'
    <1>1. CASE UNCHANGED registryVars BY <1>1 DEF registryVars, RegistryBounds
    <1>2. ASSUME NEW s \in Sources, PublishApi(s) PROVE RegistryBounds'
      <2>1. api[s] \in Versions /\ api[s] < MaxVersion BY <1>2 DEF PublishApi, RegistryBounds
      <2>2. api[s] + 1 \in Versions BY <2>1, SourcesAssumption DEF Versions
      <2>3. api' = [api EXCEPT ![s] = api[s] + 1] BY <1>2 DEF PublishApi
      <2>4. api' \in [Sources -> Versions] BY <2>2, <2>3 DEF RegistryBounds
      <2> QED BY <1>2, <2>4 DEF PublishApi, RegistryBounds
    <1>3. ASSUME NEW s \in Sources, PublishManifest(s) \/ Withdraw(s) PROVE RegistryBounds'
      <2>1. 0 \in Versions BY SourcesAssumption DEF Versions
      <2>2. manifest' \in [Sources -> Versions]
        BY <1>3, <2>1 DEF PublishManifest, Withdraw, RegistryBounds
      <2> QED BY <1>3, <2>2 DEF PublishManifest, Withdraw, RegistryBounds
    <1>4. CASE Outage \/ ComesBack BY <1>4 DEF Outage, ComesBack, RegistryBounds
    <1>5. CASE RequestRefresh BY <1>5 DEF RequestRefresh, Wants, RegistryBounds, Callers
    <1>6. CASE RestartRegistry
      <2>1. refresh' = [c \in Callers |-> NoRefresh] /\ waiting' = {"startup"} /\ loop' = "rest"
            /\ UNCHANGED <<manifest, api>>
        BY <1>6 DEF RestartRegistry
      <2> QED BY <2>1, NoneIsRead DEF RegistryBounds, Callers
    <1>7. CASE Discovery BY <1>7, DiscoveryBounded
    <1>8. CASE HealthLoop
      <2>1. UNCHANGED <<manifest, api, refresh>>
        BY <1>8 DEF HealthLoop, HealthProbe, HealthDecides, RecordOffline
      <2>2. waiting' \in {waiting, waiting \cup {"health"}}
        BY <1>8 DEF HealthLoop, HealthProbe, HealthDecides, RecordOffline, Wants
      <2>3. loop' \in {"rest", "online", "offline", "recording", "refreshing"}
        BY <1>8 DEF HealthLoop, HealthProbe, HealthDecides, RecordOffline
      <2> QED BY <2>1, <2>2, <2>3 DEF RegistryBounds, Callers
    <1> QED BY <1>1, <1>2, <1>3, <1>4, <1>5, <1>6, <1>7, <1>8 DEF RegistryNext

LEMMA RegistryIsTyped ==
    ASSUME RegistryInv, RegistryBounds
    PROVE  RegistryTypeOK
    <1>1. \A s \in Sources : api[s] \in 0 .. MaxVersion /\ manifest[s] \in 0 .. MaxVersion
      BY DEF RegistryBounds, Versions
    <1>2. current \in [Sources -> Revision]
      <2>1. ASSUME NEW s \in Sources PROVE current[s] \in Revision
        <3>1. current[s] \in Pair BY DEF RegistryInv, RegistryType
        <3>2. current[s].manifest \in Nat /\ current[s].api \in Nat BY <3>1 DEF Pair
        <3>3. current[s].manifest <= api[s] /\ current[s].api <= api[s]
          BY DEF RegistryInv, CurrentInv, Past
        <3>4. current[s].manifest \in Versions /\ current[s].api \in Versions
          BY <1>1, <3>2, <3>3, SourcesAssumption DEF Versions
        <3> QED BY <3>1, <3>4 DEF Pair, Revision
      <2> QED BY <2>1 DEF RegistryInv, RegistryType
    <1>3. ASSUME NEW c \in Callers
          PROVE  /\ refresh[c].todo \subseteq refresh[c].listed /\ refresh[c].at \in Revision
                 /\ refresh[c] # NoRefresh => refresh[c].busy
      <2>1. refresh[c] \in RefreshType BY DEF RegistryInv, RegistryType
      <2>2. refresh[c].at \in Pair /\ refresh[c].todo \subseteq Sources BY <2>1 DEF RefreshType
      <2>3. refresh[c].at.api = 0 BY DEF RegistryBounds
      <2>4. 0 \in Versions BY SourcesAssumption DEF Versions
      <2>5. CASE refresh[c].at = NoRevision BY <2>4, <2>5 DEF NoRevision, Revision, RegistryInv, ReadInv, OneAtATime
      <2>6. CASE refresh[c].at # NoRevision
        <3>1. refresh[c].todo # {} /\ Newer(Pick(c), refresh[c].at.manifest)
          BY <2>6 DEF RegistryInv, ReadInv
        <3>2. Pick(c) \in Sources BY <2>2, <3>1, PickIs
        <3>3. refresh[c].at.manifest <= api[Pick(c)] /\ refresh[c].at.manifest \in Nat
          BY <2>2, <3>1 DEF Newer, Past, Pair
        <3>4. refresh[c].at.manifest \in Versions
          BY <1>1, <3>2, <3>3, SourcesAssumption DEF Versions
        <3>5. refresh[c].at \in Revision BY <2>2, <2>3, <2>4, <3>4 DEF Pair, Revision
        <3> QED BY <3>5 DEF RegistryInv, ReadInv, OneAtATime
      <2> QED BY <2>5, <2>6
    <1> QED BY <1>2, <1>3 DEF RegistryTypeOK, RegistryBounds, RegistryInv, RegistryType

ServicesInv ==
    /\ SafeInv /\ ReelsInv /\ RegistryInv /\ RegistryBounds
    /\ focus \in {"lora", "reels", "catalog"}

(* The operation and its coroutine, the entries and rows of the reels and  *)
(* the catalog keep their types.                                           *)
THEOREM ServicesTypes == FocusSpec => []TypesOK
    <1>1. FocusInit => ServicesInv
      <2> SUFFICES ASSUME FocusInit PROVE ServicesInv OBVIOUS
      <2>1. Init /\ DemoReelsInit /\ RegistryInit /\ focus \in {"lora", "reels", "catalog"}
        BY DEF FocusInit
      <2>2. RegistryBounds
        <3>1. 1 \in Versions BY SourcesAssumption DEF Versions
        <3>2. /\ manifest = [s \in Sources |-> 1] /\ api = [s \in Sources |-> 1]
              /\ waiting = {"startup"} /\ loop = "rest" /\ refresh = [c \in Callers |-> NoRefresh]
          BY <2>1 DEF RegistryInit
        <3> QED BY <3>1, <3>2, NoneIsRead DEF RegistryBounds, Callers
      <2> QED BY <2>1, <2>2, StartsSafe, ReelsBegin, RegistryStarts DEF ServicesInv
    <1>2. ServicesInv /\ [FocusNext]_allVars => ServicesInv'
      <2> SUFFICES ASSUME ServicesInv, [FocusNext]_allVars PROVE ServicesInv' OBVIOUS
      <2>1. [Next]_vars /\ [DemoReelsNext]_reelVars /\ [RegistryNext]_registryVars /\ focus' = focus
        BY Zenon DEF FocusNext, OfL, OfD, OfC, allVars
      <2> QED BY <2>1, StepKeeps, ReelsStep, RegistryStep, RegistryStaysBounded
              DEF ServicesInv, RowsGood, ReelsInv
    <1>3. ServicesInv => TypesOK
      <2> SUFFICES ASSUME ServicesInv PROVE TypesOK OBVIOUS
      <2>1. TypeOK /\ ReelsTypeOK /\ RegistryTypeOK
        BY SafeIsTyped, ReelsAreTyped, RegistryIsTyped DEF ServicesInv
      <2> QED BY <2>1 DEF ServicesInv, TypesOK
    <1> QED BY <1>1, <1>2, <1>3, PTL DEF FocusSpec
=============================================================================
