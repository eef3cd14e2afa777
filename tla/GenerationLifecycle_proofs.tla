--------------------- MODULE GenerationLifecycle_proofs ---------------------
(***************************************************************************)
(* Proofs about GenerationLifecycle for every set of generations and       *)
(* instances, every deployment and every number of prompts and faults.     *)
(***************************************************************************)
EXTENDS LifecycleInvariant, TLAPS

-----------------------------------------------------------------------------
(* Type correctness.                                                       *)

(* Whatever a transaction does to a row, the result is a row.              *)
LEMMA RowsStayRows ==
    /\ \A r \in Row, b \in BOOLEAN : CancelRow(r, b) \in Row
    /\ \A r \in Row, i \in Instances : ClaimedRow(r, i) \in Row
    /\ \A r \in Row, p \in Prompts \cup {NoPrompt}, b \in BOOLEAN : MarkedRow(r, p, b) \in Row
    /\ \A r \in Row : /\ ReleasedRow(r) \in Row
                      /\ RequeuedRow(r) \in Row
                      /\ FailedRow(r) \in Row
                      /\ RetryRow(r) \in Row
                      /\ UnsentRow(r) \in Row
                      /\ SentRow(r) \in Row
    /\ \A r \in Row, b \in BOOLEAN, f \in Failures : ArchivedRow(r, b, f) \in Row
    /\ \A r \in Row, out \in Outcomes \ {"none"} : FinalStatus(r, out) \in Terminal
    /\ \A r \in Row, st \in Statuses : [r EXCEPT !.st = st] \in Row
    <1> USE DEF Row, Statuses, InFlight, Terminal, NoRow, Failures
    <1>1. \A r \in Row, b \in BOOLEAN : CancelRow(r, b) \in Row
        BY DEF CancelRow
    <1>2. \A r \in Row, i \in Instances : ClaimedRow(r, i) \in Row
        BY DEF ClaimedRow
    <1>3. ASSUME NEW r \in Row, NEW p \in Prompts \cup {NoPrompt}, NEW b \in BOOLEAN
          PROVE  MarkedRow(r, p, b) \in Row
        BY DEF MarkedRow
    <1>4. \A r \in Row : RequeuedRow(r) \in Row
        BY DEF RequeuedRow
    <1>5. \A r \in Row : RetryRow(r) \in Row
        BY <1>4 DEF RetryRow, NoPrompt
    <1>6. \A r \in Row : ReleasedRow(r) \in Row /\ FailedRow(r) \in Row /\ UnsentRow(r) \in Row
        BY DEF ReleasedRow, FailedRow, UnsentRow
    <1>7. \A r \in Row, out \in Outcomes \ {"none"} : FinalStatus(r, out) \in Terminal
        BY DEF FinalStatus, Outcomes
    <1>8. \A r \in Row, st \in Statuses : [r EXCEPT !.st = st] \in Row
        OBVIOUS
    <1>9. \A r \in Row : SentRow(r) \in Row
        BY DEF SentRow
    <1>10. ASSUME NEW r \in Row, NEW b \in BOOLEAN, NEW f \in Failures
           PROVE  ArchivedRow(r, b, f) \in Row
        <2> DEFINE q == [r EXCEPT !.arts = r.arts \/ b]
        <2>1. (r.arts \/ b) \in BOOLEAN
            OBVIOUS
        <2>2. \A c \in BOOLEAN : [r EXCEPT !.arts = c] \in Row
            BY Zenon
        <2>3. q \in Row
            BY <2>1, <2>2
        <2>4. ArchivedRow(r, b, f) = [q EXCEPT !.fails = f]
            BY Zenon DEF ArchivedRow
        <2> HIDE DEF q
        <2>5. QED
            BY <2>3, <2>4
    <1>11. QED
        BY <1>1, <1>2, <1>3, <1>4, <1>5, <1>6, <1>7, <1>8, <1>9, <1>10

LEMMA FixedRecords ==
    /\ AcceptedRow \in Row /\ AbsentRow \in Row /\ DeletedRow \in Row
    /\ \A i \in Instances : LegacyRow(i) \in Row
    /\ Idle \in Task /\ NoClaim \in Claim /\ NoPlan \in Plan /\ Unused \in Native
    BY DEF AcceptedRow, AbsentRow, DeletedRow, LegacyRow, Row, Statuses, InFlight, Terminal,
           NoRow, Failures, NoPrompt, Idle, Task, Pcs, Outcomes, NoClaim, Claim, NoPlan, Plan,
           Unused, Native

(* A cancel request leaves ComfyUI's prompts what they are.                *)
LEMMA CancelKeepsNative ==
    ASSUME native \in [Prompts -> Native], NEW p, CancelsNative(p)
    PROVE  native' \in [Prompts -> Native]
    <1>1. CASE native' = native
        BY <1>1
    <1>2. ASSUME NEW known \in BOOLEAN, p \in Prompts,
                 native' = [native EXCEPT ![p] = [@ EXCEPT !.st = "cancelled", !.known = known]]
          PROVE  native' \in [Prompts -> Native]
        <2> DEFINE n == [native[p] EXCEPT !.st = "cancelled", !.known = known]
        <2>1. native[p] \in Native
            BY <1>2
        <2>2. n \in Native
            BY <2>1 DEF Native
        <2>3. native' = [native EXCEPT ![p] = n]
            BY <1>2
        <2>4. QED
            BY <2>2, <2>3
    <1>3. CASE p \notin Prompts
        BY <1>3 DEF CancelsNative
    <1>4. QED
        BY <1>1, <1>2, <1>3 DEF CancelsNative

LEMMA TypeHandlers ==
    ASSUME TypeOK, Handlers
    PROVE  TypeOK'
    <1> USE ConstantsAssumption, FixedRecords DEF TypeOK
    <1>1. ASSUME NEW g \in Gens, Accept(g) \/ CancelQueued(g) \/ DeleteTerminal(g)
          PROVE  TypeOK'
        BY <1>1 DEF Accept, CancelQueued, DeleteTerminal
    <1>2. ASSUME NEW g \in Gens, NEW deleting \in BOOLEAN, RequestCancel(g, deleting)
          PROVE  TypeOK'
        <2>1. CancelRow(row[g], deleting) \in Row
            BY RowsStayRows
        <2>2. row[g].prompt \in Prompts \cup {NoPrompt}
            BY DEF Row
        <2>3. QED
            BY <1>2, <2>1, <2>2 DEF RequestCancel
    <1>3. ASSUME NEW p \in Prompts, NotifyCancel(p)
          PROVE  TypeOK'
        <2>1. native' \in [Prompts -> Native]
            BY <1>3, CancelKeepsNative DEF NotifyCancel
        <2>2. faults' \in 0 .. MaxFaults
            BY <1>3 DEF NotifyCancel, Fault, NoFault
        <2>3. QED
            BY <1>3, <2>1, <2>2 DEF NotifyCancel
    <1>4. CASE MarkAccountDeleting
        <2>1. row' \in [Gens -> Row]
            BY <1>4 DEF MarkAccountDeleting, Row, Statuses, InFlight, Terminal
        <2>2. notices' \subseteq Prompts
            BY <1>4 DEF MarkAccountDeleting, Row
        <2>3. QED
            BY <1>4, <2>1, <2>2 DEF MarkAccountDeleting
    <1>5. CASE RemoveAccount
        BY <1>5 DEF RemoveAccount
    <1>6. QED
        BY <1>1, <1>2, <1>3, <1>4, <1>5 DEF Handlers

LEMMA TypeDispatcher ==
    ASSUME TypeOK, Dispatcher
    PROVE  TypeOK'
    <1> USE ConstantsAssumption, FixedRecords DEF TypeOK
    <1>1. ASSUME NEW i \in Instances, NEW g \in Gens, ClaimNext(i, g)
          PROVE  TypeOK'
        <2>1. ClaimedRow(row[g], i) \in Row
            BY RowsStayRows
        <2>2. QED
            BY <1>1, <2>1 DEF ClaimNext, Claim
    <1>2. CASE StartTask
        <2>1. NewTask("loading", disp.inst, "task") \in Task
            BY DEF NewTask, Idle, Task, Pcs, Claim
        <2>2. QED
            BY <1>2, <2>1 DEF StartTask
    <1>3. CASE RequeueClaimRead
        BY <1>3 DEF RequeueClaimRead, Claim
    <1>4. CASE RequeueClaimWrite
        <2>1. \A h \in Gens : RequeuedRow(row[h]) \in Row
            BY RowsStayRows
        <2>2. QED
            BY <1>4, <2>1 DEF RequeueClaimWrite
    <1>5. QED
        BY <1>1, <1>2, <1>3, <1>4 DEF Dispatcher

(* A new executor.                                                         *)
LEMMA NewTasks ==
    ASSUME NEW pc \in Pcs, NEW i \in Instances \cup {NoInst}, NEW ctx \in {"task", "held", "startup"}
    PROVE  NewTask(pc, i, ctx) \in Task
    BY DEF NewTask, Idle, Task, Outcomes, NoPrompt

(* An executor moves from one of its stages to another.                    *)
LEMMA TasksStayTasks ==
    ASSUME task \in [Gens -> Task], NEW g \in Gens
    PROVE  /\ \A pc \in Pcs : Goto(g, pc) => task' \in [Gens -> Task]
           /\ \A pc \in Pcs, b \in BOOLEAN : GotoWith(g, pc, b) => task' \in [Gens -> Task]
           /\ \A out \in Outcomes : Finalizing(g, out) => task' \in [Gens -> Task]
           /\ End(g) => task' \in [Gens -> Task]
    <1>1. \A pc \in Pcs : Goto(g, pc) => task' \in [Gens -> Task]
        BY DEF Goto, Task
    <1>2. ASSUME NEW pc \in Pcs, NEW b \in BOOLEAN, GotoWith(g, pc, b)
          PROVE  task' \in [Gens -> Task]
        <2> DEFINE t == [task[g] EXCEPT !.pc = pc, !.seen = b]
        <2>1. t \in Task
            BY DEF Task
        <2>2. task' = [task EXCEPT ![g] = t]
            BY <1>2 DEF GotoWith
        <2>3. QED
            BY <2>1, <2>2
    <1>3. ASSUME NEW out \in Outcomes, Finalizing(g, out)
          PROVE  task' \in [Gens -> Task]
        <2> DEFINE t == [task[g] EXCEPT !.pc = "finalizing", !.out = out]
        <2>1. t \in Task
            BY DEF Task, Pcs
        <2>2. task' = [task EXCEPT ![g] = t]
            BY <1>3 DEF Finalizing
        <2>3. QED
            BY <2>1, <2>2
    <1>4. ASSUME End(g)
          PROVE  task' \in [Gens -> Task]
        <2>1. task[g].inst \in Instances \cup {NoInst} /\ task[g].ctx \in {"task", "held", "startup"}
            BY DEF Task
        <2>2. NewTask("ending", task[g].inst, task[g].ctx) \in Task
            BY <2>1, NewTasks DEF Pcs
        <2>3. Ended(task[g]) \in Task
            BY <2>2, FixedRecords DEF Ended
        <2>4. QED
            BY <1>4, <2>3 DEF End
    <1>5. QED
        BY <1>1, <1>2, <1>3, <1>4

LEMMA TypeExecute ==
    ASSUME TypeOK, NEW g \in Gens, Execute(g)
    PROVE  TypeOK'
    <1> USE ConstantsAssumption DEF TypeOK
    <1>0. /\ \A out \in {"cancelled"} : out \in Outcomes
          /\ {"saving", "submitting", "accepted", "marking", "cancelling", "monitoring",
              "requeueRead", "failRead"} \subseteq Pcs
        BY DEF Outcomes, Pcs
    <1>1. CASE LoadExecution(g)
        <2>1. task' \in [Gens -> Task]
            BY <1>1, <1>0, TasksStayTasks DEF LoadExecution
        <2>2. QED
            BY <1>1, <2>1 DEF LoadExecution
    <1>2. CASE SaveGraph(g)
        <2>1. task' \in [Gens -> Task]
            BY <1>2, <1>0, TasksStayTasks DEF SaveGraph, MaterializeFails
        <2>2. faults' \in 0 .. MaxFaults
            BY <1>2 DEF SaveGraph, MaterializeFails, Fault, NoFault
        <2>3. QED
            BY <1>2, <2>1, <2>2 DEF SaveGraph, MaterializeFails
    <1>3. CASE SubmitAccepted(g)
        <2>1. PICK p \in Prompts : /\ AcceptNative(g, p)
                                   /\ task' = [task EXCEPT ![g] = [@ EXCEPT !.pc = "accepted",
                                                                            !.prompt = p]]
            BY <1>3 DEF SubmitAccepted
        <2> DEFINE t == [task[g] EXCEPT !.pc = "accepted", !.prompt = p]
        <2>2. t \in Task
            <3>1. task[g] \in Task
                OBVIOUS
            <3>2. QED
                BY <3>1 DEF Task, Pcs
        <2>3. native' \in [Prompts -> Native]
            BY <2>1 DEF AcceptNative, Native, Task
        <2>4. task' = [task EXCEPT ![g] = t]
            BY <2>1
        <2>5. QED
            BY <1>3, <2>2, <2>3, <2>4 DEF SubmitAccepted
    <1>4. CASE SubmitFails(g)
        <2>1. task' \in [Gens -> Task]
            BY <1>4, <1>0, TasksStayTasks DEF SubmitFails, AmbiguousNext
        <2>2. faults' \in 0 .. MaxFaults
            BY <1>4 DEF SubmitFails, Fault, NoFault
        <2>3. \A p \in Prompts : AcceptNative(g, p) => native' \in [Prompts -> Native]
            BY DEF AcceptNative, Native, Task
        <2>4. native' \in [Prompts -> Native]
            BY <1>4, <2>3 DEF SubmitFails
        <2>5. QED
            BY <1>4, <2>1, <2>2, <2>4 DEF SubmitFails
    <1>5. CASE MarkRead(g)
        <2>1. task' \in [Gens -> Task]
            BY <1>5, <1>0, TasksStayTasks DEF MarkRead
        <2>2. QED
            BY <1>5, <2>1 DEF MarkRead
    <1>6. CASE MarkWrite(g)
        <2>1. task' \in [Gens -> Task]
            BY <1>6, <1>0, TasksStayTasks DEF MarkWrite
        <2>2. MarkedRow(row[g], task[g].prompt, task[g].seen) \in Row
            BY RowsStayRows DEF Task
        <2>3. QED
            BY <1>6, <2>1, <2>2 DEF MarkWrite
    <1>7. CASE CancelSubmitted(g)
        <2>1. task' \in [Gens -> Task]
            BY <1>7, <1>0, TasksStayTasks DEF CancelSubmitted
        <2>2. native' \in [Prompts -> Native]
            BY <1>7, CancelKeepsNative DEF CancelSubmitted
        <2>3. faults' \in 0 .. MaxFaults
            BY <1>7 DEF CancelSubmitted, Fault, NoFault
        <2>4. QED
            BY <1>7, <2>1, <2>2, <2>3 DEF CancelSubmitted
    <1>8. QED
        BY <1>1, <1>2, <1>3, <1>4, <1>5, <1>6, <1>7 DEF Execute


LEMMA TypeMonitor ==
    ASSUME TypeOK, NEW g \in Gens, Monitor(g)
    PROVE  TypeOK'
    <1> USE ConstantsAssumption DEF TypeOK
    <1>0. {"sending", "monitoring"} \subseteq Pcs /\ "interrupted" \in Outcomes
        BY DEF Pcs, Outcomes
    <1>1. CASE ArchiveOutput(g)
        <2>1. ArchivedRow(row[g], TRUE, row[g].fails) \in Row
            BY RowsStayRows DEF Row
        <2>2. QED
            BY <1>1, <2>1 DEF ArchiveOutput
    <1>2. CASE MarkCancelSent(g)
        <2>1. SentRow(row[g]) \in Row
            BY RowsStayRows
        <2>2. task' \in [Gens -> Task]
            BY <1>2, <1>0, TasksStayTasks DEF MarkCancelSent
        <2>3. QED
            BY <1>2, <2>1, <2>2 DEF MarkCancelSent
    <1>3. CASE SendCancel(g)
        <2>1. task' \in [Gens -> Task]
            BY <1>3, <1>0, TasksStayTasks DEF SendCancel
        <2>2. native' \in [Prompts -> Native]
            BY <1>3, CancelKeepsNative DEF SendCancel
        <2>3. faults' \in 0 .. MaxFaults
            BY <1>3 DEF SendCancel, Fault, NoFault
        <2>4. UnsentRow(row[g]) \in Row
            BY RowsStayRows
        <2>5. row' \in [Gens -> Row]
            BY <1>3, <2>4 DEF SendCancel
        <2>6. QED
            BY <1>3, <2>1, <2>2, <2>3, <2>5 DEF SendCancel
    <1>4. CASE ObserveTerminal(g)
        <2>1. OutcomeOf(task[g].prompt) \in Outcomes
            BY DEF OutcomeOf, Outcomes
        <2>2. task' \in [Gens -> Task]
            BY <1>4, <2>1, TasksStayTasks DEF ObserveTerminal
        <2>3. QED
            BY <1>4, <2>2 DEF ObserveTerminal
    <1>5. CASE ObserveMissing(g)
        <2>1. task' \in [Gens -> Task]
            BY <1>5, <1>0, TasksStayTasks DEF ObserveMissing
        <2>2. QED
            BY <1>5, <2>1 DEF ObserveMissing
    <1>6. QED
        BY <1>1, <1>2, <1>3, <1>4, <1>5 DEF Monitor

LEMMA TypeSettle ==
    ASSUME TypeOK, NEW g \in Gens, OutcomeKnown(g), Settle(g)
    PROVE  TypeOK'
    <1> USE ConstantsAssumption, FixedRecords DEF TypeOK
    <1>0. /\ {"finalizing", "persisted", "resetting", "deleting", "ending", "requeueWrite",
               "failWrite"} \subseteq Pcs
          /\ "cancelled" \in Outcomes
        BY DEF Pcs, Outcomes
    <1>1. CASE PersistFiles(g)
        <2>1. task' \in [Gens -> Task]
            BY <1>1, <1>0, TasksStayTasks DEF PersistFiles
        <2>2. CASE row' = row /\ faults' = faults
            BY <1>1, <2>1, <2>2 DEF PersistFiles
        <2>3. CASE row[g].st \notin NoRow \cup Terminal
            <3>1. PICK archived \in BOOLEAN, f \in Failures :
                     /\ CASE f = "none"   -> NoFault
                          [] f = "absent" -> Fault("absent")
                          [] f = "other"  -> Fault("archive")
                     /\ row' = [row EXCEPT ![g] = ArchivedRow(row[g], archived, f)]
                BY <1>1, <2>3 DEF PersistFiles
            <3>2. row' \in [Gens -> Row]
                BY <3>1, RowsStayRows
            <3>3. NoFault \/ Fault("absent") \/ Fault("archive")
                BY <3>1 DEF Failures
            <3>4. faults' \in 0 .. MaxFaults
                BY <3>3 DEF Fault, NoFault
            <3>5. QED
                BY <1>1, <2>1, <3>2, <3>4 DEF PersistFiles
        <2>4. QED
            BY <1>1, <2>2, <2>3 DEF PersistFiles
    <1>2. CASE CommitFinalization(g)
        <2>1. task' \in [Gens -> Task]
            BY <1>2, <1>0, TasksStayTasks DEF CommitFinalization, Leave
        <2>2. RetryRow(row[g]) \in Row
            BY RowsStayRows
        <2>3. task[g].out \in Outcomes \ {"none"}
            BY <1>2 DEF CommitFinalization, At, OutcomeKnown, Task
        <2>4. FinalStatus(row[g], task[g].out) \in Statuses
            BY <2>3, RowsStayRows DEF Statuses
        <2>5. [row[g] EXCEPT !.st = FinalStatus(row[g], task[g].out)] \in Row
            BY <2>4, RowsStayRows
        <2>6. row' \in [Gens -> Row]
            BY <1>2, <2>2, <2>5 DEF CommitFinalization
        <2>7. QED
            BY <1>2, <2>1, <2>6 DEF CommitFinalization
    <1>3. CASE ResetExecutionCache(g)
        BY <1>3, TasksStayTasks DEF ResetExecutionCache
    <1>4. CASE DeleteTerminalIfPresent(g)
        <2>1. task' \in [Gens -> Task]
            BY <1>4, TasksStayTasks DEF DeleteTerminalIfPresent
        <2>2. QED
            BY <1>4, <2>1 DEF DeleteTerminalIfPresent
    <1>5. CASE RequeueRead(g)
        <2>1. task' \in [Gens -> Task]
            BY <1>5, <1>0, TasksStayTasks DEF RequeueRead
        <2>2. QED
            BY <1>5, <2>1 DEF RequeueRead
    <1>6. CASE RequeueWrite(g)
        <2>1. task' \in [Gens -> Task]
            BY <1>6, TasksStayTasks DEF RequeueWrite
        <2>2. RequeuedRow(row[g]) \in Row
            BY RowsStayRows
        <2>3. QED
            BY <1>6, <2>1, <2>2 DEF RequeueWrite
    <1>7. CASE FailRead(g)
        <2>1. row[g].pend \in BOOLEAN
            BY DEF Row
        <2>2. task' \in [Gens -> Task]
            BY <1>7, <1>0, <2>1, TasksStayTasks DEF FailRead
        <2>3. QED
            BY <1>7, <2>2 DEF FailRead
    <1>8. CASE FailWrite(g)
        <2>1. task' \in [Gens -> Task]
            BY <1>8, <1>0, TasksStayTasks DEF FailWrite
        <2>2. FailedRow(row[g]) \in Row
            BY RowsStayRows
        <2>3. QED
            BY <1>8, <2>1, <2>2 DEF FailWrite
    <1>9. CASE TaskDone(g)
        BY <1>9 DEF TaskDone
    <1>10. QED
        BY <1>1, <1>2, <1>3, <1>4, <1>5, <1>6, <1>7, <1>8, <1>9 DEF Settle

(* The recovery plan names generations and the prompts their rows record.  *)
LEMMA PlansArePlans ==
    ASSUME TypeOK
    PROVE  /\ InFlightPlan.requeue \in SUBSET Gens
           /\ InFlightPlan.cancelled \in SUBSET Gens
           /\ InFlightPlan.jobs \in SUBSET Job
           /\ WritePlan \in Plan
    <1> USE DEF TypeOK
    <1>1. InFlightPlan.requeue \in SUBSET Gens /\ InFlightPlan.cancelled \in SUBSET Gens
        BY DEF InFlightPlan
    <1>2. InFlightPlan.jobs \in SUBSET Job
        <2>1. SUFFICES ASSUME NEW g \in Gens, ~Unsubmitted(g), row[g].st \in InFlight
                       PROVE  [gen |-> g, inst |-> row[g].inst, prompt |-> row[g].prompt] \in Job
            BY DEF InFlightPlan
        <2>2. row[g] \in Row /\ row[g].prompt # NoPrompt
            BY <2>1 DEF Unsubmitted
        <2>3. row[g].inst \in Instances \cup {NoInst} /\ row[g].prompt \in Prompts
            BY <2>2 DEF Row
        <2>4. QED
            BY <2>3 DEF Job
    <1>3. WritePlan \in Plan
        <2>1. CASE rec.release \cup rec.unconfigured = {}
            BY <2>1 DEF WritePlan
        <2>2. CASE rec.release \cup rec.unconfigured # {}
            <3> DEFINE f == InFlightPlan
                       w == [rec EXCEPT !.requeue = f.requeue, !.cancelled = f.cancelled,
                                        !.jobs = f.jobs]
            <3>1. WritePlan = w
                BY <2>2 DEF WritePlan
            <3> HIDE DEF f
            <3>2. f.requeue \in SUBSET Gens /\ f.cancelled \in SUBSET Gens /\ f.jobs \in SUBSET Job
                BY <1>1, <1>2 DEF f
            <3>3. rec \in Plan
                OBVIOUS
            <3>4. w \in Plan
                BY <3>2, <3>3 DEF Plan
            <3>5. QED
                BY <3>1, <3>4
        <2>3. QED
            BY <2>1, <2>2
    <1>4. QED
        BY <1>1, <1>2, <1>3

(* An in-line or restarted executor of a recovery job.                     *)
LEMMA JobsBecomeTasks ==
    ASSUME task \in [Gens -> Task], NEW j \in Job, NEW pc \in Pcs, NEW out \in Outcomes,
           NEW ctx \in {"task", "held", "startup"}, StartJob(j, pc, out, ctx)
    PROVE  task' \in [Gens -> Task]
    <1> DEFINE n == NewTask(pc, j.inst, ctx)
               t == [n EXCEPT !.prompt = j.prompt, !.out = out]
    <1>1. j.gen \in Gens /\ j.inst \in Instances \cup {NoInst} /\ j.prompt \in Prompts
        BY DEF Job
    <1>2. n \in Task
        BY <1>1, NewTasks
    <1>3. task' = [task EXCEPT ![j.gen] = t]
        BY DEF StartJob
    <1> HIDE DEF n
    <1>4. t \in Task
        BY <1>1, <1>2 DEF Task
    <1>5. QED
        BY <1>1, <1>3, <1>4

LEMMA TypeRecovery ==
    ASSUME TypeOK, Recovery
    PROVE  TypeOK'
    <1> USE ConstantsAssumption, FixedRecords DEF TypeOK
    <1>1. CASE RecoverRead
        <2>1. Releasable \in SUBSET Gens /\ Unconfigured \in SUBSET Gens
            BY DEF Releasable, Unconfigured, PinnedQueued
        <2> DEFINE f == InFlightPlan
        <2>2. f.requeue \in SUBSET Gens /\ f.cancelled \in SUBSET Gens /\ f.jobs \in SUBSET Job
            BY PlansArePlans
        <2>3. rec' = [pc |-> "write", requeue |-> f.requeue, cancelled |-> f.cancelled,
                      release |-> Releasable, unconfigured |-> Unconfigured, jobs |-> f.jobs]
            BY <1>1 DEF RecoverRead
        <2> HIDE DEF f
        <2>4. rec' \in Plan
            BY <2>1, <2>2, <2>3 DEF Plan
        <2>5. QED
            BY <1>1, <2>4 DEF RecoverRead
    <1>2. CASE RecoverWrite
        <2> DEFINE plan == WritePlan
        <2>1. plan \in Plan
            BY PlansArePlans
        <2>2. \/ rec' = [NoPlan EXCEPT !.pc = "read"] /\ row' = row
              \/ /\ row' = [g \in Gens |-> Recovered(plan, g)]
                 /\ rec' = [NoPlan EXCEPT !.pc = "jobs", !.jobs = plan.jobs]
            BY <1>2 DEF RecoverWrite
        <2> HIDE DEF plan
        <2>3. [NoPlan EXCEPT !.pc = "read"] \in Plan
            BY DEF Plan
        <2>4. [NoPlan EXCEPT !.pc = "jobs", !.jobs = plan.jobs] \in Plan
            BY <2>1 DEF Plan
        <2>5. ASSUME NEW g \in Gens
              PROVE  Recovered(plan, g) \in Row
            <3>1. /\ RequeuedRow(row[g]) \in Row /\ ReleasedRow(row[g]) \in Row
                  /\ FailedRow(row[g]) \in Row
                BY RowsStayRows
            <3>2. [row[g] EXCEPT !.st = "cancelled"] \in Row
                BY DEF Row, Statuses, Terminal
            <3>3. QED
                BY <3>1, <3>2 DEF Recovered
        <2>6. QED
            BY <1>2, <2>2, <2>3, <2>4, <2>5 DEF RecoverWrite
    <1>3. ASSUME NEW j \in rec.jobs, RecoverJob(j)
          PROVE  TypeOK'
        <2>1. j \in Job
            BY DEF Plan
        <2>2. {"interrupted", OutcomeOf(j.prompt), "none"} \subseteq Outcomes
            BY DEF Outcomes, OutcomeOf
        <2>3. {"finalizing", "monitoring"} \subseteq Pcs
            BY DEF Pcs
        <2>4. task' \in [Gens -> Task]
            <3>1. \/ StartJob(j, "finalizing", "interrupted", "startup")
                  \/ StartJob(j, "finalizing", OutcomeOf(j.prompt), "startup")
                  \/ StartJob(j, "monitoring", "none", "task")
                BY <1>3 DEF RecoverJob
            <3>2. QED
                BY <2>1, <2>2, <2>3, <3>1, JobsBecomeTasks
        <2>5. rec' \in Plan
            BY <1>3 DEF RecoverJob, Plan
        <2>6. faults' \in 0 .. MaxFaults
            BY <1>3 DEF RecoverJob, Fault, NoFault
        <2>7. QED
            BY <1>3, <2>4, <2>5, <2>6 DEF RecoverJob
    <1>4. CASE FinishRecovery
        BY <1>4 DEF FinishRecovery
    <1>5. QED
        BY <1>1, <1>2, <1>3, <1>4 DEF Recovery

LEMMA TypeProcess ==
    ASSUME TypeOK, Process
    PROVE  TypeOK'
    <1> USE ConstantsAssumption, FixedRecords DEF TypeOK
    <1>1. CASE RequestStop
        BY <1>1 DEF RequestStop, Fault
    <1>2. CASE StopRecovery
        BY <1>2 DEF StopRecovery
    <1>3. ASSUME NEW g \in Gens, StopTask(g)
          PROVE  TypeOK'
        <2>1. [task[g] EXCEPT !.ctx = "held"] \in Task
            BY DEF Task
        <2>2. task' = [task EXCEPT ![g] = Idle]
              \/ task' = [task EXCEPT ![g] = [task[g] EXCEPT !.ctx = "held"]]
            BY <1>3 DEF StopTask
        <2>3. QED
            BY <1>3, <2>1, <2>2 DEF StopTask
    <1>4. CASE Halt \/ Crash
        BY <1>4 DEF Halt, Crash, Forget, Fault
    <1>5. CASE Restart
        BY <1>5 DEF Restart, Plan
    <1>6. QED
        BY <1>1, <1>2, <1>3, <1>4, <1>5 DEF Process

LEMMA TypeComfyUI ==
    ASSUME TypeOK, ComfyUI
    PROVE  TypeOK'
    <1> USE ConstantsAssumption DEF TypeOK
    <1>1. ASSUME NEW p \in Prompts, NativeFinish(p)
          PROVE  TypeOK'
        <2>1. native' \in [Prompts -> Native]
            BY <1>1 DEF NativeFinish, Native
        <2>2. QED
            BY <1>1, <2>1 DEF NativeFinish
    <1>2. ASSUME NEW p \in Prompts, NativeLost(p)
          PROVE  TypeOK'
        <2>1. native[p] \in Native
            OBVIOUS
        <2>2. LostNative(native[p]) \in Native
            BY <2>1 DEF LostNative, Native
        <2>3. native' = [native EXCEPT ![p] = LostNative(native[p])]
            BY <1>2 DEF NativeLost
        <2>4. native' \in [Prompts -> Native]
            BY <2>2, <2>3
        <2>5. faults' \in 0 .. MaxFaults
            BY <1>2 DEF NativeLost, Fault
        <2>6. QED
            BY <1>2, <2>4, <2>5 DEF NativeLost
    <1>3. QED
        BY <1>1, <1>2 DEF ComfyUI

LEMMA TypeInit == Init => TypeOK
    <1> SUFFICES ASSUME Init PROVE TypeOK
        OBVIOUS
    <1> USE ConstantsAssumption, FixedRecords DEF Init, TypeOK
    <1>1. row \in [Gens -> Row]
        OBVIOUS
    <1>2. rec \in Plan
        BY DEF Plan
    <1>3. native \in [Prompts -> Native] /\ task \in [Gens -> Task] /\ disp \in Claim
        OBVIOUS
    <1>4. pool \in Deployments /\ faults \in 0 .. MaxFaults
        OBVIOUS
    <1>5. QED
        BY <1>1, <1>2, <1>3, <1>4

(* Every step keeps the type invariant, once finalizations know their      *)
(* outcome.                                                                *)
LEMMA TypeNext ==
    ASSUME TypeOK, \A g \in Gens : OutcomeKnown(g), Next
    PROVE  TypeOK'
    <1>1. ASSUME NEW g \in Gens, Execute(g) \/ Monitor(g) \/ Settle(g)
          PROVE  TypeOK'
        BY <1>1, TypeExecute, TypeMonitor, TypeSettle
    <1>2. QED
        BY <1>1, TypeHandlers, TypeDispatcher, TypeRecovery, TypeProcess, TypeComfyUI DEF Next

-----------------------------------------------------------------------------
(* The inductive invariant.  Most steps are of one of two kinds: a step of *)
(* the environment, which changes rows as a user or an administrator may   *)
(* and no executor, and a step of one live executor, which changes its own *)
(* row and itself.                                                         *)

(* ComfyUI never forgets whose a prompt is, nor that it succeeded.         *)
NativeGrows ==
    \A p \in Prompts : native[p].st # "unused" =>
        /\ native'[p].st # "unused"
        /\ native'[p].gen = native[p].gen
        /\ native'[p].inst = native[p].inst
        /\ native[p].st = "succeeded" => native'[p].st = "succeeded"

(* What a user, an administrator or nobody does to a row.                  *)
EnvRow(g) ==
    \/ row'[g] = row[g]
    \/ row[g].st = "absent" /\ row'[g] = AcceptedRow
    \/ row[g].st # "absent" /\ row'[g] = DeletedRow
    \/ /\ row[g].st \in InFlight /\ row'[g].st \in InFlight
       /\ row'[g].prompt = row[g].prompt /\ row'[g].inst = row[g].inst
    \/ /\ row[g].st = "queued" /\ row'[g].st = "cancelled"
       /\ row'[g].prompt = row[g].prompt /\ row'[g].inst = row[g].inst

LEMMA GrowthKeepsMine ==
    ASSUME NativeGrows, NEW g, NEW p \in Prompts, NEW i, Mine(g, p, i)
    PROVE  Mine(g, p, i)'
    BY DEF NativeGrows, Mine

LEMMA EnvKeepsRow ==
    ASSUME TypeOK, TypeOK', NativeGrows, NEW g \in Gens, EnvRow(g)
    PROVE  /\ RowInv(g) => RowInv(g)'
           /\ Owned(g) => Owned(g)'
           /\ \A p, i : Records(g, p, i) /\ Owned(g) => Records(g, p, i)'
           /\ row[g].st \in Terminal \cup {"deleted"} => row'[g].st \in Terminal \cup {"deleted"}
           /\ /\ row[g].st \in {"queued", "deleted"} \cup Terminal /\ row[g].prompt = NoPrompt
              => /\ row'[g].st \in {"queued", "deleted"} \cup Terminal
                 /\ row'[g].prompt = NoPrompt
           /\ Owned(g) /\ row[g].prompt = NoPrompt => row'[g].prompt = NoPrompt
    <1> USE DEF EnvRow, InFlight, Terminal, NoRow, AcceptedRow, DeletedRow, NoPrompt
    <1>1. ASSUME RowInv(g) PROVE RowInv(g)'
        <2>1. row[g].prompt \in Prompts \cup {NoPrompt}
            BY DEF TypeOK, Row
        <2>2. row'[g].prompt # NoPrompt => row'[g].prompt = row[g].prompt /\ row'[g].inst = row[g].inst
            OBVIOUS
        <2>3. row'[g].prompt # NoPrompt => Mine(g, row[g].prompt, row[g].inst)'
            BY <1>1, <2>1, <2>2, GrowthKeepsMine DEF RowInv
        <2>4. row'[g].st \in {"queued"} \cup NoRow => row'[g].prompt = NoPrompt
            BY <1>1 DEF RowInv
        <2>5. row'[g].st = "succeeded" => row[g].st = "succeeded" /\ row'[g] = row[g]
            OBVIOUS
        <2>6. row'[g].st = "succeeded" => /\ row'[g].prompt # NoPrompt
                                          /\ native'[row'[g].prompt].st = "succeeded"
            BY <1>1, <2>1, <2>5 DEF RowInv, NativeGrows
        <2>7. QED
            BY <2>3, <2>4, <2>6 DEF RowInv
    <1>2. Owned(g) => Owned(g)'
        BY DEF Owned
    <1>3. \A p, i : Records(g, p, i) /\ Owned(g) => Records(g, p, i)'
        BY DEF Records, Owned
    <1>4. row[g].st \in Terminal \cup {"deleted"} => row'[g].st \in Terminal \cup {"deleted"}
        OBVIOUS
    <1>5. /\ row[g].st \in {"queued", "deleted"} \cup Terminal /\ row[g].prompt = NoPrompt
          => /\ row'[g].st \in {"queued", "deleted"} \cup Terminal
             /\ row'[g].prompt = NoPrompt
        OBVIOUS
    <1>6. Owned(g) /\ row[g].prompt = NoPrompt => row'[g].prompt = NoPrompt
        BY DEF Owned
    <1>7. QED
        BY <1>1, <1>2, <1>3, <1>4, <1>5, <1>6

LEMMA EnvKeepsTask ==
    ASSUME TypeOK, TypeOK', NativeGrows, NEW g \in Gens, EnvRow(g), task'[g] = task[g], TaskInv(g)
    PROVE  TaskInv(g)'
    <1>1. task[g].prompt \in Prompts \cup {NoPrompt}
        BY DEF TypeOK, Task
    <1>2. task[g].prompt # NoPrompt => Mine(g, task[g].prompt, task[g].inst)'
        BY <1>1, GrowthKeepsMine DEF TaskInv
    <1>3. task[g].out = "success" => /\ task[g].prompt # NoPrompt
                                     /\ native'[task[g].prompt].st = "succeeded"
        BY <1>1 DEF TaskInv, NativeGrows
    <1>4. task[g].pc \in BeforeMark \cup AfterMark => Owned(g)'
        BY EnvKeepsRow DEF TaskInv
    <1>5. /\ task[g].pc \in BeforeMark => Records(g, NoPrompt, task[g].inst)'
          /\ task[g].pc \in AfterMark => Records(g, task[g].prompt, task[g].inst)'
        BY EnvKeepsRow DEF TaskInv
    <1>6. task[g].pc = "deleting" => row'[g].st \in Terminal \cup {"deleted"}
        BY EnvKeepsRow DEF TaskInv
    <1>7. QED
        BY <1>2, <1>3, <1>4, <1>5, <1>6 DEF TaskInv, OutcomeKnown, Records, Mine

(* An environment step.                                                    *)
LEMMA EnvStep ==
    ASSUME IInv, TypeOK', NativeGrows,
           \A g \in Gens : EnvRow(g) /\ task'[g] = task[g],
           disp' = disp, rec' = rec,
           mode' = mode \/ (Serving /\ mode' = "stopping")
    PROVE  IInv'
    <1>1. ASSUME NEW g \in Gens PROVE RowInv(g)' /\ TaskInv(g)'
        BY EnvKeepsRow, EnvKeepsTask DEF IInv
    <1>2. DispInv'
        BY EnvKeepsRow DEF IInv, DispInv, Serving
    <1>3. ASSUME rec.pc \in {"write", "jobs"}
          PROVE  /\ \A j \in rec.jobs : JobInv(j)'
                 /\ \A j, k \in rec.jobs : j.gen = k.gen => j = k
        <2>1. ASSUME NEW j \in rec.jobs PROVE JobInv(j)'
            <3>1. j.gen \in Gens /\ j.prompt \in Prompts /\ JobInv(j)
                BY <1>3 DEF IInv, RecInv, TypeOK, Plan, Job
            <3>2. QED
                BY <3>1, EnvKeepsRow, GrowthKeepsMine DEF JobInv, IInv
        <2>2. QED
            BY <1>3, <2>1 DEF IInv, RecInv
    <1>4. ASSUME rec.pc = "write"
          PROVE  /\ \A g \in rec.requeue \cup rec.cancelled : Owned(g)' /\ row'[g].prompt = NoPrompt
                 /\ \A g \in rec.release \cup rec.unconfigured :
                      row'[g].st \in {"queued", "deleted"} \cup Terminal /\ row'[g].prompt = NoPrompt
        <2>1. /\ rec.requeue \cup rec.cancelled \subseteq Gens
              /\ rec.release \cup rec.unconfigured \subseteq Gens
            BY DEF IInv, TypeOK, Plan
        <2>2. QED
            BY <1>4, <2>1, EnvKeepsRow DEF IInv, RecInv
    <1>5. RecInv'
        BY <1>3, <1>4 DEF IInv, RecInv, Serving
    <1>6. QED
        BY <1>1, <1>2, <1>5 DEF IInv

(* A step of one live executor.                                            *)
LEMMA LocalStep ==
    ASSUME IInv, TypeOK', NativeGrows, NEW g \in Gens, task[g].pc # "none",
           \A h \in Gens \ {g} : row'[h] = row[h] /\ task'[h] = task[h],
           disp' = disp, rec' = rec, mode' = mode,
           RowInv(g)', TaskInv(g)',
           task[g].pc \in Quiet => row'[g] = row[g] /\ task'[g].pc \in Quiet
    PROVE  IInv'
    <1>1. ASSUME NEW h \in Gens PROVE RowInv(h)' /\ TaskInv(h)'
        <2>1. CASE h = g
            BY <2>1
        <2>2. CASE h # g
            BY <2>2, EnvKeepsRow, EnvKeepsTask DEF IInv, EnvRow
        <2>3. QED
            BY <2>1, <2>2
    <1>2. DispInv'
        BY DEF IInv, DispInv, Owned, Records
    <1>3. rec.pc \notin {"read", "write"} /\ mode # "down"
        BY DEF IInv, RecInv
    <1>4. ASSUME NEW j \in rec.jobs, rec.pc = "jobs"
          PROVE  JobInv(j)'
        <2>1. j.gen \in Gens /\ j.prompt \in Prompts /\ JobInv(j)
            BY <1>4 DEF IInv, RecInv, TypeOK, Plan, Job
        <2>2. j.gen # g
            BY <2>1 DEF JobInv
        <2>3. QED
            BY <2>1, <2>2, GrowthKeepsMine DEF JobInv, Owned, Records
    <1>5. RecInv'
        BY <1>3, <1>4 DEF IInv, RecInv
    <1>6. QED
        BY <1>1, <1>2, <1>5 DEF IInv

(* Where an executor stands after a move, and that the others stand still. *)
LEMMA Moves ==
    ASSUME task \in [Gens -> Task], NEW g \in Gens
    PROVE  /\ \A pc : Goto(g, pc) =>
                /\ task'[g].pc = pc /\ task'[g].inst = task[g].inst
                /\ task'[g].prompt = task[g].prompt /\ task'[g].out = task[g].out
                /\ \A h \in Gens \ {g} : task'[h] = task[h]
           /\ \A pc, b : GotoWith(g, pc, b) =>
                /\ task'[g].pc = pc /\ task'[g].inst = task[g].inst
                /\ task'[g].prompt = task[g].prompt /\ task'[g].out = task[g].out
                /\ \A h \in Gens \ {g} : task'[h] = task[h]
           /\ \A out : Finalizing(g, out) =>
                /\ task'[g].pc = "finalizing" /\ task'[g].inst = task[g].inst
                /\ task'[g].prompt = task[g].prompt /\ task'[g].out = out
                /\ \A h \in Gens \ {g} : task'[h] = task[h]
           /\ End(g) =>
                /\ task'[g].pc \in {"none", "ending"}
                /\ task'[g].prompt = NoPrompt /\ task'[g].out = "none"
                /\ \A h \in Gens \ {g} : task'[h] = task[h]
    <1>1. ASSUME NEW pc, Goto(g, pc)
          PROVE  /\ task'[g].pc = pc /\ task'[g].inst = task[g].inst
                 /\ task'[g].prompt = task[g].prompt /\ task'[g].out = task[g].out
                 /\ \A h \in Gens \ {g} : task'[h] = task[h]
        BY <1>1 DEF Goto, Task
    <1>2. ASSUME NEW pc, NEW b, GotoWith(g, pc, b)
          PROVE  /\ task'[g].pc = pc /\ task'[g].inst = task[g].inst
                 /\ task'[g].prompt = task[g].prompt /\ task'[g].out = task[g].out
                 /\ \A h \in Gens \ {g} : task'[h] = task[h]
        BY <1>2 DEF GotoWith, Task
    <1>3. ASSUME NEW out, Finalizing(g, out)
          PROVE  /\ task'[g].pc = "finalizing" /\ task'[g].inst = task[g].inst
                 /\ task'[g].prompt = task[g].prompt /\ task'[g].out = out
                 /\ \A h \in Gens \ {g} : task'[h] = task[h]
        BY <1>3 DEF Finalizing, Task
    <1>4. ASSUME End(g)
          PROVE  /\ task'[g].pc \in {"none", "ending"}
                 /\ task'[g].prompt = NoPrompt /\ task'[g].out = "none"
                 /\ \A h \in Gens \ {g} : task'[h] = task[h]
        <2>1. Ended(task[g]).pc \in {"none", "ending"}
              /\ Ended(task[g]).prompt = NoPrompt /\ Ended(task[g]).out = "none"
            BY DEF Ended, NewTask, Idle
        <2>2. QED
            BY <1>4, <2>1 DEF End
    <1>5. QED
        BY <1>1, <1>2, <1>3, <1>4

(* An executor that moves on without touching its row or ComfyUI.          *)
LEMMA QuietMove ==
    ASSUME IInv, TypeOK', NEW g \in Gens, task[g].pc # "none",
           UNCHANGED <<row, disp, rec, mode, native>>,
           \A h \in Gens \ {g} : task'[h] = task[h], TaskInv(g)',
           task[g].pc \in Quiet => task'[g].pc \in Quiet
    PROVE  IInv'
    <1>1. NativeGrows
        BY DEF NativeGrows
    <1>2. RowInv(g)'
        BY DEF IInv, RowInv, Mine
    <1>3. QED
        BY <1>1, <1>2, LocalStep

(* An executor that is at its end, or not there.                           *)
LEMMA EndedTask ==
    ASSUME NEW g \in Gens, task[g].pc \in Quiet, task[g].prompt = NoPrompt, task[g].out = "none"
    PROVE  TaskInv(g)
    BY DEF TaskInv, OutcomeKnown, Quiet, BeforeMark, AfterMark

LEMMA EndedTaskNext ==
    ASSUME NEW g \in Gens, task'[g].pc \in Quiet, task'[g].prompt = NoPrompt, task'[g].out = "none"
    PROVE  TaskInv(g)'
    BY DEF TaskInv, OutcomeKnown, Quiet, BeforeMark, AfterMark

LEMMA InvQuietMoves ==
    ASSUME IInv, TypeOK', NEW g \in Gens,
           \/ LoadExecution(g) \/ SaveGraph(g) \/ MarkRead(g) \/ ObserveTerminal(g)
           \/ ObserveMissing(g) \/ RequeueRead(g) \/ FailRead(g)
           \/ ResetExecutionCache(g) \/ TaskDone(g) \/ StopTask(g)
    PROVE  IInv'
    <1>0. TypeOK /\ TaskInv(g) /\ RowInv(g) /\ task \in [Gens -> Task]
        BY DEF IInv, TypeOK
    <1> USE DEF Quiet, BeforeMark, AfterMark, At
    <1>1. CASE LoadExecution(g)
        <2>1. TaskInv(g)'
            BY <1>0, <1>1, Moves DEF LoadExecution, TaskInv, OutcomeKnown, Owned, Records, Mine, NoRow
        <2>2. QED
            BY <1>0, <1>1, <2>1, Moves, QuietMove DEF LoadExecution
    <1>2. CASE SaveGraph(g)
        <2>1. TaskInv(g)'
            BY <1>0, <1>2, Moves DEF SaveGraph, MaterializeFails, TaskInv, OutcomeKnown, Owned, Records, Mine, NoRow
        <2>2. QED
            BY <1>0, <1>2, <2>1, Moves, QuietMove DEF SaveGraph, MaterializeFails
    <1>3. CASE MarkRead(g)
        <2>1. TaskInv(g)'
            BY <1>0, <1>3, Moves DEF MarkRead, TaskInv, OutcomeKnown, Owned, Records, Mine, NoRow
        <2>2. QED
            BY <1>0, <1>3, <2>1, Moves, QuietMove DEF MarkRead
    <1>4. CASE ObserveTerminal(g)
        <2>1. OutcomeOf(task[g].prompt) # "none"
              /\ (OutcomeOf(task[g].prompt) = "success" => native[task[g].prompt].st = "succeeded")
            BY <1>4 DEF ObserveTerminal, InHistory, OutcomeOf
        <2>2. TaskInv(g)'
            BY <1>0, <1>4, <2>1, Moves DEF ObserveTerminal, TaskInv, OutcomeKnown, Owned, Records, Mine
        <2>3. QED
            BY <1>0, <1>4, <2>2, Moves, QuietMove DEF ObserveTerminal
    <1>5. CASE ObserveMissing(g)
        <2>1. TaskInv(g)'
            BY <1>0, <1>5, Moves DEF ObserveMissing, TaskInv, OutcomeKnown, Owned, Records, Mine
        <2>2. QED
            BY <1>0, <1>5, <2>1, Moves, QuietMove DEF ObserveMissing
    <1>6. CASE RequeueRead(g)
        <2>1. TaskInv(g)'
            BY <1>0, <1>6, Moves DEF RequeueRead, TaskInv, OutcomeKnown, Owned, Records, Mine, NoRow
        <2>2. QED
            BY <1>0, <1>6, <2>1, Moves, QuietMove DEF RequeueRead
    <1>7. CASE FailRead(g)
        <2>1. TaskInv(g)'
            BY <1>0, <1>7, Moves DEF FailRead, TaskInv, OutcomeKnown, Owned, Records, Mine, NoRow
        <2>2. QED
            BY <1>0, <1>7, <2>1, Moves, QuietMove DEF FailRead
    <1>8. CASE ResetExecutionCache(g)
        BY <1>0, <1>8, Moves, EndedTaskNext, QuietMove DEF ResetExecutionCache
    <1>9. CASE TaskDone(g)
        <2>1. task'[g].pc = "none" /\ task'[g].prompt = NoPrompt /\ task'[g].out = "none"
              /\ \A h \in Gens \ {g} : task'[h] = task[h]
            BY <1>0, <1>9 DEF TaskDone, Idle
        <2>2. QED
            BY <1>0, <1>9, <2>1, EndedTaskNext, QuietMove DEF TaskDone
    <1>10. CASE StopTask(g)
        <2>1. CASE task' = [task EXCEPT ![g] = Idle]
            <3>1. task'[g].pc = "none" /\ task'[g].prompt = NoPrompt /\ task'[g].out = "none"
                  /\ \A h \in Gens \ {g} : task'[h] = task[h]
                BY <1>0, <2>1 DEF Idle
            <3>2. task[g].pc # "none"
                BY <1>10 DEF StopTask, AwaitingPcs, SubmissionPcs
            <3>3. QED
                BY <1>10, <3>1, <3>2, EndedTaskNext, QuietMove DEF StopTask
        <2>2. CASE task[g].pc \in SubmissionPcs /\ task' = [task EXCEPT ![g].ctx = "held"]
            <3>1. /\ task'[g].pc = task[g].pc /\ task'[g].prompt = task[g].prompt
                  /\ task'[g].out = task[g].out /\ task'[g].inst = task[g].inst
                  /\ \A h \in Gens \ {g} : task'[h] = task[h]
                BY <1>0, <2>2 DEF Task
            <3>2. TaskInv(g)'
                BY <1>0, <1>10, <3>1 DEF StopTask, TaskInv, OutcomeKnown, Owned, Records, Mine
            <3>3. QED
                BY <1>10, <2>2, <3>1, <3>2, QuietMove DEF StopTask, SubmissionPcs
        <2>3. QED
            BY <1>10, <2>1, <2>2 DEF StopTask
    <1>11. QED
        BY <1>1, <1>2, <1>3, <1>4, <1>5, <1>6, <1>7, <1>8, <1>9, <1>10

(* A cancel request never takes a success away.                            *)
LEMMA CancelGrows ==
    ASSUME TypeOK, NEW p, CancelsNative(p)
    PROVE  NativeGrows
    <1>1. CASE native' = native
        BY <1>1 DEF NativeGrows
    <1>2. ASSUME NEW known \in BOOLEAN, p \in Prompts, native[p].st = "live",
                 native' = [native EXCEPT ![p] = [@ EXCEPT !.st = "cancelled", !.known = known]]
          PROVE  NativeGrows
        <2> DEFINE n == [native[p] EXCEPT !.st = "cancelled", !.known = known]
        <2>1. native[p] \in Native
            BY <1>2 DEF TypeOK
        <2>2. n.st = "cancelled" /\ n.gen = native[p].gen /\ n.inst = native[p].inst
            BY <2>1 DEF Native
        <2>3. native' = [native EXCEPT ![p] = n]
            BY <1>2
        <2> HIDE DEF n
        <2>4. QED
            BY <1>2, <2>2, <2>3 DEF NativeGrows, TypeOK
    <1>3. CASE p \notin Prompts
        BY <1>3 DEF CancelsNative, NativeGrows, TypeOK
    <1>4. QED
        BY <1>1, <1>2, <1>3 DEF CancelsNative

(* An accepted prompt is this executor's.                                  *)
LEMMA AcceptGrows ==
    ASSUME TypeOK, NEW g \in Gens, NEW p \in Prompts, NextPrompt(p), AcceptNative(g, p)
    PROVE  /\ NativeGrows
           /\ native'[p].st = "live" /\ native'[p].gen = g /\ native'[p].inst = task[g].inst
    <1>1. native'[p].st = "live" /\ native'[p].gen = g /\ native'[p].inst = task[g].inst
        BY DEF AcceptNative, TypeOK
    <1>2. \A q \in Prompts \ {p} : native'[q] = native[q]
        BY DEF AcceptNative, TypeOK
    <1>3. native[p].st = "unused"
        BY DEF NextPrompt
    <1>4. NativeGrows
        BY <1>2, <1>3 DEF NativeGrows
    <1>5. QED
        BY <1>1, <1>4

(* The rows an executor leaves alone keep their invariant.                 *)
LEMMA GrowthKeepsRow ==
    ASSUME TypeOK, NativeGrows, NEW g \in Gens, row'[g] = row[g], RowInv(g)
    PROVE  RowInv(g)'
    <1>1. row[g].prompt \in Prompts \cup {NoPrompt}
        BY DEF TypeOK, Row
    <1>2. row[g].prompt # NoPrompt => Mine(g, row[g].prompt, row[g].inst)'
        BY <1>1, GrowthKeepsMine DEF RowInv
    <1>3. row[g].st = "succeeded" => /\ row[g].prompt # NoPrompt
                                     /\ native'[row[g].prompt].st = "succeeded"
        BY <1>1 DEF RowInv, NativeGrows
    <1>4. QED
        BY <1>2, <1>3 DEF RowInv, Mine

(* An executor that has moved with its prompt and its outcome.             *)
LEMMA GrowthKeepsPrompt ==
    ASSUME TypeOK, NativeGrows, NEW g \in Gens, TaskInv(g),
           task'[g].prompt = task[g].prompt, task'[g].inst = task[g].inst,
           task'[g].out = task[g].out
    PROVE  /\ task'[g].prompt # NoPrompt => Mine(g, task[g].prompt, task[g].inst)'
           /\ task'[g].out = "success" => /\ task'[g].prompt # NoPrompt
                                          /\ native'[task'[g].prompt].st = "succeeded"
    <1>1. task[g].prompt \in Prompts \cup {NoPrompt}
        BY DEF TypeOK, Task
    <1>2. task[g].prompt # NoPrompt => Mine(g, task[g].prompt, task[g].inst)'
        BY <1>1, GrowthKeepsMine DEF TaskInv
    <1>3. QED
        BY <1>1, <1>2 DEF TaskInv, NativeGrows

LEMMA InvSubmission ==
    ASSUME IInv, TypeOK', NEW g \in Gens,
           SubmitAccepted(g) \/ SubmitFails(g) \/ CancelSubmitted(g)
    PROVE  IInv'
    <1>0. TypeOK /\ TaskInv(g) /\ RowInv(g) /\ task \in [Gens -> Task]
        BY DEF IInv, TypeOK
    <1> USE DEF Quiet, BeforeMark, AfterMark, At
    <1>1. CASE SubmitAccepted(g)
        <2>1. PICK p \in Prompts : /\ NextPrompt(p) /\ AcceptNative(g, p)
                                   /\ task' = [task EXCEPT ![g] = [@ EXCEPT !.pc = "accepted",
                                                                            !.prompt = p]]
            BY <1>1 DEF SubmitAccepted
        <2> DEFINE t == [task[g] EXCEPT !.pc = "accepted", !.prompt = p]
        <2>2. t.pc = "accepted" /\ t.prompt = p /\ t.inst = task[g].inst /\ t.out = task[g].out
            BY <1>0 DEF Task
        <2>3. task' = [task EXCEPT ![g] = t]
            BY <2>1
        <2> HIDE DEF t
        <2>4. /\ task'[g].pc = "accepted" /\ task'[g].prompt = p
              /\ task'[g].inst = task[g].inst /\ task'[g].out = task[g].out
              /\ \A h \in Gens \ {g} : task'[h] = task[h]
            BY <1>0, <2>2, <2>3
        <2>5. NativeGrows /\ native'[p].st # "unused" /\ native'[p].gen = g
              /\ native'[p].inst = task[g].inst
            BY <1>0, <2>1, AcceptGrows
        <2>6. p # NoPrompt
            BY DEF Prompts, NoPrompt
        <2>7. task[g].out # "success"
            BY <1>0, <1>1 DEF SubmitAccepted, TaskInv
        <2>8. UNCHANGED <<row, disp, rec, mode>> /\ task[g].pc = "submitting"
            BY <1>1 DEF SubmitAccepted
        <2>9. TaskInv(g)'
            BY <1>0, <2>4, <2>5, <2>6, <2>7, <2>8 DEF TaskInv, OutcomeKnown, Owned, Records, Mine
        <2>10. QED
            BY <1>0, <2>4, <2>5, <2>8, <2>9, GrowthKeepsRow, LocalStep
    <1>2. CASE SubmitFails(g)
        <2>1. NativeGrows
            <3>1. CASE native' = native
                BY <3>1 DEF NativeGrows
            <3>2. ASSUME NEW p \in Prompts, NextPrompt(p), AcceptNative(g, p)
                  PROVE  NativeGrows
                BY <1>0, <3>2, AcceptGrows
            <3>3. QED
                BY <1>2, <3>1, <3>2 DEF SubmitFails
        <2>2. Goto(g, "requeueRead") \/ Goto(g, "failRead")
            BY <1>2 DEF SubmitFails, AmbiguousNext
        <2>3. UNCHANGED <<row, disp, rec, mode>> /\ task[g].pc = "submitting"
            BY <1>2 DEF SubmitFails
        <2>4. TaskInv(g)'
            BY <1>0, <2>1, <2>2, <2>3, Moves DEF TaskInv, OutcomeKnown, Owned, Records, NativeGrows
        <2>5. QED
            BY <1>0, <2>1, <2>2, <2>3, <2>4, Moves, GrowthKeepsRow, LocalStep
    <1>3. CASE CancelSubmitted(g)
        <2>1. NativeGrows
            BY <1>0, <1>3, CancelGrows DEF CancelSubmitted, NativeGrows
        <2>2. End(g) \/ Goto(g, "monitoring")
            BY <1>3 DEF CancelSubmitted
        <2>3. UNCHANGED <<row, disp, rec, mode>> /\ task[g].pc = "cancelling"
            BY <1>3 DEF CancelSubmitted
        <2>4. CASE End(g)
            BY <1>0, <2>1, <2>3, <2>4, Moves, EndedTaskNext, GrowthKeepsRow, LocalStep
        <2>5. CASE Goto(g, "monitoring")
            <3>1. TaskInv(g)'
                BY <1>0, <2>1, <2>3, <2>5, Moves, GrowthKeepsPrompt
                   DEF TaskInv, OutcomeKnown, Owned, Records, Mine
            <3>2. QED
                BY <1>0, <2>1, <2>3, <2>5, <3>1, Moves, GrowthKeepsRow, LocalStep
        <2>6. QED
            BY <2>2, <2>4, <2>5
    <1>4. QED
        BY <1>1, <1>2, <1>3

(* What the transactions of an executor leave in the row.                  *)
LEMMA RowEffects ==
    ASSUME NEW r \in Row
    PROVE  /\ \A p, b : /\ MarkedRow(r, p, b).prompt = p /\ MarkedRow(r, p, b).inst = r.inst
                        /\ MarkedRow(r, p, b).st \in {r.st, "running"}
           /\ \A a, f : /\ ArchivedRow(r, a, f).st = r.st /\ ArchivedRow(r, a, f).inst = r.inst
                        /\ ArchivedRow(r, a, f).prompt = r.prompt
           /\ SentRow(r).st = r.st /\ SentRow(r).inst = r.inst /\ SentRow(r).prompt = r.prompt
           /\ UnsentRow(r).st = r.st /\ UnsentRow(r).inst = r.inst /\ UnsentRow(r).prompt = r.prompt
           /\ RequeuedRow(r).st = "queued" /\ RequeuedRow(r).inst = NoInst
           /\ RequeuedRow(r).prompt = r.prompt
           /\ FailedRow(r).st = "failed" /\ FailedRow(r).inst = r.inst
           /\ FailedRow(r).prompt = r.prompt
           /\ ReleasedRow(r).st = r.st /\ ReleasedRow(r).inst = NoInst
           /\ ReleasedRow(r).prompt = r.prompt
           /\ RetryRow(r).st = "queued" /\ RetryRow(r).prompt = NoPrompt
           /\ \A st : LET s == [r EXCEPT !.st = st] IN
                         s.st = st /\ s.inst = r.inst /\ s.prompt = r.prompt
           /\ \A i : /\ ClaimedRow(r, i).st = "dispatching" /\ ClaimedRow(r, i).inst = i
                     /\ ClaimedRow(r, i).prompt = r.prompt
           /\ \A b : /\ CancelRow(r, b).st = "cancel_requested" /\ CancelRow(r, b).inst = r.inst
                     /\ CancelRow(r, b).prompt = r.prompt
    <1>1. ASSUME NEW p, NEW b
          PROVE  /\ MarkedRow(r, p, b).prompt = p /\ MarkedRow(r, p, b).inst = r.inst
                 /\ MarkedRow(r, p, b).st \in {r.st, "running"}
        BY DEF MarkedRow, Row
    <1>2. ASSUME NEW a, NEW f
          PROVE  /\ ArchivedRow(r, a, f).st = r.st /\ ArchivedRow(r, a, f).inst = r.inst
                 /\ ArchivedRow(r, a, f).prompt = r.prompt
        BY DEF ArchivedRow, Row
    <1>3. /\ SentRow(r).st = r.st /\ SentRow(r).inst = r.inst /\ SentRow(r).prompt = r.prompt
          /\ UnsentRow(r).st = r.st /\ UnsentRow(r).inst = r.inst /\ UnsentRow(r).prompt = r.prompt
        BY DEF SentRow, UnsentRow, Row
    <1>4. /\ RequeuedRow(r).st = "queued" /\ RequeuedRow(r).inst = NoInst
          /\ RequeuedRow(r).prompt = r.prompt
        BY DEF RequeuedRow, Row
    <1>5. /\ FailedRow(r).st = "failed" /\ FailedRow(r).inst = r.inst
          /\ FailedRow(r).prompt = r.prompt
          /\ ReleasedRow(r).st = r.st /\ ReleasedRow(r).inst = NoInst
          /\ ReleasedRow(r).prompt = r.prompt
        BY DEF FailedRow, ReleasedRow, Row
    <1>6. RetryRow(r).st = "queued" /\ RetryRow(r).prompt = NoPrompt
        <2> DEFINE q == RequeuedRow(r)
        <2>1. q \in Row /\ q.st = "queued"
            BY <1>4, RowsStayRows
        <2>2. RetryRow(r) = [q EXCEPT !.prompt = NoPrompt, !.fails = "none", !.retried = TRUE]
            BY DEF RetryRow
        <2> HIDE DEF q
        <2>3. QED
            BY <2>1, <2>2 DEF Row
    <1>7. ASSUME NEW st
          PROVE  LET s == [r EXCEPT !.st = st] IN s.st = st /\ s.inst = r.inst /\ s.prompt = r.prompt
        BY DEF Row
    <1>8. ASSUME NEW i
          PROVE  /\ ClaimedRow(r, i).st = "dispatching" /\ ClaimedRow(r, i).inst = i
                 /\ ClaimedRow(r, i).prompt = r.prompt
        BY DEF ClaimedRow, Row
    <1>9. ASSUME NEW b
          PROVE  /\ CancelRow(r, b).st = "cancel_requested" /\ CancelRow(r, b).inst = r.inst
                 /\ CancelRow(r, b).prompt = r.prompt
        BY DEF CancelRow, Row
    <1>10. QED
        BY <1>1, <1>2, <1>3, <1>4, <1>5, <1>6, <1>7, <1>8, <1>9

(* The steps by which an executor writes its row.                          *)
LEMMA InvRowWrites ==
    ASSUME IInv, TypeOK', NEW g \in Gens,
           \/ MarkWrite(g) \/ ArchiveOutput(g) \/ MarkCancelSent(g) \/ SendCancel(g)
           \/ PersistFiles(g) \/ CommitFinalization(g) \/ DeleteTerminalIfPresent(g)
           \/ RequeueWrite(g) \/ FailWrite(g)
    PROVE  IInv'
    <1>0. /\ TypeOK /\ TaskInv(g) /\ RowInv(g) /\ task \in [Gens -> Task]
          /\ row \in [Gens -> Row] /\ row[g] \in Row
        BY DEF IInv, TypeOK
    <1> USE DEF Quiet, BeforeMark, AfterMark, At
    <1>1. CASE MarkWrite(g)
        <2>1. /\ UNCHANGED <<disp, rec, mode, native>> /\ task[g].pc = "marking"
              /\ NativeGrows
            BY <1>1 DEF MarkWrite, NativeGrows
        <2>2. CASE row[g].st \in NoRow
            <3>1. Goto(g, "failRead") /\ row' = row
                BY <1>1, <2>2 DEF MarkWrite
            <3>2. TaskInv(g)'
                BY <1>0, <2>1, <3>1, Moves DEF TaskInv, OutcomeKnown, Owned, Records, Mine
            <3>3. QED
                BY <1>0, <2>1, <3>1, <3>2, Moves, QuietMove
        <2>3. CASE row[g].st \notin NoRow
            <3> DEFINE r == MarkedRow(row[g], task[g].prompt, task[g].seen)
            <3>1. row' = [row EXCEPT ![g] = r]
                BY <1>1, <2>3 DEF MarkWrite
            <3>2. r.prompt = task[g].prompt /\ r.inst = row[g].inst
                  /\ r.st \in {row[g].st, "running"}
                BY <1>0, RowEffects
            <3> HIDE DEF r
            <3>3. row[g].st \in InFlight /\ row[g].inst = task[g].inst /\ task[g].prompt # NoPrompt
                BY <1>0, <2>1, <2>3 DEF TaskInv, Owned, Records, NoRow
            <3>4. /\ row'[g].st \in InFlight /\ row'[g].prompt = task[g].prompt
                  /\ row'[g].inst = task[g].inst
                  /\ \A h \in Gens \ {g} : row'[h] = row[h]
                BY <1>0, <3>1, <3>2, <3>3 DEF InFlight
            <3>5. RowInv(g)'
                BY <1>0, <2>1, <3>3, <3>4 DEF RowInv, TaskInv, Mine, InFlight, NoRow
            <3>6. End(g) \/ Goto(g, "cancelling") \/ Goto(g, "monitoring")
                BY <1>1, <2>3 DEF MarkWrite
            <3>7. CASE End(g)
                BY <1>0, <2>1, <3>4, <3>5, <3>7, Moves, EndedTaskNext, LocalStep
            <3>8. CASE Goto(g, "cancelling") \/ Goto(g, "monitoring")
                <4>1. TaskInv(g)'
                    BY <1>0, <2>1, <3>3, <3>4, <3>8, Moves
                       DEF TaskInv, OutcomeKnown, Owned, Records, Mine
                <4>2. QED
                    BY <1>0, <2>1, <3>4, <3>5, <3>8, <4>1, Moves, LocalStep
            <3>9. QED
                BY <3>6, <3>7, <3>8
        <2>4. QED
            BY <2>2, <2>3
    <1>2. CASE ArchiveOutput(g)
        <2>1. PICK a, f : row' = [row EXCEPT ![g] = ArchivedRow(row[g], a, f)]
            BY <1>2, Zenon DEF ArchiveOutput
        <2>2. /\ UNCHANGED <<task, disp, rec, mode, native>> /\ NativeGrows
              /\ task[g].pc = "monitoring"
            BY <1>2 DEF ArchiveOutput, NativeGrows
        <2>3. /\ row'[g].st = row[g].st /\ row'[g].prompt = row[g].prompt
              /\ row'[g].inst = row[g].inst
              /\ \A h \in Gens \ {g} : row'[h] = row[h]
            BY <1>0, <2>1, RowEffects
        <2>4. RowInv(g)'
            BY <1>0, <2>2, <2>3 DEF RowInv, Mine
        <2>5. TaskInv(g)'
            BY <1>0, <2>2, <2>3 DEF TaskInv, OutcomeKnown, Owned, Records, Mine
        <2>6. QED
            BY <1>0, <2>2, <2>3, <2>4, <2>5, LocalStep
    <1>3. CASE MarkCancelSent(g)
        <2> DEFINE r == SentRow(row[g])
        <2>1. r.st = row[g].st /\ r.inst = row[g].inst /\ r.prompt = row[g].prompt
            BY <1>0, RowEffects
        <2>2. /\ UNCHANGED <<disp, rec, mode, native>> /\ NativeGrows /\ Goto(g, "sending")
              /\ task[g].pc = "monitoring" /\ row' = [row EXCEPT ![g] = r]
            BY <1>3 DEF MarkCancelSent, NativeGrows
        <2> HIDE DEF r
        <2>3. /\ row'[g].st = row[g].st /\ row'[g].prompt = row[g].prompt
              /\ row'[g].inst = row[g].inst
              /\ \A h \in Gens \ {g} : row'[h] = row[h]
            BY <1>0, <2>1, <2>2
        <2>4. RowInv(g)'
            BY <1>0, <2>2, <2>3 DEF RowInv, Mine
        <2>5. TaskInv(g)'
            BY <1>0, <2>2, <2>3, Moves DEF TaskInv, OutcomeKnown, Owned, Records, Mine
        <2>6. QED
            BY <1>0, <2>2, <2>3, <2>4, <2>5, Moves, LocalStep
    <1>4. CASE SendCancel(g)
        <2>1. /\ UNCHANGED <<disp, rec, mode>> /\ Goto(g, "monitoring")
              /\ task[g].pc = "sending"
            BY <1>4 DEF SendCancel
        <2>2. NativeGrows
            BY <1>0, <1>4, CancelGrows DEF SendCancel, NativeGrows
        <2>3. row' = row \/ row' = [row EXCEPT ![g] = UnsentRow(row[g])]
            BY <1>4 DEF SendCancel
        <2>4. /\ row'[g].st = row[g].st /\ row'[g].prompt = row[g].prompt
              /\ row'[g].inst = row[g].inst
              /\ \A h \in Gens \ {g} : row'[h] = row[h]
            BY <1>0, <2>3, RowEffects
        <2>5. RowInv(g)'
            <3>1. row[g].prompt \in Prompts \cup {NoPrompt}
                BY <1>0 DEF Row
            <3>2. QED
                BY <1>0, <2>2, <2>4, <3>1 DEF RowInv, Mine, NativeGrows
        <2>6. TaskInv(g)'
            BY <1>0, <2>1, <2>2, <2>4, Moves, GrowthKeepsPrompt
               DEF TaskInv, OutcomeKnown, Owned, Records, Mine
        <2>7. QED
            BY <1>0, <2>1, <2>2, <2>4, <2>5, <2>6, Moves, LocalStep
    <1>5. CASE PersistFiles(g)
        <2>1. /\ UNCHANGED <<disp, rec, mode, native>> /\ NativeGrows
              /\ task[g].pc = "finalizing"
            BY <1>5 DEF PersistFiles, NativeGrows
        <2>2. CASE row[g].st \in NoRow \cup Terminal
            BY <1>0, <1>5, <2>1, <2>2, Moves, EndedTaskNext, QuietMove DEF PersistFiles
        <2>3. CASE row[g].st \notin NoRow \cup Terminal
            <3>1. PICK a, f : row' = [row EXCEPT ![g] = ArchivedRow(row[g], a, f)]
                BY <1>5, <2>3 DEF PersistFiles
            <3>2. Goto(g, "persisted")
                BY <1>5, <2>3 DEF PersistFiles
            <3>3. /\ row'[g].st = row[g].st /\ row'[g].prompt = row[g].prompt
                  /\ row'[g].inst = row[g].inst
                  /\ \A h \in Gens \ {g} : row'[h] = row[h]
                BY <1>0, <3>1, RowEffects
            <3>4. RowInv(g)'
                BY <1>0, <2>1, <3>3 DEF RowInv, Mine
            <3>5. TaskInv(g)'
                BY <1>0, <2>1, <3>2, <3>3, Moves DEF TaskInv, OutcomeKnown, Owned, Records, Mine
            <3>6. QED
                BY <1>0, <2>1, <3>2, <3>3, <3>4, <3>5, Moves, LocalStep
        <2>4. QED
            BY <2>2, <2>3
    <1>6. CASE CommitFinalization(g)
        <2>1. /\ UNCHANGED <<disp, rec, mode, native>> /\ NativeGrows
              /\ task[g].pc = "persisted"
            BY <1>6 DEF CommitFinalization, NativeGrows
        <2>2. CASE row[g].st \in NoRow \cup Terminal
            BY <1>0, <1>6, <2>1, <2>2, Moves, EndedTaskNext, QuietMove DEF CommitFinalization
        <2>3. CASE row' = [row EXCEPT ![g] = RetryRow(row[g])] /\ Goto(g, "resetting")
            <3>1. /\ row'[g].st = "queued" /\ row'[g].prompt = NoPrompt
                  /\ \A h \in Gens \ {g} : row'[h] = row[h]
                BY <1>0, <2>3, RowEffects
            <3>2. RowInv(g)'
                BY <3>1 DEF RowInv
            <3>3. TaskInv(g)'
                BY <1>0, <2>1, <2>3, Moves DEF TaskInv, OutcomeKnown, Mine
            <3>4. QED
                BY <1>0, <2>1, <2>3, <3>1, <3>2, <3>3, Moves, LocalStep
        <2>4. CASE /\ row[g].st \notin NoRow \cup Terminal
                   /\ row' = [row EXCEPT ![g].st = FinalStatus(row[g], task[g].out)]
                   /\ Leave(g, row[g])
            <3> DEFINE f == FinalStatus(row[g], task[g].out)
            <3>1. task[g].out \in Outcomes \ {"none"}
                BY <1>0, <2>1 DEF TaskInv, OutcomeKnown, Task
            <3>2. f \in Terminal /\ (f = "succeeded" => task[g].out = "success")
                BY <1>0, <3>1, RowsStayRows DEF FinalStatus, Outcomes
            <3> HIDE DEF f
            <3>3. /\ row'[g].st = f /\ row'[g].prompt = row[g].prompt
                  /\ row'[g].inst = row[g].inst
                  /\ \A h \in Gens \ {g} : row'[h] = row[h]
                BY <1>0, <2>4, RowEffects DEF f
            <3>4. row[g].prompt = task[g].prompt
                BY <1>0, <2>1, <2>4 DEF TaskInv, Owned, Records, NoRow
            <3>5. RowInv(g)'
                BY <1>0, <2>1, <3>2, <3>3, <3>4 DEF RowInv, TaskInv, Mine, Terminal, NoRow
            <3>6. Goto(g, "deleting") \/ End(g)
                BY <2>4 DEF Leave
            <3>7. CASE End(g)
                BY <1>0, <2>1, <3>3, <3>5, <3>7, Moves, EndedTaskNext, LocalStep
            <3>8. CASE Goto(g, "deleting")
                <4>1. TaskInv(g)'
                    BY <1>0, <2>1, <3>2, <3>3, <3>8, Moves DEF TaskInv, OutcomeKnown, Mine
                <4>2. QED
                    BY <1>0, <2>1, <3>3, <3>5, <3>8, <4>1, Moves, LocalStep
            <3>9. QED
                BY <3>6, <3>7, <3>8
        <2>5. QED
            BY <1>6, <2>2, <2>3, <2>4 DEF CommitFinalization
    <1>7. CASE DeleteTerminalIfPresent(g)
        <2>1. /\ UNCHANGED <<disp, rec, mode, native>> /\ NativeGrows
              /\ task[g].pc = "deleting" /\ End(g)
              /\ row' = row \/ row' = [row EXCEPT ![g] = DeletedRow]
            BY <1>7 DEF DeleteTerminalIfPresent, NativeGrows
        <2>2. CASE row' = row
            BY <1>0, <2>1, <2>2, Moves, EndedTaskNext, QuietMove
        <2>3. CASE row' = [row EXCEPT ![g] = DeletedRow]
            <3>1. row'[g] = DeletedRow /\ \A h \in Gens \ {g} : row'[h] = row[h]
                BY <1>0, <2>3
            <3>2. RowInv(g)'
                BY <3>1 DEF RowInv, DeletedRow, AcceptedRow, NoRow, Terminal
            <3>3. QED
                BY <1>0, <2>1, <3>1, <3>2, Moves, EndedTaskNext, LocalStep
        <2>4. QED
            BY <2>1, <2>2, <2>3
    <1>8. CASE RequeueWrite(g)
        <2>1. /\ UNCHANGED <<disp, rec, mode, native>> /\ NativeGrows
              /\ task[g].pc = "requeueWrite" /\ End(g)
            BY <1>8 DEF RequeueWrite, NativeGrows
        <2>2. CASE row[g].st \in NoRow
            BY <1>0, <1>8, <2>1, <2>2, Moves, EndedTaskNext, QuietMove DEF RequeueWrite
        <2>3. CASE row[g].st \notin NoRow
            <3>1. row' = [row EXCEPT ![g] = RequeuedRow(row[g])]
                BY <1>8, <2>3 DEF RequeueWrite
            <3>2. row[g].prompt = NoPrompt
                BY <1>0, <2>1, <2>3 DEF TaskInv, Owned, Records, NoRow
            <3>3. /\ row'[g].st = "queued" /\ row'[g].prompt = NoPrompt
                  /\ \A h \in Gens \ {g} : row'[h] = row[h]
                BY <1>0, <3>1, <3>2, RowEffects
            <3>4. RowInv(g)'
                BY <3>3 DEF RowInv
            <3>5. QED
                BY <1>0, <2>1, <3>3, <3>4, Moves, EndedTaskNext, LocalStep
        <2>4. QED
            BY <2>2, <2>3
    <1>9. CASE FailWrite(g)
        <2>1. /\ UNCHANGED <<disp, rec, mode, native>> /\ NativeGrows
              /\ task[g].pc = "failWrite"
            BY <1>9 DEF FailWrite, NativeGrows
        <2>2. CASE row[g].st \in NoRow
            BY <1>0, <1>9, <2>1, <2>2, Moves, EndedTaskNext, QuietMove DEF FailWrite
        <2>3. CASE row[g].st \notin NoRow
            <3>1. row' = [row EXCEPT ![g] = FailedRow(row[g])]
                  /\ (Goto(g, "deleting") \/ End(g))
                BY <1>9, <2>3 DEF FailWrite
            <3>2. /\ row'[g].st = "failed" /\ row'[g].prompt = row[g].prompt
                  /\ row'[g].inst = row[g].inst
                  /\ \A h \in Gens \ {g} : row'[h] = row[h]
                BY <1>0, <3>1, RowEffects
            <3>3. RowInv(g)'
                BY <1>0, <2>1, <3>2 DEF RowInv, Mine, NoRow
            <3>4. CASE End(g)
                BY <1>0, <2>1, <3>2, <3>3, <3>4, Moves, EndedTaskNext, LocalStep
            <3>5. CASE Goto(g, "deleting")
                <4>1. TaskInv(g)'
                    BY <1>0, <2>1, <3>2, <3>5, Moves DEF TaskInv, OutcomeKnown, Mine, Terminal
                <4>2. QED
                    BY <1>0, <2>1, <3>2, <3>3, <3>5, <4>1, Moves, LocalStep
            <3>6. QED
                BY <3>1, <3>4, <3>5
        <2>4. QED
            BY <2>2, <2>3
    <1>10. QED
        BY <1>1, <1>2, <1>3, <1>4, <1>5, <1>6, <1>7, <1>8, <1>9

(* The API, the administrator and ComfyUI.                                 *)
LEMMA InvEnvironment ==
    ASSUME IInv, TypeOK', Handlers \/ ComfyUI \/ RequestStop
    PROVE  IInv'
    <1>0. TypeOK /\ row \in [Gens -> Row]
        BY DEF IInv, TypeOK
    <1>1. ASSUME NEW g \in Gens, Accept(g) \/ CancelQueued(g) \/ DeleteTerminal(g)
          PROVE  IInv'
        <2>1. UNCHANGED <<task, disp, rec, mode, native>> /\ NativeGrows
            BY <1>1 DEF Accept, CancelQueued, DeleteTerminal, NativeGrows
        <2>2. \A h \in Gens : EnvRow(h)
            BY <1>0, <1>1 DEF Accept, CancelQueued, DeleteTerminal, EnvRow, Terminal
        <2>3. QED
            BY <2>1, <2>2, EnvStep
    <1>2. ASSUME NEW g \in Gens, NEW deleting \in BOOLEAN, RequestCancel(g, deleting)
          PROVE  IInv'
        <2>1. UNCHANGED <<task, disp, rec, mode, native>> /\ NativeGrows
            BY <1>2 DEF RequestCancel, NativeGrows
        <2> DEFINE r == CancelRow(row[g], deleting)
        <2>2. r.st = "cancel_requested" /\ r.prompt = row[g].prompt /\ r.inst = row[g].inst
            BY <1>0, RowEffects
        <2>3. row' = [row EXCEPT ![g] = r] /\ row[g].st \in InFlight
            BY <1>2 DEF RequestCancel, Cancellable
        <2> HIDE DEF r
        <2>4. \A h \in Gens : EnvRow(h)
            BY <1>0, <2>2, <2>3 DEF EnvRow, InFlight
        <2>5. QED
            BY <2>1, <2>4, EnvStep
    <1>3. ASSUME NEW p \in Prompts, NotifyCancel(p)
          PROVE  IInv'
        <2>1. NativeGrows
            BY <1>0, <1>3, CancelGrows DEF NotifyCancel, NativeGrows
        <2>2. UNCHANGED <<row, task, disp, rec, mode>>
            BY <1>3 DEF NotifyCancel
        <2>3. QED
            BY <2>1, <2>2, EnvStep DEF EnvRow
    <1>4. CASE MarkAccountDeleting
        <2>1. UNCHANGED <<task, disp, rec, mode, native>> /\ NativeGrows
            BY <1>4 DEF MarkAccountDeleting, NativeGrows
        <2>2. ASSUME NEW g \in Gens PROVE EnvRow(g)
            <3>1. row[g] \in Row
                BY <1>0
            <3>2. \/ row'[g] = row[g]
                  \/ row[g].st = "queued" /\ row'[g] = [row[g] EXCEPT !.st = "cancelled"]
                  \/ row[g].st \in InFlight /\ row'[g] = [row[g] EXCEPT !.st = "cancel_requested"]
                BY <1>4 DEF MarkAccountDeleting
            <3>3. /\ row'[g] = [row[g] EXCEPT !.st = "cancelled"]
                     => /\ row'[g].st = "cancelled" /\ row'[g].prompt = row[g].prompt
                        /\ row'[g].inst = row[g].inst
                  /\ row'[g] = [row[g] EXCEPT !.st = "cancel_requested"]
                     => /\ row'[g].st = "cancel_requested" /\ row'[g].prompt = row[g].prompt
                        /\ row'[g].inst = row[g].inst
                BY <3>1 DEF Row
            <3>4. QED
                BY <3>2, <3>3 DEF EnvRow, InFlight
        <2>3. QED
            BY <2>1, <2>2, EnvStep
    <1>5. CASE RemoveAccount
        <2>1. UNCHANGED <<task, disp, rec, mode, native>> /\ NativeGrows
            BY <1>5 DEF RemoveAccount, NativeGrows
        <2>2. \A g \in Gens : EnvRow(g)
            BY <1>5 DEF RemoveAccount, EnvRow
        <2>3. QED
            BY <2>1, <2>2, EnvStep
    <1>6. ASSUME NEW p \in Prompts, NativeFinish(p) \/ NativeLost(p)
          PROVE  IInv'
        <2>1. UNCHANGED <<row, task, disp, rec, mode>>
            BY <1>6 DEF NativeFinish, NativeLost
        <2>2. native[p] \in Native
            BY <1>0 DEF TypeOK
        <2>3. CASE NativeLost(p)
            <3> DEFINE n == LostNative(native[p])
            <3>1. /\ n.gen = native[p].gen /\ n.inst = native[p].inst
                  /\ native[p].st # "unused" => n.st # "unused"
                  /\ native[p].st = "succeeded" => n.st = "succeeded"
                BY <2>2 DEF LostNative, Native
            <3>2. native' = [native EXCEPT ![p] = n]
                BY <2>3 DEF NativeLost
            <3> HIDE DEF n
            <3>3. NativeGrows
                BY <1>0, <3>1, <3>2 DEF NativeGrows, TypeOK
            <3>4. QED
                BY <2>1, <3>3, EnvStep DEF EnvRow
        <2>4. CASE NativeFinish(p)
            <3>1. NativeGrows
                BY <1>0, <2>2, <2>4 DEF NativeFinish, NativeGrows, TypeOK, Native
            <3>2. QED
                BY <2>1, <3>1, EnvStep DEF EnvRow
        <2>5. QED
            BY <1>6, <2>3, <2>4
    <1>7. CASE RequestStop
        <2>1. UNCHANGED <<row, task, disp, rec, native>> /\ Serving /\ mode' = "stopping"
            BY <1>7 DEF RequestStop
        <2>2. NativeGrows
            BY <2>1 DEF NativeGrows
        <2>3. QED
            BY <2>1, <2>2, EnvStep DEF EnvRow
    <1>8. QED
        BY <1>1, <1>2, <1>3, <1>4, <1>5, <1>6, <1>7 DEF Handlers, ComfyUI

(* The dispatcher.                                                         *)
LEMMA InvDispatcher ==
    ASSUME IInv, TypeOK', Dispatcher
    PROVE  IInv'
    <1>0. TypeOK /\ row \in [Gens -> Row] /\ task \in [Gens -> Task]
        BY DEF IInv, TypeOK
    <1>1. ASSUME NEW i \in Instances, NEW g \in Gens, ClaimNext(i, g)
          PROVE  IInv'
        <2>1. /\ UNCHANGED <<task, rec, mode, native>> /\ NativeGrows
              /\ mode = "running" /\ row[g].st = "queued"
              /\ disp' = [pc |-> "claimed", gen |-> g, inst |-> i, seen |-> FALSE]
              /\ row' = [row EXCEPT ![g] = ClaimedRow(row[g], i)]
            BY <1>1 DEF ClaimNext, NativeGrows
        <2>2. row[g].prompt = NoPrompt
            BY <2>1 DEF IInv, RowInv
        <2>3. /\ row'[g].st = "dispatching" /\ row'[g].inst = i /\ row'[g].prompt = NoPrompt
              /\ \A h \in Gens \ {g} : row'[h] = row[h]
            BY <1>0, <2>1, <2>2, RowEffects
        <2>4. task[g].pc \in Quiet
            BY <1>0, <2>1 DEF IInv, TaskInv, Owned, InFlight, Terminal, Quiet, BeforeMark, AfterMark, Task, Pcs
        <2>5. RowInv(g)' /\ TaskInv(g)'
            BY <2>1, <2>3, <2>4 DEF IInv, RowInv, TaskInv, OutcomeKnown, Mine, NoRow,
                                     Quiet, BeforeMark, AfterMark
        <2>6. ASSUME NEW h \in Gens PROVE RowInv(h)' /\ TaskInv(h)'
            <3>1. CASE h = g
                BY <2>5, <3>1
            <3>2. CASE h # g
                BY <1>0, <2>1, <2>3, <3>2, EnvKeepsRow, EnvKeepsTask DEF IInv, EnvRow
            <3>3. QED
                BY <3>1, <3>2
        <2>7. DispInv'
            BY <2>1, <2>3, <2>4 DEF DispInv, Owned, Records, InFlight, IInv, RecInv
        <2>8. RecInv'
            BY <2>1 DEF IInv, RecInv
        <2>9. QED
            BY <2>6, <2>7, <2>8 DEF IInv
    <1>2. CASE StartTask
        <2> DEFINE g == disp.gen
                   t == NewTask("loading", disp.inst, "task")
        <2>1. /\ UNCHANGED <<row, rec, mode, native>> /\ NativeGrows
              /\ disp' = NoClaim /\ mode = "running"
              /\ task' = task \/ task' = [task EXCEPT ![g] = t]
            BY <1>2 DEF StartTask, NativeGrows
        <2>2. g \in Gens /\ Owned(g) /\ Records(g, NoPrompt, disp.inst) /\ rec.pc = "idle"
            BY <1>2 DEF StartTask, IInv, DispInv
        <2>3. t.pc = "loading" /\ t.inst = disp.inst /\ t.prompt = NoPrompt /\ t.out = "none"
            BY DEF NewTask, Idle
        <2> HIDE DEF g, t
        <2>4. ASSUME NEW h \in Gens PROVE RowInv(h)' /\ TaskInv(h)'
            <3>1. RowInv(h)'
                BY <2>1 DEF IInv, RowInv, Mine
            <3>2. CASE task'[h] = task[h]
                BY <2>1, <3>1, <3>2, EnvKeepsTask DEF IInv, EnvRow
            <3>3. CASE h = g /\ task'[h] = t
                BY <2>1, <2>2, <2>3, <3>1, <3>3
                   DEF TaskInv, OutcomeKnown, Owned, Records, BeforeMark, AfterMark
            <3>4. QED
                BY <1>0, <2>1, <2>2, <3>1, <3>2, <3>3
        <2>5. DispInv' /\ RecInv'
            BY <2>1, <2>2 DEF IInv, DispInv, RecInv, NoClaim
        <2>6. QED
            BY <2>4, <2>5 DEF IInv
    <1>3. CASE RequeueClaimRead
        <2>1. /\ UNCHANGED <<row, task, rec, mode, native>> /\ NativeGrows
              /\ disp.pc # "none" /\ disp'.gen = disp.gen /\ disp'.inst = disp.inst
            BY <1>0, <1>3 DEF RequeueClaimRead, NativeGrows, TypeOK, Claim
        <2>2. ASSUME NEW h \in Gens PROVE RowInv(h)' /\ TaskInv(h)'
            BY <2>1 DEF IInv, RowInv, TaskInv, OutcomeKnown, Owned, Records, Mine
        <2>3. DispInv'
            BY <2>1 DEF IInv, DispInv, Owned, Records
        <2>4. RecInv'
            BY <2>1 DEF IInv, DispInv, RecInv
        <2>5. QED
            BY <2>2, <2>3, <2>4 DEF IInv
    <1>4. CASE RequeueClaimWrite
        <2> DEFINE g == disp.gen
        <2>1. /\ UNCHANGED <<task, rec, mode, native>> /\ NativeGrows /\ disp' = NoClaim
              /\ \/ row' = row
                 \/ row[g].st \notin NoRow /\ row' = [row EXCEPT ![g] = RequeuedRow(row[g])]
            BY <1>4 DEF RequeueClaimWrite, NativeGrows
        <2>2. /\ g \in Gens /\ Owned(g) /\ Records(g, NoPrompt, disp.inst) /\ rec.pc = "idle"
              /\ task[g].pc \in Quiet
            BY <1>4 DEF RequeueClaimWrite, IInv, DispInv
        <2> HIDE DEF g
        <2>3. \/ row' = row
              \/ /\ row'[g].st = "queued" /\ row'[g].prompt = NoPrompt
                 /\ \A h \in Gens \ {g} : row'[h] = row[h]
            BY <1>0, <2>1, <2>2, RowEffects DEF Owned, Records, NoRow
        <2>4. ASSUME NEW h \in Gens PROVE RowInv(h)' /\ TaskInv(h)'
            <3>1. CASE row'[h] = row[h]
                BY <1>0, <2>1, <3>1, EnvKeepsRow, EnvKeepsTask DEF IInv, EnvRow
            <3>2. CASE h = g /\ row'[g].st = "queued" /\ row'[g].prompt = NoPrompt
                BY <2>1, <2>2, <3>2 DEF IInv, RowInv, TaskInv, OutcomeKnown, Mine, Quiet,
                                         BeforeMark, AfterMark
            <3>3. QED
                BY <2>3, <3>1, <3>2
        <2>5. DispInv' /\ RecInv'
            BY <2>1, <2>2 DEF IInv, DispInv, RecInv, NoClaim
        <2>6. QED
            BY <2>4, <2>5 DEF IInv
    <1>5. QED
        BY <1>1, <1>2, <1>3, <1>4 DEF Dispatcher

(* Startup recovery.                                                       *)
PlanInv(plan) ==
    /\ \A g \in plan.requeue \cup plan.cancelled : Owned(g) /\ row[g].prompt = NoPrompt
    /\ \A g \in plan.release \cup plan.unconfigured :
         row[g].st \in {"queued", "deleted"} \cup Terminal /\ row[g].prompt = NoPrompt
    /\ \A j \in plan.jobs : JobInv(j)
    /\ \A j, k \in plan.jobs : j.gen = k.gen => j = k

LEMMA InFlightPlanInv ==
    ASSUME IInv, \A g \in Gens : task[g].pc = "none"
    PROVE  LET f == InFlightPlan IN
           /\ \A g \in f.requeue \cup f.cancelled : Owned(g) /\ row[g].prompt = NoPrompt
           /\ \A j \in f.jobs : JobInv(j)
           /\ \A j, k \in f.jobs : j.gen = k.gen => j = k
    <1> DEFINE f == InFlightPlan
    <1>1. \A g \in f.requeue \cup f.cancelled : Owned(g) /\ row[g].prompt = NoPrompt
        BY DEF InFlightPlan, Unsubmitted, Owned
    <1>2. ASSUME NEW j \in f.jobs
          PROVE  /\ j.gen \in Gens /\ row[j.gen].st \in InFlight /\ row[j.gen].prompt # NoPrompt
                 /\ j = [gen |-> j.gen, inst |-> row[j.gen].inst, prompt |-> row[j.gen].prompt]
        BY DEF InFlightPlan, Unsubmitted
    <1> HIDE DEF f
    <1>3. ASSUME NEW j \in f.jobs PROVE JobInv(j)
        <2>1. j.gen \in Gens /\ row[j.gen].st \in InFlight /\ row[j.gen].prompt # NoPrompt
            BY <1>2
        <2>2. j.inst = row[j.gen].inst /\ j.prompt = row[j.gen].prompt
            BY <1>2
        <2>3. Mine(j.gen, j.prompt, j.inst)
            BY <2>1, <2>2 DEF IInv, RowInv
        <2>4. QED
            BY <2>1, <2>2, <2>3 DEF JobInv, Owned, Records
    <1>4. \A j, k \in f.jobs : j.gen = k.gen => j = k
        BY <1>2
    <1>5. QED
        BY <1>1, <1>3, <1>4 DEF f

LEMMA InvRecoverRead ==
    ASSUME IInv, TypeOK', RecoverRead
    PROVE  IInv'
    <1> DEFINE f == InFlightPlan
    <1>1. /\ UNCHANGED <<row, task, disp, mode, native>> /\ mode = "recovering"
          /\ rec.pc = "read"
          /\ rec' = [pc |-> "write", requeue |-> f.requeue, cancelled |-> f.cancelled,
                     release |-> Releasable, unconfigured |-> Unconfigured, jobs |-> f.jobs]
        BY DEF RecoverRead
    <1>2. \A g \in Gens : task[g].pc = "none"
        BY <1>1 DEF IInv, RecInv
    <1>3. /\ \A g \in f.requeue \cup f.cancelled : Owned(g) /\ row[g].prompt = NoPrompt
          /\ \A j \in f.jobs : JobInv(j)
          /\ \A j, k \in f.jobs : j.gen = k.gen => j = k
        BY <1>2, InFlightPlanInv
    <1>4. \A g \in Releasable \cup Unconfigured : row[g].st = "queued" /\ row[g].prompt = NoPrompt
        BY DEF Releasable, Unconfigured, PinnedQueued, IInv, RowInv
    <1> HIDE DEF f
    <1>5. /\ rec'.pc = "write" /\ rec'.requeue = f.requeue /\ rec'.cancelled = f.cancelled
          /\ rec'.release = Releasable /\ rec'.unconfigured = Unconfigured /\ rec'.jobs = f.jobs
        BY <1>1
    <1>6. \A g : /\ Owned(g)' <=> Owned(g)
                 /\ \A p, i : Records(g, p, i)' <=> Records(g, p, i)
        BY <1>1 DEF Owned, Records
    <1>7. \A j : JobInv(j)' <=> JobInv(j)
        BY <1>1 DEF JobInv, Owned, Records, Mine
    <1>8. ASSUME NEW g \in Gens PROVE RowInv(g)' /\ TaskInv(g)'
        BY <1>1 DEF IInv, RowInv, TaskInv, OutcomeKnown, Owned, Records, Mine
    <1>9. DispInv'
        BY <1>1 DEF IInv, DispInv
    <1>10. RecInv'
        BY <1>1, <1>2, <1>3, <1>4, <1>5, <1>6, <1>7 DEF RecInv
    <1>11. QED
        BY <1>8, <1>9, <1>10 DEF IInv

(* The plan that is written is as good as the plan that was read.          *)
LEMMA WritePlanInv ==
    ASSUME IInv, rec.pc = "write"
    PROVE  PlanInv(WritePlan)
    <1>1. PlanInv(rec)
        BY DEF IInv, RecInv, PlanInv
    <1>2. CASE rec.release \cup rec.unconfigured = {}
        BY <1>1, <1>2 DEF WritePlan
    <1>3. CASE rec.release \cup rec.unconfigured # {}
        <2> DEFINE f == InFlightPlan
                   w == [rec EXCEPT !.requeue = f.requeue, !.cancelled = f.cancelled,
                                    !.jobs = f.jobs]
        <2>1. WritePlan = w
            BY <1>3 DEF WritePlan
        <2>2. /\ \A g \in f.requeue \cup f.cancelled : Owned(g) /\ row[g].prompt = NoPrompt
              /\ \A j \in f.jobs : JobInv(j)
              /\ \A j, k \in f.jobs : j.gen = k.gen => j = k
            BY InFlightPlanInv DEF IInv, RecInv
        <2>3. rec \in Plan
            BY DEF IInv, TypeOK
        <2> HIDE DEF f
        <2>4. /\ w.requeue = f.requeue /\ w.cancelled = f.cancelled /\ w.jobs = f.jobs
              /\ w.release = rec.release /\ w.unconfigured = rec.unconfigured
            BY <2>3 DEF Plan
        <2> HIDE DEF w
        <2>5. QED
            BY <1>1, <2>1, <2>2, <2>4 DEF PlanInv
    <1>4. QED
        BY <1>2, <1>3

LEMMA InvRecoverWrite ==
    ASSUME IInv, TypeOK', RecoverWrite
    PROVE  IInv'
    <1> DEFINE plan == WritePlan
    <1>0. TypeOK /\ row \in [Gens -> Row]
        BY DEF IInv, TypeOK
    <1>1. /\ UNCHANGED <<task, disp, mode, native>> /\ rec.pc = "write" /\ NativeGrows
          /\ \/ rec' = [NoPlan EXCEPT !.pc = "read"] /\ row' = row
             \/ /\ \A g \in plan.requeue \cup plan.release \cup plan.unconfigured :
                     row[g].st \notin NoRow
                /\ row' = [g \in Gens |-> Recovered(plan, g)]
                /\ rec' = [NoPlan EXCEPT !.pc = "jobs", !.jobs = plan.jobs]
        BY DEF RecoverWrite, NativeGrows
    <1>2. PlanInv(plan) /\ plan \in Plan
        BY <1>0, <1>1, WritePlanInv, PlansArePlans
    <1>3. /\ \A g \in Gens : task[g].pc = "none" /\ TaskInv(g)
          /\ mode \notin {"running", "down"} /\ disp.pc = "none"
        BY <1>1 DEF IInv, RecInv, DispInv
    <1> HIDE DEF plan
    <1>4. CASE rec' = [NoPlan EXCEPT !.pc = "read"] /\ row' = row
        <2>1. rec'.pc = "read"
            BY <1>4 DEF NoPlan
        <2>2. ASSUME NEW g \in Gens PROVE RowInv(g)' /\ TaskInv(g)'
            BY <1>0, <1>1, <1>4, EnvKeepsRow, EnvKeepsTask DEF IInv, EnvRow
        <2>3. DispInv' /\ RecInv'
            BY <1>1, <1>3, <2>1 DEF DispInv, RecInv
        <2>4. QED
            BY <2>2, <2>3 DEF IInv
    <1>5. CASE /\ \A g \in plan.requeue \cup plan.release \cup plan.unconfigured :
                    row[g].st \notin NoRow
               /\ row' = [g \in Gens |-> Recovered(plan, g)]
               /\ rec' = [NoPlan EXCEPT !.pc = "jobs", !.jobs = plan.jobs]
        <2>1. rec'.pc = "jobs" /\ rec'.jobs = plan.jobs
            BY <1>5 DEF NoPlan
        <2>2. ASSUME NEW g \in Gens
              PROVE  \/ row'[g] = row[g]
                     \/ /\ g \in plan.requeue \cup plan.cancelled \cup plan.release
                                 \cup plan.unconfigured
                        /\ row[g].st \notin NoRow
                        /\ row'[g].prompt = NoPrompt
                        /\ row'[g].st \in {"queued"} \cup (Terminal \ {"succeeded"})
                           \/ row'[g].st = row[g].st
            <3>1. row[g] \in Row /\ row'[g] = Recovered(plan, g)
                BY <1>0, <1>5
            <3>2. CASE g \in plan.requeue
                BY <1>2, <1>5, <3>1, <3>2, RowEffects DEF Recovered, PlanInv
            <3>3. CASE g \in plan.cancelled \ plan.requeue
                <4>1. row'[g] = row[g] \/ /\ row[g].st \notin NoRow
                                          /\ row'[g] = [row[g] EXCEPT !.st = "cancelled"]
                    BY <3>1, <3>3 DEF Recovered
                <4>2. [row[g] EXCEPT !.st = "cancelled"].prompt = row[g].prompt
                      /\ [row[g] EXCEPT !.st = "cancelled"].st = "cancelled"
                    BY <3>1, RowEffects
                <4>3. QED
                    BY <1>2, <3>3, <4>1, <4>2 DEF PlanInv, Terminal
            <3>4. CASE g \in plan.release \ (plan.requeue \cup plan.cancelled)
                <4>1. row'[g] = ReleasedRow(row[g])
                    BY <3>1, <3>4 DEF Recovered
                <4>2. row'[g].prompt = row[g].prompt /\ row'[g].st = row[g].st
                    BY <3>1, <4>1, RowEffects
                <4>3. QED
                    BY <1>2, <1>5, <3>4, <4>2 DEF PlanInv
            <3>5. CASE g \in plan.unconfigured \ (plan.requeue \cup plan.cancelled \cup plan.release)
                <4>1. row'[g] = FailedRow(row[g])
                    BY <3>1, <3>5 DEF Recovered
                <4>2. row'[g].prompt = row[g].prompt /\ row'[g].st = "failed"
                    BY <3>1, <4>1, RowEffects
                <4>3. QED
                    BY <1>2, <1>5, <3>5, <4>2 DEF PlanInv, Terminal
            <3>6. CASE g \notin plan.requeue \cup plan.cancelled \cup plan.release
                                  \cup plan.unconfigured
                BY <3>1, <3>6 DEF Recovered
            <3>7. QED
                BY <3>2, <3>3, <3>4, <3>5, <3>6
        <2>3. ASSUME NEW g \in Gens PROVE RowInv(g)' /\ TaskInv(g)'
            <3>1. CASE row'[g] = row[g]
                BY <1>0, <1>1, <3>1, EnvKeepsRow, EnvKeepsTask DEF IInv, EnvRow
            <3>2. CASE /\ row'[g].prompt = NoPrompt
                       /\ row'[g].st \in {"queued"} \cup (Terminal \ {"succeeded"})
                          \/ row'[g].st = row[g].st
                       /\ row[g].prompt = NoPrompt
                <4>1. RowInv(g)'
                    BY <3>2 DEF IInv, RowInv
                <4>2. TaskInv(g)'
                    BY <1>1, <1>3 DEF TaskInv, OutcomeKnown, BeforeMark, AfterMark, Mine
                <4>3. QED
                    BY <4>1, <4>2
            <3>3. QED
                BY <1>2, <2>2, <3>1, <3>2 DEF PlanInv
        <2>4. ASSUME NEW j \in plan.jobs PROVE JobInv(j)'
            <3>1. j.gen \in Gens /\ j.prompt \in Prompts /\ JobInv(j)
                BY <1>2 DEF PlanInv, Plan, Job
            <3>2. j.prompt # NoPrompt
                BY <3>1 DEF Prompts, NoPrompt
            <3>3. row'[j.gen] = row[j.gen]
                <4>1. row[j.gen].st \in InFlight => row[j.gen].prompt # NoPrompt
                    BY <3>1, <3>2 DEF JobInv, Records
                <4>2. row[j.gen].st \in InFlight \/ row[j.gen].st = "deleted"
                    BY <3>1 DEF JobInv, Owned
                <4>3. QED
                    BY <1>2, <2>2, <3>1, <4>1, <4>2 DEF PlanInv, Terminal, InFlight, NoRow
            <3>4. QED
                BY <1>1, <3>1, <3>3 DEF JobInv, Owned, Records, Mine
        <2>5. DispInv' /\ RecInv'
            BY <1>1, <1>2, <1>3, <2>1, <2>4 DEF DispInv, RecInv, PlanInv
        <2>6. QED
            BY <2>3, <2>5 DEF IInv
    <1>6. QED
        BY <1>1, <1>4, <1>5

LEMMA InvRecoverJob ==
    ASSUME IInv, TypeOK', NEW j \in rec.jobs, RecoverJob(j)
    PROVE  IInv'
    <1>0. TypeOK /\ task \in [Gens -> Task] /\ rec \in Plan
        BY DEF IInv, TypeOK
    <1> DEFINE g == j.gen
    <1>1. /\ UNCHANGED <<row, disp, mode, native>> /\ rec.pc = "jobs" /\ mode = "recovering"
          /\ NativeGrows
        BY DEF RecoverJob, NativeGrows
    <1>2. rec'.pc = "jobs" /\ rec'.jobs = rec.jobs \ {j}
        BY <1>0, <1>1 DEF RecoverJob, Plan
    <1>3. g \in Gens /\ JobInv(j) /\ j.prompt # NoPrompt
        BY <1>0, <1>1 DEF IInv, RecInv, Plan, Job, Prompts, NoPrompt
    <1>4. \A k \in rec.jobs \ {j} : k.gen # g /\ k.gen \in Gens /\ JobInv(k)
        BY <1>0, <1>1 DEF IInv, RecInv, Plan, Job
    <1>5. /\ \A h \in Gens \ {g} : task'[h] = task[h]
          /\ task'[g].prompt = j.prompt /\ task'[g].inst = j.inst
          /\ task'[g].pc \in {"finalizing", "monitoring"}
          /\ task'[g].pc = "finalizing" => task'[g].out # "none"
          /\ task'[g].out = "success" => native[j.prompt].st = "succeeded"
        <2>1. ASSUME NEW pc, NEW out, NEW ctx, StartJob(j, pc, out, ctx)
              PROVE  /\ \A h \in Gens \ {g} : task'[h] = task[h]
                     /\ task'[g].prompt = j.prompt /\ task'[g].inst = j.inst
                     /\ task'[g].pc = pc /\ task'[g].out = out
            <3> DEFINE t == [NewTask(pc, j.inst, ctx) EXCEPT !.prompt = j.prompt, !.out = out]
            <3>1. t.prompt = j.prompt /\ t.inst = j.inst /\ t.pc = pc /\ t.out = out
                BY DEF NewTask, Idle
            <3>2. task' = [task EXCEPT ![g] = t]
                BY <2>1 DEF StartJob
            <3> HIDE DEF t
            <3>3. QED
                BY <1>0, <1>3, <3>1, <3>2
        <2>2. \/ StartJob(j, "finalizing", "interrupted", "startup")
              \/ /\ InHistory(j.prompt)
                 /\ StartJob(j, "finalizing", OutcomeOf(j.prompt), "startup")
              \/ StartJob(j, "monitoring", "none", "task")
            BY DEF RecoverJob
        <2>3. InHistory(j.prompt) => /\ OutcomeOf(j.prompt) # "none"
                                     /\ OutcomeOf(j.prompt) = "success"
                                        => native[j.prompt].st = "succeeded"
            BY DEF InHistory, OutcomeOf
        <2>4. QED
            BY <2>1, <2>2, <2>3
    <1>6. ASSUME NEW h \in Gens PROVE RowInv(h)' /\ TaskInv(h)'
        <2>1. RowInv(h)'
            BY <1>1 DEF IInv, RowInv, Mine
        <2>2. CASE h # g
            <3>1. task'[h] = task[h] /\ EnvRow(h) /\ TaskInv(h)
                BY <1>1, <1>5, <2>2 DEF IInv, EnvRow
            <3>2. QED
                BY <1>0, <1>1, <2>1, <3>1, EnvKeepsTask
        <2>3. CASE h = g
            <3>1. Owned(g) /\ Records(g, j.prompt, j.inst) /\ Mine(g, j.prompt, j.inst)
                BY <1>3 DEF JobInv
            <3>2. QED
                BY <1>1, <1>3, <1>5, <2>1, <2>3, <3>1
                   DEF TaskInv, OutcomeKnown, Owned, Records, Mine, BeforeMark, AfterMark
        <2>4. QED
            BY <2>1, <2>2, <2>3
    <1>7. DispInv'
        BY <1>1 DEF IInv, DispInv
    <1>8. \A k \in rec.jobs \ {j} : JobInv(k)'
        BY <1>1, <1>4, <1>5 DEF JobInv, Owned, Records, Mine
    <1>9. RecInv'
        BY <1>1, <1>2, <1>8 DEF IInv, RecInv
    <1>10. QED
        BY <1>6, <1>7, <1>9 DEF IInv

LEMMA InvProcess ==
    ASSUME IInv, TypeOK', FinishRecovery \/ StopRecovery \/ Halt \/ Crash \/ Restart
    PROVE  IInv'
    <1>0. TypeOK
        BY DEF IInv
    <1>1. UNCHANGED <<row, native>> /\ NativeGrows
        BY DEF FinishRecovery, StopRecovery, Halt, Crash, Restart, NativeGrows
    <1>2. CASE FinishRecovery \/ StopRecovery
        <2>1. /\ UNCHANGED <<task, disp>> /\ rec' = NoPlan /\ mode' # "down"
              /\ disp.pc # "none" => mode' \in {"running", "stopping"}
            BY <1>2 DEF FinishRecovery, StopRecovery
        <2>2. ASSUME NEW g \in Gens PROVE RowInv(g)' /\ TaskInv(g)'
            BY <1>0, <1>1, <2>1, EnvKeepsRow, EnvKeepsTask DEF IInv, EnvRow
        <2>3. DispInv'
            BY <1>1, <2>1 DEF IInv, DispInv, Owned, Records, NoPlan
        <2>4. RecInv'
            BY <2>1 DEF RecInv, NoPlan
        <2>5. QED
            BY <2>2, <2>3, <2>4 DEF IInv
    <1>3. CASE Halt \/ Crash
        <2>1. /\ \A g \in Gens : task'[g] = Idle
              /\ disp' = NoClaim /\ rec' = NoPlan /\ mode' = "down"
            BY <1>3 DEF Halt, Crash, Forget
        <2>2. ASSUME NEW g \in Gens PROVE RowInv(g)' /\ TaskInv(g)'
            <3>1. RowInv(g)'
                BY <1>1 DEF IInv, RowInv, Mine
            <3>2. task'[g].pc \in Quiet /\ task'[g].prompt = NoPrompt /\ task'[g].out = "none"
                BY <2>1 DEF Idle, Quiet
            <3>3. QED
                BY <3>1, <3>2, EndedTaskNext
        <2>3. DispInv' /\ RecInv'
            BY <2>1 DEF DispInv, RecInv, NoClaim, NoPlan, Idle
        <2>4. QED
            BY <2>2, <2>3 DEF IInv
    <1>4. CASE Restart
        <2>1. /\ UNCHANGED <<task, disp>> /\ mode = "down" /\ mode' = "recovering"
              /\ rec'.pc = "read"
            BY <1>4 DEF Restart, NoPlan
        <2>2. ASSUME NEW g \in Gens PROVE RowInv(g)' /\ TaskInv(g)'
            BY <1>0, <1>1, <2>1, EnvKeepsRow, EnvKeepsTask DEF IInv, EnvRow
        <2>3. DispInv' /\ RecInv'
            BY <2>1 DEF IInv, DispInv, RecInv
        <2>4. QED
            BY <2>2, <2>3 DEF IInv
    <1>5. QED
        BY <1>2, <1>3, <1>4

LEMMA InvInit == Init => IInv
    <1> SUFFICES ASSUME Init PROVE IInv
        OBVIOUS
    <1>1. TypeOK
        BY TypeInit
    <1>2. ASSUME NEW g \in Gens PROVE RowInv(g) /\ TaskInv(g)
        <2>1. task[g].pc = "none" /\ task[g].prompt = NoPrompt /\ task[g].out = "none"
            BY DEF Init, Idle
        <2>2. row[g].prompt = NoPrompt /\ row[g].st # "succeeded"
            BY DEF Init, AbsentRow, LegacyRow, AcceptedRow
        <2>3. QED
            BY <2>1, <2>2, EndedTask DEF RowInv, Quiet
    <1>3. DispInv /\ RecInv
        BY DEF Init, DispInv, RecInv, NoClaim, NoPlan, Idle
    <1>4. QED
        BY <1>1, <1>2, <1>3 DEF IInv

(* Every step keeps the invariant.                                         *)
LEMMA InvNext ==
    ASSUME IInv, [Next]_vars
    PROVE  IInv'
    <1>1. CASE UNCHANGED vars
        <2>1. TypeOK'
            BY <1>1 DEF IInv, TypeOK, vars
        <2>2. NativeGrows /\ \A g \in Gens : EnvRow(g)
            BY <1>1 DEF vars, NativeGrows, EnvRow
        <2>3. QED
            BY <1>1, <2>1, <2>2, EnvStep DEF vars
    <1>2. CASE Next
        <2>1. TypeOK'
            BY <1>2, TypeNext DEF IInv, TaskInv
        <2>2. ASSUME NEW g \in Gens, Execute(g) PROVE IInv'
            BY <2>1, <2>2, InvQuietMoves, InvSubmission, InvRowWrites DEF Execute
        <2>3. ASSUME NEW g \in Gens, Monitor(g) PROVE IInv'
            BY <2>1, <2>3, InvQuietMoves, InvRowWrites DEF Monitor
        <2>4. ASSUME NEW g \in Gens, Settle(g) PROVE IInv'
            BY <2>1, <2>4, InvQuietMoves, InvRowWrites DEF Settle
        <2>5. CASE Handlers \/ ComfyUI
            BY <2>1, <2>5, InvEnvironment
        <2>6. CASE Dispatcher
            BY <2>1, <2>6, InvDispatcher
        <2>7. CASE Recovery
            BY <2>1, <2>7, InvRecoverRead, InvRecoverWrite, InvRecoverJob, InvProcess DEF Recovery
        <2>8. CASE Process
            BY <2>1, <2>8, InvEnvironment, InvQuietMoves, InvProcess DEF Process
        <2>9. QED
            BY <1>2, <2>2, <2>3, <2>4, <2>5, <2>6, <2>7, <2>8 DEF Next
    <1>3. QED
        BY <1>1, <1>2

-----------------------------------------------------------------------------
(* The theorems.                                                           *)

(* The inductive invariant holds in every reachable state, whatever the    *)
(* deployments, the faults and their number, and the number of prompts.    *)
THEOREM Invariance == Spec => []IInv
    <1>1. Init => IInv
        BY InvInit
    <1>2. IInv /\ [Next]_vars => IInv'
        BY InvNext
    <1>3. QED
        BY <1>1, <1>2, PTL DEF Spec

(* Rows, executors, the claim, the plan and ComfyUI's prompts keep their   *)
(* types: no transaction writes a status or a reference outside of them.   *)
THEOREM TypeCorrectness == Spec => []TypeOK
    <1>1. IInv => TypeOK
        BY DEF IInv
    <1>2. QED
        BY <1>1, Invariance, PTL

(* An executor of a generation in flight acts on the prompt and the worker *)
(* the row records, and that prompt is this generation's (EXEC-004).       *)
THEOREM PromptOwnership == Spec => []MonitorOwnsPrompt
    <1>1. IInv => MonitorOwnsPrompt
        BY DEF IInv, TaskInv, Records, Mine, MonitorOwnsPrompt, AfterMark
    <1>2. QED
        BY <1>1, Invariance, PTL

(* A generation is reported as succeeded only if ComfyUI executed the      *)
(* prompt its row names to success, for it and on the worker it names.     *)
THEOREM EarnedSuccess == Spec => []SuccessIsEarned
    <1>1. ASSUME IInv, NEW g \in Gens, row[g].st = "succeeded"
          PROVE  \E p \in Successes(g) : row[g].prompt = p /\ row[g].inst = native[p].inst
        <2>1. row[g].prompt \in Prompts /\ RowInv(g)
            BY <1>1 DEF IInv, TypeOK, Row, RowInv
        <2>2. native[row[g].prompt].st = "succeeded"
              /\ Mine(g, row[g].prompt, row[g].inst)
            BY <1>1, <2>1 DEF RowInv
        <2>3. QED
            BY <2>1, <2>2 DEF Successes, Mine
    <1>2. IInv => SuccessIsEarned
        BY <1>1 DEF SuccessIsEarned
    <1>3. QED
        BY <1>2, Invariance, PTL
-----------------------------------------------------------------------------
(* Interruption.                                                           *)

(* What ComfyUI has forgotten it does not know again, and it knows what it *)
(* works on.                                                               *)
Forgetting ==
    \A p \in Prompts :
        /\ native[p].st # "unused" /\ ~native[p].known => ~native'[p].known
        /\ native'[p].st = "live" => native'[p].known

LEMMA CancelForgets ==
    ASSUME TypeOK, ReachInv, NEW q, CancelsNative(q)
    PROVE  Forgetting
    <1>1. CASE native' = native
        BY <1>1 DEF Forgetting, ReachInv
    <1>2. ASSUME NEW known \in BOOLEAN, q \in Prompts, native[q].st = "live",
                 native' = [native EXCEPT ![q] = [@ EXCEPT !.st = "cancelled", !.known = known]]
          PROVE  Forgetting
        <2>1. native'[q].st = "cancelled" /\ \A p \in Prompts \ {q} : native'[p] = native[p]
            BY <1>2 DEF TypeOK, Native
        <2>2. native[q].known
            BY <1>2 DEF ReachInv
        <2>3. QED
            BY <2>1, <2>2 DEF Forgetting, ReachInv
    <1>3. CASE q \notin Prompts
        BY <1>3 DEF CancelsNative, Forgetting, ReachInv, TypeOK
    <1>4. QED
        BY <1>1, <1>2, <1>3 DEF CancelsNative

LEMMA AcceptForgets ==
    ASSUME TypeOK, ReachInv, NEW g, NEW q \in Prompts, NextPrompt(q), AcceptNative(g, q)
    PROVE  Forgetting
    <1>1. native[q].st = "unused" /\ native'[q].known
          /\ \A p \in Prompts \ {q} : native'[p] = native[p]
        BY DEF AcceptNative, NextPrompt, TypeOK
    <1>2. QED
        BY <1>1 DEF Forgetting, ReachInv

LEMMA StepForgets ==
    ASSUME TypeOK, ReachInv, Next
    PROVE  Forgetting
    <1>1. CASE native' = native
        BY <1>1 DEF Forgetting, ReachInv
    <1>2. ASSUME NEW g \in Gens, SubmitAccepted(g) \/ SubmitFails(g) PROVE Forgetting
        BY <1>1, <1>2, AcceptForgets DEF SubmitAccepted, SubmitFails
    <1>3. ASSUME NEW g \in Gens, CancelSubmitted(g) \/ SendCancel(g) PROVE Forgetting
        BY <1>1, <1>3, CancelForgets DEF CancelSubmitted, SendCancel
    <1>4. ASSUME NEW p \in Prompts, NotifyCancel(p) PROVE Forgetting
        BY <1>1, <1>4, CancelForgets DEF NotifyCancel
    <1>5. ASSUME NEW q \in Prompts, NativeFinish(q) PROVE Forgetting
        <2>1. PICK st \in {"succeeded", "failed"} : native' = [native EXCEPT ![q].st = st]
            BY <1>5 DEF NativeFinish
        <2>2. native'[q].st = st /\ native'[q].known = native[q].known
              /\ \A p \in Prompts \ {q} : native'[p] = native[p]
            BY <2>1 DEF TypeOK, Native
        <2>3. QED
            BY <2>1, <2>2 DEF Forgetting, ReachInv
    <1>6. ASSUME NEW q \in Prompts, NativeLost(q) PROVE Forgetting
        <2>1. native'[q] = LostNative(native[q]) /\ \A p \in Prompts \ {q} : native'[p] = native[p]
            BY <1>6 DEF NativeLost, TypeOK
        <2>2. native[q] \in Native
            BY DEF TypeOK
        <2>3. ~native'[q].known /\ native'[q].st # "live"
            BY <2>1, <2>2 DEF LostNative, Native
        <2>4. QED
            BY <2>1, <2>3 DEF Forgetting, ReachInv
    <1>7. CASE Dispatcher \/ Recovery \/ Process
        BY <1>1, <1>7 DEF Dispatcher, ClaimNext, StartTask, RequeueClaimRead, RequeueClaimWrite,
                          Recovery, RecoverRead, RecoverWrite, RecoverJob, FinishRecovery,
                          Process, RequestStop, StopRecovery, StopTask, Halt, Crash, Restart
    <1>8. ASSUME NEW g \in Gens, Settle(g) PROVE Forgetting
        BY <1>1, <1>8 DEF Settle, PersistFiles, CommitFinalization, ResetExecutionCache, RequeueRead,
                          DeleteTerminalIfPresent, RequeueWrite, FailRead, FailWrite, TaskDone
    <1>9. ASSUME NEW g \in Gens,
                 \/ LoadExecution(g) \/ SaveGraph(g) \/ MarkRead(g) \/ MarkWrite(g)
                 \/ ArchiveOutput(g) \/ MarkCancelSent(g) \/ ObserveTerminal(g) \/ ObserveMissing(g)
          PROVE  Forgetting
        BY <1>1, <1>9 DEF LoadExecution, SaveGraph, MaterializeFails, MarkRead, MarkWrite, ArchiveOutput,
                          MarkCancelSent, ObserveTerminal, ObserveMissing
    <1>10. CASE Handlers
        BY <1>1, <1>4, <1>10 DEF Handlers, Accept, CancelQueued, DeleteTerminal, RequestCancel,
                                 MarkAccountDeleting, RemoveAccount
    <1>11. QED
        BY <1>2, <1>3, <1>4, <1>5, <1>6, <1>7, <1>8, <1>9, <1>10
           DEF Next, Execute, Monitor, ComfyUI

(* What a step may do to the verdict of a finalization: drop it, keep it,  *)
(* or reach a new one for a prompt that is out of reach.                   *)
Verdict(t) == t.pc \in {"finalizing", "persisted"} /\ t.out = "interrupted"
VerdictStep(g) ==
    \/ ~Verdict(task'[g])
    \/ /\ Verdict(task[g])
       /\ task'[g].prompt = task[g].prompt /\ task'[g].inst = task[g].inst
    \/ /\ OutOfReach(task'[g].prompt, task'[g].inst)
       /\ native[task'[g].prompt].st # "unused"

LEMMA VerdictHere ==
    ASSUME IInv, NEW g \in Gens, Execute(g) \/ Monitor(g) \/ Settle(g) \/ StopTask(g)
    PROVE  \A h \in Gens : VerdictStep(h)
    <1>0. task \in [Gens -> Task] /\ task[g] \in Task /\ TaskInv(g)
        BY DEF IInv, TypeOK
    <1>1. ASSUME \A h \in Gens \ {g} : task'[h] = task[h], VerdictStep(g)
          PROVE  \A h \in Gens : VerdictStep(h)
        BY <1>1 DEF VerdictStep
    <1>2. ASSUME NEW pc, Goto(g, pc), pc \notin {"finalizing", "persisted"}
          PROVE  \A h \in Gens : VerdictStep(h)
        BY <1>0, <1>1, <1>2, Moves DEF VerdictStep, Verdict
    <1>3. ASSUME NEW pc, NEW b, GotoWith(g, pc, b), pc \notin {"finalizing", "persisted"}
          PROVE  \A h \in Gens : VerdictStep(h)
        BY <1>0, <1>1, <1>3, Moves DEF VerdictStep, Verdict
    <1>4. ASSUME NEW out, Finalizing(g, out), out # "interrupted"
          PROVE  \A h \in Gens : VerdictStep(h)
        BY <1>0, <1>1, <1>4, Moves DEF VerdictStep, Verdict
    <1>5. ASSUME End(g)
          PROVE  \A h \in Gens : VerdictStep(h)
        BY <1>0, <1>1, <1>5, Moves DEF VerdictStep, Verdict
    <1>6. ASSUME task' = task
          PROVE  \A h \in Gens : VerdictStep(h)
        BY <1>6 DEF VerdictStep
    <1>7. CASE LoadExecution(g) \/ SaveGraph(g) \/ RequeueRead(g)
        BY <1>2, <1>4, <1>5, <1>7 DEF LoadExecution, SaveGraph, MaterializeFails, RequeueRead
    <1>8. CASE SubmitAccepted(g)
        <2>1. PICK p \in Prompts : task' = [task EXCEPT ![g] = [@ EXCEPT !.pc = "accepted", !.prompt = p]]
            BY <1>8 DEF SubmitAccepted
        <2>2. task'[g].pc = "accepted" /\ \A h \in Gens \ {g} : task'[h] = task[h]
            BY <1>0, <2>1 DEF Task
        <2>3. QED
            BY <1>1, <2>2 DEF VerdictStep, Verdict
    <1>9. CASE SubmitFails(g) \/ MarkWrite(g) \/ CancelSubmitted(g) \/ MarkCancelSent(g) \/ SendCancel(g)
        BY <1>2, <1>5, <1>9 DEF SubmitFails, AmbiguousNext, MarkWrite, CancelSubmitted, MarkCancelSent, SendCancel
    <1>10. CASE MarkRead(g) \/ FailRead(g) \/ FailWrite(g)
        BY <1>2, <1>3, <1>5, <1>10 DEF MarkRead, FailRead, FailWrite
    <1>11. CASE ArchiveOutput(g)
        BY <1>6, <1>11 DEF ArchiveOutput
    <1>12. CASE ObserveTerminal(g)
        BY <1>4, <1>12 DEF ObserveTerminal, OutcomeOf
    <1>13. CASE ObserveMissing(g)
        <2>1. task'[g].prompt = task[g].prompt /\ \A h \in Gens \ {g} : task'[h] = task[h]
            BY <1>0, <1>13, Moves DEF ObserveMissing
        <2>2. /\ OutOfReach(task'[g].prompt, task'[g].inst)
              /\ native[task'[g].prompt].st # "unused"
            BY <1>0, <1>13, <2>1 DEF ObserveMissing, At, Missing, TaskInv, OutOfReach, Mine
        <2>3. QED
            BY <1>1, <2>1, <2>2 DEF VerdictStep
    <1>14. CASE PersistFiles(g)
        <2>1. CASE End(g)
            BY <1>5, <2>1
        <2>2. CASE Goto(g, "persisted")
            <3>1. task[g].pc = "finalizing"
                BY <1>14 DEF PersistFiles, At
            <3>2. QED
                BY <1>0, <1>1, <2>2, <3>1, Moves DEF VerdictStep, Verdict
        <2>3. QED
            BY <1>14, <2>1, <2>2 DEF PersistFiles
    <1>15. CASE CommitFinalization(g)
        BY <1>2, <1>5, <1>15 DEF CommitFinalization, Leave
    <1>16. CASE ResetExecutionCache(g) \/ DeleteTerminalIfPresent(g) \/ RequeueWrite(g)
        BY <1>5, <1>16 DEF ResetExecutionCache, DeleteTerminalIfPresent, RequeueWrite
    <1>17. CASE TaskDone(g)
        BY <1>0, <1>1, <1>17 DEF TaskDone, Idle, VerdictStep, Verdict
    <1>18. CASE StopTask(g)
        <2>1. CASE task' = [task EXCEPT ![g] = Idle]
            BY <1>0, <1>1, <2>1 DEF Idle, VerdictStep, Verdict
        <2>2. CASE task[g].pc \in SubmissionPcs /\ task' = [task EXCEPT ![g].ctx = "held"]
            BY <1>0, <1>1, <2>2 DEF SubmissionPcs, Task, VerdictStep, Verdict
        <2>3. QED
            BY <1>18, <2>1, <2>2 DEF StopTask
    <1>19. QED
        BY <1>7, <1>8, <1>9, <1>10, <1>11, <1>12, <1>13, <1>14, <1>15, <1>16, <1>17, <1>18
           DEF Execute, Monitor, Settle

LEMMA VerdictElsewhere ==
    ASSUME IInv, Handlers \/ Dispatcher \/ Recovery \/ Process \/ ComfyUI,
           \A g \in Gens : ~StopTask(g)
    PROVE  \A h \in Gens : VerdictStep(h)
    <1>0. task \in [Gens -> Task] /\ rec \in Plan
        BY DEF IInv, TypeOK
    <1>1. CASE task' = task
        BY <1>1 DEF VerdictStep
    <1>2. CASE StartTask
        <2>1. CASE task' = [task EXCEPT ![disp.gen] = NewTask("loading", disp.inst, "task")]
            BY <1>0, <2>1 DEF NewTask, Idle, VerdictStep, Verdict
        <2>2. QED
            BY <1>1, <1>2, <2>1 DEF StartTask
    <1>3. ASSUME NEW j \in rec.jobs, RecoverJob(j) PROVE \A h \in Gens : VerdictStep(h)
        <2>1. j.gen \in Gens /\ j.prompt # NoPrompt /\ native[j.prompt].st # "unused"
            BY <1>0, <1>3 DEF RecoverJob, Plan, Job, Prompts, NoPrompt, IInv, RecInv, JobInv, Mine
        <2>2. ASSUME NEW pc, NEW out, NEW ctx, StartJob(j, pc, out, ctx)
              PROVE  /\ \A h \in Gens \ {j.gen} : task'[h] = task[h]
                     /\ task'[j.gen].prompt = j.prompt /\ task'[j.gen].inst = j.inst
                     /\ task'[j.gen].pc = pc /\ task'[j.gen].out = out
            <3> DEFINE t == [NewTask(pc, j.inst, ctx) EXCEPT !.prompt = j.prompt, !.out = out]
            <3>1. t.prompt = j.prompt /\ t.inst = j.inst /\ t.pc = pc /\ t.out = out
                BY DEF NewTask, Idle
            <3>2. task' = [task EXCEPT ![j.gen] = t]
                BY <2>2 DEF StartJob
            <3> HIDE DEF t
            <3>3. QED
                BY <1>0, <2>1, <3>1, <3>2
        <2>3. \/ /\ OutOfReach(j.prompt, j.inst)
                 /\ StartJob(j, "finalizing", "interrupted", "startup")
              \/ StartJob(j, "finalizing", OutcomeOf(j.prompt), "startup")
              \/ StartJob(j, "monitoring", "none", "task")
            BY <1>3, <2>1 DEF RecoverJob, OutOfReach, Missing
        <2>4. QED
            BY <2>1, <2>2, <2>3 DEF VerdictStep, Verdict, OutcomeOf
    <1>4. CASE Halt \/ Crash
        BY <1>4 DEF Halt, Crash, Forget, Idle, VerdictStep, Verdict
    <1>5. CASE Handlers
        BY <1>1, <1>5 DEF Handlers, Accept, CancelQueued, DeleteTerminal, RequestCancel, NotifyCancel,
                          MarkAccountDeleting, RemoveAccount
    <1>6. CASE Dispatcher
        BY <1>1, <1>2, <1>6 DEF Dispatcher, ClaimNext, RequeueClaimRead, RequeueClaimWrite
    <1>7. CASE Recovery
        BY <1>1, <1>3, <1>7 DEF Recovery, RecoverRead, RecoverWrite, FinishRecovery
    <1>8. CASE Process
        BY <1>1, <1>4, <1>8 DEF Process, RequestStop, StopRecovery, Restart
    <1>9. CASE ComfyUI
        BY <1>1, <1>9 DEF ComfyUI, NativeFinish, NativeLost
    <1>10. QED
        BY <1>5, <1>6, <1>7, <1>8, <1>9

LEMMA PoolFixed == Next => UNCHANGED pool \/ Restart
    BY DEF Next, Execute, LoadExecution, SaveGraph, MaterializeFails, SubmitAccepted, SubmitFails, MarkRead, MarkWrite,
           CancelSubmitted, Monitor, ArchiveOutput, MarkCancelSent, SendCancel, ObserveTerminal,
           ObserveMissing, Settle, PersistFiles, CommitFinalization, ResetExecutionCache,
           DeleteTerminalIfPresent, RequeueRead, RequeueWrite, FailRead, FailWrite, TaskDone,
           Handlers, Accept, CancelQueued, DeleteTerminal, RequestCancel, NotifyCancel,
           MarkAccountDeleting, RemoveAccount, Dispatcher, ClaimNext, StartTask, RequeueClaimRead,
           RequeueClaimWrite, Recovery, RecoverRead, RecoverWrite, RecoverJob, FinishRecovery,
           Process, RequestStop, StopRecovery, StopTask, Halt, Crash, ComfyUI, NativeFinish, NativeLost

LEMMA ReachNext ==
    ASSUME IInv, ReachInv, [Next]_vars
    PROVE  ReachInv'
    <1>1. CASE UNCHANGED vars
        BY <1>1 DEF vars, ReachInv, OutOfReach
    <1>2. CASE Next
        <2>0. TypeOK
            BY DEF IInv
        <2>6. IInv'
            BY InvNext
        <2>1. Forgetting
            BY <1>2, <2>0, StepForgets
        <2>2. \A h \in Gens : VerdictStep(h)
            BY <1>2, VerdictHere, VerdictElsewhere DEF Next
        <2>3. CASE Restart
            <3>1. mode = "down" /\ task' = task
                BY <2>3 DEF Restart
            <3>2. \A g \in Gens : task'[g].pc = "none"
                BY <3>1 DEF IInv, RecInv
            <3>3. QED
                BY <2>1, <3>2 DEF ReachInv, Forgetting
        <2>4. CASE UNCHANGED pool
            <3>1. ASSUME NEW g \in Gens, Verdict(task'[g]) 
                  PROVE  /\ task'[g].prompt # NoPrompt
                         /\ task'[g].inst \notin pool' \/ ~native'[task'[g].prompt].known
                <4>1. Verdict(task[g]) => /\ OutOfReach(task[g].prompt, task[g].inst)
                                          /\ native[task[g].prompt].st # "unused"
                    BY DEF IInv, ReachInv, Verdict, TaskInv, Mine, OutOfReach
                <4>2. /\ OutOfReach(task'[g].prompt, task'[g].inst)
                      /\ native[task'[g].prompt].st # "unused"
                    BY <2>2, <3>1, <4>1 DEF VerdictStep
                <4>3. task'[g].prompt \in Prompts
                    <5>1. task'[g] \in Task
                        BY <2>6 DEF IInv, TypeOK
                    <5>2. QED
                        BY <4>2, <5>1 DEF Task, OutOfReach
                <4>4. QED
                    BY <2>1, <2>4, <4>2, <4>3 DEF OutOfReach, Forgetting
            <3>2. QED
                BY <2>1, <3>1 DEF ReachInv, Forgetting, Verdict, OutOfReach
        <2>5. QED
            BY <1>2, <2>3, <2>4, PoolFixed
    <1>3. QED
        BY <1>1, <1>2

(* The one transaction that writes the status.                             *)
LEMMA OnlyFinalization ==
    ASSUME IInv, NEW h \in Gens, Next, row[h].st # "interrupted", row'[h].st = "interrupted"
    PROVE  CommitFinalization(h) /\ row[h].st \in InFlight /\ task[h].out = "interrupted"
    <1>0. /\ row \in [Gens -> Row] /\ \A g \in Gens : row[g] \in Row
          /\ rec \in Plan /\ DeletedRow.st # "interrupted" /\ AcceptedRow.st # "interrupted"
        BY DEF IInv, TypeOK, DeletedRow, AcceptedRow
    <1>1. row'[h] # row[h]
        OBVIOUS
    <1>2. ASSUME NEW g \in Gens,
                 \/ MarkWrite(g) \/ ArchiveOutput(g) \/ MarkCancelSent(g) \/ SendCancel(g) \/ PersistFiles(g)
                 \/ DeleteTerminalIfPresent(g) \/ RequeueWrite(g) \/ FailWrite(g)
          PROVE  FALSE
        <2>1. row[g] \in Row
            BY <1>0
        <2>2. PICK r : row' = [row EXCEPT ![g] = r] /\ r.st \in {row[g].st, "running", "deleted", "queued", "failed"}
            <3>1. CASE UNCHANGED row
                BY <1>1, <3>1
            <3>2. CASE MarkWrite(g) \/ MarkCancelSent(g) \/ SendCancel(g)
                BY <2>1, <3>1, <3>2, RowEffects DEF MarkWrite, MarkCancelSent, SendCancel
            <3>3. CASE ArchiveOutput(g) \/ PersistFiles(g)
                <4>1. \A a, f : ArchivedRow(row[g], a, f).st = row[g].st
                    BY <2>1, RowEffects
                <4>2. UNCHANGED row \/ \E a, f : row' = [row EXCEPT ![g] = ArchivedRow(row[g], a, f)]
                    BY <3>3 DEF ArchiveOutput, PersistFiles
                <4>3. QED
                    BY <3>1, <4>1, <4>2
            <3>4. CASE RequeueWrite(g) \/ FailWrite(g)
                BY <2>1, <3>1, <3>4, RowEffects DEF RequeueWrite, FailWrite
            <3>5. CASE DeleteTerminalIfPresent(g)
                <4>1. DeletedRow.st = "deleted"
                    BY DEF DeletedRow, AcceptedRow
                <4>2. QED
                    BY <3>1, <3>5, <4>1 DEF DeleteTerminalIfPresent
            <3>6. QED
                BY <1>2, <3>2, <3>3, <3>4, <3>5
        <2>3. QED
            BY <1>0, <1>1, <2>2
    <1>3. ASSUME NEW g \in Gens, CommitFinalization(g)
          PROVE  g = h /\ row[h].st \in InFlight /\ task[h].out = "interrupted"
        <2>1. g = h
            BY <1>0, <1>1, <1>3 DEF CommitFinalization
        <2>2. row[g].st \notin NoRow \cup Terminal
            BY <1>1, <1>3, <2>1 DEF CommitFinalization
        <2>3. row[g].st \in InFlight
            BY <1>3, <2>2 DEF IInv, CommitFinalization, At, TaskInv, AfterMark, Owned, NoRow
        <2>4. row[g] \in Row
            BY <1>0
        <2>5. row'[g].st = FinalStatus(row[g], task[g].out)
            <3>1. RetryRow(row[g]).st = "queued"
                BY <2>4, RowEffects
            <3>2. \/ row' = [row EXCEPT ![g] = RetryRow(row[g])]
                  \/ row' = [row EXCEPT ![g].st = FinalStatus(row[g], task[g].out)]
                BY <1>3, <2>2 DEF CommitFinalization
            <3>3. CASE row' = [row EXCEPT ![g] = RetryRow(row[g])]
                BY <1>0, <2>1, <3>1, <3>3
            <3>4. CASE row' = [row EXCEPT ![g].st = FinalStatus(row[g], task[g].out)]
                BY <1>0, <2>4, <3>4 DEF Row
            <3>5. QED
                BY <3>2, <3>3, <3>4
        <2>6. QED
            BY <2>1, <2>3, <2>5 DEF FinalStatus
    <1>4. CASE Handlers
        <2>1. ASSUME NEW g \in Gens, Accept(g) \/ CancelQueued(g) \/ DeleteTerminal(g) PROVE FALSE
            BY <1>0, <1>1, <2>1 DEF Accept, CancelQueued, DeleteTerminal
        <2>2. ASSUME NEW g \in Gens, NEW b \in BOOLEAN, RequestCancel(g, b) PROVE FALSE
            <3>1. row[g] \in Row
                BY <1>0
            <3>2. QED
                BY <1>0, <1>1, <2>2, <3>1, RowEffects DEF RequestCancel
        <2>3. CASE MarkAccountDeleting
            BY <1>0, <1>1, <2>3 DEF MarkAccountDeleting, Row
        <2>4. QED
            BY <1>0, <1>1, <1>4, <2>1, <2>2, <2>3 DEF Handlers, NotifyCancel, RemoveAccount
    <1>5. CASE Dispatcher
        <2>1. ASSUME NEW i \in Instances, NEW g \in Gens, ClaimNext(i, g) PROVE FALSE
            <3>1. row[g] \in Row
                BY <1>0
            <3>2. QED
                BY <1>0, <1>1, <2>1, <3>1, RowEffects DEF ClaimNext
        <2>2. CASE RequeueClaimWrite
            <3>1. row[h] \in Row
                BY <1>0
            <3>2. QED
                BY <1>0, <1>1, <2>2, <3>1, RowEffects DEF RequeueClaimWrite
        <2>3. QED
            BY <1>1, <1>5, <2>1, <2>2 DEF Dispatcher, StartTask, RequeueClaimRead
    <1>6. CASE Recovery
        <2>1. CASE RecoverWrite
            <3>1. row' = row \/ \E plan : row' = [g \in Gens |-> Recovered(plan, g)]
                BY <2>1 DEF RecoverWrite
            <3>2. PICK plan : row'[h] = Recovered(plan, h)
                BY <1>1, <3>1
            <3>3. row[h] \in Row
                BY <1>0
            <3>4. QED
                BY <1>1, <3>2, <3>3, RowEffects DEF Recovered
        <2>2. QED
            BY <1>1, <1>6, <2>1 DEF Recovery, RecoverRead, RecoverJob, FinishRecovery
    <1>7. CASE Process \/ ComfyUI
        BY <1>1, <1>7 DEF Process, RequestStop, StopRecovery, StopTask, Halt, Crash, Restart, ComfyUI,
                          NativeFinish, NativeLost
    <1>8. ASSUME NEW g \in Gens, Execute(g) \/ Monitor(g) \/ Settle(g)
          PROVE  CommitFinalization(g)
        BY <1>1, <1>2, <1>8
           DEF Execute, LoadExecution, SaveGraph, MaterializeFails, SubmitAccepted, SubmitFails, MarkRead, CancelSubmitted,
               Monitor, ObserveTerminal, ObserveMissing, Settle, ResetExecutionCache, RequeueRead,
               FailRead, TaskDone
    <1>9. QED
        BY <1>3, <1>4, <1>5, <1>6, <1>7, <1>8 DEF Next

(* A generation ends as interrupted only when ComfyUI has neither queue    *)
(* entry nor history of its prompt, or its runtime is not configured any   *)
(* more, whatever was restarted, requested or lost on the way.             *)
THEOREM InterruptionIsHonest == Spec => InterruptedOnlyIfUnknown
    <1>1. Init => ReachInv
        BY DEF Init, ReachInv, Unused, Idle
    <1>2. IInv /\ ReachInv /\ [Next]_vars => ReachInv'
        BY ReachNext
    <1>3. ASSUME IInv, ReachInv, [Next]_vars, NEW g \in Gens,
                 row[g].st # "interrupted", row'[g].st = "interrupted"
          PROVE  \/ row[g].prompt # NoPrompt /\ ~native[row[g].prompt].known
                 \/ row[g].inst \notin pool
        <2>1. Next
            BY <1>3 DEF vars
        <2>2. CommitFinalization(g) /\ row[g].st \in InFlight /\ task[g].out = "interrupted"
            BY <1>3, <2>1, OnlyFinalization
        <2>3. task[g].pc = "persisted"
            BY <2>2 DEF CommitFinalization, At
        <2>4. row[g].prompt = task[g].prompt /\ row[g].inst = task[g].inst
            BY <1>3, <2>2, <2>3 DEF IInv, TaskInv, AfterMark, Records
        <2>5. QED
            BY <1>3, <2>2, <2>3, <2>4 DEF ReachInv, OutOfReach
    <1>4. IInv /\ ReachInv /\ [Next]_vars =>
             [\A g \in Gens : row[g].st # "interrupted" /\ row'[g].st = "interrupted" =>
                 \/ row[g].prompt # NoPrompt /\ ~native[row[g].prompt].known
                 \/ row[g].inst \notin pool]_row
        BY <1>3
    <1>5. QED
        BY <1>1, <1>2, <1>4, Invariance, PTL DEF Spec, InterruptedOnlyIfUnknown
=============================================================================
