--------------------- MODULE LifecycleRefinement_proofs ---------------------
(***************************************************************************)
(* What GenerationLifecycle keeps when no account is removed: a terminal   *)
(* status is final.  And when besides no crash and no lost answer cuts a   *)
(* submission off: ComfyUI never works on two prompts of one generation,   *)
(* and the whole implements GenerationPromise.  For every set of           *)
(* generations and instances, every pool, and every other fault.           *)
(***************************************************************************)
EXTENDS GenerationLifecycle_proofs, LifecycleRefinement, FiniteSetTheorems

NobodyRemoved == Doomed = {}
NothingCut    == FaultKinds \cap {"crash", "ambiguous"} = {}

(* Whoever works on a generation works on one that is in flight.           *)
Working == BeforeMark \cup AfterMark
OpenInv ==
    /\ \A g \in Gens : task[g].pc \in Working => row[g].st \in InFlight
    /\ disp.pc # "none" => row[disp.gen].st \in InFlight
    /\ rec.pc = "write" =>
           \A g \in rec.release \cup rec.unconfigured : row[g].st \in {"queued", "deleted"}
    /\ rec.pc \in {"write", "jobs"} => \A j \in rec.jobs : row[j.gen].st \in InFlight

(* ComfyUI works on one prompt of a generation at most: the one its row    *)
(* records or the one its executor is about to record.                     *)
Submitted(g) == IF task[g].pc \in {"accepted", "marking"} THEN {task[g].prompt} ELSE {}
OneLive(g) ==
    /\ row[g].st # "deleted" => LivePrompts(g) \subseteq {row[g].prompt} \cup Submitted(g)
    /\ \A p, q \in LivePrompts(g) : p = q
LiveInv == \A g \in Gens : OneLive(g)

-----------------------------------------------------------------------------
(* What a step may do to one generation.                                   *)
SameAttempt(h) == row'[h].prompt = row[h].prompt /\ row'[h].retried = row[h].retried
SameRow(h)    == row'[h].st = row[h].st /\ SameAttempt(h)
Done(h) == Submitted(h) = {} /\ row[h].prompt \in Successes(h)
Freed(h) == \/ Submitted(h) = {} /\ row[h].prompt = NoPrompt /\ row'[h].retried = row[h].retried
            \/ Done(h) /\ ~row[h].retried /\ row'[h].retried

RowMove(h) ==
    \/ SameRow(h)
    \/ row[h].st = "absent" /\ row'[h].st = "queued" /\ row'[h].prompt = NoPrompt /\ ~row'[h].retried
    \/ row[h].st \in {"queued"} \cup Terminal /\ row'[h].st = "deleted"
    \/ row[h].st = "queued" /\ row'[h].st = "dispatching" /\ SameAttempt(h)
    \/ row[h].st \in InFlight /\ row'[h].st \in InFlight /\ SameAttempt(h)
    \/ /\ row[h].st \in InFlight /\ row'[h].st \in InFlight
       /\ row[h].prompt = NoPrompt /\ Submitted(h) = {row'[h].prompt}
       /\ row'[h].retried = row[h].retried
    \/ row[h].st \in InFlight /\ row'[h].st = "queued" /\ row'[h].prompt = NoPrompt /\ Freed(h)
    \/ row[h].st \in InFlight /\ row'[h].st = "succeeded" /\ SameAttempt(h) /\ Done(h)
    \/ row[h].st \in {"queued"} \cup InFlight /\ row'[h].st \in Terminal \ {"succeeded"} /\ SameAttempt(h)

StepMove(h) ==
    /\ RowMove(h)
    /\ task'[h].pc \in Working => row'[h].st \in InFlight
    /\ Crash \/ Submitted(h) \subseteq Submitted(h)' \cup {row'[h].prompt}

(* Only the one retry of a job sets its mark.                              *)
LEMMA MarkEffects ==
    ASSUME NEW r \in Row
    PROVE  /\ \A p, b : MarkedRow(r, p, b).retried = r.retried
           /\ \A a, f : ArchivedRow(r, a, f).retried = r.retried
           /\ SentRow(r).retried = r.retried /\ UnsentRow(r).retried = r.retried
           /\ RequeuedRow(r).retried = r.retried /\ FailedRow(r).retried = r.retried
           /\ ReleasedRow(r).retried = r.retried
           /\ RetryRow(r).retried
           /\ \A i : ClaimedRow(r, i).retried = r.retried
           /\ \A b : CancelRow(r, b).retried = r.retried
    <1>1. RetryRow(r).retried
        <2> DEFINE q == RequeuedRow(r)
        <2>1. q \in Row
            BY RowsStayRows
        <2>2. RetryRow(r) = [q EXCEPT !.prompt = NoPrompt, !.fails = "none", !.retried = TRUE]
            BY DEF RetryRow
        <2> HIDE DEF q
        <2>3. QED
            BY <2>1, <2>2 DEF Row
    <1>2. QED
        BY <1>1 DEF MarkedRow, ArchivedRow, SentRow, UnsentRow, RequeuedRow, FailedRow, ReleasedRow,
                    ClaimedRow, CancelRow, Row

(* Nothing happens to a generation.                                        *)
LEMMA Untouched ==
    ASSUME OpenInv, NEW h \in Gens, SameRow(h), task'[h] = task[h]
    PROVE  StepMove(h)
    BY DEF OpenInv, StepMove, RowMove, SameRow, Submitted

(* Only its executor moves on.                                             *)
LEMMA ExecutorMoves ==
    ASSUME OpenInv, NEW h \in Gens, SameRow(h), task[h].pc \notin {"accepted", "marking"},
           task[h].pc \in Working \/ task'[h].pc \notin Working
    PROVE  StepMove(h)
    BY DEF OpenInv, StepMove, RowMove, SameRow, Submitted

(* Its executor stops working on it.                                       *)
LEMMA ExecutorLeaves ==
    ASSUME OpenInv, NEW h \in Gens, RowMove(h), task[h].pc \notin {"accepted", "marking"},
           task'[h].pc \notin Working
    PROVE  StepMove(h)
    BY DEF StepMove, Submitted

LEMMA QuietExecutor ==
    ASSUME IInv, OpenInv, NEW g \in Gens,
           \/ LoadExecution(g) \/ SaveGraph(g) \/ SubmitAccepted(g) \/ SubmitFails(g) \/ MarkRead(g)
           \/ CancelSubmitted(g) \/ ObserveTerminal(g) \/ ObserveMissing(g) \/ ResetExecutionCache(g)
           \/ RequeueRead(g) \/ FailRead(g) \/ TaskDone(g) \/ StopTask(g)
    PROVE  row' = row /\ (\A h \in Gens \ {g} : task'[h] = task[h]) /\ StepMove(g)
    <1>0. task \in [Gens -> Task] /\ task[g] \in Task
        BY DEF IInv, TypeOK
    <1>1. row' = row
        BY DEF LoadExecution, SaveGraph, MaterializeFails, SubmitAccepted, SubmitFails, MarkRead, CancelSubmitted,
               ObserveTerminal, ObserveMissing, ResetExecutionCache, RequeueRead, FailRead, TaskDone,
               StopTask
    <1>2. SameRow(g)
        BY <1>1 DEF SameRow, SameAttempt
    <1>3. CASE \/ LoadExecution(g) \/ SaveGraph(g) \/ SubmitFails(g) \/ CancelSubmitted(g)
               \/ ObserveTerminal(g) \/ ObserveMissing(g) \/ RequeueRead(g) \/ FailRead(g)
        <2>1. task[g].pc \in {"loading", "saving", "submitting", "cancelling", "monitoring",
                              "requeueRead", "failRead"}
            BY <1>3 DEF At, LoadExecution, SaveGraph, MaterializeFails, SubmitFails, CancelSubmitted,
                        ObserveTerminal, ObserveMissing, RequeueRead, FailRead
        <2>2. \A h \in Gens \ {g} : task'[h] = task[h]
            BY <1>0, <1>3, Moves
               DEF LoadExecution, SaveGraph, MaterializeFails, SubmitFails, CancelSubmitted, ObserveTerminal,
                   ObserveMissing, RequeueRead, FailRead, AmbiguousNext
        <2>3. StepMove(g)
            BY <1>2, <2>1, ExecutorMoves DEF Working, BeforeMark, AfterMark
        <2>4. QED
            BY <1>1, <2>2, <2>3
    <1>4. CASE SubmitAccepted(g)
        <2>1. task[g].pc = "submitting" /\ \A h \in Gens \ {g} : task'[h] = task[h]
            BY <1>0, <1>4 DEF SubmitAccepted, At
        <2>2. StepMove(g)
            BY <1>2, <2>1, ExecutorMoves DEF Working, BeforeMark
        <2>3. QED
            BY <1>1, <2>1, <2>2
    <1>5. CASE MarkRead(g)
        <2>1. task[g].pc = "accepted" /\ row[g].st \in InFlight
            BY <1>5 DEF MarkRead, At, OpenInv, Working, BeforeMark
        <2>2. GotoWith(g, "marking", row[g].st = "cancel_requested")
            BY <1>5, <2>1 DEF MarkRead, InFlight, NoRow
        <2>3. /\ task'[g].pc = "marking" /\ task'[g].prompt = task[g].prompt
              /\ \A h \in Gens \ {g} : task'[h] = task[h]
            BY <1>0, <2>2, Moves
        <2>4. QED
            BY <1>1, <1>2, <2>1, <2>3 DEF StepMove, RowMove, Submitted
    <1>6. CASE ResetExecutionCache(g) \/ TaskDone(g)
        <2>1. task[g].pc \in {"resetting", "ending"} /\ task'[g].pc \in {"none", "ending"}
              /\ \A h \in Gens \ {g} : task'[h] = task[h]
            BY <1>0, <1>6, Moves DEF ResetExecutionCache, TaskDone, At, Idle
        <2>2. StepMove(g)
            BY <1>2, <2>1, ExecutorMoves DEF Working, BeforeMark, AfterMark
        <2>3. QED
            BY <1>1, <2>1, <2>2
    <1>7. CASE StopTask(g)
        <2>1. CASE task[g].pc \in AwaitingPcs /\ task' = [task EXCEPT ![g] = Idle]
            <3>1. task'[g].pc = "none" /\ \A h \in Gens \ {g} : task'[h] = task[h]
                BY <1>0, <2>1 DEF Idle
            <3>2. StepMove(g)
                BY <1>2, <2>1, <3>1, ExecutorMoves DEF AwaitingPcs, Working, BeforeMark, AfterMark
            <3>3. QED
                BY <1>1, <3>1, <3>2
        <2>2. CASE task[g].pc \in SubmissionPcs /\ task' = [task EXCEPT ![g].ctx = "held"]
            <3>1. /\ task'[g].pc = task[g].pc /\ task'[g].prompt = task[g].prompt
                  /\ \A h \in Gens \ {g} : task'[h] = task[h]
                BY <1>0, <2>2 DEF Task
            <3>2. QED
                BY <1>1, <1>2, <3>1 DEF OpenInv, StepMove, RowMove, SameRow, Submitted
        <2>3. QED
            BY <1>7, <2>1, <2>2 DEF StopTask
    <1>8. QED
        BY <1>3, <1>4, <1>5, <1>6, <1>7

(* The transactions of an executor.                                        *)
LEMMA WritingExecutor ==
    ASSUME IInv, OpenInv, NEW g \in Gens,
           \/ MarkWrite(g) \/ ArchiveOutput(g) \/ MarkCancelSent(g) \/ SendCancel(g)
           \/ PersistFiles(g) \/ CommitFinalization(g) \/ DeleteTerminalIfPresent(g)
           \/ RequeueWrite(g) \/ FailWrite(g)
    PROVE  /\ \A h \in Gens \ {g} : row'[h] = row[h] /\ task'[h] = task[h]
           /\ task[g].pc \in Working \cup {"deleting"}
           /\ StepMove(g)
    <1>0. /\ task \in [Gens -> Task] /\ task[g] \in Task /\ row \in [Gens -> Row] /\ row[g] \in Row
          /\ TaskInv(g) /\ RowInv(g)
        BY DEF IInv, TypeOK
    <1>1. task[g].pc \in Working => row[g].st \in InFlight
        BY DEF OpenInv
    <1>2. CASE MarkWrite(g)
        <2>1. task[g].pc = "marking" /\ row[g].st \in InFlight
            BY <1>1, <1>2 DEF MarkWrite, At, Working, BeforeMark
        <2>2. row[g].prompt = NoPrompt
            BY <1>0, <2>1 DEF TaskInv, BeforeMark, Records
        <2>3. /\ row' = [row EXCEPT ![g] = MarkedRow(row[g], task[g].prompt, task[g].seen)]
              /\ Goto(g, "cancelling") \/ End(g) \/ Goto(g, "monitoring")
            BY <1>2, <2>1 DEF MarkWrite, InFlight, NoRow
        <2>4. /\ row'[g].prompt = task[g].prompt /\ row'[g].st \in InFlight
              /\ row'[g].retried = row[g].retried
              /\ \A h \in Gens \ {g} : row'[h] = row[h]
            BY <1>0, <2>1, <2>3, RowEffects, MarkEffects DEF InFlight
        <2>5. \A h \in Gens \ {g} : task'[h] = task[h]
            BY <1>0, <2>3, Moves
        <2>6. Submitted(g) = {row'[g].prompt}
            BY <2>1, <2>4 DEF Submitted
        <2>7. QED
            BY <2>1, <2>2, <2>4, <2>5, <2>6 DEF StepMove, RowMove, Working, BeforeMark
    <1>3. CASE ArchiveOutput(g) \/ MarkCancelSent(g) \/ SendCancel(g) \/ PersistFiles(g)
        <2>1. task[g].pc \in {"monitoring", "sending", "finalizing"}
            BY <1>3 DEF ArchiveOutput, MarkCancelSent, SendCancel, PersistFiles, At
        <2>2. row' = row \/ \E r : /\ row' = [row EXCEPT ![g] = r]
                                   /\ r.st = row[g].st /\ r.prompt = row[g].prompt
                                   /\ r.retried = row[g].retried
            <3>1. \A a, f : /\ ArchivedRow(row[g], a, f).st = row[g].st
                            /\ ArchivedRow(row[g], a, f).prompt = row[g].prompt
                            /\ ArchivedRow(row[g], a, f).retried = row[g].retried
                BY <1>0, RowEffects, MarkEffects
            <3>2. CASE ArchiveOutput(g) \/ PersistFiles(g)
                <4>1. UNCHANGED row \/ \E a, f : row' = [row EXCEPT ![g] = ArchivedRow(row[g], a, f)]
                    BY <3>2 DEF ArchiveOutput, PersistFiles
                <4>2. QED
                    BY <3>1, <4>1
            <3>3. CASE MarkCancelSent(g) \/ SendCancel(g)
                BY <1>0, <3>3, RowEffects, MarkEffects DEF MarkCancelSent, SendCancel
            <3>4. QED
                BY <1>3, <3>2, <3>3
        <2>3. SameRow(g) /\ \A h \in Gens \ {g} : row'[h] = row[h]
            BY <1>0, <2>2 DEF SameRow, SameAttempt
        <2>4. \A h \in Gens \ {g} : task'[h] = task[h]
            BY <1>0, <1>3, Moves DEF ArchiveOutput, MarkCancelSent, SendCancel, PersistFiles
        <2>5. StepMove(g)
            BY <2>1, <2>3, ExecutorMoves DEF Working, AfterMark
        <2>6. QED
            BY <2>1, <2>3, <2>4, <2>5 DEF Working, AfterMark
    <1>4. CASE CommitFinalization(g)
        <2>1. task[g].pc = "persisted" /\ row[g].st \in InFlight /\ task[g].out # "none"
            BY <1>0, <1>1, <1>4 DEF CommitFinalization, At, Working, AfterMark, TaskInv, OutcomeKnown
        <2>2. row[g].prompt = task[g].prompt
            BY <1>0, <2>1 DEF TaskInv, AfterMark, Records
        <2>3. Submitted(g) = {}
            BY <2>1 DEF Submitted
        <2>4. CASE task[g].out = "success" /\ RetryDue(row[g])
            <3>1. row' = [row EXCEPT ![g] = RetryRow(row[g])] /\ Goto(g, "resetting")
                BY <1>4, <2>1, <2>4 DEF CommitFinalization, InFlight, NoRow, Terminal
            <3>2. row'[g].st = "queued" /\ row'[g].prompt = NoPrompt /\ row'[g].retried
                  /\ \A h \in Gens \ {g} : row'[h] = row[h]
                BY <1>0, <3>1, RowEffects, MarkEffects
            <3>3. task'[g].pc = "resetting" /\ \A h \in Gens \ {g} : task'[h] = task[h]
                BY <1>0, <3>1, Moves
            <3>4. Freed(g)
                <4>1. task[g].prompt \in Prompts /\ native[task[g].prompt].st = "succeeded"
                      /\ native[task[g].prompt].gen = g
                    BY <1>0, <2>4 DEF TaskInv, Mine, Task
                <4>2. Done(g)
                    BY <2>2, <2>3, <4>1 DEF Done, Successes
                <4>3. ~row[g].retried
                    BY <2>4 DEF RetryDue
                <4>4. QED
                    BY <3>2, <4>2, <4>3 DEF Freed
            <3>5. RowMove(g)
                BY <2>1, <3>2, <3>4 DEF RowMove
            <3>6. StepMove(g)
                BY <2>1, <3>3, <3>5, ExecutorLeaves DEF Working, BeforeMark, AfterMark
            <3>7. QED
                BY <2>1, <3>2, <3>3, <3>6 DEF Working, AfterMark
        <2>5. CASE ~(task[g].out = "success" /\ RetryDue(row[g]))
            <3>1. /\ row' = [row EXCEPT ![g].st = FinalStatus(row[g], task[g].out)]
                  /\ Goto(g, "deleting") \/ End(g)
                BY <1>4, <2>1, <2>5 DEF CommitFinalization, InFlight, NoRow, Terminal, Leave
            <3>2. /\ row'[g].st = FinalStatus(row[g], task[g].out) /\ SameAttempt(g)
                  /\ \A h \in Gens \ {g} : row'[h] = row[h]
                BY <1>0, <3>1 DEF Row, SameAttempt
            <3>3. task'[g].pc \in {"deleting", "none", "ending"} /\ \A h \in Gens \ {g} : task'[h] = task[h]
                BY <1>0, <3>1, Moves
            <3>4. FinalStatus(row[g], task[g].out) \in Terminal
                BY <1>0, <2>1, RowsStayRows DEF Task
            <3>5. ASSUME row'[g].st = "succeeded" PROVE RowMove(g)
                <4>1. task[g].out = "success"
                    BY <1>0, <3>2, <3>5 DEF FinalStatus, Task, Outcomes
                <4>2. task[g].prompt # NoPrompt /\ native[task[g].prompt].st = "succeeded"
                      /\ native[task[g].prompt].gen = g
                    BY <1>0, <4>1 DEF TaskInv, Mine
                <4>3. task[g].prompt \in Prompts
                    BY <1>0, <4>2 DEF Task
                <4>4. Done(g)
                    BY <2>2, <2>3, <4>2, <4>3 DEF Successes, Done
                <4>5. QED
                    BY <2>1, <3>2, <3>5, <4>4 DEF RowMove
            <3>6. RowMove(g)
                BY <2>1, <3>2, <3>4, <3>5 DEF RowMove
            <3>7. StepMove(g)
                BY <2>1, <3>3, <3>6, ExecutorLeaves DEF Working, BeforeMark, AfterMark
            <3>8. QED
                BY <2>1, <3>2, <3>3, <3>7 DEF Working, AfterMark
        <2>6. QED
            BY <2>4, <2>5
    <1>5. CASE DeleteTerminalIfPresent(g)
        <2>1. task[g].pc = "deleting" /\ End(g)
            BY <1>5 DEF DeleteTerminalIfPresent, At
        <2>2. task'[g].pc \in {"none", "ending"} /\ \A h \in Gens \ {g} : task'[h] = task[h]
            BY <1>0, <2>1, Moves
        <2>3. RowMove(g) /\ \A h \in Gens \ {g} : row'[h] = row[h]
            <3>1. DeletedRow.st = "deleted"
                BY DEF DeletedRow, AcceptedRow
            <3>2. CASE row' = row
                BY <3>2 DEF RowMove, SameRow, SameAttempt
            <3>3. CASE row[g].st \in Terminal /\ row' = [row EXCEPT ![g] = DeletedRow]
                BY <1>0, <3>1, <3>3 DEF RowMove
            <3>4. QED
                BY <1>5, <3>2, <3>3 DEF DeleteTerminalIfPresent
        <2>4. QED
            BY <2>1, <2>2, <2>3, ExecutorLeaves DEF Working, BeforeMark, AfterMark
    <1>6. CASE RequeueWrite(g)
        <2>1. task[g].pc = "requeueWrite" /\ End(g) /\ row[g].st \in InFlight
            BY <1>1, <1>6 DEF RequeueWrite, At, Working, BeforeMark
        <2>2. row[g].prompt = NoPrompt
            BY <1>0, <2>1 DEF TaskInv, BeforeMark, Records
        <2>3. row' = [row EXCEPT ![g] = RequeuedRow(row[g])]
            BY <1>6, <2>1 DEF RequeueWrite, InFlight, NoRow
        <2>4. /\ row'[g].st = "queued" /\ row'[g].prompt = NoPrompt
              /\ row'[g].retried = row[g].retried /\ \A h \in Gens \ {g} : row'[h] = row[h]
            BY <1>0, <2>2, <2>3, RowEffects, MarkEffects
        <2>5. task'[g].pc \in {"none", "ending"} /\ \A h \in Gens \ {g} : task'[h] = task[h]
            BY <1>0, <2>1, Moves
        <2>6. RowMove(g)
            BY <2>1, <2>2, <2>4 DEF RowMove, Freed, Submitted
        <2>7. StepMove(g)
            BY <2>1, <2>5, <2>6, ExecutorLeaves DEF Working, BeforeMark, AfterMark
        <2>8. QED
            BY <2>1, <2>4, <2>5, <2>7 DEF Working, BeforeMark
    <1>7. CASE FailWrite(g)
        <2>1. task[g].pc = "failWrite" /\ row[g].st \in InFlight
            BY <1>1, <1>7 DEF FailWrite, At, Working, BeforeMark
        <2>2. row' = [row EXCEPT ![g] = FailedRow(row[g])] /\ (Goto(g, "deleting") \/ End(g))
            BY <1>7, <2>1 DEF FailWrite, InFlight, NoRow
        <2>3. row'[g].st = "failed" /\ SameAttempt(g) /\ \A h \in Gens \ {g} : row'[h] = row[h]
            BY <1>0, <2>2, RowEffects, MarkEffects DEF SameAttempt
        <2>4. task'[g].pc \in {"deleting", "none", "ending"} /\ \A h \in Gens \ {g} : task'[h] = task[h]
            BY <1>0, <2>2, Moves
        <2>5. RowMove(g)
            BY <2>1, <2>3 DEF RowMove, Terminal
        <2>6. StepMove(g)
            BY <2>1, <2>4, <2>5, ExecutorLeaves DEF Working, BeforeMark, AfterMark
        <2>7. QED
            BY <2>1, <2>3, <2>4, <2>6 DEF Working, BeforeMark
    <1>8. QED
        BY <1>2, <1>3, <1>4, <1>5, <1>6, <1>7
-----------------------------------------------------------------------------
(* Every step moves every generation as StepMove allows, and keeps whoever *)
(* works on one in flight.                                                 *)

LEMMA ExecutorSteps ==
    ASSUME IInv, OpenInv, NEW g \in Gens, Execute(g) \/ Monitor(g) \/ Settle(g) \/ StopTask(g)
    PROVE  (\A h \in Gens : StepMove(h)) /\ OpenInv'
    <1>1. /\ \A h \in Gens \ {g} : row'[h] = row[h] /\ task'[h] = task[h]
          /\ row'[g] = row[g] \/ task[g].pc \in Working \cup {"deleting"}
          /\ StepMove(g)
        <2>1. \/ \/ LoadExecution(g) \/ SaveGraph(g) \/ SubmitAccepted(g) \/ SubmitFails(g) \/ MarkRead(g)
                 \/ CancelSubmitted(g) \/ ObserveTerminal(g) \/ ObserveMissing(g) \/ ResetExecutionCache(g)
                 \/ RequeueRead(g) \/ FailRead(g) \/ TaskDone(g) \/ StopTask(g)
              \/ \/ MarkWrite(g) \/ ArchiveOutput(g) \/ MarkCancelSent(g) \/ SendCancel(g)
                 \/ PersistFiles(g) \/ CommitFinalization(g) \/ DeleteTerminalIfPresent(g)
                 \/ RequeueWrite(g) \/ FailWrite(g)
            BY DEF Execute, Monitor, Settle
        <2>2. QED
            BY <2>1, QuietExecutor, WritingExecutor
    <1>2. \A h \in Gens : StepMove(h)
        BY <1>1, Untouched DEF SameRow, SameAttempt
    <1>3. UNCHANGED <<disp, rec>>
        BY DEF Execute, LoadExecution, SaveGraph, MaterializeFails, SubmitAccepted, SubmitFails, MarkRead, MarkWrite,
               CancelSubmitted, Monitor, ArchiveOutput, MarkCancelSent, SendCancel, ObserveTerminal,
               ObserveMissing, Settle, PersistFiles, CommitFinalization, ResetExecutionCache,
               DeleteTerminalIfPresent, RequeueRead, RequeueWrite, FailRead, FailWrite, TaskDone, StopTask
    <1>4. \A h \in Gens : task[h].pc \in Quiet => row'[h] = row[h]
        BY <1>1 DEF Quiet, Working, BeforeMark, AfterMark
    <1>5. disp'.pc # "none" => row'[disp'.gen].st \in InFlight
        BY <1>3, <1>4 DEF IInv, DispInv, OpenInv
    <1>6. rec.pc = "write" => row' = row
        <2>1. rec.pc = "write" => \A h \in Gens : task[h].pc \in Quiet
            BY DEF IInv, RecInv, Quiet
        <2>2. rec.pc = "write" => \A h \in Gens : row'[h] = row[h]
            BY <1>4, <2>1
        <2>3. row \in [Gens -> Row]
            BY DEF IInv, TypeOK
        <2>4. row' \in [Gens -> Row]
            <3>1. Next
                BY DEF Next, Process
            <3>2. IInv'
                BY <3>1, InvNext
            <3>3. QED
                BY <3>2 DEF IInv, TypeOK
        <2>5. QED
            BY <2>2, <2>3, <2>4
    <1>7. \A j \in rec.jobs : rec.pc \in {"write", "jobs"} =>
              j.gen \in Gens /\ task[j.gen].pc \in Quiet
        BY DEF IInv, TypeOK, Plan, Job, RecInv, JobInv, Quiet
    <1>8. QED
        BY <1>2, <1>3, <1>4, <1>5, <1>6, <1>7 DEF OpenInv, StepMove

LEMMA HandlerSteps ==
    ASSUME IInv, OpenInv, NobodyRemoved, Handlers
    PROVE  (\A h \in Gens : StepMove(h)) /\ OpenInv'
    <1>0. row \in [Gens -> Row]
        BY DEF IInv, TypeOK
    <1>1. UNCHANGED <<task, disp, rec>>
        BY DEF Handlers, Accept, CancelQueued, DeleteTerminal, RequestCancel, NotifyCancel,
               MarkAccountDeleting, RemoveAccount
    <1> DEFINE Gentle(h) == /\ RowMove(h)
                            /\ row[h].st \in InFlight => row'[h].st \in InFlight
                            /\ row[h].st \in {"queued", "deleted"} => row'[h].st \in {"queued", "deleted"}
    <1>2. \A h \in Gens : row'[h] = row[h] => Gentle(h)
        BY DEF RowMove, SameRow, SameAttempt
    <1>3. DeletedRow.st = "deleted" /\ AcceptedRow.st = "queued" /\ AcceptedRow.prompt = NoPrompt
          /\ ~AcceptedRow.retried
        BY DEF DeletedRow, AcceptedRow
    <1>4. ASSUME NEW g \in Gens, Accept(g) \/ CancelQueued(g) \/ DeleteTerminal(g)
          PROVE  \A h \in Gens : Gentle(h)
        <2>1. \A h \in Gens \ {g} : row'[h] = row[h]
            BY <1>0, <1>4 DEF Accept, CancelQueued, DeleteTerminal
        <2>2. \/ row[g].st = "absent" /\ row'[g] = AcceptedRow
              \/ row[g].st \in {"queued"} \cup Terminal /\ row'[g] = DeletedRow
            BY <1>0, <1>4 DEF Accept, CancelQueued, DeleteTerminal
        <2>3. Gentle(g)
            BY <1>3, <2>2 DEF RowMove, InFlight, Terminal
        <2>4. QED
            BY <1>2, <2>1, <2>3
    <1>5. ASSUME NEW g \in Gens, NEW b \in BOOLEAN, RequestCancel(g, b)
          PROVE  \A h \in Gens : Gentle(h)
        <2>1. row[g].st \in InFlight /\ row' = [row EXCEPT ![g] = CancelRow(row[g], b)]
            BY <1>5 DEF RequestCancel, Cancellable
        <2>2. /\ CancelRow(row[g], b).st = "cancel_requested" /\ CancelRow(row[g], b).prompt = row[g].prompt
              /\ CancelRow(row[g], b).retried = row[g].retried
            BY <1>0 DEF CancelRow, Row
        <2>3. /\ row'[g].st = "cancel_requested" /\ SameAttempt(g)
              /\ \A h \in Gens \ {g} : row'[h] = row[h]
            BY <1>0, <2>1, <2>2 DEF SameAttempt
        <2>4. Gentle(g)
            BY <2>1, <2>3 DEF RowMove, InFlight
        <2>5. QED
            BY <1>2, <2>3, <2>4
    <1>6. ASSUME RemoveAccount \/ \E p \in Prompts : NotifyCancel(p)
          PROVE  \A h \in Gens : Gentle(h)
        BY <1>2, <1>6 DEF NotifyCancel, RemoveAccount, NobodyRemoved
    <1>7. \A h \in Gens : Gentle(h)
        BY <1>4, <1>5, <1>6 DEF Handlers, MarkAccountDeleting, NobodyRemoved
    <1>8. ASSUME NEW h \in Gens PROVE StepMove(h)
        <2>1. RowMove(h) /\ (row[h].st \in InFlight => row'[h].st \in InFlight)
            BY <1>7
        <2>2. task'[h].pc \in Working => row[h].st \in InFlight
            BY <1>1 DEF OpenInv
        <2>3. Submitted(h)' = Submitted(h)
            BY <1>1 DEF Submitted
        <2>4. QED
            BY <2>1, <2>2, <2>3 DEF StepMove
    <1>9. QED
        <2> HIDE DEF Gentle
        <2>1. disp.pc # "none" => disp.gen \in Gens
            BY DEF IInv, DispInv
        <2>2. rec.release \cup rec.unconfigured \subseteq Gens /\ \A j \in rec.jobs : j.gen \in Gens
            BY DEF IInv, TypeOK, Plan, Job
        <2>3. \A h \in Gens : /\ row[h].st \in InFlight => row'[h].st \in InFlight
                              /\ row[h].st \in {"queued", "deleted"} => row'[h].st \in {"queued", "deleted"}
            BY <1>7 DEF Gentle
        <2>4. QED
            BY <1>1, <1>8, <2>1, <2>2, <2>3 DEF OpenInv, StepMove
LEMMA DispatcherSteps ==
    ASSUME IInv, OpenInv, Dispatcher
    PROVE  (\A h \in Gens : StepMove(h)) /\ OpenInv'
    <1>0. row \in [Gens -> Row] /\ task \in [Gens -> Task]
        BY DEF IInv, TypeOK
    <1>1. ASSUME NEW i \in Instances, NEW g \in Gens, ClaimNext(i, g)
          PROVE  (\A h \in Gens : StepMove(h)) /\ OpenInv'
        <2>1. /\ row[g].st = "queued" /\ row' = [row EXCEPT ![g] = ClaimedRow(row[g], i)]
              /\ disp'.gen = g /\ mode = "running" /\ UNCHANGED <<task, rec>>
            BY <1>1 DEF ClaimNext
        <2>2. /\ row'[g].st = "dispatching" /\ SameAttempt(g)
              /\ \A h \in Gens \ {g} : row'[h] = row[h]
            BY <1>0, <2>1, RowEffects, MarkEffects DEF SameAttempt
        <2>3. StepMove(g)
            <3>1. RowMove(g)
                BY <2>1, <2>2 DEF RowMove
            <3>2. row'[g].st \in InFlight /\ Submitted(g)' = Submitted(g)
                BY <2>1, <2>2 DEF InFlight, Submitted
            <3>3. QED
                BY <3>1, <3>2 DEF StepMove
        <2>4. \A h \in Gens : StepMove(h)
            BY <2>1, <2>2, <2>3, Untouched DEF SameRow, SameAttempt
        <2>5. rec.pc = "idle"
            BY <2>1 DEF IInv, RecInv
        <2>6. QED
            BY <2>1, <2>2, <2>4, <2>5 DEF OpenInv, StepMove, InFlight
    <1>2. CASE StartTask
        <2> DEFINE g == disp.gen
        <2>1. UNCHANGED <<row, rec>> /\ disp' = NoClaim /\ disp.pc # "none"
            BY <1>2 DEF StartTask
        <2>2. g \in Gens /\ task[g].pc \in Quiet /\ row[g].st \in InFlight /\ rec.pc = "idle"
            BY <2>1 DEF IInv, DispInv, OpenInv
        <2>3. /\ task'[g].pc = task[g].pc \/ task'[g].pc = "loading"
              /\ \A h \in Gens \ {g} : task'[h] = task[h]
            BY <1>0, <1>2, <2>2 DEF StartTask, NewTask, Idle
        <2>4. StepMove(g)
            <3>1. RowMove(g) /\ row'[g].st \in InFlight
                BY <2>1, <2>2 DEF RowMove, SameRow, SameAttempt
            <3>2. Submitted(g) = {}
                BY <2>2 DEF Quiet, Submitted
            <3>3. QED
                BY <3>1, <3>2 DEF StepMove
        <2>5. \A h \in Gens : StepMove(h)
            BY <2>1, <2>3, <2>4, Untouched DEF SameRow, SameAttempt
        <2>6. QED
            BY <2>1, <2>2, <2>5 DEF OpenInv, StepMove, NoClaim
    <1>3. CASE RequeueClaimRead
        <2>1. UNCHANGED <<row, task, rec>> /\ disp'.gen = disp.gen /\ disp.pc # "none"
            BY <1>3 DEF RequeueClaimRead, IInv, TypeOK, Claim
        <2>2. \A h \in Gens : StepMove(h)
            BY <2>1, Untouched DEF SameRow, SameAttempt
        <2>3. QED
            BY <2>1, <2>2 DEF OpenInv, StepMove
    <1>4. CASE RequeueClaimWrite
        <2> DEFINE g == disp.gen
        <2>1. UNCHANGED <<task, rec>> /\ disp' = NoClaim /\ disp.pc # "none"
            BY <1>4 DEF RequeueClaimWrite
        <2>2. g \in Gens /\ task[g].pc \in Quiet /\ row[g].st \in InFlight /\ rec.pc = "idle"
            BY <2>1 DEF IInv, DispInv, OpenInv
        <2>3. row[g].prompt = NoPrompt
            BY <2>1, <2>2 DEF IInv, DispInv, Records
        <2>4. row' = row \/ row' = [row EXCEPT ![g] = RequeuedRow(row[g])]
            BY <1>4 DEF RequeueClaimWrite
        <2>5. /\ \A h \in Gens \ {g} : row'[h] = row[h]
              /\ \/ row'[g] = row[g]
                 \/ /\ row'[g].st = "queued" /\ row'[g].prompt = NoPrompt
                    /\ row'[g].retried = row[g].retried
            BY <1>0, <2>2, <2>3, <2>4, RowEffects, MarkEffects
        <2>6. StepMove(g)
            <3>1. Submitted(g) = {} /\ task'[g].pc \notin Working
                BY <2>1, <2>2 DEF Quiet, Submitted, Working, BeforeMark, AfterMark
            <3>2. RowMove(g)
                BY <2>2, <2>3, <2>5, <3>1 DEF RowMove, SameRow, SameAttempt, Freed
            <3>3. QED
                BY <3>1, <3>2 DEF StepMove
        <2>7. \A h \in Gens : StepMove(h)
            BY <2>1, <2>5, <2>6, Untouched DEF SameRow, SameAttempt
        <2>8. QED
            BY <2>1, <2>2, <2>7 DEF OpenInv, StepMove, NoClaim
    <1>5. QED
        BY <1>1, <1>2, <1>3, <1>4 DEF Dispatcher

LEMMA PlanSteps ==
    ASSUME IInv, OpenInv, RecoverRead \/ RecoverWrite
    PROVE  (\A h \in Gens : StepMove(h)) /\ OpenInv'
    <1>0. row \in [Gens -> Row] /\ rec \in Plan /\ \A g \in Gens : row[g] \in Row
        BY DEF IInv, TypeOK
    <1>1. UNCHANGED <<task, disp>> /\ rec.pc \in {"read", "write"}
        BY DEF RecoverRead, RecoverWrite
    <1>2. /\ disp.pc = "none"
          /\ \A h \in Gens : task[h].pc = "none" /\ Submitted(h) = {}
        BY <1>1 DEF IInv, DispInv, RecInv, Submitted
    <1>3. ASSUME NEW h \in Gens, RowMove(h) PROVE StepMove(h)
        BY <1>1, <1>2, <1>3 DEF StepMove, Working, BeforeMark, AfterMark
    <1>4. \A j \in InFlightPlan.jobs : row[j.gen].st \in InFlight
        BY DEF InFlightPlan
    <1>5. CASE RecoverRead
        <2>1. /\ row' = row /\ rec'.release = Releasable /\ rec'.unconfigured = Unconfigured
              /\ rec'.jobs = InFlightPlan.jobs
            BY <1>5 DEF RecoverRead
        <2>2. \A h \in Gens : StepMove(h)
            BY <1>3, <2>1 DEF RowMove, SameRow, SameAttempt
        <2>3. \A g \in Releasable \cup Unconfigured : row[g].st = "queued"
            BY DEF Releasable, Unconfigured, PinnedQueued
        <2>4. QED
            BY <1>1, <1>2, <1>4, <2>1, <2>2, <2>3 DEF OpenInv, StepMove
    <1>6. CASE RecoverWrite
        <2> DEFINE plan == WritePlan
        <2>1. PlanInv(plan)
            BY <1>6, WritePlanInv DEF RecoverWrite
        <2>2. /\ plan.release = rec.release /\ plan.unconfigured = rec.unconfigured
              /\ \A j \in plan.jobs : row[j.gen].st \in InFlight
            BY <1>0, <1>4, <1>6 DEF WritePlan, RecoverWrite, OpenInv, Plan
        <2>3. plan \in Plan
            BY PlansArePlans DEF IInv
        <2> HIDE DEF plan
        <2>4. CASE rec' = [NoPlan EXCEPT !.pc = "read"] /\ UNCHANGED row
            <3>1. \A h \in Gens : StepMove(h)
                BY <1>3, <2>4 DEF RowMove, SameRow, SameAttempt
            <3>2. QED
                BY <1>1, <1>2, <2>4, <3>1 DEF OpenInv, StepMove, NoPlan
        <2>5. CASE /\ \A g \in plan.requeue \cup plan.release \cup plan.unconfigured : row[g].st \notin NoRow
                   /\ row' = [g \in Gens |-> Recovered(plan, g)]
                   /\ rec' = [NoPlan EXCEPT !.pc = "jobs", !.jobs = plan.jobs]
            <3>1. ASSUME NEW g \in Gens
                  PROVE  /\ RowMove(g)
                         /\ g \notin plan.requeue \cup plan.cancelled \cup plan.release \cup plan.unconfigured
                              => row'[g] = row[g]
                <4>0. row[g] \in Row /\ row'[g] = Recovered(plan, g)
                    BY <1>0, <2>5
                <4>1. CASE g \in plan.requeue
                    <5>1. row[g].st \in InFlight /\ row[g].prompt = NoPrompt
                        BY <2>1, <2>5, <4>1 DEF PlanInv, Owned, NoRow
                    <5>2. row'[g].st = "queued" /\ row'[g].prompt = NoPrompt /\ row'[g].retried = row[g].retried
                        BY <4>0, <4>1, <5>1, RowEffects, MarkEffects DEF Recovered
                    <5>3. QED
                        BY <1>2, <4>1, <5>1, <5>2 DEF RowMove, Freed
                <4>2. CASE g \in plan.cancelled /\ g \notin plan.requeue
                    <5>1. row[g].st \in InFlight \cup {"deleted"}
                        BY <2>1, <4>2 DEF PlanInv, Owned
                    <5>2. CASE row[g].st = "deleted"
                        BY <4>0, <4>2, <5>2 DEF Recovered, NoRow, RowMove, SameRow, SameAttempt
                    <5>3. CASE row[g].st \in InFlight
                        <6>1. row'[g] = [row[g] EXCEPT !.st = "cancelled"]
                            BY <4>0, <4>2, <5>3 DEF Recovered, NoRow, InFlight
                        <6>2. row'[g].st = "cancelled" /\ SameAttempt(g)
                            BY <4>0, <6>1 DEF Row, SameAttempt
                        <6>3. QED
                            BY <4>2, <5>3, <6>2 DEF RowMove, Terminal
                    <5>4. QED
                        BY <5>1, <5>2, <5>3
                <4>3. CASE g \in plan.release /\ g \notin plan.requeue \cup plan.cancelled
                    <5>1. row'[g] = ReleasedRow(row[g])
                        BY <4>0, <4>3 DEF Recovered
                    <5>2. row'[g].st = row[g].st /\ SameAttempt(g)
                        BY <4>0, <5>1, RowEffects, MarkEffects DEF SameAttempt
                    <5>3. QED
                        BY <4>3, <5>2 DEF RowMove, SameRow
                <4>4. CASE /\ g \in plan.unconfigured
                           /\ g \notin plan.requeue \cup plan.cancelled \cup plan.release
                    <5>1. row[g].st = "queued"
                        BY <2>2, <2>5, <4>4, <1>6 DEF OpenInv, NoRow, RecoverWrite
                    <5>2. row'[g] = FailedRow(row[g])
                        BY <4>0, <4>4 DEF Recovered
                    <5>3. row'[g].st = "failed" /\ SameAttempt(g)
                        BY <4>0, <5>2, RowEffects, MarkEffects DEF SameAttempt
                    <5>4. QED
                        BY <4>4, <5>1, <5>3 DEF RowMove, Terminal
                <4>5. CASE g \notin plan.requeue \cup plan.cancelled \cup plan.release \cup plan.unconfigured
                    BY <4>0, <4>5 DEF Recovered, RowMove, SameRow, SameAttempt
                <4>6. QED
                    BY <4>1, <4>2, <4>3, <4>4, <4>5
            <3>2. \A h \in Gens : StepMove(h)
                BY <1>3, <3>1
            <3>3. ASSUME NEW j \in plan.jobs
                  PROVE  row'[j.gen].st \in InFlight
                <4>1. j.gen \in Gens /\ j.prompt # NoPrompt
                    BY <2>3 DEF Plan, Job, Prompts, NoPrompt
                <4>2. row[j.gen].st \in InFlight /\ row[j.gen].prompt # NoPrompt
                    BY <2>1, <2>2, <4>1 DEF PlanInv, JobInv, Records
                <4>3. row[j.gen].st \notin {"queued", "deleted"}
                    BY <4>2 DEF InFlight
                <4>4. j.gen \notin plan.requeue \cup plan.cancelled \cup plan.release \cup plan.unconfigured
                    BY <1>6, <2>1, <2>2, <4>2, <4>3 DEF PlanInv, OpenInv, RecoverWrite
                <4>5. QED
                    BY <3>1, <4>1, <4>2, <4>4
            <3>4. QED
                BY <1>1, <1>2, <2>5, <3>2, <3>3 DEF OpenInv, StepMove, NoPlan
        <2>6. QED
            BY <1>6, <2>4, <2>5 DEF RecoverWrite, plan
    <1>7. QED
        BY <1>5, <1>6
LEMMA JobSteps ==
    ASSUME IInv, OpenInv, NEW j \in rec.jobs, RecoverJob(j)
    PROVE  (\A h \in Gens : StepMove(h)) /\ OpenInv'
    <1> DEFINE g == j.gen
    <1>0. task \in [Gens -> Task] /\ rec \in Plan /\ g \in Gens
        BY DEF IInv, TypeOK, Plan, Job, RecoverJob
    <1>1. /\ UNCHANGED <<row, disp>> /\ rec.pc = "jobs" /\ rec' = [rec EXCEPT !.jobs = @ \ {j}]
          /\ row[g].st \in InFlight /\ disp.pc = "none" /\ task[g].pc = "none"
        BY DEF RecoverJob, OpenInv, IInv, RecInv, JobInv, DispInv
    <1>2. \A h \in Gens \ {g} : task'[h] = task[h]
        BY <1>0 DEF RecoverJob, StartJob
    <1>3. StepMove(g)
        <2>1. RowMove(g) /\ row'[g].st \in InFlight
            BY <1>1 DEF RowMove, SameRow, SameAttempt
        <2>2. Submitted(g) = {}
            BY <1>1 DEF Submitted
        <2>3. QED
            BY <2>1, <2>2 DEF StepMove
    <1>4. \A h \in Gens : StepMove(h)
        BY <1>1, <1>2, <1>3, Untouched DEF SameRow, SameAttempt
    <1>5. rec'.pc = "jobs" /\ rec'.jobs \subseteq rec.jobs
        BY <1>0, <1>1 DEF Plan
    <1>6. QED
        BY <1>1, <1>4, <1>5 DEF OpenInv, StepMove

LEMMA OtherSteps ==
    ASSUME IInv, OpenInv,
           FinishRecovery \/ RequestStop \/ StopRecovery \/ Halt \/ Crash \/ Restart \/ ComfyUI
    PROVE  (\A h \in Gens : StepMove(h)) /\ OpenInv'
    <1>1. CASE RequestStop \/ ComfyUI \/ FinishRecovery \/ StopRecovery \/ Restart
        <2>1. /\ UNCHANGED <<row, task, disp>>
              /\ rec' \in {rec, NoPlan, [NoPlan EXCEPT !.pc = "read"]}
            BY <1>1 DEF RequestStop, ComfyUI, NativeFinish, NativeLost, FinishRecovery,
                        StopRecovery, Restart
        <2>2. \A h \in Gens : StepMove(h)
            BY <2>1, Untouched DEF SameRow, SameAttempt
        <2>3. QED
            BY <2>1, <2>2 DEF OpenInv, StepMove, NoPlan
    <1>2. CASE Halt \/ Crash
        <2>1. /\ row' = row /\ disp' = NoClaim /\ rec' = NoPlan
              /\ \A h \in Gens : task'[h].pc = "none"
            BY <1>2 DEF Halt, Crash, Forget, Idle
        <2>2. Halt => \A h \in Gens : Submitted(h) = {}
            BY DEF Halt, Live, Submitted
        <2>3. \A h \in Gens : StepMove(h)
            BY <1>2, <2>1, <2>2
               DEF StepMove, RowMove, SameRow, SameAttempt, Working, BeforeMark, AfterMark
        <2>4. QED
            BY <2>1, <2>3 DEF OpenInv, StepMove, NoClaim, NoPlan
    <1>3. QED
        BY <1>1, <1>2

LEMMA EveryStep ==
    ASSUME IInv, OpenInv, NobodyRemoved, Next
    PROVE  (\A h \in Gens : StepMove(h)) /\ OpenInv'
    <1>1. CASE (\E g \in Gens : Execute(g) \/ Monitor(g) \/ Settle(g)) \/ Handlers \/ Dispatcher
        BY <1>1, ExecutorSteps, HandlerSteps, DispatcherSteps
    <1>2. CASE Recovery
        BY <1>2, PlanSteps, JobSteps, OtherSteps DEF Recovery
    <1>3. CASE Process \/ ComfyUI
        BY <1>3, ExecutorSteps, OtherSteps DEF Process
    <1>4. QED
        BY <1>1, <1>2, <1>3 DEF Next

LEMMA OpenInit == Init => OpenInv
    BY DEF Init, OpenInv, Idle, NoClaim, NoPlan, Working, BeforeMark, AfterMark

LEMMA OpenNext ==
    ASSUME IInv, OpenInv, NobodyRemoved, [Next]_vars
    PROVE  OpenInv'
    <1>1. CASE UNCHANGED vars
        BY <1>1 DEF vars, OpenInv
    <1>2. QED
        BY <1>1, EveryStep

THEOREM OpenInvariance == ASSUME NobodyRemoved PROVE Spec => []OpenInv
    <1>1. IInv /\ OpenInv /\ [Next]_vars => OpenInv'
        BY OpenNext
    <1>2. QED
        BY <1>1, OpenInit, Invariance, PTL DEF Spec

(* A terminal status is final, until the row is deleted: no retry, no late *)
(* executor, no recovery and no cancellation changes it, whatever crashes, *)
(* as long as no account is removed under its generations.                 *)
THEOREM FinalStatuses == ASSUME NobodyRemoved PROVE Spec => TerminalIsFinal
    <1>1. ASSUME NEW h \in Gens, RowMove(h), row[h].st \in Terminal
          PROVE  row'[h].st \in {row[h].st, "deleted"}
        BY <1>1 DEF RowMove, SameRow, Terminal, InFlight
    <1>2. IInv /\ OpenInv /\ [Next]_vars => [EndsOnce]_row
        BY <1>1, EveryStep DEF EndsOnce, StepMove, vars
    <1>3. QED
        BY <1>2, Invariance, OpenInvariance, PTL DEF Spec, TerminalIsFinal
-----------------------------------------------------------------------------
(* Without a crash or a lost answer, whatever ComfyUI works on is known to *)
(* the row or to the executor that submitted it.                           *)

(* Any change of ComfyUI's prompts but the acceptance of one.              *)
CalmNative ==
    \A p \in Prompts :
        /\ native'[p].st \in {"live", "succeeded"} => native'[p].gen = native[p].gen
        /\ native[p].st # "unused" => native'[p].gen = native[p].gen
        /\ native'[p].st = "live" => native[p].st = "live"
        /\ native[p].st = "succeeded" => native'[p].st = "succeeded"
        /\ native'[p].st = "succeeded" => native[p].st \in {"live", "succeeded"}

LEMMA CancelIsCalm ==
    ASSUME TypeOK, NEW q, CancelsNative(q)
    PROVE  CalmNative
    <1>1. CASE native' = native
        BY <1>1 DEF CalmNative
    <1>2. ASSUME NEW known \in BOOLEAN, native[q].st = "live", q \in Prompts,
                 native' = [native EXCEPT ![q] = [@ EXCEPT !.st = "cancelled", !.known = known]]
          PROVE  CalmNative
        <2>1. native'[q].st = "cancelled" /\ native'[q].gen = native[q].gen
              /\ \A p \in Prompts \ {q} : native'[p] = native[p]
            BY <1>2 DEF TypeOK, Native
        <2>2. QED
            BY <1>2, <2>1 DEF CalmNative
    <1>3. CASE q \notin Prompts
        BY <1>3 DEF CancelsNative, CalmNative, TypeOK
    <1>4. QED
        BY <1>1, <1>2, <1>3 DEF CancelsNative

LEMMA NativeSteps ==
    ASSUME TypeOK, NothingCut, Next
    PROVE  \/ native' = native
           \/ row' = row /\ CalmNative
           \/ CalmNative /\ \E g \in Gens : SendCancel(g)
           \/ \E g \in Gens : SubmitAccepted(g)
    <1>1. ASSUME NEW g \in Gens, SubmitFails(g) PROVE native' = native
        BY <1>1 DEF SubmitFails, Fault, NothingCut
    <1>2. ASSUME NEW g \in Gens, CancelSubmitted(g) PROVE native' = native \/ (row' = row /\ CalmNative)
        BY <1>2, CancelIsCalm DEF CancelSubmitted
    <1>3. ASSUME NEW g \in Gens, SendCancel(g) PROVE native' = native \/ CalmNative
        BY <1>3, CancelIsCalm DEF SendCancel
    <1>4. ASSUME NEW p \in Prompts, NotifyCancel(p) PROVE native' = native \/ (row' = row /\ CalmNative)
        BY <1>4, CancelIsCalm DEF NotifyCancel
    <1>5. ASSUME NEW q \in Prompts, NativeFinish(q) PROVE row' = row /\ CalmNative
        <2>1. PICK st \in {"succeeded", "failed"} : native' = [native EXCEPT ![q].st = st]
            BY <1>5 DEF NativeFinish
        <2>2. native'[q].st = st /\ native'[q].gen = native[q].gen
              /\ \A p \in Prompts \ {q} : native'[p] = native[p]
            BY <2>1 DEF TypeOK, Native
        <2>3. QED
            BY <1>5, <2>1, <2>2 DEF NativeFinish, CalmNative
    <1>6. ASSUME NEW q \in Prompts, NativeLost(q) PROVE row' = row /\ CalmNative
        <2>1. native'[q] = LostNative(native[q]) /\ \A p \in Prompts \ {q} : native'[p] = native[p]
            BY <1>6 DEF NativeLost, TypeOK
        <2>2. native[q] \in Native
            BY DEF TypeOK
        <2>3. native'[q].gen = native[q].gen
              /\ native'[q].st = IF native[q].st = "live" THEN "lost" ELSE native[q].st
            BY <2>1, <2>2 DEF LostNative, Native
        <2>4. QED
            BY <1>6, <2>1, <2>3 DEF NativeLost, CalmNative
    <1>7. CASE Dispatcher \/ Recovery \/ Process
        BY <1>7 DEF Dispatcher, ClaimNext, StartTask, RequeueClaimRead, RequeueClaimWrite,
                    Recovery, RecoverRead, RecoverWrite, RecoverJob, FinishRecovery,
                    Process, RequestStop, StopRecovery, StopTask, Halt, Crash, Restart
    <1>8. ASSUME NEW g \in Gens, Settle(g) PROVE native' = native
        BY <1>8 DEF Settle, PersistFiles, CommitFinalization, ResetExecutionCache, RequeueRead,
                    DeleteTerminalIfPresent, RequeueWrite, FailRead, FailWrite, TaskDone
    <1>9. ASSUME NEW g \in Gens,
                 \/ LoadExecution(g) \/ SaveGraph(g) \/ MarkRead(g) \/ MarkWrite(g)
                 \/ ArchiveOutput(g) \/ MarkCancelSent(g) \/ ObserveTerminal(g) \/ ObserveMissing(g)
          PROVE  native' = native
        BY <1>9 DEF LoadExecution, SaveGraph, MaterializeFails, MarkRead, MarkWrite, ArchiveOutput,
                    MarkCancelSent, ObserveTerminal, ObserveMissing
    <1>10. CASE Handlers
        BY <1>4, <1>10 DEF Handlers, Accept, CancelQueued, DeleteTerminal, RequestCancel,
                           MarkAccountDeleting, RemoveAccount
    <1>11. QED
        BY <1>1, <1>2, <1>3, <1>5, <1>6, <1>7, <1>8, <1>9, <1>10
           DEF Next, Execute, Monitor, ComfyUI

(* No prompt is accepted, and its row and its executor hold on to the one  *)
(* there may be.                                                           *)
LEMMA LiveKept ==
    ASSUME IInv, OpenInv, NEW h \in Gens, OneLive(h), StepMove(h), ~Crash, CalmNative
    PROVE  OneLive(h)'
    <1>1. LivePrompts(h)' \subseteq LivePrompts(h)
        BY DEF LivePrompts, CalmNative
    <1>2. /\ RowInv(h) /\ row[h] \in Row
          /\ Submitted(h) \subseteq Submitted(h)' \cup {row'[h].prompt}
          /\ LivePrompts(h) \subseteq Prompts /\ NoPrompt \notin Prompts
        BY DEF IInv, TypeOK, StepMove, LivePrompts, Prompts, NoPrompt
    <1>3. ASSUME row[h].st # "deleted", SameAttempt(h)
          PROVE  LivePrompts(h)' \subseteq {row'[h].prompt} \cup Submitted(h)'
        BY <1>1, <1>2, <1>3 DEF OneLive, SameAttempt
    <1>4. ASSUME row'[h].st # "deleted"
          PROVE  LivePrompts(h)' \subseteq {row'[h].prompt} \cup Submitted(h)'
        <2>1. CASE SameRow(h)
            BY <1>3, <1>4, <2>1 DEF SameRow
        <2>2. CASE row[h].st = "absent" /\ row'[h].st = "queued" /\ row'[h].prompt = NoPrompt
            BY <1>1, <1>2, <2>2 DEF RowInv, NoRow, OneLive
        <2>3. CASE /\ row[h].st \in InFlight
                   /\ row[h].prompt = NoPrompt /\ Submitted(h) = {row'[h].prompt}
            BY <1>1, <1>2, <2>3 DEF OneLive, InFlight
        <2>4. CASE row[h].st \in InFlight /\ Freed(h)
            <3>1. LivePrompts(h) \subseteq {row[h].prompt}
                BY <2>4 DEF Freed, Done, OneLive, InFlight
            <3>2. row[h].prompt \notin LivePrompts(h)
                BY <1>2, <2>4 DEF Freed, Done, LivePrompts, Successes
            <3>3. QED
                BY <1>1, <3>1, <3>2
        <2>5. CASE row[h].st \in {"queued"} \cup InFlight /\ SameAttempt(h)
            BY <1>3, <2>5 DEF InFlight
        <2>6. QED
            BY <1>4, <2>1, <2>2, <2>3, <2>4, <2>5 DEF StepMove, RowMove
    <1>5. \A p, q \in LivePrompts(h)' : p = q
        BY <1>1 DEF OneLive
    <1>6. QED
        BY <1>4, <1>5 DEF OneLive

(* ComfyUI accepts a prompt only of a generation of which it has none.     *)
LEMMA LiveSubmitted ==
    ASSUME IInv, OpenInv, LiveInv, NEW g \in Gens, SubmitAccepted(g)
    PROVE  /\ LivePrompts(g) = {} /\ LivePrompts(g)' # {}
           /\ \A h \in Gens : Successes(h)' = Successes(h)
           /\ \A h \in Gens \ {g} : LivePrompts(h)' = LivePrompts(h)
           /\ LiveInv'
    <1>0. TypeOK /\ task \in [Gens -> Task] /\ native \in [Prompts -> Native]
          /\ task[g].pc = "submitting" /\ row' = row /\ TaskInv(g)
        BY DEF IInv, TypeOK, SubmitAccepted, At
    <1>1. PICK p \in Prompts :
              /\ NextPrompt(p) /\ AcceptNative(g, p)
              /\ task' = [task EXCEPT ![g] = [@ EXCEPT !.pc = "accepted", !.prompt = p]]
        BY DEF SubmitAccepted
    <1>2. /\ native[p].st = "unused"
          /\ native'[p].st = "live" /\ native'[p].gen = g
          /\ \A q \in Prompts \ {p} : native'[q] = native[q]
        BY <1>0, <1>1 DEF NextPrompt, AcceptNative
    <1>3. /\ task'[g].pc = "accepted" /\ task'[g].prompt = p
          /\ \A h \in Gens \ {g} : task'[h] = task[h]
        BY <1>0, <1>1 DEF Task
    <1>4. LivePrompts(g) = {}
        <2>1. row[g].st \in InFlight /\ row[g].prompt = NoPrompt /\ Submitted(g) = {}
            BY <1>0 DEF OpenInv, Working, BeforeMark, TaskInv, Records, Submitted
        <2>2. LivePrompts(g) \subseteq {NoPrompt}
            BY <2>1 DEF LiveInv, OneLive, InFlight
        <2>3. QED
            BY <2>2 DEF LivePrompts, Prompts, NoPrompt
    <1>5. LivePrompts(g)' = {p}
        BY <1>2, <1>4 DEF LivePrompts
    <1>6. \A h \in Gens : Successes(h)' = Successes(h)
        BY <1>2 DEF Successes
    <1>7. \A h \in Gens \ {g} : LivePrompts(h)' = LivePrompts(h)
        BY <1>2 DEF LivePrompts
    <1>8. OneLive(g)'
        BY <1>3, <1>5 DEF OneLive, Submitted
    <1>9. ASSUME NEW h \in Gens \ {g} PROVE OneLive(h)'
        <2>1. LivePrompts(h)' = LivePrompts(h) /\ Submitted(h)' = Submitted(h)
            BY <1>3, <1>7 DEF Submitted
        <2>2. OneLive(h)
            BY DEF LiveInv
        <2>3. QED
            BY <1>0, <2>1, <2>2 DEF OneLive
    <1>10. LiveInv'
        BY <1>8, <1>9 DEF LiveInv
    <1>11. QED
        BY <1>4, <1>5, <1>6, <1>7, <1>10

LEMMA LiveNext ==
    ASSUME IInv, OpenInv, LiveInv, NobodyRemoved, NothingCut, [Next]_vars
    PROVE  LiveInv'
    <1>1. CASE UNCHANGED vars
        BY <1>1 DEF vars, LiveInv, OneLive, LivePrompts, Submitted
    <1>2. CASE Next
        <2>1. CASE \E g \in Gens : SubmitAccepted(g)
            BY <2>1, LiveSubmitted
        <2>2. CASE CalmNative \/ native' = native
            <3>1. CalmNative
                BY <2>2 DEF CalmNative
            <3>2. ~Crash
                BY DEF Crash, Fault, NothingCut
            <3>3. QED
                BY <1>2, <3>1, <3>2, EveryStep, LiveKept DEF LiveInv
        <2>3. QED
            BY <1>2, <2>1, <2>2, NativeSteps DEF IInv
    <1>3. QED
        BY <1>1, <1>2

LEMMA LiveInit == Init => LiveInv
    BY DEF Init, LiveInv, OneLive, LivePrompts, Submitted, Unused, Idle

THEOREM LiveInvariance == ASSUME NobodyRemoved, NothingCut PROVE Spec => []LiveInv
    <1>1. IInv /\ OpenInv /\ LiveInv /\ [Next]_vars => LiveInv'
        BY LiveNext
    <1>2. QED
        BY <1>1, LiveInit, Invariance, OpenInvariance, PTL DEF Spec

-----------------------------------------------------------------------------
(* Every step is a step of GenerationPromise for every generation, or none.*)

LEMMA PhaseMoves ==
    ASSUME NEW h \in Gens, RowMove(h), RowInv(h), LiveInv, NoPrompt \notin LivePrompts(h)
    PROVE  \/ PhaseOf(h)' = PhaseOf(h)
           \/ PhaseOf(h) = "absent" /\ PhaseOf(h)' = "waiting"
           \/ PhaseOf(h) \in {"waiting", "succeeded", "ended"} /\ PhaseOf(h)' = "gone"
           \/ PhaseOf(h) = "waiting" /\ PhaseOf(h)' = "working"
           \/ PhaseOf(h) = "working" /\ PhaseOf(h)' = "waiting" /\ LivePrompts(h) = {}
           \/ PhaseOf(h) = "working" /\ PhaseOf(h)' = "succeeded" /\ LivePrompts(h) = {}
              /\ Successes(h) # {}
           \/ PhaseOf(h) \in {"waiting", "working"} /\ PhaseOf(h)' = "ended"
    <1>1. CASE SameRow(h)
        BY <1>1 DEF SameRow, PhaseOf
    <1>2. CASE row[h].st = "absent" /\ row'[h].st = "queued"
        BY <1>2 DEF PhaseOf, InFlight
    <1>3. CASE row[h].st \in {"queued"} \cup Terminal /\ row'[h].st = "deleted"
        BY <1>3 DEF PhaseOf, Terminal, InFlight
    <1>4. CASE row[h].st = "queued" /\ row'[h].st = "dispatching"
        BY <1>4 DEF PhaseOf, InFlight
    <1>5. CASE row[h].st \in InFlight /\ row'[h].st \in InFlight
        BY <1>5 DEF PhaseOf, InFlight
    <1>6. ASSUME Freed(h) \/ Done(h), row[h].st \in InFlight PROVE LivePrompts(h) = {}
        <2>1. LivePrompts(h) \subseteq {row[h].prompt}
            BY <1>6 DEF Freed, Done, LiveInv, OneLive, InFlight
        <2>2. row[h].prompt \notin LivePrompts(h)
            BY <1>6 DEF Freed, Done, LivePrompts, Successes
        <2>3. QED
            BY <2>1, <2>2
    <1>7. CASE row[h].st \in InFlight /\ row'[h].st = "queued" /\ Freed(h)
        BY <1>6, <1>7 DEF PhaseOf, InFlight
    <1>8. CASE row[h].st \in InFlight /\ row'[h].st = "succeeded" /\ Done(h)
        <2>1. LivePrompts(h) = {} /\ Successes(h) # {}
            BY <1>6, <1>8 DEF Done
        <2>2. QED
            BY <1>8, <2>1 DEF PhaseOf, InFlight
    <1>9. CASE row[h].st \in {"queued"} \cup InFlight /\ row'[h].st \in Terminal \ {"succeeded"}
        BY <1>9 DEF PhaseOf, InFlight, Terminal
    <1>10. QED
        BY <1>1, <1>2, <1>3, <1>4, <1>5, <1>7, <1>8, <1>9 DEF RowMove

(* What the user sees of ComfyUI's work.                                   *)
IsLive(h) == LivePrompts(h) # {}
IsMade(h) == Successes(h) # {}

LEMMA WorkMoves ==
    ASSUME NEW h \in Gens, OneLive(h), CalmNative
    PROVE  \/ (IsLive(h)' <=> IsLive(h)) /\ (IsMade(h)' <=> IsMade(h))
           \/ IsLive(h) /\ ~IsLive(h)' /\ (IsMade(h) => IsMade(h)')
    <1>1. LivePrompts(h)' \subseteq LivePrompts(h) /\ Successes(h) \subseteq Successes(h)'
        BY DEF LivePrompts, Successes, CalmNative
    <1>2. ASSUME NEW p \in Successes(h)' PROVE p \in Successes(h) \cup LivePrompts(h)
        BY DEF LivePrompts, Successes, CalmNative
    <1>3. ASSUME NEW p \in Successes(h)', p \in LivePrompts(h) PROVE LivePrompts(h)' = {}
        <2>1. p \notin LivePrompts(h)'
            BY DEF LivePrompts, Successes
        <2>2. \A q \in LivePrompts(h) : q = p
            BY <1>3 DEF OneLive
        <2>3. QED
            BY <1>1, <2>1, <2>2
    <1>4. CASE IsMade(h)' /\ ~IsMade(h)
        <2>1. PICK p : p \in Successes(h)'
            BY <1>4 DEF IsMade
        <2>2. p \in LivePrompts(h)
            BY <1>2, <1>4, <2>1 DEF IsMade
        <2>3. LivePrompts(h)' = {} /\ LivePrompts(h) # {}
            BY <1>3, <2>1, <2>2
        <2>4. QED
            BY <1>4, <2>3 DEF IsLive
    <1>5. CASE IsMade(h) \/ ~IsMade(h)'
        <2>1. IsMade(h)' <=> IsMade(h)
            BY <1>1, <1>5 DEF IsMade
        <2>2. IsLive(h)' => IsLive(h)
            BY <1>1 DEF IsLive
        <2>3. QED
            BY <2>1, <2>2
    <1>6. QED
        BY <1>4, <1>5
(* One step of the code is one of the promise for this generation.         *)
LEMMA PromiseStep ==
    ASSUME IInv, OpenInv, LiveInv, NobodyRemoved, NothingCut, Next, NEW h \in Gens
    PROVE  Promise!Step(h)
    <1>1. RowMove(h) /\ RowInv(h) /\ NoPrompt \notin LivePrompts(h) /\ OneLive(h)
        BY EveryStep DEF StepMove, IInv, LivePrompts, Prompts, NoPrompt, LiveInv
    <1> USE DEF Promise!Step, Promise!Accept, Promise!Begin, Promise!Return, Promise!Succeed,
                Promise!EndOtherwise, Promise!Remove, Promise!Submit, Promise!Finish, Promise!Rest,
                Promise!Move, Promise!SameWork
    <1>2. CASE native' = native
        <2>1. LivePrompts(h)' = LivePrompts(h) /\ Successes(h)' = Successes(h)
            BY <1>2 DEF LivePrompts, Successes
        <2>2. QED
            BY <1>1, <2>1, PhaseMoves
    <1>3. CASE PhaseOf(h)' = PhaseOf(h) /\ CalmNative
        BY <1>1, <1>3, WorkMoves DEF IsLive, IsMade
    <1>4. ASSUME row' = row, CalmNative PROVE Promise!Step(h)
        BY <1>3, <1>4 DEF PhaseOf
    <1>5. ASSUME NEW g \in Gens, SendCancel(g), CalmNative PROVE Promise!Step(h)
        <2>1. row'[h].st = row[h].st
            <3>1. row \in [Gens -> Row] /\ row[g] \in Row
                BY DEF IInv, TypeOK
            <3>2. UnsentRow(row[g]).st = row[g].st
                BY <3>1, RowEffects, MarkEffects
            <3>3. QED
                BY <1>5, <3>1, <3>2 DEF SendCancel
        <2>2. QED
            BY <1>3, <1>5, <2>1 DEF PhaseOf
    <1>6. ASSUME NEW g \in Gens, SubmitAccepted(g) PROVE Promise!Step(h)
        <2>1. /\ LivePrompts(g) = {} /\ LivePrompts(g)' # {}
              /\ \A i \in Gens : Successes(i)' = Successes(i)
              /\ \A i \in Gens \ {g} : LivePrompts(i)' = LivePrompts(i)
            BY <1>6, LiveSubmitted
        <2>2. row' = row /\ row[g].st \in InFlight
            BY <1>6 DEF SubmitAccepted, At, OpenInv, Working, BeforeMark
        <2>3. PhaseOf(h)' = PhaseOf(h) /\ PhaseOf(g) = "working"
            BY <2>2 DEF PhaseOf, InFlight
        <2>4. QED
            BY <2>1, <2>3
    <1>7. QED
        BY <1>2, <1>4, <1>5, <1>6, NativeSteps DEF IInv

(* The queue, the executor, the monitor, cancellation, deletion, stop and  *)
(* recovery implement the promise: work is handed back only when nothing   *)
(* of it runs, success needs a result ComfyUI made, and an end is final.   *)
THEOREM PromiseImplemented == ASSUME NobodyRemoved, NothingCut PROVE Spec => KeepsPromise
    <1>1. Init => Promise!Init
        <2>1. SUFFICES ASSUME Init PROVE Promise!Init
            OBVIOUS
        <2>2. ASSUME NEW g \in Gens
              PROVE  PhaseOf(g) \in {"absent", "waiting"} /\ LivePrompts(g) = {} /\ Successes(g) = {}
            <3>1. row[g].st \in {"absent", "queued"}
                BY <2>1 DEF Init, AbsentRow, LegacyRow, AcceptedRow
            <3>2. \A p \in Prompts : native[p].st = "unused"
                BY <2>1 DEF Init, Unused
            <3>3. PhaseOf(g) \in {"absent", "waiting"}
                BY <3>1 DEF PhaseOf, InFlight
            <3>4. LivePrompts(g) = {} /\ Successes(g) = {}
                BY <3>2 DEF LivePrompts, Successes
            <3>5. QED
                BY <3>3, <3>4
        <2>3. QED
            BY <2>2 DEF Promise!Init
    <1>2. IInv /\ OpenInv /\ LiveInv /\ [Next]_vars
            => [Promise!Next]_<<[g \in Gens |-> PhaseOf(g)], [g \in Gens |-> LivePrompts(g) # {}],
                                [g \in Gens |-> Successes(g) # {}]>>
        <2>1. CASE Next /\ IInv /\ OpenInv /\ LiveInv
            BY <2>1, PromiseStep DEF Promise!Next
        <2>2. CASE UNCHANGED vars
            BY <2>2 DEF vars, PhaseOf, LivePrompts, Successes
        <2>3. QED
            BY <2>1, <2>2
    <1>3. QED
        BY <1>1, <1>2, Invariance, OpenInvariance, LiveInvariance, FinalStatuses, PTL
           DEF Spec, KeepsPromise, Promise!Spec
-----------------------------------------------------------------------------
(* How often a job is executed: once, and once more after its retry.       *)

Made(g) == LivePrompts(g) \cup Successes(g)
Held(g) == {row[g].prompt} \cup Submitted(g)
OneAttempt(g) ==
    /\ row[g].st = "absent" => Made(g) = {}
    /\ row[g].st \notin NoRow /\ ~row[g].retried => Made(g) \subseteq Held(g)
    /\ row[g].st # "deleted" => \A p, q \in Made(g) \ Held(g) : p = q
    /\ row[g].st = "deleted" => \A p, q, r \in Made(g) : p = q \/ q = r \/ p = r
AttemptInv == \A g \in Gens : OneAttempt(g)

(* The row and the executor hold one prompt between them.                  *)
LEMMA HeldOnce ==
    ASSUME IInv, OpenInv, NEW g \in Gens
    PROVE  /\ Submitted(g) # {} => row[g].st \in InFlight /\ row[g].prompt = NoPrompt
           /\ \A p, q \in Held(g) \cap Prompts : p = q
    <1>1. task[g].pc \in {"accepted", "marking"} => row[g].st \in InFlight /\ row[g].prompt = NoPrompt
        BY DEF IInv, OpenInv, TaskInv, Records, Working, BeforeMark
    <1>2. QED
        BY <1>1 DEF Held, Submitted, Prompts, NoPrompt

LEMMA AtMostTwo ==
    ASSUME IInv, OpenInv, NEW g \in Gens, OneAttempt(g)
    PROVE  \A p, q, r \in Made(g) : p = q \/ q = r \/ p = r
    <1>1. Made(g) \subseteq Prompts
        BY DEF Made, LivePrompts, Successes
    <1>2. CASE row[g].st = "deleted"
        BY <1>2 DEF OneAttempt
    <1>3. CASE row[g].st # "deleted"
        <2>1. \A p, q \in Made(g) \ Held(g) : p = q
            BY <1>3 DEF OneAttempt
        <2>2. \A p, q \in Made(g) \cap Held(g) : p = q
            BY <1>1, HeldOnce
        <2>3. QED
            BY <2>1, <2>2
    <1>4. QED
        BY <1>2, <1>3

LEMMA AttemptKept ==
    ASSUME IInv, OpenInv, NEW h \in Gens, OneAttempt(h), StepMove(h), ~Crash, CalmNative
    PROVE  OneAttempt(h)'
    <1>1. Made(h)' \subseteq Made(h) /\ Made(h) \subseteq Prompts
        BY DEF Made, LivePrompts, Successes, CalmNative
    <1>2. /\ RowInv(h) /\ NoPrompt \notin Prompts
          /\ Submitted(h) \subseteq Submitted(h)' \cup {row'[h].prompt}
        BY DEF IInv, StepMove, Prompts, NoPrompt
    <1>3. ASSUME row[h].st \notin NoRow, row'[h].st \notin NoRow, row'[h].retried = row[h].retried,
                 Made(h) \cap Held(h) \subseteq Held(h)'
          PROVE  OneAttempt(h)'
        BY <1>1, <1>3 DEF OneAttempt, NoRow
    <1>4. CASE SameRow(h)
        <2>1. Held(h) \subseteq Held(h)'
            BY <1>2, <1>4 DEF Held, SameRow, SameAttempt
        <2>2. QED
            BY <1>1, <1>4, <2>1 DEF OneAttempt, SameRow, SameAttempt
    <1>5. CASE row[h].st = "absent" /\ row'[h].st = "queued"
        <2>1. Made(h)' = {}
            BY <1>1, <1>5 DEF OneAttempt
        <2>2. QED
            BY <1>5, <2>1 DEF OneAttempt
    <1>6. CASE row'[h].st = "deleted"
        <2>1. \A p, q, r \in Made(h)' : p = q \/ q = r \/ p = r
            BY <1>1, AtMostTwo
        <2>2. QED
            BY <1>6, <2>1 DEF OneAttempt, NoRow
    <1>7. CASE /\ row[h].st \in {"queued"} \cup InFlight
               /\ row'[h].st \in {"dispatching"} \cup InFlight \cup Terminal
               /\ SameAttempt(h)
        <2>1. Held(h) \subseteq Held(h)'
            BY <1>2, <1>7 DEF Held, SameAttempt
        <2>2. row[h].st \notin NoRow /\ row'[h].st \notin NoRow
            BY <1>7 DEF InFlight, Terminal, NoRow
        <2>3. QED
            BY <1>3, <1>7, <2>1, <2>2 DEF SameAttempt
    <1>8. CASE /\ row[h].st \in InFlight /\ row'[h].st \in InFlight
               /\ row[h].prompt = NoPrompt /\ Submitted(h) = {row'[h].prompt}
               /\ row'[h].retried = row[h].retried
        <2>1. Made(h) \cap Held(h) \subseteq Held(h)'
            BY <1>1, <1>2, <1>8 DEF Held
        <2>2. row[h].st \notin NoRow /\ row'[h].st \notin NoRow
            BY <1>8 DEF InFlight, NoRow
        <2>3. QED
            BY <1>3, <1>8, <2>1, <2>2
    <1>9. CASE row[h].st \in InFlight /\ row'[h].st = "queued" /\ row'[h].prompt = NoPrompt /\ Freed(h)
        <2>1. row[h].st \notin NoRow /\ row'[h].st \notin NoRow
            BY <1>9 DEF InFlight, NoRow
        <2>2. CASE Submitted(h) = {} /\ row[h].prompt = NoPrompt /\ row'[h].retried = row[h].retried
            <3>1. Made(h) \cap Held(h) \subseteq Held(h)'
                BY <1>1, <1>2, <2>2 DEF Held
            <3>2. QED
                BY <1>3, <2>1, <2>2, <3>1
        <2>3. CASE Done(h) /\ ~row[h].retried /\ row'[h].retried
            <3>1. Made(h)' \subseteq {row[h].prompt}
                BY <1>1, <2>1, <2>3 DEF OneAttempt, Held, Done
            <3>2. QED
                BY <1>9, <2>3, <3>1 DEF OneAttempt
        <2>4. QED
            BY <1>9, <2>2, <2>3 DEF Freed
    <1>10. "succeeded" \in Terminal /\ Terminal \ {"succeeded"} \subseteq Terminal
        BY DEF Terminal
    <1>11. QED
        BY <1>4, <1>5, <1>6, <1>7, <1>8, <1>9, <1>10 DEF StepMove, RowMove

LEMMA AttemptSubmitted ==
    ASSUME IInv, OpenInv, LiveInv, AttemptInv, NEW g \in Gens, SubmitAccepted(g)
    PROVE  AttemptInv'
    <1>0. TypeOK /\ task \in [Gens -> Task] /\ native \in [Prompts -> Native]
          /\ task[g].pc = "submitting" /\ row' = row /\ TaskInv(g)
        BY DEF IInv, TypeOK, SubmitAccepted, At
    <1>1. PICK p \in Prompts :
              /\ NextPrompt(p) /\ AcceptNative(g, p)
              /\ task' = [task EXCEPT ![g] = [@ EXCEPT !.pc = "accepted", !.prompt = p]]
        BY DEF SubmitAccepted
    <1>2. /\ native[p].st = "unused"
          /\ native'[p].st = "live" /\ native'[p].gen = g
          /\ \A q \in Prompts \ {p} : native'[q] = native[q]
        BY <1>0, <1>1 DEF NextPrompt, AcceptNative
    <1>3. /\ task'[g].pc = "accepted" /\ task'[g].prompt = p
          /\ \A h \in Gens \ {g} : task'[h] = task[h]
        BY <1>0, <1>1 DEF Task
    <1>4. OneAttempt(g)'
        <2>1. Made(g)' = Made(g) \cup {p}
            BY <1>2 DEF Made, LivePrompts, Successes
        <2>2. row[g].st \in InFlight /\ Held(g) = {NoPrompt} /\ Held(g)' = {NoPrompt, p}
            BY <1>0, <1>3 DEF OpenInv, Working, BeforeMark, TaskInv, Records, Held, Submitted
        <2>3. OneAttempt(g)
            BY DEF AttemptInv
        <2>4. QED
            BY <1>0, <2>1, <2>2, <2>3 DEF OneAttempt, InFlight
    <1>5. ASSUME NEW h \in Gens \ {g} PROVE OneAttempt(h)'
        <2>1. Made(h)' = Made(h) /\ Held(h)' = Held(h)
            BY <1>0, <1>2, <1>3 DEF Made, LivePrompts, Successes, Held, Submitted
        <2>2. OneAttempt(h)
            BY DEF AttemptInv
        <2>3. QED
            BY <1>0, <2>1, <2>2 DEF OneAttempt
    <1>6. QED
        BY <1>4, <1>5 DEF AttemptInv

LEMMA AttemptNext ==
    ASSUME IInv, OpenInv, LiveInv, AttemptInv, NobodyRemoved, NothingCut, [Next]_vars
    PROVE  AttemptInv'
    <1>1. CASE UNCHANGED vars
        BY <1>1 DEF vars, AttemptInv, OneAttempt, Made, Held, LivePrompts, Successes, Submitted
    <1>2. CASE Next
        <2>1. CASE \E g \in Gens : SubmitAccepted(g)
            BY <2>1, AttemptSubmitted
        <2>2. CASE CalmNative \/ native' = native
            <3>1. CalmNative
                BY <2>2 DEF CalmNative
            <3>2. ~Crash
                BY DEF Crash, Fault, NothingCut
            <3>3. QED
                BY <1>2, <3>1, <3>2, EveryStep, AttemptKept DEF AttemptInv
        <2>3. QED
            BY <1>2, <2>1, <2>2, NativeSteps DEF IInv
    <1>3. QED
        BY <1>1, <1>2

LEMMA AttemptInit == Init => AttemptInv
    <1> SUFFICES ASSUME Init, NEW g \in Gens PROVE OneAttempt(g)
        BY DEF AttemptInv
    <1>1. \A p \in Prompts : native[p].st = "unused"
        BY DEF Init, Unused
    <1>2. Made(g) = {}
        BY <1>1 DEF Made, LivePrompts, Successes
    <1>3. QED
        BY <1>2 DEF OneAttempt

(* A set of prompts of which no two, or no three, are different.           *)
LEMMA SmallSets ==
    ASSUME NEW S
    PROVE  /\ (\A p, q \in S : p = q) => Cardinality(S) <= 1
           /\ (\A p, q, r \in S : p = q \/ q = r \/ p = r) => Cardinality(S) <= 2
    <1>1. ASSUME \A p, q \in S : p = q PROVE Cardinality(S) \in {0, 1} /\ IsFiniteSet(S)
        <2>1. CASE S = {}
            BY <2>1, FS_EmptySet
        <2>2. ASSUME NEW p \in S PROVE Cardinality(S) = 1 /\ IsFiniteSet(S)
            <3>1. S = {p}
                BY <1>1, <2>2
            <3>2. Cardinality({p}) = 1 /\ IsFiniteSet({p})
                BY FS_Singleton
            <3>3. QED
                BY <3>1, <3>2
        <2>3. QED
            BY <2>1, <2>2
    <1>2. ASSUME \A p, q, r \in S : p = q \/ q = r \/ p = r PROVE Cardinality(S) <= 2
        <2>1. CASE \A p, q \in S : p = q
            BY <1>1, <2>1
        <2>2. ASSUME NEW p \in S, NEW q \in S, p # q PROVE Cardinality(S) = 2
            <3>1. S = {p} \cup {q}
                BY <1>2, <2>2
            <3>2. IsFiniteSet({p}) /\ Cardinality({p}) = 1
                BY FS_Singleton
            <3>3. Cardinality({p} \cup {q}) = 2
                BY <2>2, <3>2, FS_AddElement
            <3>4. QED
                BY <3>1, <3>3
        <2>3. QED
            BY <2>1, <2>2
    <1>3. QED
        BY <1>1, <1>2

THEOREM AttemptInvariance == ASSUME NobodyRemoved, NothingCut PROVE Spec => []AttemptInv
    <1>1. IInv /\ OpenInv /\ LiveInv /\ AttemptInv /\ [Next]_vars => AttemptInv'
        BY AttemptNext
    <1>2. QED
        BY <1>1, AttemptInit, Invariance, OpenInvariance, LiveInvariance, PTL DEF Spec

(* ComfyUI never works on two prompts of one generation at once, and       *)
(* executes a job once, or twice if its outputs were lost, through every   *)
(* requeue, cancellation, stop and recovery: what makes a second execution *)
(* is only a submission whose answer is lost or whose executor dies.       *)
THEOREM OneRun == ASSUME NobodyRemoved, NothingCut PROVE Spec => []RunsOnce
    <1>1. ASSUME IInv, OpenInv, NEW g \in Gens, OneLive(g), OneAttempt(g)
          PROVE  /\ Cardinality(LivePrompts(g)) <= 1
                 /\ Cardinality(Successes(g)) <= IF row[g].retried \/ row[g].st \in NoRow THEN 2 ELSE 1
        <2>1. Cardinality(LivePrompts(g)) <= 1
            BY <1>1, SmallSets DEF OneLive
        <2>2. Successes(g) \subseteq Made(g) /\ Made(g) \subseteq Prompts
            BY DEF Made, LivePrompts, Successes
        <2>3. Cardinality(Successes(g)) <= 2
            <3>1. \A p, q, r \in Successes(g) : p = q \/ q = r \/ p = r
                BY <1>1, <2>2, AtMostTwo
            <3>2. QED
                BY <3>1, SmallSets
        <2>4. ASSUME ~(row[g].retried \/ row[g].st \in NoRow) PROVE Cardinality(Successes(g)) <= 1
            <3>1. Made(g) \subseteq Held(g)
                BY <1>1, <2>4 DEF OneAttempt
            <3>2. \A p, q \in Successes(g) : p = q
                BY <1>1, <2>2, <3>1, HeldOnce
            <3>3. QED
                BY <3>2, SmallSets
        <2>5. QED
            BY <2>1, <2>3, <2>4
    <1>2. IInv /\ OpenInv /\ LiveInv /\ AttemptInv => RunsOnce
        BY <1>1 DEF LiveInv, AttemptInv, RunsOnce, OneNativeRun, ReexecutedAtMostOnce
    <1>3. QED
        BY <1>2, Invariance, OpenInvariance, LiveInvariance, AttemptInvariance, PTL
=============================================================================
