------------------------------ MODULE TextRuns ------------------------------
(***************************************************************************)
(* Prompt runs on a ComfyUI instance (prompt_generation.py: execute,       *)
(* recover, fail_preparation's discard; queue_worker.py dispatches them).  *)
(* An executor's stage names its next step; a step ends at an await of an  *)
(* external call or at a commit.  The row is written without looking at    *)
(* what is there (_text_state).                                            *)
(***************************************************************************)
EXTENDS Integers, FiniteSets

CONSTANTS
    Texts,      \* prompt runs, all of one instance
    Doomed,     \* those whose account may be deleted
    Slots,      \* concurrency of the instance
    MaxTrouble  \* bound on faults: stops, crashes, lost answers, lost prompts

ASSUME TextRunsAssumption == Slots \in Nat /\ MaxTrouble \in Nat

VARIABLES
    status,    \* PromptGenerationRun.status
    saved,     \* runs whose comfyui_prompt_id is recorded
    executor,  \* stage of the registered executor, "none" if there is none
    native,    \* the run's prompt in ComfyUI
    sent,      \* how often ComfyUI accepted it
    process,   \* of the program: recovery comes before the dispatcher is "up"
    runtime,   \* whether this process still has the instance
    listed,    \* what recovery is going to do with each run it listed
    trouble

textVars == <<status, saved, executor, native, sent, process, runtime, listed, trouble>>
recoveryVars == <<process, runtime, listed>>

TextActive == {"queued", "dispatching", "submitting", "running"}
TextFinal  == {"succeeded", "failed", "discarded"}
Stages == {"none", "load", "mark", "submit", "save", "poll", "succeed", "fail", "requeue", "end"}
Goes(t, stage) == executor' = [executor EXCEPT ![t] = stage]
Sets(t, s) == status' = [status EXCEPT ![t] = s]
Troubles == trouble < MaxTrouble /\ trouble' = trouble + 1

TextRunsInit ==
    /\ status = [t \in Texts |-> "queued"] /\ saved = {}
    /\ executor = [t \in Texts |-> "none"] /\ native = [t \in Texts |-> "none"]
    /\ sent = [t \in Texts |-> 0] /\ process = "up" /\ runtime = TRUE
    /\ listed = [t \in Texts |-> "no"] /\ trouble = 0

-----------------------------------------------------------------------------
(* _claim_next and _start_generation_task: a run whose old executor still  *)
(* lives gets none.                                                        *)
Claim(t) ==
    /\ process = "up" /\ status[t] = "queued"
    /\ Cardinality({u \in Texts : executor[u] # "none"}) < Slots
    /\ Sets(t, "dispatching")
    /\ IF executor[t] = "none" THEN Goes(t, "load") ELSE UNCHANGED executor
    /\ UNCHANGED <<saved, native, sent, recoveryVars, trouble>>

Load(t) ==
    /\ executor[t] = "load"
    /\ Goes(t, IF status[t] \notin TextActive THEN "none" ELSE IF t \in saved THEN "poll" ELSE "mark")
    /\ UNCHANGED <<status, saved, native, sent, recoveryVars, trouble>>

Mark(t) ==
    /\ executor[t] = "mark"
    /\ Sets(t, "submitting") /\ Goes(t, "submit")
    /\ UNCHANGED <<saved, native, sent, recoveryVars, trouble>>

Reaches(t) == native' = [native EXCEPT ![t] = "running"] /\ sent' = [sent EXCEPT ![t] = @ + 1]

(* submit_prompt: accepted; accepted and the answer lost, or rejected; or  *)
(* never connected.                                                        *)
Submit(t) ==
    /\ executor[t] = "submit"
    /\ \/ Reaches(t) /\ Goes(t, "save") /\ UNCHANGED trouble
       \/ Reaches(t) /\ Goes(t, "fail") /\ Troubles
       \/ UNCHANGED <<native, sent>> /\ Goes(t, "fail") /\ Troubles
       \/ UNCHANGED <<native, sent>> /\ Goes(t, "requeue") /\ Troubles
    /\ UNCHANGED <<status, saved, recoveryVars>>

Save(t) == \* part of the shielded submission: a stop waits for it
    /\ executor[t] = "save"
    /\ Sets(t, "running") /\ saved' = saved \cup {t}
    /\ Goes(t, IF process = "stopping" THEN "none" ELSE "poll")
    /\ UNCHANGED <<native, sent, recoveryVars, trouble>>

Poll(t) ==
    /\ executor[t] = "poll"
    /\ \/ status[t] \notin TextActive /\ Goes(t, "end")
       \/ /\ status[t] \in TextActive
          /\ \/ native[t] = "done" /\ Goes(t, "succeed")
             \/ native[t] \in {"done", "broken", "lost"} /\ Goes(t, "fail")
    /\ UNCHANGED <<status, saved, native, sent, recoveryVars, trouble>>

Conclude(t) ==
    /\ executor[t] \in {"succeed", "fail", "requeue"}
    /\ Sets(t, CASE executor[t] = "succeed" -> "succeeded"
                 [] executor[t] = "fail"    -> "failed"
                 [] executor[t] = "requeue" -> "queued")
    /\ Goes(t, "end")
    /\ UNCHANGED <<saved, native, sent, recoveryVars, trouble>>

End(t) == \* the listeners were told; the worker forgets the task
    /\ executor[t] = "end" /\ Goes(t, "none")
    /\ UNCHANGED <<status, saved, native, sent, recoveryVars, trouble>>

Execute(t) == Load(t) \/ Mark(t) \/ Submit(t) \/ Save(t) \/ Poll(t) \/ Conclude(t) \/ End(t)

-----------------------------------------------------------------------------
(* The rest of the system.                                                 *)

NativeEnds(t) == \* ComfyUI finishes a prompt, well or not
    /\ native[t] = "running"
    /\ \/ native' = [native EXCEPT ![t] = "done"] /\ UNCHANGED trouble
       \/ \E e \in {"broken", "lost"} : native' = [native EXCEPT ![t] = e] /\ Troubles
    /\ UNCHANGED <<status, saved, executor, sent, recoveryVars>>

Discard(t) == \* fail_preparation, the preparation that wanted the text is gone
    /\ process # "down" /\ status[t] = "queued" /\ Sets(t, "discarded")
    /\ UNCHANGED <<saved, executor, native, sent, recoveryVars, trouble>>

Abandon(t) == \* delete_user: waiting runs are discarded, prompts cancelled
    /\ process # "down" /\ t \in Doomed
    /\ \/ status[t] \in {"queued", "dispatching"} /\ Sets(t, "discarded") /\ UNCHANGED native
       \/ /\ status[t] \in {"running", "submitting"} /\ t \in saved /\ native[t] = "running"
          /\ native' = [native EXCEPT ![t] = "lost"] /\ UNCHANGED status
    /\ UNCHANGED <<saved, executor, sent, recoveryVars, trouble>>

Nothing == [t \in Texts |-> "no"]
Cancels(t) == IF executor[t] \in {"submit", "save"} THEN executor[t] ELSE "none"

Stop == \* tasks are cancelled; an executor that submits waits for its answer
    /\ process \notin {"stopping", "down"} /\ Troubles
    /\ process' = "stopping" /\ listed' = Nothing
    /\ executor' = [t \in Texts |-> Cancels(t)]
    /\ UNCHANGED <<status, saved, native, sent, runtime>>

Crash == \* also the end of a stop
    /\ process # "down" /\ process' = "down" /\ listed' = Nothing
    /\ IF process = "stopping" THEN UNCHANGED trouble ELSE Troubles
    /\ executor' = [t \in Texts |-> "none"]
    /\ UNCHANGED <<status, saved, native, sent, runtime>>

-----------------------------------------------------------------------------
(* recover, before the dispatcher starts, while the routes and the         *)
(* preparations already run.  It reads the active runs once and deals with *)
(* each as it was read, in a transaction of its own.  If it fails, the     *)
(* supervisor has it done again.                                           *)
Begin(configured) ==
    /\ process = "down" /\ process' = "starting" /\ runtime' = configured
    /\ UNCHANGED <<status, saved, executor, native, sent, listed, trouble>>

Mut_Verdict(t) == \* a run that was submitting is dispatched again
    CASE status[t] \notin TextActive -> "no"
      [] status[t] \in TextActive /\ ~runtime -> "fail"
      [] status[t] \in {"dispatching", "submitting"} /\ runtime -> "queue"
      [] OTHER -> IF t \in saved THEN "watch" ELSE "no"

Verdict(t) ==
    CASE status[t] \notin TextActive -> "no"
      [] status[t] \in TextActive /\ ~runtime -> "fail"
      [] status[t] = "dispatching" /\ runtime -> "queue"
      [] status[t] = "submitting" /\ t \notin saved /\ runtime -> "fail"
      [] OTHER -> IF t \in saved THEN "watch" ELSE "no"

List ==
    /\ process = "starting" /\ process' = "recovering"
    /\ listed' = [t \in Texts |-> Verdict(t)]
    /\ UNCHANGED <<status, saved, executor, native, sent, runtime, trouble>>

Mut_Recover(t) == \* a prompt that ComfyUI still has is not watched
    /\ process = "recovering" /\ listed[t] # "no"
    /\ listed' = [listed EXCEPT ![t] = "no"] /\ UNCHANGED executor
    /\ CASE listed[t] = "fail"  -> Sets(t, "failed")
         [] listed[t] = "queue" -> Sets(t, "queued")
         [] listed[t] = "watch" -> UNCHANGED status
    /\ UNCHANGED <<saved, native, sent, process, runtime, trouble>>

Recover(t) ==
    /\ process = "recovering" /\ listed[t] # "no"
    /\ listed' = [listed EXCEPT ![t] = "no"]
    /\ CASE listed[t] = "fail"  -> Sets(t, "failed") /\ UNCHANGED executor
         [] listed[t] = "queue" -> Sets(t, "queued") /\ UNCHANGED executor
         [] listed[t] = "watch" -> /\ UNCHANGED status
                                   /\ IF executor[t] = "none" THEN Goes(t, "load") ELSE UNCHANGED executor
    /\ UNCHANGED <<saved, native, sent, process, runtime, trouble>>

Ready ==
    /\ process = "recovering" /\ listed = Nothing /\ process' = "up"
    /\ UNCHANGED <<status, saved, executor, native, sent, runtime, listed, trouble>>

RecoverAgain ==
    /\ process = "recovering" /\ Troubles /\ process' = "starting" /\ listed' = Nothing
    /\ UNCHANGED <<status, saved, executor, native, sent, runtime>>

Recovery == (\E configured \in BOOLEAN : Begin(configured)) \/ List \/ (\E t \in Texts : Recover(t)) \/ Ready

TextRunsNext ==
    \/ \E t \in Texts : Claim(t) \/ Execute(t) \/ NativeEnds(t) \/ Discard(t) \/ Abandon(t)
    \/ Stop \/ Crash \/ Recovery \/ RecoverAgain

Executors == \E t \in Texts : Execute(t)
Natives == \E t \in Texts : NativeEnds(t)
Claims == \E t \in Texts : Claim(t)
Restarts == Recovery \/ (process = "stopping" /\ Crash)

(* Executors run, a prompt in ComfyUI ends, the dispatcher claims work for *)
(* a slot that is free again and again, a process that ended is started    *)
(* and recovers.                                                           *)
(* (Each of them has finitely much to do: no run needs fairness of its own.)*)
TextRunsSpec ==
    /\ TextRunsInit /\ [][TextRunsNext]_textVars
    /\ WF_textVars(Restarts) /\ WF_textVars(Executors) /\ WF_textVars(Natives) /\ SF_textVars(Claims)

-----------------------------------------------------------------------------
TextRunsTypeOK ==
    /\ status \in [Texts -> TextActive \cup TextFinal] /\ saved \subseteq Texts
    /\ executor \in [Texts -> Stages] /\ sent \in [Texts -> Nat]
    /\ native \in [Texts -> {"none", "running", "done", "broken", "lost"}]
    /\ process \in {"starting", "recovering", "up", "stopping", "down"} /\ runtime \in BOOLEAN
    /\ listed \in [Texts -> {"no", "fail", "queue", "watch"}] /\ trouble \in 0 .. MaxTrouble

(* What the row came to, told from the outside.                            *)
Kept == Texts \ Doomed
Outcome == [t \in Kept |-> IF status[t] \in TextFinal \cup {"queued"} THEN status[t] ELSE "active"]
Promise == INSTANCE TextPromise WITH Texts <- Kept, outcome <- Outcome,
                                     given <- {t \in Kept : sent[t] > 0}

(* Prompt runs keep the promise the preparations rely on: one submission   *)
(* at most, back to the queue only before it, and success and failure      *)
(* stay, through lost answers, stops, crashes and recovery.  A discarded   *)
(* run is never taken up again, but a recovery that listed it before may   *)
(* still write that it failed.  (Not those of an account that is being     *)
(* deleted: its executor and recovery may write over "discarded".)         *)
KeepsTextPromise == Promise!TextPromiseSpec

(* Every prompt run is settled, if the instance runs one at a time.        *)
TextSettles == <>(\A t \in Texts : status[t] \in TextFinal)
=============================================================================
