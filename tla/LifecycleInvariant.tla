------------------------- MODULE LifecycleInvariant -------------------------
(***************************************************************************)
(* The inductive invariant behind MonitorOwnsPrompt and SuccessIsEarned:   *)
(* who may own a row at each stage of its executor, of the dispatcher's    *)
(* claim and of startup recovery.                                          *)
(***************************************************************************)
EXTENDS GenerationLifecycle

(* Stages in which the executor no longer decides anything about the row:  *)
(* the row may be back in the queue and claimed again.                     *)
Quiet == {"none", "resetting", "ending"}

(* Stages before and after the prompt id is written to the row.            *)
BeforeMark == {"loading", "saving", "submitting", "accepted", "marking",
               "requeueRead", "requeueWrite", "failRead", "failWrite"}
AfterMark  == {"cancelling", "monitoring", "sending", "finalizing", "persisted"}

(* ComfyUI knows p as a prompt of generation g accepted by instance i.     *)
Mine(g, p, i) == native[p].st # "unused" /\ native[p].gen = g /\ native[p].inst = i

(* If g is in flight then its row records prompt p and instance i.         *)
Records(g, p, i) == row[g].st \in InFlight => row[g].prompt = p /\ row[g].inst = i

Owned(g) == row[g].st \in InFlight \cup {"deleted"}

RowInv(g) ==
    /\ row[g].st \in {"queued"} \cup NoRow => row[g].prompt = NoPrompt
    /\ row[g].prompt # NoPrompt => Mine(g, row[g].prompt, row[g].inst)
    /\ row[g].st = "succeeded" => /\ row[g].prompt # NoPrompt
                                  /\ native[row[g].prompt].st = "succeeded"

(* A finalization knows its outcome; the type invariant rests on it.       *)
OutcomeKnown(g) == task[g].pc \in {"finalizing", "persisted"} => task[g].out # "none"

TaskInv(g) ==
    /\ OutcomeKnown(g)
    /\ task[g].pc \in BeforeMark \cup AfterMark => Owned(g)
    /\ task[g].pc = "deleting" => row[g].st \in Terminal \cup {"deleted"}
    /\ task[g].pc \in BeforeMark => Records(g, NoPrompt, task[g].inst)
    /\ task[g].pc \in AfterMark => Records(g, task[g].prompt, task[g].inst)
    /\ task[g].pc \in {"loading", "saving", "submitting", "requeueRead", "requeueWrite"}
         => task[g].prompt = NoPrompt
    /\ task[g].pc \in {"accepted", "marking", "cancelling", "monitoring", "sending"}
         => task[g].prompt # NoPrompt
    /\ task[g].prompt # NoPrompt => Mine(g, task[g].prompt, task[g].inst)
    /\ task[g].out = "success" => /\ task[g].prompt # NoPrompt
                                  /\ native[task[g].prompt].st = "succeeded"

DispInv ==
    disp.pc # "none" =>
        /\ disp.gen \in Gens
        /\ task[disp.gen].pc \in Quiet
        /\ Owned(disp.gen)
        /\ Records(disp.gen, NoPrompt, disp.inst)
        /\ rec.pc = "idle"
        /\ mode \in {"running", "stopping"}

JobInv(j) ==
    /\ task[j.gen].pc = "none"
    /\ Owned(j.gen)
    /\ Records(j.gen, j.prompt, j.inst)
    /\ Mine(j.gen, j.prompt, j.inst)

RecInv ==
    /\ mode \in {"running", "down"} => rec.pc = "idle"
    /\ mode = "down" => disp.pc = "none"
    /\ mode = "down" \/ rec.pc \in {"read", "write"} => \A g \in Gens : task[g].pc = "none"
    /\ rec.pc = "write" =>
         /\ \A g \in rec.requeue \cup rec.cancelled : Owned(g) /\ row[g].prompt = NoPrompt
         /\ \A g \in rec.release \cup rec.unconfigured :
              row[g].st \in {"queued", "deleted"} \cup Terminal /\ row[g].prompt = NoPrompt
    /\ rec.pc \in {"write", "jobs"} =>
         /\ \A j \in rec.jobs : JobInv(j)
         /\ \A j, k \in rec.jobs : j.gen = k.gen => j = k

(* The inductive invariant.                                                *)
IInv == /\ TypeOK
        /\ \A g \in Gens : RowInv(g) /\ TaskInv(g)
        /\ DispInv
        /\ RecInv

(* A prompt ComfyUI works on is in its queue or its history, and what a    *)
(* finalization takes for interrupted is really out of reach.              *)
OutOfReach(p, i) == p # NoPrompt /\ (i \notin pool \/ ~native[p].known)
ReachInv ==
    /\ \A p \in Prompts : native[p].st = "live" => native[p].known
    /\ \A g \in Gens : task[g].pc \in {"finalizing", "persisted"} /\ task[g].out = "interrupted"
          => OutOfReach(task[g].prompt, task[g].inst)
=============================================================================
