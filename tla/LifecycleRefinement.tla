------------------------ MODULE LifecycleRefinement ------------------------
(***************************************************************************)
(* GenerationLifecycle implements GenerationPromise, as long as neither a  *)
(* crash nor a stop cuts a submission off and no account is removed.       *)
(***************************************************************************)
EXTENDS GenerationLifecycle

PhaseOf(g) == CASE row[g].st = "absent"     -> "absent"
                [] row[g].st = "queued"     -> "waiting"
                [] row[g].st \in InFlight   -> "working"
                [] row[g].st = "succeeded"  -> "succeeded"
                [] row[g].st = "deleted"    -> "gone"
                [] OTHER                    -> "ended"

Promise == INSTANCE GenerationPromise WITH
             phase <- [g \in Gens |-> PhaseOf(g)],
             live  <- [g \in Gens |-> LivePrompts(g) # {}],
             made  <- [g \in Gens |-> Successes(g) # {}]

(* Every behaviour of the queue, the executor, the monitor, cancellation,  *)
(* a graceful stop and the recovery after it keeps the promise: work is    *)
(* returned only when nothing runs, success needs a result, and however a  *)
(* generation ends, it stays so until it is removed.                       *)
KeepsPromise == Promise!Spec /\ TerminalIsFinal
=============================================================================
