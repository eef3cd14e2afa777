------------------------- MODULE GenerationPromise -------------------------
(***************************************************************************)
(* What the service promises about an accepted generation, without the     *)
(* queue, the executor, restarts or recovery: it waits, is worked on, goes *)
(* back to waiting only when nothing of it is running any more, ends once, *)
(* ends successfully only if ComfyUI made its result, and then stays as it *)
(* is until it is removed.                                                 *)
(***************************************************************************)
CONSTANT Gens

VARIABLES
    phase,   \* what the user sees of each generation
    live,    \* ComfyUI is working on it
    made     \* ComfyUI has made its result at least once

Phases == {"absent", "waiting", "working", "succeeded", "ended", "gone"}

TypeOK == /\ phase \in [Gens -> Phases]
          /\ live \in [Gens -> BOOLEAN]
          /\ made \in [Gens -> BOOLEAN]

Init == /\ phase \in [Gens -> {"absent", "waiting"}]
        /\ live = [g \in Gens |-> FALSE]
        /\ made = [g \in Gens |-> FALSE]

Move(g, from, to) == phase[g] \in from /\ phase'[g] = to
SameWork(g) == live'[g] = live[g] /\ made'[g] = made[g]

Accept(g) == Move(g, {"absent"}, "waiting") /\ SameWork(g)
Begin(g)  == Move(g, {"waiting"}, "working") /\ SameWork(g)
Return(g) == Move(g, {"working"}, "waiting") /\ ~live[g] /\ SameWork(g)
Succeed(g) == Move(g, {"working"}, "succeeded") /\ made[g] /\ ~live[g] /\ SameWork(g)
EndOtherwise(g) == Move(g, {"waiting", "working"}, "ended") /\ SameWork(g)
Remove(g) == Move(g, {"waiting", "succeeded", "ended"}, "gone") /\ SameWork(g)

Submit(g) == /\ Move(g, {"working"}, "working")
             /\ ~live[g] /\ live'[g] /\ made'[g] = made[g]
Finish(g) == /\ phase'[g] = phase[g]
             /\ live[g] /\ ~live'[g] /\ (made[g] => made'[g])
Rest(g)   == phase'[g] = phase[g] /\ SameWork(g)

Step(g) == \/ Accept(g) \/ Begin(g) \/ Return(g) \/ Succeed(g) \/ EndOtherwise(g)
           \/ Remove(g) \/ Submit(g) \/ Finish(g) \/ Rest(g)

(* One transaction may move several generations (startup recovery).        *)
Next == \A g \in Gens : Step(g)

Spec == Init /\ [][Next]_<<phase, live, made>>
=============================================================================
