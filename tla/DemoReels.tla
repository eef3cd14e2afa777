------------------------------ MODULE DemoReels -----------------------------
(***************************************************************************)
(* The demo reels (services/demo_reels.py, demo_reel_activity.py,          *)
(* api/demo_reels.py, and the preemption in queue_worker.py): images of    *)
(* every LoRA made one at a time while nobody uses the application, and    *)
(* given up as soon as somebody does.                                      *)
(*                                                                         *)
(* The database has an entry per image wanted and the generations of the   *)
(* system account; the process has the number of foreground requests and   *)
(* two flags.  Transactions exclude one another (lock_user_state);         *)
(* requests come and go meanwhile.                                         *)
(***************************************************************************)
EXTENDS Integers, Sequences, FiniteSets

CONSTANTS
    Order,       \* the images of the matrix, in the order they are made
    Signatures,  \* what an image may have to show
    Broken,      \* those of them that carry an error
    NoSignature, \* the image is not wanted
    Attempts,    \* before an image is given up: 3 in the code
    MaxRows,     \* bound: generations of the system account in the database
    Requests,    \* foreground requests
    Idle,        \* IDLE_SECONDS, in steps: one every pause of _run
    MaxEvents    \* bound: requests, changes, refusals and crashes

ASSUME ReelsAssumption == Attempts \in Nat \ {0} /\ MaxRows \in Nat /\ Idle \in Nat /\ MaxEvents \in Nat

VARIABLES
    gens,      \* the generations: status and pending_delete
    entries,   \* DemoReelEntry
    wanted,    \* what _matrix computes: the signature of each image
    paused,    \* paused, or the rating account is not active
    age,       \* steps since last_activity_at
    wasBusy, resetAsked,  \* _was_busy, _quiet_reset_requested
    requests,  \* foreground_requests, and how far each has come
    work,      \* a generation of another account
    turn,      \* the transaction of a step, and whether it took the flag; or down
    calm,      \* steps since a request was admitted or a step met somebody (history)
    used       \* of MaxEvents

rows == <<gens, entries>>
reelVars == <<rows, wanted, paused, age, wasBusy, resetAsked, requests, work, turn,
          calm, used>>

Images == {Order[i] : i \in DOMAIN Order}
ActiveStatuses   == {"queued", "running", "cancelling"}
TerminalStatuses == {"succeeded", "failed"}
NoRow == [status |-> "none", doomed |-> FALSE]
Generations == 1 .. MaxRows  \* an id is used again once its row is gone
NoGeneration == 0
Absent == [signature |-> NoSignature, state |-> "absent", generation |-> NoGeneration,
           failures |-> 0, waiting |-> FALSE]

Row(g) == IF g = NoGeneration THEN NoRow ELSE gens[g]
Active(G) == {g \in Generations : G[g].status \in ActiveStatuses}

Up   == turn # "down"
Free == turn \notin {"begun", "resetting"}
Foreground == work # "none" \/ \E r \in Requests : requests[r] # "none"
Handled == work # "none" \/ \E r \in Requests : requests[r] = "in"
Spend == used < MaxEvents /\ used' = used + 1

DemoReelsInit ==
    /\ gens = [g \in Generations |-> NoRow]
    /\ entries = [k \in Images |-> Absent]
    /\ wanted \in [Images -> Signatures \ Broken]
    /\ paused = FALSE /\ age = 0 /\ wasBusy = FALSE /\ resetAsked = FALSE
    /\ requests = [r \in Requests |-> "none"] /\ work = "none"
    /\ turn = "none" /\ calm = 0
    /\ used = 0

-----------------------------------------------------------------------------
(* Giving up an image                                                      *)

Revoked(row) == [status |-> IF row.status = "queued" THEN "failed" ELSE "cancelling",
                 doomed |-> TRUE]

(* record_activity: every unfinished attempt is discarded.                 *)
ActivityEntries(E, G) ==
    [k \in Images |->
        IF E[k].state = "running"
           /\ (E[k].generation = NoGeneration \/ E[k].generation \in Active(G))
        THEN [E[k] EXCEPT !.state = "discarded"] ELSE E[k]]
ActivityRows(G) ==
    [g \in Generations |-> IF g \in Active(G) THEN Revoked(G[g]) ELSE G[g]]

Mut_Given(row) == IF row.status \in ActiveStatuses THEN Revoked(row) ELSE row  \* nothing to stop

(* _discard, of one entry's generation: its row afterwards.                *)
Given(row) == IF row.status \in ActiveStatuses THEN Revoked(row) ELSE [row EXCEPT !.doomed = TRUE]

-----------------------------------------------------------------------------
(* reconcile: the entries against what is wanted                           *)

Mut_Obsolete(e, w) == e.signature # w  \* what was discarded stays so
Obsolete(e, w) == e.state = "discarded" \/ e.signature # w
Fresh(w) ==
    IF w = NoSignature THEN Absent
    ELSE [Absent EXCEPT !.signature = w, !.state = IF w \in Broken THEN "blocked" ELSE "missing"]

Over(e) == e.state = "running" /\ Row(e.generation).status \notin ActiveStatuses
Succeeded(row) == row.status = "succeeded" /\ ~row.doomed

Failed(e) ==
    [e EXCEPT !.failures = @ + 1, !.waiting = TRUE, !.generation = NoGeneration,
              !.state = IF e.failures + 1 >= Attempts THEN "failed" ELSE "missing"]

ReconciledEntry(e, w) ==
    IF e.state = "absent" THEN Fresh(w)
    ELSE IF Obsolete(e, w)
         THEN IF Row(e.generation).status \in ActiveStatuses
              THEN [e EXCEPT !.state = "discarded"] ELSE Fresh(w)
    ELSE IF Over(e)
         THEN IF Succeeded(Row(e.generation)) THEN [e EXCEPT !.state = "ready"] ELSE Failed(e)
    ELSE IF e.state = "missing" /\ w \in Broken THEN [e EXCEPT !.state = "blocked"]
    ELSE e

GivenUp(e, w) ==
    /\ e.generation # NoGeneration
    /\ Obsolete(e, w) \/ (Over(e) /\ ~Succeeded(Row(e.generation)))

ReconciledEntries(W) == [k \in Images |-> ReconciledEntry(entries[k], W[k])]
ReconciledRows(W) ==
    [g \in Generations |->
        IF \E k \in Images : entries[k].generation = g /\ GivenUp(entries[k], W[k])
        THEN Given(gens[g]) ELSE gens[g]]

-----------------------------------------------------------------------------
(* The loop: _run and step                                                 *)

(* The transaction begins and takes the flag.                              *)
StepBegins ==
    /\ Up /\ Free
    /\ turn' = IF resetAsked THEN "resetting" ELSE "begun"
    /\ resetAsked' = FALSE
    /\ UNCHANGED <<rows, wanted, paused, age, wasBusy, requests, work, calm, used>>

(* The transaction ends and the loop sleeps: time passes.                  *)
Later(t) == IF t < Idle THEN t + 1 ELSE t
Meets == calm' = IF Handled THEN 0 ELSE Later(calm)
StepEnds(E, G, t) ==
    /\ entries' = [k \in Images |-> [E[k] EXCEPT !.waiting = @ /\ ~entries[k].waiting]]
    /\ gens' = G
    /\ age' = Later(t)
    /\ turn' = "none"
    /\ UNCHANGED <<wanted, paused, resetAsked, requests, work>>

Age == IF turn = "resetting" THEN 0 ELSE age
E1  == ReconciledEntries(wanted)
G1  == ReconciledRows(wanted)

(* Somebody is there: _busy, or a request.                                 *)
StepGivesWay ==
    /\ ~Free /\ Foreground
    /\ wasBusy' = TRUE
    /\ StepEnds(ActivityEntries(E1, G1), ActivityRows(G1), 0) /\ Meets /\ UNCHANGED used

Quiet == ~paused /\ Age >= Idle /\ Active(G1) = {}
Due(k) == E1[k].state = "missing" /\ ~E1[k].waiting /\ wanted[k] \notin Broken
NextDue(i) == Due(Order[i]) /\ \A j \in 1 .. i - 1 : ~Due(Order[j])

StepWaits ==
    /\ ~Free /\ ~Foreground
    /\ Quiet => wasBusy \/ (\A k \in Images : ~Due(k)) \/ (\A g \in Generations : gens[g] # NoRow)
    /\ wasBusy' = FALSE
    /\ StepEnds(E1, G1, IF wasBusy THEN 0 ELSE Age) /\ Meets /\ UNCHANGED used

(* The first image that is due is submitted.                               *)
StepSubmits ==
    /\ ~Free /\ ~Foreground /\ ~wasBusy /\ Quiet
    /\ \E i \in DOMAIN Order, g \in Generations :
        /\ NextDue(i)
        /\ gens[g] = NoRow /\ \A h \in 1 .. g - 1 : gens[h] # NoRow
        /\ StepEnds([E1 EXCEPT ![Order[i]].state = "running", ![Order[i]].generation = g],
                    [G1 EXCEPT ![g].status = "queued"], Age)
    /\ Meets
    /\ UNCHANGED <<wasBusy, used>>

(* The submission is refused, or has to wait: no slot, or an error of 500. *)
StepRefused ==
    /\ ~Free /\ ~Foreground /\ ~wasBusy /\ Quiet
    /\ Spend
    /\ \E i \in DOMAIN Order :
        /\ NextDue(i)
        /\ \/ StepEnds([E1 EXCEPT ![Order[i]].state = "blocked"], G1, Age)
           \/ StepEnds(E1, G1, Age)
    /\ Meets
    /\ UNCHANGED wasBusy

(* The transaction is rolled back; the flags are not, and the step met     *)
(* nobody.                                                                 *)
StepFails ==
    /\ ~Free
    /\ wasBusy' \in {wasBusy, Foreground}
    /\ Spend
    /\ StepEnds(entries, gens, age) /\ calm' = Later(calm)

(* cleanup(), or the worker that ended it: delete_terminal.  The entry's   *)
(* reference becomes NULL.                                                 *)
Cleanup(g) ==
    /\ Up /\ Free
    /\ gens[g].doomed /\ gens[g].status \in TerminalStatuses
    /\ gens' = [gens EXCEPT ![g] = NoRow]
    /\ entries' = [k \in Images |->
                    IF entries[k].generation = g
                    THEN [entries[k] EXCEPT !.generation = NoGeneration] ELSE entries[k]]
    /\ UNCHANGED <<wanted, paused, age, wasBusy, resetAsked, requests, work, turn, calm, used>>

Step == StepBegins \/ StepGivesWay \/ StepWaits \/ StepSubmits \/ StepRefused

-----------------------------------------------------------------------------
(* The worker (queue_worker.py), and the clock                             *)

(* _claim_next: other work revokes the background's before anything is     *)
(* taken.                                                                  *)
ClaimNext ==
    /\ Up /\ Free
    /\ LET preempt == Active(gens) # {} /\ work # "none"
           G == IF preempt THEN ActivityRows(gens) ELSE gens
       IN  /\ entries' = IF preempt THEN ActivityEntries(entries, gens) ELSE entries
           /\ age' = IF preempt THEN 0 ELSE age
           /\ \/ work = "queued" /\ work' = "running" /\ gens' = G
              \/ \E g \in Generations :
                    G[g].status = "queued" /\ gens' = [G EXCEPT ![g].status = "running"]
                    /\ UNCHANGED work
    /\ UNCHANGED <<wanted, paused, wasBusy, resetAsked, requests, turn, calm, used>>

(* A generation ends; one that was to be cancelled may still succeed.      *)
AttemptEnds(g) ==
    /\ Up /\ Free
    /\ gens[g].status \in {"running", "cancelling"}
    /\ \E s \in TerminalStatuses : gens' = [gens EXCEPT ![g].status = s]
    /\ UNCHANGED <<entries, wanted, paused, age, wasBusy, resetAsked, requests, work, turn,
                   calm, used>>

WorkEnds ==
    /\ Up /\ Free /\ work = "running" /\ work' = "none"
    /\ UNCHANGED <<rows, wanted, paused, age, wasBusy, resetAsked, requests, turn, calm, used>>

(* The process is down, and nobody counts.                                 *)
DownTime ==
    /\ ~Up
    /\ age' = Later(age)
    /\ calm' = IF Handled THEN 0 ELSE Later(calm)
    /\ UNCHANGED <<rows, wanted, paused, wasBusy, resetAsked, requests, work, turn, used>>

-----------------------------------------------------------------------------
(* Requests (dependencies.require_ready_csrf) and what they do             *)

RequestArrives(r) ==
    /\ Up /\ requests[r] = "none"
    /\ Spend
    /\ requests' = [requests EXCEPT ![r] = "counted"]
    /\ UNCHANGED <<rows, wanted, paused, age, wasBusy, resetAsked, work, turn, calm>>

(* activity()                                                              *)
Activity(r) ==
    /\ Up /\ Free /\ requests[r] = "counted"
    /\ requests' = [requests EXCEPT ![r] = "in"]
    /\ entries' = ActivityEntries(entries, gens) /\ gens' = ActivityRows(gens)
    /\ age' = 0 /\ calm' = 0
    /\ UNCHANGED <<wanted, paused, wasBusy, resetAsked, work, turn, used>>

(* The answer was sent, or the client went away: foreground_finished().    *)
RequestEnds(r) ==
    /\ Up /\ requests[r] # "none"
    /\ requests' = [requests EXCEPT ![r] = "none"]
    /\ resetAsked' = TRUE
    /\ UNCHANGED <<rows, wanted, paused, age, wasBusy, work, turn, calm, used>>

In == Up /\ Free /\ \E r \in Requests : requests[r] = "in"

RequestStartsWork ==
    /\ In /\ work = "none" /\ work' = "queued"
    /\ UNCHANGED <<rows, wanted, paused, age, wasBusy, resetAsked, requests, turn, calm, used>>

(* save(): the settings; record_activity, then reconcile.                  *)
Save ==
    /\ In /\ Spend
    /\ wanted' \in [Images -> Signatures \cup {NoSignature}] /\ paused' \in BOOLEAN
    /\ age' = 0
    /\ LET E == ActivityEntries(entries, gens)  \* nothing was active: Activity
       IN  entries' = [k \in Images |-> ReconciledEntry(E[k], wanted'[k])]
    /\ gens' = ReconciledRows(wanted')
    /\ UNCHANGED <<wasBusy, resetAsked, requests, work, turn, calm>>

(* set_enabled(): the images of a LoRA are retired at once.                *)
Disable(k) ==
    /\ In /\ Spend
    /\ wanted' = [wanted EXCEPT ![k] = NoSignature]
    /\ entries' = ReconciledEntries(wanted') /\ gens' = ReconciledRows(wanted')
    /\ UNCHANGED <<paused, age, wasBusy, resetAsked, requests, work, turn, calm>>

(* A workflow is published, a LoRA removed, a checkpoint graded: the next  *)
(* reconcile sees it.                                                      *)
CatalogChanges(k) ==
    /\ Spend
    /\ \E w \in (Signatures \cup {NoSignature}) \ {wanted[k]} : wanted' = [wanted EXCEPT ![k] = w]
    /\ Free
    /\ UNCHANGED <<rows, paused, age, wasBusy, resetAsked, requests, work, turn, calm>>

(* readable()                                                              *)
Readable(k) ==
    /\ entries[k].state = "ready" /\ entries[k].signature = wanted[k]
    /\ Succeeded(Row(entries[k].generation))

(* The actions delete, move and regenerate: _discard, and wanted again.    *)
Regenerate(k) ==
    /\ In /\ Readable(k) /\ Spend
    /\ gens' = [gens EXCEPT ![entries[k].generation] = Given(@)]
    /\ entries' = [entries EXCEPT ![k] = [@ EXCEPT !.state = "missing", !.generation = NoGeneration,
                                                   !.failures = 0, !.waiting = FALSE]]
    /\ UNCHANGED <<wanted, paused, age, wasBusy, resetAsked, requests, work, turn, calm>>

Retry ==
    /\ In /\ Spend
    /\ entries' = [k \in Images |->
                    IF entries[k].state \in {"failed", "blocked"}
                    THEN [entries[k] EXCEPT !.failures = 0, !.waiting = FALSE, !.state = "missing"]
                    ELSE entries[k]]
    /\ UNCHANGED <<gens, wanted, paused, age, wasBusy, resetAsked, requests, work, turn,
                   calm>>

(* The process ends; a transaction under way is lost with it.              *)
ProcessEnds ==
    /\ Up /\ Spend
    /\ turn' = "down"
    /\ requests' = [r \in Requests |-> "none"]
    /\ wasBusy' = FALSE /\ resetAsked' = FALSE
    /\ UNCHANGED <<rows, wanted, paused, age, work, calm>>

(* recover(): a start counts as activity.                                  *)
Recover ==
    /\ ~Up /\ turn' = "none"
    /\ entries' = ActivityEntries(entries, gens) /\ gens' = ActivityRows(gens) /\ age' = 0
    /\ UNCHANGED <<wanted, paused, wasBusy, resetAsked, requests, work, calm, used>>

-----------------------------------------------------------------------------
DemoReelsNext ==
    \/ Step \/ StepFails \/ ClaimNext \/ WorkEnds \/ DownTime
    \/ \E g \in Generations : Cleanup(g) \/ AttemptEnds(g)
    \/ \E r \in Requests : RequestArrives(r) \/ Activity(r) \/ RequestEnds(r)
    \/ RequestStartsWork \/ Save \/ Retry
    \/ \E k \in Images : Disable(k) \/ CatalogChanges(k) \/ Regenerate(k)
    \/ ProcessEnds \/ Recover

(* Fairness: the loop goes on, requests end, the worker takes              *)
(* what is queued and ends it (GenerationLifecycle), a crashed process is  *)
(* started again.                                                          *)
Looping  == Step \/ Recover
Working  == ClaimNext \/ WorkEnds \/ \E g \in Generations : AttemptEnds(g)
Leaving  == \E r \in Requests : RequestEnds(r)
Cleaning == \E g \in Generations : Cleanup(g)

DemoReelsSpec ==
    /\ DemoReelsInit /\ [][DemoReelsNext]_reelVars
    /\ WF_reelVars(Looping) /\ SF_reelVars(Working) /\ WF_reelVars(Leaving) /\ SF_reelVars(Cleaning)

-----------------------------------------------------------------------------
ReelsTypeOK ==
    /\ gens \in [Generations -> [status : {"none"} \cup ActiveStatuses \cup TerminalStatuses,
                                 doomed : BOOLEAN]]
    /\ entries \in [Images ->
            [signature : Signatures \cup {NoSignature},
             state : {"absent", "missing", "blocked", "running", "ready", "failed", "discarded"},
             generation : Generations \cup {NoGeneration}, failures : 0 .. Attempts, waiting : BOOLEAN]]
    /\ wanted \in [Images -> Signatures \cup {NoSignature}]
    /\ requests \in [Requests -> {"none", "counted", "in"}]
    /\ age \in 0 .. Idle /\ calm \in 0 .. Idle
    /\ \A k \in Images : entries[k].failures = Attempts <=> entries[k].state = "failed"

(* An image that a reader is offered exists, finished, and is not about to *)
(* be deleted; an attempt that was given up is.  Every other generation of *)
(* the system account is one entry's attempt: none stays behind that no    *)
(* entry knows and nothing deletes.                                        *)
NothingForgotten ==
    /\ \A k \in Images :
        /\ entries[k].state = "ready" => Succeeded(Row(entries[k].generation))
        /\ entries[k].state = "discarded" /\ entries[k].generation # NoGeneration =>
                Row(entries[k].generation).doomed
    /\ \A g \in Generations :
        gens[g].status # "none" /\ ~gens[g].doomed =>
            Cardinality({k \in Images : entries[k].generation = g}) = 1

(* While a request is being handled no background image is queued or runs  *)
(* that has not been told to stop, and there is never more than one that   *)
(* has not ended.                                                          *)
GivesWay ==
    /\ Cardinality(Active(gens)) <= 1
    /\ (\E r \in Requests : requests[r] = "in") =>
            \A g \in Active(gens) : gens[g].status = "cancelling"

(* A background image is begun only when for the whole idle period, but    *)
(* for one step, no request was admitted and no step that was carried out  *)
(* met a request or other work: also when a request came between two       *)
(* steps, when a step failed, and across a restart.                        *)
QuietFirst ==
    [][(\E g \in Generations : gens[g].status = "none" /\ gens'[g].status = "queued")
        => calm + 1 >= Idle]_reelVars

(* Only an attempt that came to its own end counts as a failure: an image  *)
(* that keeps being preempted is not given up for that.                    *)
FailuresAreItsOwn ==
    [][\A k \in Images :
        entries'[k].failures > entries[k].failures =>
            Row(entries[k].generation) = [status |-> "failed", doomed |-> FALSE]]_reelVars

(* The background gives way, and what it makes is kept or deleted.         *)
ReelsGiveWay == [](NothingForgotten /\ GivesWay) /\ QuietFirst /\ FailuresAreItsOwn

(* When people leave the application alone, the reel comes to be complete: *)
(* every image is there, failed too often, or blocked; and what was        *)
(* given up is deleted.                                                    *)
Finished(k) ==
    \/ wanted[k] = NoSignature /\ entries[k].state = "absent"
    \/ entries[k].signature = wanted[k] /\ entries[k].state \in {"ready", "failed", "blocked"}
ReelCompletes ==
    []<>(paused \/ (/\ \A k \in Images : Finished(k)
                    /\ \A g \in Generations : ~gens[g].doomed))
=============================================================================
