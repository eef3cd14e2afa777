---------------------------- MODULE Submissions ----------------------------
(***************************************************************************)
(* A submission and its key: the browser tab that keeps the key until it   *)
(* knows the outcome (generation-submissions.mjs, api.mjs), the network    *)
(* that loses requests and replies, and the server that takes a key once   *)
(* (submissions.py), with the run statistics of generation_activity.py.    *)
(* A server transaction is one action: it holds the SQLite writer          *)
(* (lock_user_state) from before it reads the receipt.                     *)
(***************************************************************************)
EXTENDS Integers, Sequences, FiniteSets

CONSTANTS
    Keys,       \* submissions the tab may make
    NoKey,
    Items,      \* number of generations each of them asks for
    Checks,     \* those that a definitive 503 may reject (expectation checks)
    Attempts,   \* attempts of api() for one call
    MaxLapses,  \* bound on lost requests and replies, reloads and outages
    MaxToggles  \* bound on switching automatic generation

ASSUME SubmissionsAssumption ==
    /\ NoKey \notin Keys /\ Checks \subseteq Keys
    /\ Items \in [Keys -> Nat \ {0}] /\ Attempts \in Nat \ {0}

VARIABLES
    pending,  \* key in sessionStorage
    call,     \* the tab's outstanding call: [kind, attempt, uncertain]
    told,     \* what the tab was told of each key
    stale,    \* copies of a POST still on their way although the tab gave up on them
    receipts, \* GenerationSubmission: NoReceipt or a sequence of outcomes
    rows,     \* Generation, in the order of acceptance; deleted rows keep their place
    runs,     \* GenerationRun, oldest first
    auto,     \* AutoGeneration.enabled
    signedIn, \* the account is active
    lapses, toggles

tab    == <<pending, call, told>>
tables == <<receipts, rows, runs>>
submissionVars == <<tab, stale, tables, auto, signedIn, lapses, toggles>>

NoCall == [kind |-> "none", attempt |-> 0, uncertain |-> FALSE]
NoReceipt == << >>
Active(r) == rows[r].status = "active"
Answers == {"ok", "410", "409", "401", "422", "503"}
RowStatus == {"active", "succeeded", "failed", "cancelled", "deleted"}
NewRun == [total |-> 0, refused |-> 0, succeeded |-> 0, cancelled |-> 0, failed |-> 0]

SubmissionsInit ==
    /\ pending = NoKey /\ call = NoCall
    /\ told = [k \in Keys |-> "nothing"] /\ stale = [k \in Keys |-> 0]
    /\ receipts = [k \in Keys |-> NoReceipt] /\ rows = << >> /\ runs = << >>
    /\ auto = FALSE /\ signedIn = TRUE /\ lapses = 0 /\ toggles = 0

-----------------------------------------------------------------------------
(* The server.                                                             *)

\* begin_run: the last run goes on while a member is active.
RunsFor(n) ==
    LET last == Len(runs)
        open == last > 0 /\ \E r \in DOMAIN rows : rows[r].run = last /\ Active(r)
        used == IF open THEN runs ELSE Append(runs, NewRun)
    IN  [used EXCEPT ![Len(used)].total = @ + n]

Deleted(k) == \E i \in DOMAIN receipts[k] :
                  receipts[k][i] \in DOMAIN rows /\ rows[receipts[k][i]].status = "deleted"

(* accept: the answers the transaction gives without writing.              *)
Refusal(k) ==
    IF receipts[k] # NoReceipt THEN IF Deleted(k) THEN "410" ELSE "ok"
    ELSE IF auto THEN "409" ELSE IF ~signedIn THEN "401" ELSE "none"

(* accept: each item is accepted in a savepoint or refused (ok); a single  *)
(* request that is refused takes the transaction with it.  The receipt is  *)
(* part of the transaction.                                                *)
Accept(k, ok) ==
    LET used == RunsFor(Items[k])
        place(i) == Len(rows) + Cardinality({j \in ok : j <= i})
    IN  /\ rows' = rows \o [n \in 1 .. Cardinality(ok) |->
                                [key |-> k, run |-> Len(used), status |-> "active"]]
        /\ runs' = [used EXCEPT ![Len(used)].refused = @ + Items[k] - Cardinality(ok)]
        /\ receipts' = [receipts EXCEPT ![k] =
                            [i \in 1 .. Items[k] |-> IF i \in ok THEN place(i) ELSE 0]]

Mut_Serve(k, answer) == \* takes what it has taken before once more
    \/ answer = Refusal(k) /\ receipts[k] = NoReceipt /\ UNCHANGED tables
    \/ /\ ~auto /\ signedIn /\ answer = "ok"
       /\ Accept(k, 1 .. Items[k])

(* What the server does with one POST and what it answers.                 *)
Serve(k, answer) ==
    \/ answer = Refusal(k) /\ answer # "none" /\ UNCHANGED tables
    \/ /\ Refusal(k) = "none"
       /\ \/ answer = "422" /\ UNCHANGED tables
          \/ answer = "503" /\ k \in Checks /\ UNCHANGED tables
          \/ \E ok \in SUBSET (1 .. Items[k]) :
                 /\ ok # {} \/ Items[k] > 1
                 /\ answer = "ok" /\ Accept(k, ok)

Lookup(k) == IF receipts[k] = NoReceipt THEN "404" ELSE IF Deleted(k) THEN "410" ELSE "ok"

ServeStale(k) == \* a copy nobody waits for any more
    /\ stale[k] > 0
    /\ stale' = [stale EXCEPT ![k] = @ - 1]
    /\ \E answer \in Answers : Serve(k, answer)
    /\ UNCHANGED <<tab, auto, signedIn, lapses, toggles>>

-----------------------------------------------------------------------------
(* The tab.                                                                *)

Lapse == lapses < MaxLapses /\ lapses' = lapses + 1
Finish(word) == /\ told' = [told EXCEPT ![pending] = word]
                /\ pending' = NoKey /\ call' = NoCall
Unknown == call' = NoCall /\ UNCHANGED <<pending, told>>
Post(n, uncertain) == call' = [kind |-> "post", attempt |-> n, uncertain |-> uncertain]

SubmitGeneration(k) == \* submitGeneration: the key is saved before anything is sent
    /\ signedIn /\ pending = NoKey /\ told[k] = "nothing"
    /\ pending' = k /\ told' = [told EXCEPT ![k] = "waiting"] /\ Post(1, FALSE)
    /\ UNCHANGED <<stale, tables, auto, signedIn, lapses, toggles>>

(* api() after a failure that may be transient: another attempt, from now  *)
(* on uncertain, or the caller keeps the key.                              *)
Retries == IF call.attempt < Attempts THEN Post(call.attempt + 1, TRUE) /\ UNCHANGED <<pending, told>>
           ELSE Unknown

\* send() on a definite refusal.
Concludes == IF call.uncertain THEN Unknown ELSE Finish("refused")

Answered(answer) == \* the reply of the outstanding POST arrives
    /\ call.kind = "post"
    /\ Serve(pending, answer)
    /\ CASE answer = "ok"  -> Finish("accepted")
         [] answer = "503" -> Finish("refused") \* DEFINITIVE_REJECTIONS
         [] OTHER -> Concludes
    /\ UNCHANGED <<stale, auto, signedIn, lapses, toggles>>

Unanswered == \* the request is lost, or its reply, or the wait ends before the server has it
    /\ call.kind = "post" /\ Lapse
    /\ \/ UNCHANGED <<stale, tables>>
       \/ UNCHANGED stale /\ \E answer \in Answers \ {"503"} : Serve(pending, answer)
       \/ stale' = [stale EXCEPT ![pending] = @ + 1] /\ UNCHANGED tables
    /\ Retries
    /\ UNCHANGED <<auto, signedIn, toggles>>

RecoverSubmission == \* recoverSubmission asks for the receipt
    /\ signedIn /\ pending # NoKey /\ call = NoCall
    /\ call' = [kind |-> "lookup", attempt |-> 1, uncertain |-> TRUE]
    /\ UNCHANGED <<pending, told, stale, tables, auto, signedIn, lapses, toggles>>

Recovered ==
    /\ call.kind = "lookup"
    /\ CASE Lookup(pending) = "ok"  -> Finish("accepted") /\ UNCHANGED lapses
         [] Lookup(pending) = "410" -> Finish("gone") /\ UNCHANGED lapses
         [] OTHER -> Post(1, TRUE) /\ UNCHANGED <<pending, told, lapses>>
    /\ UNCHANGED <<stale, tables, auto, signedIn, toggles>>

LookupFails ==
    /\ call.kind = "lookup" /\ Lapse /\ Unknown
    /\ UNCHANGED <<stale, tables, auto, signedIn, toggles>>

Reload == \* sessionStorage survives, the wait does not
    /\ call # NoCall /\ Lapse /\ Unknown
    /\ stale' = IF call.kind = "post" THEN [stale EXCEPT ![pending] = @ + 1] ELSE stale
    /\ UNCHANGED <<tables, auto, signedIn, toggles>>

-----------------------------------------------------------------------------
(* The rest of the system.                                                 *)

Settle(r) ==
    /\ Active(r)
    /\ \E s \in {"succeeded", "failed", "cancelled"} : rows' = [rows EXCEPT ![r].status = s]
    /\ UNCHANGED <<tab, stale, receipts, runs, auto, signedIn, lapses, toggles>>

(* delete_terminal, also of a queued generation that is cancelled: the run *)
(* keeps the outcome (retain_deleted_outcome).                             *)
Delete(r) ==
    /\ rows[r].status # "deleted"
    /\ LET s == IF Active(r) THEN "cancelled" ELSE rows[r].status
       IN  runs' = [runs EXCEPT ![rows[r].run][s] = @ + 1]
    /\ rows' = [rows EXCEPT ![r].status = "deleted"]
    /\ UNCHANGED <<tab, stale, receipts, auto, signedIn, lapses, toggles>>

Toggle == \* automatic generation is switched on or off
    /\ auto \/ toggles < MaxToggles
    /\ auto' = ~auto /\ toggles' = IF auto THEN toggles ELSE toggles + 1
    /\ UNCHANGED <<tab, stale, tables, signedIn, lapses>>

Mut_CloseAccount == \* the key goes, the wait for its answer stays
    /\ signedIn /\ toggles < MaxToggles /\ toggles' = toggles + 1
    /\ signedIn' = FALSE /\ pending' = NoKey
    /\ UNCHANGED <<call, told, stale, tables, auto, lapses>>

CloseAccount == \* the account is being deleted; the tab signs out and forgets its key
    /\ signedIn /\ toggles < MaxToggles /\ toggles' = toggles + 1
    /\ signedIn' = FALSE
    /\ stale' = IF call.kind = "post" THEN [stale EXCEPT ![pending] = @ + 1] ELSE stale
    /\ IF pending = NoKey THEN UNCHANGED tab ELSE Finish("forgotten")
    /\ UNCHANGED <<tables, auto, lapses>>

TabStep == (\E answer \in Answers : Answered(answer)) \/ RecoverSubmission \/ Recovered
SubmissionsNext ==
    \/ \E k \in Keys : SubmitGeneration(k) \/ ServeStale(k)
    \/ TabStep \/ Unanswered \/ LookupFails \/ Reload
    \/ \E r \in DOMAIN rows : Settle(r) \/ Delete(r)
    \/ Toggle \/ CloseAccount

(* The tab keeps asking (createSubmissionRecovery has no last attempt).    *)
SubmissionsSpec ==
    /\ SubmissionsInit /\ [][SubmissionsNext]_submissionVars
    /\ WF_submissionVars(TabStep)

-----------------------------------------------------------------------------
SubmissionsTypeOK ==
    /\ pending \in Keys \cup {NoKey}
    /\ call \in [kind : {"none", "post", "lookup"}, attempt : 0 .. Attempts, uncertain : BOOLEAN]
    /\ told \in [Keys -> {"nothing", "waiting", "accepted", "refused", "gone", "forgotten"}]
    /\ stale \in [Keys -> Nat]
    /\ \A r \in DOMAIN rows : rows[r].key \in Keys /\ rows[r].status \in RowStatus
                              /\ rows[r].run \in DOMAIN runs
    /\ (call.kind # "none" => pending # NoKey)

(* Whatever is repeated, lost, reloaded or deleted, a key has one effect:  *)
(* the rows of a key are those its receipt names, each once.               *)
OncePerKey ==
    \A r \in DOMAIN rows :
        LET k == rows[r].key
        IN  /\ receipts[k] # NoReceipt
            /\ Cardinality({i \in DOMAIN receipts[k] : receipts[k][i] = r}) = 1

(* The tab never offers to submit again what the server has or will take:  *)
(* a key it reports as refused has no effect, now or later.  (Not so for   *)
(* the rejections it takes for definitive, DEFINITIVE_REJECTIONS.)         *)
RefusedMeansRefused ==
    \A k \in Keys \ Checks : told[k] = "refused" => receipts[k] = NoReceipt

(* The progress an account sees covers all its work: nothing active is in  *)
(* an older run than the one activity_snapshot shows, and every item of a  *)
(* run is accounted for as a row, a refusal or a retained outcome.         *)
RunsComplete ==
    \A n \in DOMAIN runs :
        LET members == {r \in DOMAIN rows : rows[r].run = n}
            kept == {r \in members : rows[r].status # "deleted"}
            run == runs[n]
        IN  /\ n < Len(runs) => \A r \in members : ~Active(r)
            /\ run.total = Cardinality(kept) + run.refused
                           + run.succeeded + run.cancelled + run.failed

(* Whatever is repeated, lost, reloaded or deleted, a key has one effect;  *)
(* a key the tab takes for refused has none, now or later; and every item  *)
(* of a run is accounted for as a row, a refusal or a retained outcome.    *)
KeysHold == OncePerKey /\ RefusedMeansRefused /\ RunsComplete

(* What the server has taken the tab learns at last, over lost answers,    *)
(* copies that arrive late, reloads, deletions and settings: a saved key   *)
(* whose submission has its receipt is resolved, and the tab may submit    *)
(* again (recoverSubmission).  Nothing is said of a key the server never   *)
(* took: one that is refused each time it is repeated stays pending.       *)
KeyResolved == \A k \in Keys : (pending = k /\ receipts[k] # NoReceipt) ~> pending # k
=============================================================================
