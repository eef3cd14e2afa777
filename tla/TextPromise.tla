---------------------------- MODULE TextPromise ----------------------------
(***************************************************************************)
(* What the preparations may rely on of a prompt run: ComfyUI works on it  *)
(* at most once, it goes back to the queue only if ComfyUI never had it,   *)
(* and what it came to stays, but for a discarded run, which may yet be    *)
(* told as failed.                                                         *)
(***************************************************************************)
CONSTANT Texts

VARIABLES
    outcome,  \* "queued", "active", "succeeded", "failed" or "discarded"
    given     \* the prompts ComfyUI was given

textPromiseVars == <<outcome, given>>

To(t, s) == outcome' = [outcome EXCEPT ![t] = s]

TextPromiseInit == outcome = [t \in Texts |-> "queued"] /\ given = {}

Starts(t)   == outcome[t] = "queued" /\ To(t, "active") /\ UNCHANGED given
Returns(t)  == outcome[t] = "active" /\ t \notin given /\ To(t, "queued") /\ UNCHANGED given
Gives(t)    == outcome[t] = "active" /\ t \notin given /\ given' = given \cup {t} /\ UNCHANGED outcome
Succeeds(t) == outcome[t] = "active" /\ t \in given /\ To(t, "succeeded") /\ UNCHANGED given
Fails(t)    == outcome[t] \in {"queued", "active"} /\ To(t, "failed") /\ UNCHANGED given
Discards(t) == outcome[t] = "queued" /\ To(t, "discarded") /\ UNCHANGED given

(* A start read the run before it was discarded.                           *)
Retells(t)  == outcome[t] = "discarded" /\ t \notin given /\ To(t, "failed") /\ UNCHANGED given

TextPromiseNext ==
    \E t \in Texts :
        Starts(t) \/ Returns(t) \/ Gives(t) \/ Succeeds(t) \/ Fails(t) \/ Discards(t) \/ Retells(t)

TextPromiseSpec == TextPromiseInit /\ [][TextPromiseNext]_textPromiseVars
=============================================================================
