-------------------------- MODULE PromptComposition --------------------------
(***************************************************************************)
(* What one composition or one image review makes of the answers of the    *)
(* language model (OllamaAdapter.compose, _compose_candidate and           *)
(* evaluate_image, services/ollama.py).  A candidate is asked for with     *)
(* growing output budgets, then once without thinking; a candidate that is *)
(* not usable or not new is redrawn with the next seed.                    *)
(*                                                                         *)
(* The answers are those of _generate (ModelRouting): the model and any    *)
(* text is the environment's choice.                                       *)
(***************************************************************************)
EXTENDS Naturals, FiniteSets

CONSTANTS
    Texts,       \* normalized prompts a model may write
    Input,       \* the prompt to refine, or the current prompt
    History,     \* excluded_prompts: earlier results
    Echoes,      \* the texts contained in the Creative Direction, itself among them
    Candidates,  \* MAX_CREATE_ATTEMPTS, MAX_REFINE_ATTEMPTS, MAX_VISION_CANDIDATES
    Budgets      \* how many output budgets the ladder has

ASSUME CompositionAssumption ==
    /\ Input \in Texts
    /\ History \subseteq Texts
    /\ Echoes \subseteq Texts /\ Echoes # {}
    /\ Candidates \in Nat \ {0}
    /\ Budgets \in Nat \ {0}

VARIABLES
    task,      \* what is asked for: its mode, think and the texts it excludes
    attempt,   \* the candidate, from 1
    rung,      \* the step of the candidate's plan, from 1
    told,      \* how the candidates before this one ended, in order
    result,    \* "open", "answered", or the code of the error raised
    text,      \* the accepted prompt
    sends,     \* how many requests were sent
    refused    \* a model that is not abliterated has refused

compositionVars == <<task, attempt, rung, told, result, text, sends, refused>>

Requested == {"create", "refine", "vision"}
NoText == "none"
Direction == CHOOSE t \in Echoes : TRUE

(* Create excludes the current prompt, the direction and the history.      *)
Excludes(mode) == CASE mode = "create" -> {Input, Direction} \cup History
                    [] mode = "refine" -> {Input} \cup History
                    [] OTHER -> {}

CompositionInit ==
    /\ task \in [mode : Requested, think : BOOLEAN, excluded : {Excludes(m) : m \in Requested}]
    /\ task.excluded = Excludes(task.mode)
    /\ attempt = 1 /\ rung = 1
    /\ told = <<>> /\ result = "open" /\ text = NoText
    /\ sends = 0 /\ refused = FALSE

-----------------------------------------------------------------------------
PlanLength  == IF task.think THEN Budgets + 1 ELSE Budgets
Unthinking  == task.think /\ rung = Budgets + 1   \* the no_thinking_fallback stage

End(code) == result' = code /\ UNCHANGED <<task, attempt, rung, told, text>>

(* The error that ends a composition none of whose candidates was taken.   *)
Exhausted(ends) ==
    IF task.mode = "vision" THEN "vision_check_invalid_response"
    ELSE IF \A i \in 1 .. Candidates : ends[i] = "budget" THEN "output_budget_exhausted"
    ELSE IF task.mode = "refine" THEN "prompt_refinement_unchanged"
    ELSE IF \A i \in 1 .. Candidates : ends[i] = "echo" THEN "prompt_creation_unchanged"
    ELSE "invalid_response"

(* Redraw with the next seed, or give up.                                  *)
NextCandidate(end, excluded) ==
    LET ends == [i \in 1 .. attempt |-> IF i = attempt THEN end ELSE told[i]]
    IN  /\ told' = ends
        /\ task' = [task EXCEPT !.excluded = excluded]
        /\ IF attempt < Candidates
           THEN attempt' = attempt + 1 /\ rung' = 1 /\ UNCHANGED result
           ELSE result' = Exhausted(ends) /\ UNCHANGED <<attempt, rung>>
        /\ UNCHANGED text

(* Every answer is one request; nsfw says whether the model is abliterated *)
Sends == result = "open" /\ sends' = sends + 1

(* _generate raises: unavailable, declined, timed out, rejected ...        *)
Raises == Sends /\ End("generate_error") /\ UNCHANGED refused

(* done_reason "length", or marked incomplete: the next budget, then the   *)
(* attempt without thinking, then the next candidate.                      *)
OverBudget ==
    /\ Sends /\ UNCHANGED refused
    /\ IF rung < PlanLength
       THEN rung' = rung + 1 /\ UNCHANGED <<task, attempt, told, result, text>>
       ELSE NextCandidate("budget", task.excluded)

(* No usable object although the model had room for one.                   *)
Malformed(nsfw) ==
    /\ Sends /\ refused' = (refused \/ (~nsfw /\ (~Unthinking \/ task.mode = "vision")))
    /\ IF task.mode = "vision"
       THEN IF ~nsfw THEN End("declined") ELSE NextCandidate("malformed", {})
       ELSE IF Unthinking THEN NextCandidate("budget", task.excluded)
       ELSE End(IF nsfw THEN "invalid_response" ELSE "declined")

(* The answer is no envelope, or does not say which model it is of.        *)
Anonymous == Sends /\ task.mode # "vision" /\ End("invalid_response") /\ UNCHANGED refused

(* A prompt, or a review, that opens like a refusal.  A model declared     *)
(* nsfw is not expected to refuse: its words are a prompt like any other.  *)
Refuses == Sends /\ refused' = TRUE /\ End("declined")

Taken(t) == result' = "answered" /\ text' = t /\ UNCHANGED <<task, attempt, rung, told>>

Mut_Rejected(t) == t = Input
(* compose, from the usable prompt on.                                     *)
Rejected(t) == (task.mode = "create" /\ t \in Echoes) \/ t \in task.excluded

Prompt(t) ==
    /\ Sends /\ task.mode # "vision" /\ UNCHANGED refused
    /\ IF ~Rejected(t) THEN Taken(t)
       ELSE CASE task.mode = "create" /\ t \in Echoes -> NextCandidate("echo", task.excluded \cup {t})
              [] task.mode = "create" /\ t \notin Echoes -> NextCandidate("repeated", task.excluded \cup {t})
              [] OTHER -> NextCandidate("unchanged", task.excluded)

(* A score sheet; validate_evaluation may reject it.                       *)
Sheet(valid) ==
    /\ Sends /\ task.mode = "vision" /\ UNCHANGED refused
    /\ IF valid THEN Taken(NoText) ELSE NextCandidate("invalid", {})

CompositionNext ==
    \/ Raises \/ OverBudget \/ Anonymous \/ Refuses
    \/ \E nsfw \in BOOLEAN : Malformed(nsfw)
    \/ \E t \in Texts : Prompt(t)
    \/ \E valid \in BOOLEAN : Sheet(valid)

CompositionSpec == CompositionInit /\ [][CompositionNext]_compositionVars

-----------------------------------------------------------------------------
CompositionTypeOK ==
    /\ task.excluded \subseteq Texts /\ attempt \in 1 .. Candidates /\ rung \in 1 .. PlanLength
    /\ DOMAIN told \subseteq 1 .. Candidates
    /\ result \in {"open", "answered", "generate_error", "declined", "invalid_response",
                   "output_budget_exhausted", "prompt_refinement_unchanged",
                   "prompt_creation_unchanged", "vision_check_invalid_response"}

(* An accepted prompt is new: neither the input nor an earlier result, nor *)
(* in create mode a piece of the direction, however the candidates before  *)
(* it ended.                                                               *)
NewPrompt == result = "answered" /\ task.mode # "vision" =>
    /\ text \notin {Input} \cup History
    /\ task.mode = "create" => text \notin Echoes

(* A refusal ends the composition: it is neither redrawn nor accepted.     *)
RefusalEnds == refused => result = "declined"

(* A composition sends at most the whole plan for every candidate, and     *)
(* says that the budget is exhausted only after it has done so.            *)
BoundedEffort ==
    /\ sends <= Candidates * (Budgets + 1)
    /\ result = "output_budget_exhausted" => sends >= Candidates * Budgets

(* What one composition owes whoever asked for it.                         *)
NewPrompts == NewPrompt /\ RefusalEnds /\ BoundedEffort
=============================================================================
