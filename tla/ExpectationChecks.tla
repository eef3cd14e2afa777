------------------------- MODULE ExpectationChecks -------------------------
(***************************************************************************)
(* Expectation checks of one account (expectation_checks.py): compose a    *)
(* prompt, generate one image with it, let a vision model score it, and    *)
(* revise until an attempt passes or none is left; then queue the images   *)
(* that were asked for.  Every transaction under lock_user_state is one    *)
(* action; between them the step task of a check waits for a model.  A     *)
(* stop cancels the task, but a transaction that already runs in its       *)
(* thread is finished.                                                     *)
(***************************************************************************)
EXTENDS Integers, Sequences

CONSTANTS
    MaxChecks,   \* bound on checks
    MaxAttempts, \* max_attempts of every check
    MaxFailures, \* MAX_FAILURES
    MaxErrors,   \* bound on errors, crashes and the like
    Scores,      \* scores of the vision model
    Threshold    \* the pass score

ASSUME ChecksAssumption ==
    /\ MaxAttempts \in Nat \ {0}
    /\ MaxFailures \in Nat \ {0}
    /\ Scores \subseteq 0 .. 100
    /\ Threshold \in Nat

VARIABLES
    checks,    \* ExpectationCheck rows, oldest first, with their attempts
    images,    \* images[c][n]: the generation of attempt n
    extra,     \* extra[c]: the prompts (attempt numbers) the rest was queued with
    steps,     \* steps[c]: the task of check c, if any: [kind, attempt]
    automatic, \* AutoGeneration.enabled
    open,      \* UserState.ACTIVE
    errors

checkVars == <<checks, images, extra, steps, automatic, open, errors>>

ActiveCheck == {"composing", "generating", "evaluating"}
Running(c) == checks[c].status \in ActiveCheck
Latest(c) == Len(checks[c].attempts)
Attempt(status) == [status |-> status, score |-> -1]
Marked(check, n, status) == [check EXCEPT !.attempts[n].status = status]
NoTask == [kind |-> "none", attempt |-> 0]
Err == errors < MaxErrors /\ errors' = errors + 1

ChecksInit ==
    /\ checks = << >> /\ images = << >> /\ extra = << >> /\ steps = << >>
    /\ automatic = FALSE /\ open = TRUE /\ errors = 0

-----------------------------------------------------------------------------
(* Requests.                                                               *)

(* accept; a prompt to be verified as it is needs no composition.          *)
AcceptCheck ==
    /\ open /\ ~automatic /\ Len(checks) < MaxChecks /\ \A c \in DOMAIN checks : ~Running(c)
    /\ \E first \in {"ready", "composing"}, purpose \in {"compose", "generate"} :
          checks' = Append(checks, [status |-> "composing", purpose |-> purpose, failures |-> 0,
                                    best |-> 0, attempts |-> <<Attempt(first)>>])
    /\ images' = Append(images, << >>) /\ extra' = Append(extra, << >>) /\ steps' = Append(steps, NoTask)
    /\ UNCHANGED <<automatic, open, errors>>

(* AutoGenerations.change, as far as it looks at checks.                   *)
Automate ==
    /\ open
    /\ automatic' = ~automatic
    /\ ~automatic => \A c \in DOMAIN checks : ~Running(c)
    /\ UNCHANGED <<checks, images, extra, steps, open, errors>>

(* _stop_in_session                                                        *)
Stopped(check) ==
    [check EXCEPT !.status = "stopped",
                  !.attempts = [n \in DOMAIN @ |->
                      IF @[n].status \in {"passed", "not_met", "failed"} THEN @[n]
                      ELSE [@[n] EXCEPT !.status = "stopped"]]]

StopCheck(c) ==
    /\ open /\ Running(c)
    /\ checks' = [checks EXCEPT ![c] = Stopped(@)]
    /\ UNCHANGED <<images, extra, steps, automatic, open, errors>>

(* The cancelled task goes away, before or after the transaction it is in. *)
TaskCancelled(c) ==
    /\ ~Running(c) /\ steps[c] # NoTask /\ steps' = [steps EXCEPT ![c] = NoTask]
    /\ UNCHANGED <<checks, images, extra, automatic, open, errors>>

-----------------------------------------------------------------------------
(* The step task.                                                          *)

Step(c, kind) == steps' = [steps EXCEPT ![c] = [kind |-> kind, attempt |-> Latest(c)]]

(* _fail                                                                   *)
FailedCheck(check) == [Marked(check, Len(check.attempts), "failed") EXCEPT !.status = "failed"]

LoadDone(c) ==
    /\ images[c][Latest(c)] = "done"
    /\ checks' = [checks EXCEPT ![c] = [Marked(@, Latest(c), "evaluating") EXCEPT !.status = "evaluating"]]
    /\ Step(c, "evaluate")

Mut_LoadImage(c) == \* waits for an image that was deleted
    \/ images[c][Latest(c)] = "cancelled" /\ checks' = [checks EXCEPT ![c] = Stopped(@)] /\ UNCHANGED steps
    \/ images[c][Latest(c)] = "failed" /\ checks' = [checks EXCEPT ![c] = FailedCheck(@)] /\ UNCHANGED steps
    \/ LoadDone(c)

(* What _load_step makes of the image of the last attempt.                 *)
LoadImage(c) ==
    \/ /\ images[c][Latest(c)] \in {"gone", "cancelled"}
       /\ checks' = [checks EXCEPT ![c] = Stopped(@)] /\ UNCHANGED steps
    \/ images[c][Latest(c)] = "failed" /\ checks' = [checks EXCEPT ![c] = FailedCheck(@)] /\ UNCHANGED steps
    \/ LoadDone(c)

(* _pending and _load_step, of a check no task works on.  _pending leaves  *)
(* out closed accounts; one that closes before _load_step runs stops here. *)
Load(c) ==
    /\ Running(c) /\ steps[c] = NoTask
    /\ LET status == checks[c].attempts[Latest(c)].status
       IN  \/ /\ open /\ status = "composing" /\ Step(c, "compose")
              /\ checks' = [checks EXCEPT ![c].status = "composing"]
           \/ open /\ status = "ready" /\ Step(c, "probe") /\ UNCHANGED checks
           \/ open /\ status = "generating" /\ LoadImage(c)
           \/ /\ open /\ status = "evaluating"
              /\ IF images[c][Latest(c)] = "gone"
                 THEN checks' = [checks EXCEPT ![c] = FailedCheck(@)] /\ UNCHANGED steps
                 ELSE Step(c, "evaluate") /\ UNCHANGED checks
           \/ ~open /\ checks' = [checks EXCEPT ![c] = Stopped(@)] /\ UNCHANGED steps
    /\ UNCHANGED <<images, extra, automatic, open, errors>>

(* Whether the transaction of the step still finds what it was begun for.  *)
Expects(c, kind, status) ==
    steps[c].kind = kind /\ Running(c) /\ checks[c].attempts[steps[c].attempt].status = status
Ends(c) == steps' = [steps EXCEPT ![c] = NoTask]

(* _compose: link, in the transaction that saves the run.                  *)
Composed(c) ==
    /\ steps[c].kind = "compose" /\ Ends(c)
    /\ checks' = IF Expects(c, "compose", "composing")
                 THEN [checks EXCEPT ![c] = [Marked(@, steps[c].attempt, "ready") EXCEPT !.failures = 0]]
                 ELSE checks
    /\ UNCHANGED <<images, extra, automatic, open, errors>>

Scored(check) == {n \in DOMAIN check.attempts : check.attempts[n].score >= 0}

(* best_attempt: the highest score, of equal ones the latest; 0 for none.  *)
BestAttempt(check) ==
    IF Scored(check) = {} THEN 0
    ELSE CHOOSE n \in Scored(check) : \A m \in Scored(check) :
            LET a == check.attempts[n].score
                b == check.attempts[m].score
            IN  b < a \/ (b = a /\ m <= n)

(* _finish_unchanged: the model has no other prompt to offer.              *)
Unchanged(c) ==
    /\ steps[c].kind = "compose" /\ steps[c].attempt > 1 /\ Ends(c)
    /\ LET rest == [checks[c] EXCEPT !.attempts = SubSeq(@, 1, Latest(c) - 1), !.status = "not_met"]
       IN  checks' = IF Running(c) THEN [checks EXCEPT ![c] = [rest EXCEPT !.best = BestAttempt(rest)]]
                     ELSE checks
    /\ UNCHANGED <<images, extra, automatic, open, errors>>

Mut_Probe(c) == \* generates again for an attempt that has its image
    /\ steps[c].kind = "probe" /\ Ends(c)
    /\ IF Running(c) /\ open
       THEN /\ checks' = [checks EXCEPT ![c].status = "generating", ![c].failures = 0]
            /\ images' = [images EXCEPT ![c] = Append(@, "active")]
       ELSE UNCHANGED <<checks, images>>
    /\ UNCHANGED <<extra, automatic, open, errors>>

(* _probe                                                                  *)
Probe(c) ==
    /\ steps[c].kind = "probe" /\ Ends(c)
    /\ IF Expects(c, "probe", "ready") /\ open
       THEN /\ checks' = [checks EXCEPT ![c] = [Marked(@, steps[c].attempt, "generating")
                                                   EXCEPT !.status = "generating", !.failures = 0]]
            /\ images' = [images EXCEPT ![c] = Append(@, "active")]
       ELSE UNCHANGED <<checks, images>>
    /\ UNCHANGED <<extra, automatic, open, errors>>

(* finish of _evaluate with the score of attempt n.                        *)
Passing(check, n) == [Marked(check, n, "passed") EXCEPT !.status = "passed", !.best = n]
Missing(check, n) ==
    LET missed == Marked(check, n, "not_met")
    IN  IF n >= MaxAttempts THEN [missed EXCEPT !.status = "not_met", !.best = BestAttempt(missed)]
        ELSE [missed EXCEPT !.status = "composing", !.attempts = Append(@, Attempt("composing"))]

(* _queue_remaining, in the same transaction.                              *)
QueueRemaining(c, n, score) ==
    IF score >= Threshold /\ checks[c].purpose = "generate"
    THEN [extra EXCEPT ![c] = Append(@, n)] ELSE extra

Evaluated(c) ==
    /\ steps[c].kind = "evaluate" /\ Ends(c)
    /\ \E score \in Scores :
          LET n == steps[c].attempt
              scored == [checks[c] EXCEPT !.attempts[n].score = score, !.failures = 0]
          IN  IF Expects(c, "evaluate", "evaluating")
              THEN /\ checks' = [checks EXCEPT ![c] = IF score >= Threshold THEN Passing(scored, n)
                                                      ELSE Missing(scored, n)]
                   /\ extra' = QueueRemaining(c, n, score)
              ELSE UNCHANGED <<checks, extra>>
    /\ UNCHANGED <<images, automatic, open, errors>>

(* _record_error: the step is retried a few times, or the check fails.     *)
RecordError(c) ==
    /\ steps[c].kind # "none" /\ Err /\ Ends(c)
    /\ \E retryable \in BOOLEAN :
          checks' = IF ~Running(c) THEN checks
                    ELSE IF retryable /\ checks[c].failures + 1 < MaxFailures
                         THEN [checks EXCEPT ![c].failures = @ + 1]
                         ELSE [checks EXCEPT ![c] = FailedCheck(@)]
    /\ UNCHANGED <<images, extra, automatic, open>>

-----------------------------------------------------------------------------
(* The rest of the system.                                                 *)

ImageEnds(c) ==
    /\ \E n \in DOMAIN images[c] :
          /\ images[c][n] = "active"
          /\ \/ images' = [images EXCEPT ![c][n] = "done"] /\ UNCHANGED errors
             \/ \E word \in {"failed", "cancelled", "gone"} :
                   images' = [images EXCEPT ![c][n] = word] /\ Err
    /\ UNCHANGED <<checks, extra, steps, automatic, open>>

ImageDeleted(c) == \* by its owner
    /\ \E n \in DOMAIN images[c] : images[c][n] = "done" /\ images' = [images EXCEPT ![c][n] = "gone"]
    /\ Err
    /\ UNCHANGED <<checks, extra, steps, automatic, open>>

CloseAccount == \* _mark_deleting: automation goes off, checks are left to Load
    /\ open /\ open' = FALSE /\ automatic' = FALSE /\ Err
    /\ UNCHANGED <<checks, images, extra, steps>>

Restart == \* a stop or a crash, and the next start
    /\ \E c \in DOMAIN steps : steps[c] # NoTask
    /\ Err /\ steps' = [c \in DOMAIN steps |-> NoTask]
    /\ UNCHANGED <<checks, images, extra, automatic, open>>

StepOf(c) == Load(c) \/ Composed(c) \/ Probe(c) \/ Evaluated(c)
ChecksNext ==
    \/ AcceptCheck \/ Automate \/ CloseAccount \/ Restart
    \/ \E c \in DOMAIN checks :
          StepOf(c) \/ Unchanged(c) \/ RecordError(c) \/ StopCheck(c) \/ TaskCancelled(c)
          \/ ImageEnds(c) \/ ImageDeleted(c)

CheckSteps == \E c \in DOMAIN checks : StepOf(c)
ProbesEnd == \E c \in DOMAIN checks : ImageEnds(c)

(* The coordinator comes back to every active check, models and images     *)
(* give an answer.                                                         *)
ChecksSpec ==
    /\ ChecksInit /\ [][ChecksNext]_checkVars
    /\ WF_checkVars(CheckSteps) /\ WF_checkVars(ProbesEnd)

-----------------------------------------------------------------------------
ChecksTypeOK ==
    /\ \A c \in DOMAIN checks :
          /\ checks[c].status \in ActiveCheck \cup {"passed", "not_met", "failed", "stopped"}
          /\ checks[c].failures \in 0 .. MaxFailures - 1
          /\ Latest(c) \in 1 .. MaxAttempts /\ checks[c].best \in 0 .. Latest(c)
          /\ \A n \in 1 .. Latest(c) : checks[c].attempts[n].score \in Scores \cup {-1}
    /\ \A c \in DOMAIN steps : steps[c].attempt \in 0 .. MaxAttempts
    /\ DOMAIN checks = DOMAIN images /\ DOMAIN checks = DOMAIN extra /\ DOMAIN checks = DOMAIN steps

(* A check pays for one image an attempt: neither a retry after an error   *)
(* or a restart nor a late transaction generates twice for a prompt.       *)
OneImagePerAttempt ==
    \A c \in DOMAIN checks :
        /\ Len(images[c]) <= Latest(c)
        /\ \A n \in DOMAIN checks[c].attempts :
              checks[c].attempts[n].status \in {"generating", "evaluating", "passed", "not_met"}
                  => n \in DOMAIN images[c]

(* The rest of the batch is queued at most once, for a check that was      *)
(* asked to generate and passed, and with the prompt that passed.          *)
RestWithPassingPrompt ==
    \A c \in DOMAIN checks :
        /\ Len(extra[c]) <= 1
        /\ \A i \in DOMAIN extra[c] :
              /\ checks[c].status = "passed" /\ checks[c].purpose = "generate"
              /\ checks[c].attempts[extra[c][i]].score >= Threshold

(* The verdict follows from the scores: the last attempt of a passed check *)
(* is its only one that passes, none of a check that was not met does, and *)
(* the best attempt of either has the highest score.                       *)
VerdictEarned ==
    \A c \in DOMAIN checks :
        LET check == checks[c]
        IN  /\ \A n \in DOMAIN check.attempts :
                  check.attempts[n].score >= Threshold => check.status = "passed" /\ n = Latest(c)
            /\ check.status = "not_met" => check.best # 0
            /\ check.best # 0 => \A n \in DOMAIN check.attempts :
                                    check.attempts[n].score <= check.attempts[check.best].score

(* A check and automatic generation never run at the same time.            *)
NeverTogether == automatic => \A c \in DOMAIN checks : ~Running(c)

(* Once a check has ended, by itself or by its user, nothing about it      *)
(* changes and no image is accepted for it, whatever answer was under way. *)
EndedIsOver ==
    [][\A c \in DOMAIN checks : ~Running(c) =>
          checks'[c] = checks[c] /\ Len(images'[c]) = Len(images[c]) /\ extra'[c] = extra[c]]_checkVars

(* A check pays for one image an attempt, through errors and restarts; its *)
(* verdict follows from the scores; the rest of its batch is queued once,  *)
(* for a check that passed, with the prompt that passed; a check and       *)
(* automatic generation never run at the same time; and what ended stays.  *)
ChecksKept ==
    /\ [](OneImagePerAttempt /\ RestWithPassingPrompt /\ VerdictEarned /\ NeverTogether)
    /\ EndedIsOver

(* Every check of an open account ends.                                    *)
ChecksSettle == []<>(~open \/ \A c \in DOMAIN checks : ~Running(c))
=============================================================================
