---------------------------- MODULE Work_proofs ----------------------------
(***************************************************************************)
(* The coordinators that go on by themselves keep their promises.          *)
(*                                                                         *)
(* Expectation checks keep theirs (ChecksKept) for any number of checks,   *)
(* attempts, errors and restarts, any scores and any pass score: all       *)
(* attempts but the last were scored and missed, and the rest follows from *)
(* the status of the check.                                                *)
(*                                                                         *)
(* Automatic generation keeps its cycles apart (OneCycle) and its word     *)
(* about what was dropped (EndsHold), for any limits, quantities, changes  *)
(* of the settings, errors, stops and crashes.  Two kinds of cycle could   *)
(* meet: one with a text source is a group of preparations, the other      *)
(* waits for its own composition.  The invariant says why they do not:     *)
(* what waits is of the revision in force, and that revision has a text    *)
(* source or has none.                                                     *)
(*                                                                         *)
(* Both together are the state of MCWork, whose types (TypesOK) follow.    *)
(***************************************************************************)
EXTENDS MCWork, FiniteSetTheorems, NaturalsInduction, SequenceTheorems, TLAPS

-----------------------------------------------------------------------------
(* Expectation checks.                                                     *)

AttemptStatus == {"composing", "ready", "generating", "evaluating", "passed", "not_met",
                  "failed", "stopped"}
AttemptRow == [status : AttemptStatus, score : Scores \cup {-1}]
CheckRow   == [status : ActiveCheck \cup {"passed", "not_met", "failed", "stopped"},
               purpose : {"compose", "generate"}, failures : 0 .. MaxFailures - 1,
               best : Nat, attempts : Seq(AttemptRow)]
Task       == [kind : {"none", "compose", "probe", "evaluate"}, attempt : 0 .. MaxAttempts]
Image      == {"active", "done", "failed", "cancelled", "gone"}

Live(check) == check.status \in ActiveCheck
Count(check) == Len(check.attempts)
Last(check) == check.attempts[Count(check)]

(* All attempts but the last were scored below the pass score.             *)
Missed(row) == row.status = "not_met" /\ row.score \in 0 .. Threshold - 1
MissedSoFar(check) ==
    /\ Count(check) \in 1 .. MaxAttempts
    /\ \A n \in 1 .. Count(check) - 1 : Missed(check.attempts[n])

(* How far the last one is follows from the status of the check, and the   *)
(* other way round.                                                        *)
LastFits(check) ==
    LET last == Last(check)
    IN  /\ check.status = "composing" => last.status \in {"composing", "ready"}
        /\ check.status # "composing" => last.status = check.status
        /\ check.status = "passed" => last.score >= Threshold /\ check.best = Count(check)
        /\ check.status = "not_met" => Missed(last) /\ check.best = BestAttempt(check)
        /\ check.status \notin {"passed", "not_met"} => last.score = -1 /\ check.best = 0

(* Which attempts have an image, ...                                       *)
ImagesFit(check, of) ==
    LET n == Count(check)
    IN  CASE check.status = "composing" -> Len(of) = n - 1
          [] check.status \in {"failed", "stopped"} -> Len(of) \in {n - 1, n}
          [] OTHER -> Len(of) = n

(* ... what the rest was queued with, and what a task was begun for.       *)
ExtraFits(check, rest) ==
    rest # << >> => /\ check.status = "passed" /\ check.purpose = "generate"
                    /\ rest = <<Count(check)>>
TaskFits(check, doing) ==
    /\ doing.kind = "none" => doing = NoTask
    /\ Live(check) /\ doing # NoTask =>
           /\ doing.attempt = Count(check)
           /\ doing.kind = "compose" => Last(check).status = "composing"
           /\ doing.kind = "probe" => Last(check).status = "ready"
           /\ doing.kind = "evaluate" => Last(check).status = "evaluating"

Fits(check, of, rest, doing) ==
    /\ check \in CheckRow /\ of \in Seq(Image) /\ rest \in Seq(Nat) /\ doing \in Task
    /\ MissedSoFar(check) /\ LastFits(check)
    /\ ImagesFit(check, of) /\ ExtraFits(check, rest) /\ TaskFits(check, doing)

SameLength ==
    /\ checks \in Seq(CheckRow) /\ images \in Seq(Seq(Image))
    /\ extra \in Seq(Seq(Nat)) /\ steps \in Seq(Task)
    /\ Len(images) = Len(checks) /\ Len(extra) = Len(checks) /\ Len(steps) = Len(checks)

ChecksInv ==
    /\ SameLength /\ automatic \in BOOLEAN
    /\ \A c \in DOMAIN checks : Fits(checks[c], images[c], extra[c], steps[c])
    /\ NeverTogether

EndedStep ==
    \A c \in DOMAIN checks : ~Running(c) =>
        checks'[c] = checks[c] /\ Len(images'[c]) = Len(images[c]) /\ extra'[c] = extra[c]
-----------------------------------------------------------------------------
(* The best attempt.                                                       *)

LEMMA Greatest ==
    ASSUME NEW m \in Nat, NEW S \in SUBSET (0 .. m), S # {}
    PROVE  \E k \in S : \A j \in S : j <= k
    <1> DEFINE T == {m - k : k \in S}
               R == OpToRel(<, Nat)
    <1>1. T \subseteq Nat /\ T # {}
        <2>1. \A k \in S : m - k \in Nat
            OBVIOUS
        <2>2. QED
            BY <2>1
    <1>2. PICK t \in T : \A u \in T : <<u, t>> \notin R
        <2> HIDE DEF T, R
        <2>1. IsWellFoundedOn(R, Nat)
            BY NatLessThanWellFounded DEF R
        <2>2. QED
            BY <1>1, <2>1, WFMin
    <1>3. PICK k \in S : t = m - k
        BY <1>2
    <1>4. ASSUME NEW j \in S PROVE j <= k
        <2>1. m - j \in T /\ m - j \in Nat /\ t \in Nat
            BY <1>1
        <2>2. ~(m - j < t)
            <3>1. <<m - j, t>> \notin R
                BY <1>2, <2>1
            <3>2. QED
                BY <2>1, <3>1 DEF OpToRel
        <2>3. QED
            BY <1>3, <2>2
    <1>5. QED
        BY <1>3, <1>4

LEMMA RowFields ==
    ASSUME NEW check \in CheckRow
    PROVE  /\ Count(check) \in Nat /\ DOMAIN check.attempts = 1 .. Count(check)
           /\ check.attempts \in Seq(AttemptRow)
           /\ \A n \in 1 .. Count(check) :
                  /\ check.attempts[n] \in AttemptRow
                  /\ check.attempts[n].status \in AttemptStatus
                  /\ check.attempts[n].score \in -1 .. 100
    <1>1. check.attempts \in Seq(AttemptRow)
        BY DEF CheckRow
    <1>2. ASSUME NEW n \in 1 .. Count(check)
          PROVE  /\ check.attempts[n] \in AttemptRow
                 /\ check.attempts[n].status \in AttemptStatus
                 /\ check.attempts[n].score \in -1 .. 100
        <2>1. check.attempts[n] \in AttemptRow
            BY <1>1 DEF Count
        <2>2. \A row \in AttemptRow : row.status \in AttemptStatus /\ row.score \in Scores \cup {-1}
            BY DEF AttemptRow
        <2>3. Scores \cup {-1} \subseteq -1 .. 100
            BY ChecksAssumption
        <2>4. QED
            BY <2>1, <2>2, <2>3
    <1>3. QED
        BY <1>1, <1>2 DEF Count

LEMMA BestOf ==
    ASSUME NEW check \in CheckRow, Scored(check) # {}
    PROVE  LET best == BestAttempt(check)
           IN  /\ best \in 1 .. Count(check)
               /\ \A n \in 1 .. Count(check) : check.attempts[n].score <= check.attempts[best].score
    <1> DEFINE score(n) == check.attempts[n].score
               S == Scored(check)
               Top(n) == \A m \in S : score(m) <= score(n)
               Better(n) == \A m \in S : score(m) < score(n) \/ (score(m) = score(n) /\ m <= n)
    <1>1. /\ S \subseteq 1 .. Count(check) /\ Count(check) \in Nat
          /\ \A n \in 1 .. Count(check) : score(n) \in -1 .. 100
          /\ \A n \in S : score(n) \in 0 .. 100
          /\ \A n \in (1 .. Count(check)) \ S : score(n) = -1
        <2>1. /\ Count(check) \in Nat /\ DOMAIN check.attempts = 1 .. Count(check)
              /\ \A n \in 1 .. Count(check) : score(n) \in -1 .. 100
            BY RowFields
        <2>2. S = {n \in 1 .. Count(check) : score(n) >= 0}
            BY <2>1 DEF Scored
        <2>3. S \subseteq 1 .. Count(check) /\ \A n \in S : score(n) >= 0
            <3> HIDE DEF S, score
            <3>1. QED
                BY <2>2
        <2>4. ASSUME NEW n \in S PROVE score(n) \in 0 .. 100
            <3>1. score(n) \in -1 .. 100 /\ score(n) >= 0
                BY <2>1, <2>3
            <3> HIDE DEF S, score
            <3>2. QED
                BY <3>1
        <2>5. ASSUME NEW n \in (1 .. Count(check)) \ S PROVE score(n) = -1
            <3>1. score(n) \in -1 .. 100 /\ ~(score(n) >= 0)
                BY <2>1, <2>2
            <3> HIDE DEF S, score
            <3>2. QED
                BY <3>1
        <2>6. QED
            BY <2>1, <2>3, <2>4, <2>5
    <1>2. PICK top \in {score(n) : n \in S} : \A v \in {score(n) : n \in S} : v <= top
        <2> DEFINE V == {score(n) : n \in S}
        <2>1. V \subseteq 0 .. 100 /\ V # {} /\ 100 \in Nat
            BY <1>1
        <2> HIDE DEF V
        <2>2. \E k \in V : \A j \in V : j <= k
            BY <2>1, Greatest
        <2>3. QED
            BY <2>2 DEF V
    <1>3. PICK best \in {n \in S : score(n) = top} : \A n \in {k \in S : score(k) = top} : n <= best
        <2> DEFINE V == {n \in S : score(n) = top}
        <2>1. V \subseteq 0 .. Count(check) /\ V # {}
            BY <1>1, <1>2
        <2> HIDE DEF V
        <2>2. \E k \in V : \A j \in V : j <= k
            BY <1>1, <2>1, Greatest
        <2>3. QED
            BY <2>2 DEF V
    <1>4. best \in S /\ Better(best)
        <2>1. best \in S /\ score(best) = top
            BY <1>3
        <2>2. ASSUME NEW m \in S
              PROVE  score(m) < score(best) \/ (score(m) = score(best) /\ m <= best)
            <3>1. score(m) <= top /\ score(m) \in 0 .. 100 /\ top \in 0 .. 100
                BY <1>1, <1>2, <2>1
            <3>2. score(m) = top => m <= best
                BY <1>3
            <3> HIDE DEF S, score
            <3>3. QED
                BY <2>1, <3>1, <3>2
        <2>3. QED
            BY <2>1, <2>2
    <1>5. BestAttempt(check) = CHOOSE n \in S : Better(n)
        BY DEF BestAttempt
    <1>6. BestAttempt(check) \in S /\ Better(BestAttempt(check))
        <2> HIDE DEF S, Better
        <2>1. QED
            BY <1>4, <1>5
    <1>7. \A n \in 1 .. Count(check) : score(n) <= score(BestAttempt(check))
        <2>1. BestAttempt(check) \in 1 .. Count(check) /\ score(BestAttempt(check)) \in 0 .. 100
            BY <1>1, <1>6
        <2>2. \A n \in S : score(n) <= score(BestAttempt(check))
            <3>1. \A n \in S : \/ score(n) < score(BestAttempt(check))
                               \/ score(n) = score(BestAttempt(check)) /\ n <= BestAttempt(check)
                BY <1>6
            <3> HIDE DEF S, score
            <3>2. QED
                BY <1>1, <2>1, <3>1
        <2>3. QED
            BY <1>1, <2>1, <2>2
    <1>8. QED
        BY <1>1, <1>6, <1>7

LEMMA SameBest ==
    ASSUME NEW check, NEW new, new.attempts = check.attempts
    PROVE  BestAttempt(new) = BestAttempt(check)
    <1> DEFINE Of(S, list) == IF S = {} THEN 0
                              ELSE CHOOSE k \in S : \A m \in S :
                                      LET a == list[k].score
                                          b == list[m].score
                                      IN  b < a \/ (b = a /\ m <= k)
    <1>1. /\ BestAttempt(new) = Of(Scored(new), new.attempts)
          /\ BestAttempt(check) = Of(Scored(check), check.attempts)
        BY DEF BestAttempt
    <1>2. Scored(new) = Scored(check)
        BY DEF Scored
    <1> HIDE DEF Of
    <1>3. QED
        BY <1>1, <1>2

-----------------------------------------------------------------------------
(* Rows.                                                                   *)

LEMMA MarkedRow ==
    ASSUME NEW check \in CheckRow, NEW s \in AttemptStatus, Count(check) # 0
    PROVE  LET new == Marked(check, Count(check), s)
           IN  /\ new \in CheckRow /\ Count(new) = Count(check)
               /\ \A n \in 1 .. Count(check) - 1 : new.attempts[n] = check.attempts[n]
               /\ Last(new).status = s /\ Last(new).score = Last(check).score
               /\ new.status = check.status /\ new.purpose = check.purpose
               /\ new.failures = check.failures /\ new.best = check.best
    <1> DEFINE k == Count(check)
               new == Marked(check, k, s)
               one == [check.attempts[k] EXCEPT !.status = s]
    <1>1. k \in 1 .. Len(check.attempts) /\ check.attempts \in Seq(AttemptRow)
        BY DEF CheckRow, Count
    <1>2. one \in AttemptRow /\ one.status = s /\ one.score = check.attempts[k].score
        <2>1. check.attempts[k] \in AttemptRow
            BY <1>1
        <2>2. QED
            BY <2>1 DEF AttemptRow
    <1>3. new = [check EXCEPT !.attempts = [check.attempts EXCEPT ![k] = one]]
        BY DEF Marked
    <1>4. /\ [check.attempts EXCEPT ![k] = one] \in Seq(AttemptRow)
          /\ Len([check.attempts EXCEPT ![k] = one]) = Len(check.attempts)
          /\ [check.attempts EXCEPT ![k] = one][k] = one
          /\ \A n \in 1 .. k - 1 : [check.attempts EXCEPT ![k] = one][n] = check.attempts[n]
        <2> HIDE DEF one, new
        <2>1. QED
            BY <1>1, <1>2
    <1>5. /\ new \in CheckRow /\ new.attempts = [check.attempts EXCEPT ![k] = one]
          /\ new.status = check.status /\ new.purpose = check.purpose
          /\ new.failures = check.failures /\ new.best = check.best
        <2> DEFINE list == [check.attempts EXCEPT ![k] = one]
        <2>1. list \in Seq(AttemptRow) /\ new = [check EXCEPT !.attempts = list]
            BY <1>3, <1>4
        <2> HIDE DEF list, new, one
        <2>2. QED
            BY <2>1 DEF CheckRow, list
    <1>6. QED
        BY <1>1, <1>2, <1>4, <1>5 DEF Count, Last

LEMMA LiveFacts ==
    ASSUME NEW check, NEW of, NEW rest, NEW doing, Fits(check, of, rest, doing), Live(check)
    PROVE  /\ Last(check).score = -1 /\ check.best = 0 /\ rest = << >>
           /\ Last(check).status \in {"composing", "ready", "generating", "evaluating"}
           /\ check.status = "composing" <=> Last(check).status \in {"composing", "ready"}
           /\ check.status # "composing" => check.status = Last(check).status
           /\ Count(check) \in 1 .. MaxAttempts /\ Count(check) # 0 /\ check \in CheckRow
           /\ Len(of) \in {Count(check) - 1, Count(check)}
           /\ Len(of) = IF check.status = "composing" THEN Count(check) - 1 ELSE Count(check)
    BY DEF Fits, Live, LastFits, ImagesFit, ExtraFits, MissedSoFar, ActiveCheck

(* A check whose last attempt ends without a score.                        *)
LEMMA GivenUp ==
    ASSUME NEW check, NEW of, NEW rest, NEW doing, Fits(check, of, rest, doing), Live(check),
           NEW word \in {"failed", "stopped"}, NEW new \in CheckRow, NEW next \in Task,
           next.kind = "none" => next = NoTask,
           Count(new) = Count(check), new.status = word, new.best = check.best,
           \A n \in 1 .. Count(check) - 1 : new.attempts[n] = check.attempts[n],
           Last(new).status = word, Last(new).score = Last(check).score
    PROVE  Fits(new, of, rest, next)
    <1>1. MissedSoFar(new)
        BY DEF Fits, MissedSoFar
    <1>2. LastFits(new)
        BY LiveFacts DEF LastFits
    <1>3. ImagesFit(new, of)
        BY LiveFacts DEF ImagesFit
    <1>4. ExtraFits(new, rest) /\ TaskFits(new, next)
        BY LiveFacts DEF ExtraFits, TaskFits, Live, ActiveCheck
    <1>5. QED
        BY <1>1, <1>2, <1>3, <1>4 DEF Fits

LEMMA FailedFits ==
    ASSUME NEW check, NEW of, NEW rest, NEW doing, Fits(check, of, rest, doing), Live(check),
           NEW next \in Task, next.kind = "none" => next = NoTask
    PROVE  Fits(FailedCheck(check), of, rest, next)
    <1> DEFINE marked == Marked(check, Count(check), "failed")
               new == FailedCheck(check)
    <1>1. /\ marked \in CheckRow /\ Count(marked) = Count(check)
          /\ \A n \in 1 .. Count(check) - 1 : marked.attempts[n] = check.attempts[n]
          /\ Last(marked).status = "failed" /\ Last(marked).score = Last(check).score
          /\ marked.best = check.best
        BY LiveFacts, MarkedRow DEF AttemptStatus
    <1>2. new = [marked EXCEPT !.status = "failed"]
        BY DEF FailedCheck, Count
    <1> HIDE DEF marked, new
    <1>3. new \in CheckRow /\ new.status = "failed" /\ new.best = marked.best
          /\ new.attempts = marked.attempts
        BY <1>1, <1>2 DEF CheckRow
    <1>4. Fits(new, of, rest, next)
        BY <1>1, <1>3, GivenUp DEF Count, Last
    <1>5. QED
        BY <1>4 DEF new

LEMMA StoppedFits ==
    ASSUME NEW check, NEW of, NEW rest, NEW doing, Fits(check, of, rest, doing), Live(check),
           NEW next \in Task, next.kind = "none" => next = NoTask
    PROVE  Fits(Stopped(check), of, rest, next)
    <1> DEFINE ended(row) == IF row.status \in {"passed", "not_met", "failed"} THEN row
                             ELSE [row EXCEPT !.status = "stopped"]
               list == [n \in DOMAIN check.attempts |-> ended(check.attempts[n])]
               new == Stopped(check)
    <1>1. /\ check \in CheckRow /\ Count(check) \in Nat \ {0}
          /\ DOMAIN check.attempts = 1 .. Count(check)
          /\ \A n \in 1 .. Count(check) : check.attempts[n] \in AttemptRow
        BY LiveFacts, RowFields
    <1>2. ASSUME NEW row \in AttemptRow
          PROVE  /\ ended(row) \in AttemptRow /\ ended(row).score = row.score
                 /\ row.status = "not_met" => ended(row) = row
                 /\ row.status \in {"composing", "ready", "generating", "evaluating"} =>
                        ended(row).status = "stopped"
        BY DEF AttemptRow, AttemptStatus
    <1>3. /\ list \in Seq(AttemptRow) /\ Len(list) = Count(check)
          /\ \A n \in 1 .. Count(check) : list[n] = ended(check.attempts[n])
        <2>1. list = [n \in 1 .. Count(check) |-> ended(check.attempts[n])]
            BY <1>1
        <2>2. \A n \in 1 .. Count(check) : ended(check.attempts[n]) \in AttemptRow
            BY <1>1, <1>2
        <2> HIDE DEF ended, list
        <2>3. QED
            BY <1>1, <2>1, <2>2
    <1>4. new = [check EXCEPT !.status = "stopped", !.attempts = list]
        BY DEF Stopped
    <1>5. new \in CheckRow /\ new.status = "stopped" /\ new.best = check.best /\ new.attempts = list
        <2> HIDE DEF list, new
        <2>1. QED
            BY <1>1, <1>3, <1>4 DEF CheckRow
    <1>6. \A n \in 1 .. Count(check) - 1 : list[n] = check.attempts[n]
        <2>1. \A n \in 1 .. Count(check) - 1 : check.attempts[n].status = "not_met"
            BY DEF Fits, MissedSoFar, Missed
        <2> HIDE DEF ended, list
        <2>2. QED
            BY <1>1, <1>2, <1>3, <2>1
    <1>7. list[Count(check)].status = "stopped" /\ list[Count(check)].score = Last(check).score
        <2>1. Last(check).status \in {"composing", "ready", "generating", "evaluating"}
            BY LiveFacts
        <2> HIDE DEF ended, list
        <2>2. QED
            BY <1>1, <1>2, <1>3, <2>1 DEF Last
    <1> HIDE DEF list, new, ended
    <1>8. Fits(new, of, rest, next)
        BY <1>3, <1>5, <1>6, <1>7, GivenUp DEF Count, Last
    <1>9. QED
        BY <1>8 DEF new

-----------------------------------------------------------------------------
(* A step of one check.                                                    *)

LEMMA SameAt ==
    ASSUME NEW S, NEW s \in Seq(S), NEW c \in DOMAIN s
    PROVE  s = [s EXCEPT ![c] = s[c]]
    OBVIOUS

LEMMA ExceptAt ==
    ASSUME NEW S, NEW s \in Seq(S), NEW c \in DOMAIN s, NEW v \in S
    PROVE  LET t == [s EXCEPT ![c] = v]
           IN  /\ t \in Seq(S) /\ Len(t) = Len(s) /\ DOMAIN t = DOMAIN s /\ t[c] = v
               /\ \A d \in DOMAIN s : d # c => t[d] = s[d]
    OBVIOUS

LEMMA OneChange ==
    ASSUME ChecksInv, NEW c \in DOMAIN checks, NEW check, NEW of, NEW rest, NEW doing,
           Fits(check, of, rest, doing),
           checks' = [checks EXCEPT ![c] = check], images' = [images EXCEPT ![c] = of],
           extra' = [extra EXCEPT ![c] = rest], steps' = [steps EXCEPT ![c] = doing],
           automatic' = automatic,
           Live(check) => Running(c),
           ~Running(c) => check = checks[c] /\ Len(of) = Len(images[c]) /\ rest = extra[c]
    PROVE  ChecksInv' /\ EndedStep
    <1>1. SameLength /\ c \in DOMAIN images /\ c \in DOMAIN extra /\ c \in DOMAIN steps
        BY DEF ChecksInv, SameLength
    <1>2. check \in CheckRow /\ of \in Seq(Image) /\ rest \in Seq(Nat) /\ doing \in Task
        BY DEF Fits
    <1>3. /\ checks' \in Seq(CheckRow) /\ Len(checks') = Len(checks) /\ checks'[c] = check
          /\ DOMAIN checks' = DOMAIN checks
          /\ \A d \in DOMAIN checks : d # c => checks'[d] = checks[d]
        BY <1>1, <1>2, ExceptAt DEF SameLength
    <1>4. /\ images' \in Seq(Seq(Image)) /\ Len(images') = Len(images) /\ images'[c] = of
          /\ \A d \in DOMAIN images : d # c => images'[d] = images[d]
        BY <1>1, <1>2, ExceptAt DEF SameLength
    <1>5. /\ extra' \in Seq(Seq(Nat)) /\ Len(extra') = Len(extra) /\ extra'[c] = rest
          /\ \A d \in DOMAIN extra : d # c => extra'[d] = extra[d]
        BY <1>1, <1>2, ExceptAt DEF SameLength
    <1>6. /\ steps' \in Seq(Task) /\ Len(steps') = Len(steps) /\ steps'[c] = doing
          /\ \A d \in DOMAIN steps : d # c => steps'[d] = steps[d]
        BY <1>1, <1>2, ExceptAt DEF SameLength
    <1>7. SameLength'
        BY <1>1, <1>3, <1>4, <1>5, <1>6 DEF SameLength
    <1>8. DOMAIN images = DOMAIN checks /\ DOMAIN extra = DOMAIN checks /\ DOMAIN steps = DOMAIN checks
        BY <1>1 DEF SameLength
    <1>9. ASSUME NEW d \in DOMAIN checks PROVE Fits(checks'[d], images'[d], extra'[d], steps'[d])
        <2>1. CASE d = c
            BY <1>3, <1>4, <1>5, <1>6, <2>1
        <2>2. CASE d # c
            BY <1>3, <1>4, <1>5, <1>6, <1>8, <2>2 DEF ChecksInv
        <2>3. QED
            BY <2>1, <2>2
    <1>10. NeverTogether'
        BY <1>3 DEF ChecksInv, NeverTogether, Running, Live
    <1>11. EndedStep
        BY <1>3, <1>4, <1>5, <1>8 DEF EndedStep
    <1>12. QED
        BY <1>3, <1>7, <1>9, <1>10, <1>11 DEF ChecksInv

LEMMA AtCheck ==
    ASSUME ChecksInv, NEW c \in DOMAIN checks
    PROVE  /\ Fits(checks[c], images[c], extra[c], steps[c])
           /\ checks[c] \in CheckRow /\ images[c] \in Seq(Image) /\ steps[c] \in Task
           /\ Running(c) <=> Live(checks[c])
           /\ Latest(c) = Count(checks[c])
           /\ checks = [checks EXCEPT ![c] = checks[c]]
           /\ images = [images EXCEPT ![c] = images[c]]
           /\ extra = [extra EXCEPT ![c] = extra[c]]
           /\ steps = [steps EXCEPT ![c] = steps[c]]
    <1>1. SameLength /\ c \in DOMAIN images /\ c \in DOMAIN extra /\ c \in DOMAIN steps
        BY DEF ChecksInv, SameLength
    <1>2. /\ checks = [checks EXCEPT ![c] = checks[c]]
          /\ images = [images EXCEPT ![c] = images[c]]
          /\ extra = [extra EXCEPT ![c] = extra[c]]
          /\ steps = [steps EXCEPT ![c] = steps[c]]
        BY <1>1, SameAt DEF SameLength
    <1>3. Fits(checks[c], images[c], extra[c], steps[c])
        BY DEF ChecksInv
    <1>4. QED
        BY <1>2, <1>3 DEF Fits, Running, Live, Latest, Count

LEMMA TaskTypes ==
    /\ NoTask \in Task /\ NoTask.kind = "none"
    /\ \A doing \in Task : doing.kind \in {"none", "compose", "probe", "evaluate"}
    BY ChecksAssumption DEF NoTask, Task

(* A task may start for what the last attempt waits for, or go.            *)
LEMMA TaskStarts ==
    ASSUME NEW check, NEW of, NEW rest, NEW doing, Fits(check, of, rest, doing), Live(check),
           NEW kind \in {"compose", "probe", "evaluate"},
           kind = "compose" => Last(check).status = "composing",
           kind = "probe" => Last(check).status = "ready",
           kind = "evaluate" => Last(check).status = "evaluating"
    PROVE  Fits(check, of, rest, [kind |-> kind, attempt |-> Count(check)])
    <1>1. Count(check) \in 0 .. MaxAttempts
        BY LiveFacts, ChecksAssumption
    <1>2. QED
        BY <1>1 DEF Fits, TaskFits, Task, NoTask

LEMMA AnsweredTask ==
    ASSUME NEW check, NEW of, NEW rest, NEW doing, Fits(check, of, rest, doing)
    PROVE  Fits(check, of, rest, NoTask)
    BY TaskTypes DEF Fits, TaskFits

LEMMA LoadStep ==
    ASSUME ChecksInv, NEW c \in DOMAIN checks, Load(c)
    PROVE  ChecksInv' /\ EndedStep
    <1> DEFINE check == checks[c]
               last == Last(check)
    <1>1. /\ Fits(check, images[c], extra[c], steps[c]) /\ Live(check) /\ Running(c)
          /\ steps[c] = NoTask /\ images' = [images EXCEPT ![c] = images[c]]
          /\ extra' = [extra EXCEPT ![c] = extra[c]] /\ automatic' = automatic
          /\ Latest(c) = Count(check)
        BY AtCheck DEF Load
    <1>2. checks[c].attempts[Latest(c)].status = last.status
        BY <1>1 DEF Last
    <1>3. ASSUME checks' = [checks EXCEPT ![c] = Stopped(@)] \/ checks' = [checks EXCEPT ![c] = FailedCheck(@)],
                 UNCHANGED steps
          PROVE  ChecksInv' /\ EndedStep
        <2>1. /\ Fits(Stopped(check), images[c], extra[c], steps[c])
              /\ Fits(FailedCheck(check), images[c], extra[c], steps[c])
            BY <1>1, StoppedFits, FailedFits, TaskTypes
        <2>2. steps' = [steps EXCEPT ![c] = steps[c]]
            BY <1>3, AtCheck
        <2>3. PICK new \in {Stopped(check), FailedCheck(check)} : checks' = [checks EXCEPT ![c] = new]
            BY <1>3
        <2>4. QED
            BY <1>1, <2>1, <2>2, <2>3, OneChange
    <1>4. ASSUME NEW kind \in {"compose", "probe", "evaluate"}, Step(c, kind), UNCHANGED checks,
                 kind = "compose" => last.status = "composing",
                 kind = "probe" => last.status = "ready",
                 kind = "evaluate" => last.status = "evaluating"
          PROVE  ChecksInv' /\ EndedStep
        <2> DEFINE doing == [kind |-> kind, attempt |-> Count(check)]
        <2>1. Fits(check, images[c], extra[c], doing)
            BY <1>1, <1>4, TaskStarts
        <2>2. steps' = [steps EXCEPT ![c] = doing] /\ checks' = [checks EXCEPT ![c] = check]
            BY <1>1, <1>4, AtCheck DEF Step
        <2> HIDE DEF doing
        <2>3. QED
            BY <1>1, <2>1, <2>2, OneChange
    <1>5. CASE last.status = "composing" /\ Step(c, "compose") /\ checks' = [checks EXCEPT ![c].status = "composing"]
        <2>1. check.status = "composing" /\ check \in CheckRow
            BY <1>1, <1>5, LiveFacts
        <2>2. [check EXCEPT !.status = "composing"] = check
            BY <2>1 DEF CheckRow
        <2>3. checks' = [checks EXCEPT ![c] = [check EXCEPT !.status = "composing"]]
            BY <1>5
        <2>4. UNCHANGED checks
            BY <2>2, <2>3, AtCheck
        <2>5. QED
            BY <1>4, <1>5, <2>4
    <1>6. CASE last.status = "generating" /\ LoadDone(c)
        <2> DEFINE marked == Marked(check, Count(check), "evaluating")
                   new == [marked EXCEPT !.status = "evaluating"]
                   doing == [kind |-> "evaluate", attempt |-> Count(check)]
        <2>1. /\ marked \in CheckRow /\ Count(marked) = Count(check)
              /\ \A n \in 1 .. Count(check) - 1 : marked.attempts[n] = check.attempts[n]
              /\ Last(marked).status = "evaluating" /\ Last(marked).score = last.score
              /\ marked.best = check.best
            <3>1. check \in CheckRow /\ Count(check) # 0 /\ "evaluating" \in AttemptStatus
                BY <1>1, LiveFacts DEF AttemptStatus
            <3>2. QED
                BY <3>1, MarkedRow
        <2>2. /\ new \in CheckRow /\ new.status = "evaluating" /\ new.best = check.best
              /\ new.attempts = marked.attempts
            <3> HIDE DEF marked
            <3>1. QED
                BY <2>1 DEF CheckRow, ActiveCheck
        <2>3. checks' = [checks EXCEPT ![c] = new] /\ steps' = [steps EXCEPT ![c] = doing]
            BY <1>1, <1>6 DEF LoadDone, Step
        <2> HIDE DEF marked, new
        <2>4. Count(new) = Count(check) /\ Last(new).status = "evaluating" /\ Last(new).score = -1
            BY <1>1, <2>1, <2>2, LiveFacts DEF Count, Last
        <2>5. Fits(new, images[c], extra[c], doing)
            <3>1. MissedSoFar(new)
                BY <1>1, <2>1, <2>2, <2>4 DEF Fits, MissedSoFar
            <3>2. LastFits(new)
                BY <1>1, <2>2, <2>4, LiveFacts DEF LastFits
            <3>3. ImagesFit(new, images[c])
                BY <1>1, <1>6, <2>2, <2>4, LiveFacts DEF ImagesFit
            <3>4. ExtraFits(new, extra[c])
                BY <1>1, LiveFacts DEF ExtraFits
            <3>5. TaskFits(new, doing) /\ doing \in Task
                BY <1>1, <2>4, LiveFacts, ChecksAssumption DEF TaskFits, Task
            <3>6. QED
                BY <1>1, <2>2, <3>1, <3>2, <3>3, <3>4, <3>5 DEF Fits
        <2> HIDE DEF doing
        <2>6. QED
            BY <1>1, <2>3, <2>5, OneChange
    <1>7. QED
        BY <1>2, <1>3, <1>4, <1>5, <1>6 DEF Load, LoadImage

LEMMA ComposedStep ==
    ASSUME ChecksInv, NEW c \in DOMAIN checks, Composed(c)
    PROVE  ChecksInv' /\ EndedStep
    <1> DEFINE check == checks[c]
    <1>1. /\ Fits(check, images[c], extra[c], steps[c])
          /\ steps' = [steps EXCEPT ![c] = NoTask] /\ images' = [images EXCEPT ![c] = images[c]]
          /\ extra' = [extra EXCEPT ![c] = extra[c]] /\ automatic' = automatic
          /\ Running(c) <=> Live(check)
        BY AtCheck DEF Composed, Ends
    <1>2. CASE ~Expects(c, "compose", "composing")
        <2>1. checks' = [checks EXCEPT ![c] = check]
            BY <1>2, AtCheck DEF Composed
        <2>2. QED
            BY <1>1, <2>1, AnsweredTask, OneChange
    <1>3. CASE Expects(c, "compose", "composing")
        <2> DEFINE marked == Marked(check, Count(check), "ready")
                   new == [marked EXCEPT !.failures = 0]
        <2>1. Live(check) /\ steps[c] # NoTask /\ steps[c].kind = "compose"
            BY <1>1, <1>3, TaskTypes DEF Expects
        <2>2. steps[c].attempt = Count(check) /\ Last(check).status = "composing"
            BY <1>1, <2>1 DEF Fits, TaskFits
        <2>3. /\ marked \in CheckRow /\ Count(marked) = Count(check)
              /\ \A n \in 1 .. Count(check) - 1 : marked.attempts[n] = check.attempts[n]
              /\ Last(marked).status = "ready" /\ Last(marked).score = Last(check).score
              /\ marked.best = check.best /\ marked.status = check.status
            <3>1. check \in CheckRow /\ Count(check) # 0 /\ "ready" \in AttemptStatus
                BY <1>1, <2>1, LiveFacts DEF AttemptStatus
            <3>2. QED
                BY <3>1, MarkedRow
        <2>4. /\ new \in CheckRow /\ new.status = check.status /\ new.best = check.best
              /\ new.attempts = marked.attempts
            <3> HIDE DEF marked
            <3>1. QED
                BY <2>3, ChecksAssumption DEF CheckRow
        <2>5. checks' = [checks EXCEPT ![c] = new]
            BY <1>3, <2>2 DEF Composed
        <2> HIDE DEF marked, new
        <2>6. Count(new) = Count(check) /\ Last(new).status = "ready" /\ Last(new).score = -1
            BY <1>1, <2>1, <2>3, <2>4, LiveFacts DEF Count, Last
        <2>7. Fits(new, images[c], extra[c], NoTask)
            <3>1. MissedSoFar(new)
                BY <1>1, <2>3, <2>4, <2>6 DEF Fits, MissedSoFar
            <3>2. check.status = "composing"
                BY <1>1, <2>1, <2>2, LiveFacts
            <3>3. LastFits(new)
                BY <1>1, <2>1, <2>4, <2>6, <3>2, LiveFacts DEF LastFits
            <3>4. ImagesFit(new, images[c])
                BY <1>1, <2>4, <2>6, <3>2 DEF ImagesFit, Fits
            <3>5. ExtraFits(new, extra[c])
                BY <1>1, <2>1, LiveFacts DEF ExtraFits
            <3>6. QED
                BY <1>1, <2>4, <3>1, <3>3, <3>4, <3>5, TaskTypes DEF Fits, TaskFits
        <2>8. QED
            BY <1>1, <2>1, <2>5, <2>7, OneChange
    <1>4. QED
        BY <1>2, <1>3

LEMMA ProbeStep ==
    ASSUME ChecksInv, NEW c \in DOMAIN checks, Probe(c)
    PROVE  ChecksInv' /\ EndedStep
    <1> DEFINE check == checks[c]
    <1>1. /\ Fits(check, images[c], extra[c], steps[c])
          /\ steps' = [steps EXCEPT ![c] = NoTask]
          /\ extra' = [extra EXCEPT ![c] = extra[c]] /\ automatic' = automatic
          /\ Running(c) <=> Live(check)
        BY AtCheck DEF Probe, Ends
    <1>2. CASE ~(Expects(c, "probe", "ready") /\ open)
        <2>1. checks' = [checks EXCEPT ![c] = check] /\ images' = [images EXCEPT ![c] = images[c]]
            BY <1>2, AtCheck DEF Probe
        <2>2. QED
            BY <1>1, <2>1, AnsweredTask, OneChange
    <1>3. CASE Expects(c, "probe", "ready") /\ open
        <2> DEFINE marked == Marked(check, Count(check), "generating")
                   new == [marked EXCEPT !.status = "generating", !.failures = 0]
                   of == Append(images[c], "active")
        <2>1. Live(check) /\ steps[c] # NoTask /\ steps[c].kind = "probe"
            BY <1>1, <1>3, TaskTypes DEF Expects
        <2>2. steps[c].attempt = Count(check) /\ Last(check).status = "ready"
            BY <1>1, <2>1 DEF Fits, TaskFits
        <2>3. /\ marked \in CheckRow /\ Count(marked) = Count(check)
              /\ \A n \in 1 .. Count(check) - 1 : marked.attempts[n] = check.attempts[n]
              /\ Last(marked).status = "generating" /\ Last(marked).score = Last(check).score
              /\ marked.best = check.best
            <3>1. check \in CheckRow /\ Count(check) # 0 /\ "generating" \in AttemptStatus
                BY <1>1, <2>1, LiveFacts DEF AttemptStatus
            <3>2. QED
                BY <3>1, MarkedRow
        <2>4. /\ new \in CheckRow /\ new.status = "generating" /\ new.best = check.best
              /\ new.attempts = marked.attempts
            <3>1. 0 \in 0 .. MaxFailures - 1
                BY ChecksAssumption
            <3> HIDE DEF marked
            <3>2. QED
                BY <2>3, <3>1 DEF CheckRow, ActiveCheck
        <2>5. checks' = [checks EXCEPT ![c] = new] /\ images' = [images EXCEPT ![c] = of]
            BY <1>3, <2>2 DEF Probe
        <2>6. of \in Seq(Image) /\ Len(of) = Len(images[c]) + 1
            BY <1>1 DEF Fits, Image
        <2> HIDE DEF marked, new, of
        <2>7. Count(new) = Count(check) /\ Last(new).status = "generating" /\ Last(new).score = -1
            BY <1>1, <2>1, <2>3, <2>4, LiveFacts DEF Count, Last
        <2>8. Fits(new, of, extra[c], NoTask)
            <3>1. MissedSoFar(new)
                BY <1>1, <2>3, <2>4, <2>7 DEF Fits, MissedSoFar
            <3>2. check.status = "composing" /\ Len(images[c]) = Count(check) - 1
                BY <1>1, <2>1, <2>2, LiveFacts
            <3>3. LastFits(new)
                BY <1>1, <2>1, <2>4, <2>7, LiveFacts DEF LastFits
            <3>4. ImagesFit(new, of)
                BY <2>4, <2>6, <2>7, <3>1, <3>2 DEF ImagesFit, MissedSoFar
            <3>5. ExtraFits(new, extra[c])
                BY <1>1, <2>1, LiveFacts DEF ExtraFits
            <3>6. QED
                BY <1>1, <2>4, <2>6, <3>1, <3>3, <3>4, <3>5, TaskTypes DEF Fits, TaskFits
        <2>9. QED
            BY <1>1, <2>1, <2>5, <2>8, OneChange
    <1>4. QED
        BY <1>2, <1>3

(* An attempt gets its score: what both outcomes begin with.               *)
ScoredAs(check, score, s) ==
    Marked([check EXCEPT !.attempts[Count(check)].score = score, !.failures = 0], Count(check), s)

LEMMA ScoredRow ==
    ASSUME NEW check \in CheckRow, NEW score \in Scores, NEW s \in AttemptStatus, Count(check) # 0
    PROVE  LET n == Count(check)
               marked == ScoredAs(check, score, s)
           IN  /\ marked \in CheckRow /\ Count(marked) = n
               /\ \A k \in 1 .. n - 1 : marked.attempts[k] = check.attempts[k]
               /\ Last(marked).status = s /\ Last(marked).score = score
               /\ marked.purpose = check.purpose /\ marked.best = check.best
    <1> DEFINE n == Count(check)
               one == [check.attempts[n] EXCEPT !.score = score]
               list == [check.attempts EXCEPT ![n] = one]
               scored == [check EXCEPT !.attempts[n].score = score, !.failures = 0]
    <1>1. n \in 1 .. Len(check.attempts) /\ check.attempts \in Seq(AttemptRow)
          /\ check.attempts[n] \in AttemptRow
        BY RowFields DEF Count
    <1>2. one \in AttemptRow /\ one.score = score
        BY <1>1 DEF AttemptRow
    <1>3. /\ list \in Seq(AttemptRow) /\ Len(list) = Len(check.attempts) /\ list[n] = one
          /\ \A k \in 1 .. n - 1 : list[k] = check.attempts[k]
        <2> HIDE DEF one
        <2>1. QED
            BY <1>1, <1>2
    <1>4. scored = [check EXCEPT !.attempts = list, !.failures = 0]
        OBVIOUS
    <1>5. /\ scored \in CheckRow /\ scored.attempts = list
          /\ scored.purpose = check.purpose /\ scored.best = check.best
        <2>1. 0 \in 0 .. MaxFailures - 1
            BY ChecksAssumption
        <2> HIDE DEF list, scored
        <2>2. QED
            BY <1>3, <1>4, <2>1 DEF CheckRow
    <1>6. Count(scored) = n
        BY <1>3, <1>5 DEF Count
    <1> HIDE DEF scored, list
    <1>7. LET marked == Marked(scored, Count(scored), s)
          IN  /\ marked \in CheckRow /\ Count(marked) = n
              /\ \A k \in 1 .. n - 1 : marked.attempts[k] = scored.attempts[k]
              /\ Last(marked).status = s /\ Last(marked).score = Last(scored).score
              /\ marked.purpose = scored.purpose /\ marked.best = scored.best
        BY <1>1, <1>5, <1>6, MarkedRow
    <1>8. Last(scored).score = score /\ \A k \in 1 .. n - 1 : scored.attempts[k] = check.attempts[k]
        BY <1>2, <1>3, <1>5, <1>6 DEF Last
    <1>9. QED
        BY <1>5, <1>6, <1>7, <1>8 DEF scored, ScoredAs

LEMMA PassingFits ==
    ASSUME NEW check, NEW of, NEW rest, NEW doing, Fits(check, of, rest, doing), Live(check),
           Last(check).status = "evaluating", NEW score \in Scores, score >= Threshold,
           NEW new, new = Passing([check EXCEPT !.attempts[Count(check)].score = score, !.failures = 0],
                                  Count(check)),
           NEW next, next = << >> \/ (check.purpose = "generate" /\ next = <<Count(check)>>)
    PROVE  Fits(new, of, next, NoTask) /\ ~Live(new)
    <1> DEFINE n == Count(check)
               marked == ScoredAs(check, score, "passed")
    <1>1. check \in CheckRow /\ n \in Nat \ {0} /\ "passed" \in AttemptStatus
        BY LiveFacts, RowFields DEF AttemptStatus
    <1>2. /\ marked \in CheckRow /\ Count(marked) = n
          /\ \A k \in 1 .. n - 1 : marked.attempts[k] = check.attempts[k]
          /\ Last(marked).status = "passed" /\ Last(marked).score = score
          /\ marked.purpose = check.purpose
        BY <1>1, ScoredRow
    <1>3. new = [marked EXCEPT !.status = "passed", !.best = n]
        BY DEF Passing, ScoredAs
    <1> HIDE DEF marked
    <1>4. /\ new \in CheckRow /\ new.status = "passed" /\ new.best = n
          /\ new.attempts = marked.attempts /\ new.purpose = check.purpose
        BY <1>1, <1>2, <1>3 DEF CheckRow
    <1>5. Count(new) = n /\ Last(new).status = "passed" /\ Last(new).score = score
        BY <1>2, <1>4 DEF Count, Last
    <1>6. MissedSoFar(new)
        BY <1>2, <1>4, <1>5 DEF Fits, MissedSoFar
    <1>7. LastFits(new)
        BY <1>4, <1>5 DEF LastFits
    <1>8. ImagesFit(new, of)
        BY <1>4, <1>5, LiveFacts DEF ImagesFit
    <1>9. ExtraFits(new, next) /\ next \in Seq(Nat)
        <2>1. n \in Nat /\ <<n>> \in Seq(Nat) /\ << >> \in Seq(Nat)
            BY <1>1
        <2>2. QED
            BY <1>4, <1>5, <2>1 DEF ExtraFits
    <1>10. TaskFits(new, NoTask) /\ ~Live(new)
        BY <1>4 DEF TaskFits, Live, ActiveCheck
    <1>11. QED
        BY <1>4, <1>6, <1>7, <1>8, <1>9, <1>10, TaskTypes DEF Fits

(* The attempts a check that was not met has are all scored.               *)
LEMMA NotMetBest ==
    ASSUME NEW check \in CheckRow, Count(check) # 0,
           \A n \in 1 .. Count(check) : Missed(check.attempts[n])
    PROVE  BestAttempt(check) \in 1 .. Count(check)
    <1>1. 1 \in Scored(check)
        <2>1. Count(check) \in Nat /\ DOMAIN check.attempts = 1 .. Count(check)
            BY RowFields
        <2>2. check.attempts[1].score >= 0
            BY <2>1, ChecksAssumption DEF Missed
        <2>3. QED
            BY <2>1, <2>2 DEF Scored
    <1>2. QED
        BY <1>1, BestOf

LEMMA MissingFits ==
    ASSUME NEW check, NEW of, NEW rest, NEW doing, Fits(check, of, rest, doing), Live(check),
           Last(check).status = "evaluating", NEW score \in Scores, score < Threshold,
           NEW new, new = Missing([check EXCEPT !.attempts[Count(check)].score = score, !.failures = 0],
                                  Count(check))
    PROVE  Fits(new, of, rest, NoTask)
    <1> DEFINE n == Count(check)
               marked == ScoredAs(check, score, "not_met")
    <1>1. check \in CheckRow /\ n \in Nat \ {0} /\ "not_met" \in AttemptStatus
          /\ score \in 0 .. Threshold - 1
        <2>1. check \in CheckRow /\ n \in Nat \ {0} /\ "not_met" \in AttemptStatus
            BY LiveFacts, RowFields DEF AttemptStatus
        <2>2. score \in 0 .. 100 /\ Threshold \in Nat
            BY ChecksAssumption
        <2>3. QED
            BY <2>1, <2>2
    <1>2. /\ marked \in CheckRow /\ Count(marked) = n
          /\ \A k \in 1 .. n - 1 : marked.attempts[k] = check.attempts[k]
          /\ Last(marked).status = "not_met" /\ Last(marked).score = score
          /\ marked.best = check.best
        BY <1>1, ScoredRow
    <1>3. new = IF n >= MaxAttempts
                THEN [marked EXCEPT !.status = "not_met", !.best = BestAttempt(marked)]
                ELSE [marked EXCEPT !.status = "composing", !.attempts = Append(@, Attempt("composing"))]
        BY DEF Missing, ScoredAs
    <1> HIDE DEF marked
    <1>4. \A k \in 1 .. n : Missed(marked.attempts[k])
        <2>1. \A k \in 1 .. n - 1 : Missed(check.attempts[k])
            BY DEF Fits, MissedSoFar
        <2>2. Missed(marked.attempts[n])
            BY <1>1, <1>2 DEF Last, Missed
        <2>3. QED
            BY <1>1, <1>2, <2>1, <2>2
    <1>5. Len(of) = n /\ rest = << >> /\ check.best = 0 /\ n \in 1 .. MaxAttempts
        BY LiveFacts
    <1>6. CASE n >= MaxAttempts
        <2>1. BestAttempt(marked) \in 1 .. n
            BY <1>1, <1>2, <1>4, NotMetBest
        <2>2. /\ new \in CheckRow /\ new.status = "not_met" /\ new.best = BestAttempt(marked)
              /\ new.attempts = marked.attempts
            <3> DEFINE best == BestAttempt(marked)
            <3>1. new = [marked EXCEPT !.status = "not_met", !.best = best] /\ best \in Nat
                BY <1>1, <1>3, <1>6, <2>1
            <3> HIDE DEF best
            <3>2. /\ new \in CheckRow /\ new.status = "not_met" /\ new.best = best
                  /\ new.attempts = marked.attempts
                BY <1>2, <3>1 DEF CheckRow
            <3>3. QED
                BY <3>2 DEF best
        <2>3. Count(new) = n /\ Last(new) = Last(marked) /\ BestAttempt(new) = BestAttempt(marked)
            <3>1. Count(new) = n /\ Last(new) = Last(marked)
                BY <1>2, <2>2 DEF Count, Last
            <3>2. BestAttempt(new) = BestAttempt(marked)
                BY <2>2, SameBest
            <3>3. QED
                BY <3>1, <3>2
        <2>4. MissedSoFar(new) /\ Missed(Last(new))
            BY <1>1, <1>2, <1>4, <1>5, <2>2, <2>3 DEF MissedSoFar, Last
        <2>5. LastFits(new)
            BY <1>2, <2>2, <2>3, <2>4 DEF LastFits
        <2>6. ImagesFit(new, of) /\ ExtraFits(new, rest) /\ TaskFits(new, NoTask)
            BY <1>5, <2>2, <2>3 DEF ImagesFit, ExtraFits, TaskFits, Live, ActiveCheck
        <2>7. QED
            BY <2>2, <2>4, <2>5, <2>6, TaskTypes DEF Fits
    <1>7. CASE ~(n >= MaxAttempts)
        <2> DEFINE list == Append(marked.attempts, Attempt("composing"))
        <2>1. Attempt("composing") \in AttemptRow
            BY DEF Attempt, AttemptRow, AttemptStatus
        <2>2. /\ list \in Seq(AttemptRow) /\ Len(list) = n + 1
              /\ list[n + 1] = Attempt("composing")
              /\ \A k \in 1 .. n : list[k] = marked.attempts[k]
            <3>1. marked.attempts \in Seq(AttemptRow) /\ Len(marked.attempts) = n
                BY <1>2, RowFields DEF Count
            <3>2. QED
                BY <1>1, <2>1, <3>1
        <2>3. new = [marked EXCEPT !.status = "composing", !.attempts = list]
            BY <1>3, <1>7
        <2> HIDE DEF list
        <2>4. /\ new \in CheckRow /\ new.status = "composing" /\ new.best = 0 /\ new.attempts = list
            BY <1>2, <1>5, <2>2, <2>3 DEF CheckRow, ActiveCheck
        <2>5. Count(new) = n + 1 /\ Last(new).status = "composing" /\ Last(new).score = -1
            BY <2>2, <2>4 DEF Count, Last, Attempt
        <2>6. MissedSoFar(new)
            <3>1. n + 1 \in 1 .. MaxAttempts
                BY <1>1, <1>5, <1>7, ChecksAssumption
            <3>2. QED
                BY <1>1, <1>4, <2>2, <2>4, <2>5, <3>1 DEF MissedSoFar
        <2>7. LastFits(new)
            BY <2>4, <2>5 DEF LastFits
        <2>8. ImagesFit(new, of) /\ ExtraFits(new, rest) /\ TaskFits(new, NoTask)
            BY <1>1, <1>5, <2>4, <2>5 DEF ImagesFit, ExtraFits, TaskFits
        <2>9. QED
            BY <2>4, <2>6, <2>7, <2>8, TaskTypes DEF Fits
    <1>8. QED
        BY <1>6, <1>7

LEMMA EvaluatedStep ==
    ASSUME ChecksInv, NEW c \in DOMAIN checks, Evaluated(c)
    PROVE  ChecksInv' /\ EndedStep
    <1> DEFINE check == checks[c]
               n == Count(check)
    <1>1. /\ Fits(check, images[c], extra[c], steps[c])
          /\ steps' = [steps EXCEPT ![c] = NoTask] /\ images' = [images EXCEPT ![c] = images[c]]
          /\ automatic' = automatic /\ (Running(c) <=> Live(check))
        BY AtCheck DEF Evaluated, Ends
    <1>2. CASE ~Expects(c, "evaluate", "evaluating")
        <2>1. checks' = [checks EXCEPT ![c] = check] /\ extra' = [extra EXCEPT ![c] = extra[c]]
            BY <1>2, AtCheck DEF Evaluated
        <2>2. QED
            BY <1>1, <2>1, AnsweredTask, OneChange
    <1>3. CASE Expects(c, "evaluate", "evaluating")
        <2>1. Live(check) /\ steps[c] # NoTask /\ steps[c].kind = "evaluate"
            BY <1>1, <1>3, TaskTypes DEF Expects
        <2>2. steps[c].attempt = n /\ Last(check).status = "evaluating" /\ extra[c] = << >>
            BY <1>1, <2>1, LiveFacts DEF Fits, TaskFits
        <2> DEFINE scored(score) == [check EXCEPT !.attempts[n].score = score, !.failures = 0]
        <2>3. PICK score \in Scores :
                  /\ checks' = [checks EXCEPT ![c] = IF score >= Threshold THEN Passing(scored(score), n)
                                                     ELSE Missing(scored(score), n)]
                  /\ extra' = QueueRemaining(c, n, score)
            BY <1>3, <2>2 DEF Evaluated
        <2> HIDE DEF scored
        <2>4. CASE score >= Threshold
            <3> DEFINE new == Passing(scored(score), n)
                       next == IF check.purpose = "generate" THEN <<n>> ELSE << >>
            <3>1. checks' = [checks EXCEPT ![c] = new]
                BY <2>3, <2>4
            <3>2. extra' = [extra EXCEPT ![c] = next]
                <4>1. CASE check.purpose = "generate"
                    <5>1. Append(extra[c], n) = <<n>>
                        BY <2>2
                    <5>2. extra' = [extra EXCEPT ![c] = Append(extra[c], n)]
                        BY <2>3, <2>4, <4>1 DEF QueueRemaining
                    <5>3. QED
                        BY <4>1, <5>1, <5>2
                <4>2. CASE check.purpose # "generate"
                    BY <2>2, <2>3, <4>2, AtCheck DEF QueueRemaining
                <4>3. QED
                    BY <4>1, <4>2
            <3>3. Fits(new, images[c], next, NoTask) /\ ~Live(new)
                BY <1>1, <2>1, <2>2, <2>4, PassingFits DEF scored
            <3> HIDE DEF new, next
            <3>4. QED
                BY <1>1, <2>1, <3>1, <3>2, <3>3, OneChange
        <2>5. CASE ~(score >= Threshold)
            <3> DEFINE new == Missing(scored(score), n)
            <3>1. checks' = [checks EXCEPT ![c] = new] /\ extra' = [extra EXCEPT ![c] = extra[c]]
                BY <2>3, <2>5, AtCheck DEF QueueRemaining
            <3>2. score < Threshold
                BY <2>5, ChecksAssumption
            <3>3. Fits(new, images[c], extra[c], NoTask)
                BY <1>1, <2>1, <2>2, <3>2, MissingFits DEF scored
            <3> HIDE DEF new
            <3>4. QED
                BY <1>1, <2>1, <3>1, <3>3, OneChange
        <2>6. QED
            BY <2>4, <2>5
    <1>4. QED
        BY <1>2, <1>3

LEMMA UnchangedStep ==
    ASSUME ChecksInv, NEW c \in DOMAIN checks, Unchanged(c)
    PROVE  ChecksInv' /\ EndedStep
    <1> DEFINE check == checks[c]
               n == Count(check)
               list == SubSeq(check.attempts, 1, n - 1)
               rest == [check EXCEPT !.attempts = list, !.status = "not_met"]
               best == BestAttempt(rest)
               new == [rest EXCEPT !.best = best]
    <1>1. /\ Fits(check, images[c], extra[c], steps[c]) /\ Latest(c) = n
          /\ steps' = [steps EXCEPT ![c] = NoTask] /\ images' = [images EXCEPT ![c] = images[c]]
          /\ extra' = [extra EXCEPT ![c] = extra[c]] /\ automatic' = automatic
          /\ steps[c].kind = "compose" /\ steps[c].attempt > 1 /\ (Running(c) <=> Live(check))
        BY AtCheck DEF Unchanged, Ends
    <1>2. CASE ~Running(c)
        <2>1. checks' = [checks EXCEPT ![c] = check]
            BY <1>2, AtCheck DEF Unchanged
        <2>2. QED
            BY <1>1, <2>1, AnsweredTask, OneChange
    <1>3. CASE Running(c)
        <2>1. Live(check) /\ steps[c] # NoTask
            BY <1>1, <1>3, TaskTypes
        <2>2. /\ n > 1 /\ n \in 1 .. MaxAttempts /\ Last(check).status = "composing"
              /\ check.status = "composing" /\ extra[c] = << >> /\ Len(images[c]) = n - 1
              /\ check \in CheckRow
            BY <1>1, <2>1, LiveFacts DEF Fits, TaskFits
        <2>3. checks' = [checks EXCEPT ![c] = new]
            BY <1>1, <1>3 DEF Unchanged
        <2>4. /\ list \in Seq(AttemptRow) /\ Len(list) = n - 1
              /\ \A k \in 1 .. n - 1 : list[k] = check.attempts[k]
            <3>1. check.attempts \in Seq(AttemptRow) /\ Len(check.attempts) = n
                BY <2>2, RowFields DEF Count
            <3>2. QED
                BY <2>2, <3>1
        <2>5. rest \in CheckRow /\ rest.attempts = list /\ rest.status = "not_met"
            <3> HIDE DEF list
            <3>1. QED
                BY <2>2, <2>4 DEF CheckRow
        <2>6. Count(rest) = n - 1 /\ \A k \in 1 .. n - 1 : Missed(rest.attempts[k])
            BY <1>1, <2>4, <2>5 DEF Count, Fits, MissedSoFar
        <2>7. best \in 1 .. n - 1
            <3> HIDE DEF rest
            <3>1. QED
                BY <2>2, <2>5, <2>6, NotMetBest
        <2>8. /\ new \in CheckRow /\ new.attempts = rest.attempts
              /\ new.status = "not_met" /\ new.best = best
            <3>1. best \in Nat /\ rest \in CheckRow /\ rest.status = "not_met"
                BY <2>2, <2>5, <2>7
            <3> HIDE DEF rest, best
            <3>2. QED
                BY <3>1 DEF CheckRow
        <2> HIDE DEF new, rest, list
        <2>9. Count(new) = n - 1 /\ BestAttempt(new) = best /\ Missed(Last(new)) /\ MissedSoFar(new)
            <3>1. Count(new) = n - 1
                BY <2>6, <2>8 DEF Count
            <3>2. BestAttempt(new) = best
                BY <2>8, SameBest DEF best
            <3>3. Missed(Last(new)) /\ MissedSoFar(new)
                <4>1. n - 1 \in 1 .. MaxAttempts /\ n - 1 \in 1 .. n - 1
                      /\ \A k \in 1 .. (n - 1) - 1 : k \in 1 .. n - 1
                    BY <2>2, ChecksAssumption
                <4>2. QED
                    BY <2>6, <2>8, <3>1, <4>1 DEF Last, MissedSoFar
            <3>4. QED
                BY <3>1, <3>2, <3>3
        <2>10. Fits(new, images[c], extra[c], NoTask) /\ ~Live(new)
            <3>1. LastFits(new)
                BY <2>8, <2>9 DEF LastFits, Missed
            <3>2. ImagesFit(new, images[c]) /\ ExtraFits(new, extra[c])
                BY <2>2, <2>8, <2>9 DEF ImagesFit, ExtraFits
            <3>3. ~Live(new) /\ TaskFits(new, NoTask)
                BY <2>8 DEF Live, TaskFits, ActiveCheck
            <3>4. QED
                BY <1>1, <2>8, <2>9, <3>1, <3>2, <3>3, TaskTypes DEF Fits
        <2>11. QED
            BY <1>1, <1>3, <2>3, <2>10, OneChange
    <1>4. QED
        BY <1>2, <1>3

LEMMA RecordErrorStep ==
    ASSUME ChecksInv, NEW c \in DOMAIN checks, RecordError(c)
    PROVE  ChecksInv' /\ EndedStep
    <1> DEFINE check == checks[c]
               again == [check EXCEPT !.failures = @ + 1]
    <1>1. /\ Fits(check, images[c], extra[c], steps[c])
          /\ steps' = [steps EXCEPT ![c] = NoTask] /\ images' = [images EXCEPT ![c] = images[c]]
          /\ extra' = [extra EXCEPT ![c] = extra[c]] /\ automatic' = automatic
          /\ (Running(c) <=> Live(check)) /\ check \in CheckRow
        BY AtCheck DEF RecordError, Ends
    <1>2. CASE ~Running(c)
        <2>1. checks' = [checks EXCEPT ![c] = check]
            BY <1>2, AtCheck DEF RecordError
        <2>2. QED
            BY <1>1, <2>1, AnsweredTask, OneChange
    <1>3. CASE Running(c) /\ checks' = [checks EXCEPT ![c] = FailedCheck(check)]
        <2>1. Fits(FailedCheck(check), images[c], extra[c], NoTask)
            BY <1>1, <1>3, FailedFits, TaskTypes
        <2>2. QED
            BY <1>1, <1>3, <2>1, OneChange
    <1>4. CASE Running(c) /\ check.failures + 1 < MaxFailures /\ checks' = [checks EXCEPT ![c] = again]
        <2>1. check.failures + 1 \in 0 .. MaxFailures - 1
            BY <1>1, <1>4, ChecksAssumption DEF CheckRow
        <2>2. /\ again \in CheckRow /\ again.attempts = check.attempts /\ again.status = check.status
              /\ again.best = check.best /\ again.purpose = check.purpose
            BY <1>1, <2>1 DEF CheckRow
        <2> HIDE DEF again
        <2>3. BestAttempt(again) = BestAttempt(check) /\ Count(again) = Count(check) /\ Last(again) = Last(check)
            BY <2>2, SameBest DEF Count, Last
        <2>4. MissedSoFar(again) /\ LastFits(again) /\ ImagesFit(again, images[c]) /\ ExtraFits(again, extra[c])
            BY <1>1, <2>2, <2>3 DEF Fits, MissedSoFar, LastFits, ImagesFit, ExtraFits
        <2>5. Fits(again, images[c], extra[c], NoTask)
            BY <1>1, <2>2, <2>4, TaskTypes DEF Fits, TaskFits
        <2>6. QED
            BY <1>1, <1>4, <2>5, OneChange
    <1>5. QED
        <2>1. \/ ~Running(c) \/ checks' = [checks EXCEPT ![c] = FailedCheck(check)]
              \/ check.failures + 1 < MaxFailures /\ checks' = [checks EXCEPT ![c] = again]
            BY DEF RecordError
        <2>2. QED
            BY <1>2, <1>3, <1>4, <2>1

LEMMA StopStep ==
    ASSUME ChecksInv, NEW c \in DOMAIN checks, StopCheck(c) \/ TaskCancelled(c)
    PROVE  ChecksInv' /\ EndedStep
    <1>1. /\ Fits(checks[c], images[c], extra[c], steps[c])
          /\ images' = [images EXCEPT ![c] = images[c]]
          /\ extra' = [extra EXCEPT ![c] = extra[c]] /\ automatic' = automatic
          /\ (Running(c) <=> Live(checks[c]))
        BY AtCheck DEF StopCheck, TaskCancelled
    <1>2. CASE StopCheck(c)
        <2>1. /\ checks' = [checks EXCEPT ![c] = Stopped(checks[c])]
              /\ steps' = [steps EXCEPT ![c] = steps[c]] /\ Running(c)
            BY <1>2, AtCheck DEF StopCheck
        <2>2. Fits(Stopped(checks[c]), images[c], extra[c], steps[c])
            BY <1>1, <2>1, StoppedFits DEF Fits, TaskFits
        <2>3. QED
            BY <1>1, <2>1, <2>2, OneChange
    <1>3. CASE TaskCancelled(c)
        <2>1. /\ checks' = [checks EXCEPT ![c] = checks[c]]
              /\ steps' = [steps EXCEPT ![c] = NoTask]
            BY <1>3, AtCheck DEF TaskCancelled
        <2>2. QED
            BY <1>1, <2>1, AnsweredTask, OneChange
    <1>4. QED
        BY <1>2, <1>3

LEMMA ImageStep ==
    ASSUME ChecksInv, NEW c \in DOMAIN checks, ImageEnds(c) \/ ImageDeleted(c)
    PROVE  ChecksInv' /\ EndedStep
    <1>1. /\ Fits(checks[c], images[c], extra[c], steps[c])
          /\ checks' = [checks EXCEPT ![c] = checks[c]] /\ steps' = [steps EXCEPT ![c] = steps[c]]
          /\ extra' = [extra EXCEPT ![c] = extra[c]] /\ automatic' = automatic
          /\ (Running(c) <=> Live(checks[c])) /\ images[c] \in Seq(Image)
        BY AtCheck DEF ImageEnds, ImageDeleted
    <1>2. PICK n \in DOMAIN images[c], word \in Image : images' = [images EXCEPT ![c][n] = word]
        BY DEF ImageEnds, ImageDeleted, Image
    <1> DEFINE of == [images[c] EXCEPT ![n] = word]
    <1>3. of \in Seq(Image) /\ Len(of) = Len(images[c])
        BY <1>1
    <1>4. images' = [images EXCEPT ![c] = of]
        BY <1>2
    <1> HIDE DEF of
    <1>5. Fits(checks[c], of, extra[c], steps[c])
        BY <1>1, <1>3 DEF Fits, ImagesFit
    <1>6. QED
        BY <1>1, <1>3, <1>4, <1>5, OneChange

-----------------------------------------------------------------------------
(* The other steps.                                                        *)

LEMMA AppendTo ==
    ASSUME NEW S, NEW s \in Seq(S), NEW v \in S
    PROVE  /\ Append(s, v) \in Seq(S) /\ Len(Append(s, v)) = Len(s) + 1
           /\ DOMAIN Append(s, v) = DOMAIN s \cup {Len(s) + 1}
           /\ Append(s, v)[Len(s) + 1] = v
           /\ \A d \in DOMAIN s : Append(s, v)[d] = s[d]
    OBVIOUS

LEMMA AcceptStep ==
    ASSUME ChecksInv, AcceptCheck
    PROVE  ChecksInv' /\ EndedStep
    <1> DEFINE k == Len(checks) + 1
    <1>1. SameLength
        BY DEF ChecksInv
    <1>2. PICK first \in {"ready", "composing"}, purpose \in {"compose", "generate"} :
              checks' = Append(checks, [status |-> "composing", purpose |-> purpose, failures |-> 0,
                                        best |-> 0, attempts |-> <<Attempt(first)>>])
        BY DEF AcceptCheck
    <1> DEFINE new == [status |-> "composing", purpose |-> purpose, failures |-> 0,
                       best |-> 0, attempts |-> <<Attempt(first)>>]
    <1>3. /\ images' = Append(images, << >>) /\ extra' = Append(extra, << >>)
          /\ steps' = Append(steps, NoTask) /\ UNCHANGED automatic /\ ~automatic
        BY DEF AcceptCheck
    <1>4. Attempt(first) \in AttemptRow /\ Attempt(first).status = first /\ Attempt(first).score = -1
        BY DEF Attempt, AttemptRow, AttemptStatus
    <1>5. new \in CheckRow /\ Count(new) = 1 /\ Last(new) = Attempt(first)
        <2>1. 0 \in 0 .. MaxFailures - 1 /\ <<Attempt(first)>> \in Seq(AttemptRow)
            BY <1>4, ChecksAssumption
        <2>2. QED
            BY <2>1 DEF CheckRow, ActiveCheck, Count, Last
    <1>6. << >> \in Seq(Image) /\ << >> \in Seq(Nat) /\ NoTask \in Task
        BY TaskTypes
    <1>7. Fits(new, << >>, << >>, NoTask)
        <2>1. MissedSoFar(new)
            BY <1>5, ChecksAssumption DEF MissedSoFar
        <2>2. LastFits(new) /\ ImagesFit(new, << >>) /\ ExtraFits(new, << >>) /\ TaskFits(new, NoTask)
            BY <1>4, <1>5 DEF LastFits, ImagesFit, ExtraFits, TaskFits
        <2>3. QED
            BY <1>5, <1>6, <2>1, <2>2 DEF Fits
    <1> HIDE DEF new
    <1>8. /\ checks' \in Seq(CheckRow) /\ Len(checks') = k /\ checks'[k] = new
          /\ DOMAIN checks' = DOMAIN checks \cup {k}
          /\ \A d \in DOMAIN checks : checks'[d] = checks[d]
        BY <1>1, <1>2, <1>5, AppendTo DEF SameLength, new
    <1>9. /\ images' \in Seq(Seq(Image)) /\ Len(images') = k /\ images'[k] = << >>
          /\ \A d \in DOMAIN checks : images'[d] = images[d]
        BY <1>1, <1>3, <1>6, AppendTo DEF SameLength
    <1>10. /\ extra' \in Seq(Seq(Nat)) /\ Len(extra') = k /\ extra'[k] = << >>
           /\ \A d \in DOMAIN checks : extra'[d] = extra[d]
        BY <1>1, <1>3, <1>6, AppendTo DEF SameLength
    <1>11. /\ steps' \in Seq(Task) /\ Len(steps') = k /\ steps'[k] = NoTask
           /\ \A d \in DOMAIN checks : steps'[d] = steps[d]
        BY <1>1, <1>3, <1>6, AppendTo DEF SameLength
    <1>12. ASSUME NEW d \in DOMAIN checks' PROVE Fits(checks'[d], images'[d], extra'[d], steps'[d])
        <2>1. CASE d = k
            BY <1>7, <1>8, <1>9, <1>10, <1>11, <2>1
        <2>2. CASE d \in DOMAIN checks
            BY <1>8, <1>9, <1>10, <1>11, <2>2 DEF ChecksInv
        <2>3. QED
            BY <1>8, <2>1, <2>2
    <1>13. NeverTogether'
        BY <1>3 DEF NeverTogether
    <1>14. EndedStep
        BY <1>8, <1>9, <1>10 DEF EndedStep
    <1>15. QED
        BY <1>3, <1>8, <1>9, <1>10, <1>11, <1>12, <1>13, <1>14 DEF ChecksInv, SameLength

LEMMA RestartStep ==
    ASSUME ChecksInv, Restart
    PROVE  ChecksInv' /\ EndedStep
    <1>1. /\ steps' = [c \in DOMAIN steps |-> NoTask]
          /\ UNCHANGED <<checks, images, extra, automatic>>
        BY DEF Restart
    <1>2. SameLength /\ DOMAIN steps = DOMAIN checks
        BY DEF ChecksInv, SameLength
    <1>3. steps' \in Seq(Task) /\ Len(steps') = Len(steps) /\ \A c \in DOMAIN checks : steps'[c] = NoTask
        <2>1. steps' = [c \in 1 .. Len(steps) |-> NoTask] /\ Len(steps) \in Nat
            BY <1>1, <1>2 DEF SameLength
        <2>2. QED
            BY <1>2, <2>1, TaskTypes
    <1>4. SameLength'
        BY <1>1, <1>2, <1>3 DEF SameLength
    <1>5. \A c \in DOMAIN checks' : Fits(checks'[c], images'[c], extra'[c], steps'[c])
        BY <1>1, <1>3, AnsweredTask DEF ChecksInv
    <1>6. NeverTogether' /\ EndedStep
        BY <1>1 DEF ChecksInv, NeverTogether, Running, EndedStep
    <1>7. QED
        BY <1>1, <1>4, <1>5, <1>6 DEF ChecksInv

LEMMA AccountStep ==
    ASSUME ChecksInv, Automate \/ CloseAccount \/ UNCHANGED checkVars
    PROVE  ChecksInv' /\ EndedStep
    <1>1. /\ UNCHANGED <<checks, images, extra, steps>> /\ automatic' \in BOOLEAN
          /\ automatic' => \A c \in DOMAIN checks : ~Running(c)
        <2>1. automatic \in BOOLEAN /\ (automatic => \A c \in DOMAIN checks : ~Running(c))
            BY DEF ChecksInv, NeverTogether
        <2>2. CASE Automate
            <3>1. /\ UNCHANGED <<checks, images, extra, steps>> /\ automatic' = ~automatic
                  /\ ~automatic => \A c \in DOMAIN checks : ~Running(c)
                BY <2>2 DEF Automate
            <3>2. automatic' \in BOOLEAN
                BY <2>1, <3>1
            <3>3. automatic' => ~automatic
                BY <2>1, <3>1
            <3>4. QED
                BY <3>1, <3>2, <3>3
        <2>3. CASE CloseAccount
            <3>1. UNCHANGED <<checks, images, extra, steps>> /\ automatic' = FALSE
                BY <2>3 DEF CloseAccount
            <3>2. automatic' \in BOOLEAN /\ ~automatic'
                BY <3>1, Zenon
            <3>3. QED
                BY <3>1, <3>2
        <2>4. CASE UNCHANGED checkVars
            BY <2>1, <2>4 DEF checkVars
        <2>5. QED
            BY <2>2, <2>3, <2>4
    <1>2. SameLength' /\ NeverTogether' /\ EndedStep
        BY <1>1 DEF ChecksInv, SameLength, NeverTogether, Running, EndedStep
    <1>3. \A c \in DOMAIN checks' : Fits(checks'[c], images'[c], extra'[c], steps'[c])
        BY <1>1 DEF ChecksInv
    <1>4. QED
        BY <1>1, <1>2, <1>3 DEF ChecksInv

LEMMA ChecksStart == ChecksInit => ChecksInv
    <1> SUFFICES ASSUME ChecksInit PROVE ChecksInv
        OBVIOUS
    <1>1. checks = << >> /\ images = << >> /\ extra = << >> /\ steps = << >> /\ automatic = FALSE
        BY DEF ChecksInit
    <1>2. SameLength
        BY <1>1 DEF SameLength
    <1>3. QED
        <2>1. DOMAIN checks = {}
            BY <1>1
        <2>2. automatic \in BOOLEAN /\ ~automatic
            BY <1>1, Zenon
        <2>3. QED
            BY <1>2, <2>1, <2>2 DEF ChecksInv, NeverTogether

LEMMA ChecksStep == ChecksInv /\ [ChecksNext]_checkVars => ChecksInv' /\ EndedStep
    <1> SUFFICES ASSUME ChecksInv, [ChecksNext]_checkVars PROVE ChecksInv' /\ EndedStep
        OBVIOUS
    <1>1. CASE AcceptCheck
        BY <1>1, AcceptStep
    <1>2. CASE Restart
        BY <1>2, RestartStep
    <1>3. CASE Automate \/ CloseAccount \/ UNCHANGED checkVars
        BY <1>3, AccountStep
    <1>4. ASSUME NEW c \in DOMAIN checks,
                 \/ StepOf(c) \/ Unchanged(c) \/ RecordError(c) \/ StopCheck(c) \/ TaskCancelled(c)
                 \/ ImageEnds(c) \/ ImageDeleted(c)
          PROVE  ChecksInv' /\ EndedStep
        BY <1>4, LoadStep, ComposedStep, ProbeStep, EvaluatedStep, UnchangedStep, RecordErrorStep,
           StopStep, ImageStep DEF StepOf
    <1>5. QED
        BY <1>1, <1>2, <1>3, <1>4 DEF ChecksNext

LEMMA InvKeeps == ChecksInv => OneImagePerAttempt /\ RestWithPassingPrompt /\ VerdictEarned /\ NeverTogether
    <1> SUFFICES ASSUME ChecksInv
                 PROVE  OneImagePerAttempt /\ RestWithPassingPrompt /\ VerdictEarned
        BY DEF ChecksInv
    <1>1. ASSUME NEW c \in DOMAIN checks
          PROVE  LET check == checks[c]
                 IN  /\ Fits(check, images[c], extra[c], steps[c]) /\ Latest(c) = Count(check)
                     /\ DOMAIN check.attempts = 1 .. Count(check)
                     /\ Count(check) \in Nat \ {0} /\ check \in CheckRow
                     /\ \A n \in 1 .. Count(check) - 1 : Missed(check.attempts[n])
        BY <1>1, AtCheck, RowFields DEF Fits, MissedSoFar
    <1>2. OneImagePerAttempt
        <2>1. ASSUME NEW c \in DOMAIN checks
              PROVE  /\ Len(images[c]) <= Latest(c)
                     /\ \A n \in DOMAIN checks[c].attempts :
                           checks[c].attempts[n].status \in {"generating", "evaluating", "passed", "not_met"}
                               => n \in DOMAIN images[c]
            <3> DEFINE check == checks[c]
                       k == Count(check)
            <3>1. /\ Len(images[c]) \in {k - 1, k} /\ images[c] \in Seq(Image)
                  /\ Last(check).status \in {"generating", "evaluating", "passed", "not_met"} => Len(images[c]) = k
                BY <1>1 DEF Fits, ImagesFit, LastFits, CheckRow, ActiveCheck
            <3>2. DOMAIN images[c] = 1 .. Len(images[c])
                BY <3>1
            <3>3. ASSUME NEW n \in 1 .. k,
                         check.attempts[n].status \in {"generating", "evaluating", "passed", "not_met"}
                  PROVE  n \in 1 .. Len(images[c])
                <4>1. k \in Nat \ {0} /\ (n = k \/ n \in 1 .. k - 1)
                    BY <1>1
                <4>2. CASE n = k
                    BY <3>1, <3>3, <4>1, <4>2 DEF Last
                <4>3. CASE n \in 1 .. k - 1
                    BY <3>1, <4>1, <4>3
                <4>4. QED
                    BY <4>1, <4>2, <4>3
            <3>4. Len(images[c]) <= k
                BY <1>1, <3>1
            <3>5. QED
                BY <1>1, <3>2, <3>3, <3>4
        <2>2. QED
            BY <2>1 DEF OneImagePerAttempt
    <1>3. RestWithPassingPrompt
        <2>1. ASSUME NEW c \in DOMAIN checks
              PROVE  /\ Len(extra[c]) <= 1
                     /\ \A i \in DOMAIN extra[c] :
                            /\ checks[c].status = "passed" /\ checks[c].purpose = "generate"
                            /\ checks[c].attempts[extra[c][i]].score >= Threshold
            <3>1. CASE extra[c] = << >>
                BY <3>1
            <3>2. CASE extra[c] # << >>
                <4>1. /\ checks[c].status = "passed" /\ checks[c].purpose = "generate"
                      /\ extra[c] = <<Count(checks[c])>> /\ Last(checks[c]).score >= Threshold
                    BY <1>1, <3>2 DEF Fits, ExtraFits, LastFits
                <4>2. QED
                    BY <4>1 DEF Last
            <3>3. QED
                BY <3>1, <3>2
        <2>2. QED
            BY <2>1 DEF RestWithPassingPrompt
    <1>4. VerdictEarned
        <2>1. ASSUME NEW c \in DOMAIN checks
              PROVE  LET check == checks[c]
                     IN  /\ \A n \in DOMAIN check.attempts :
                               check.attempts[n].score >= Threshold => check.status = "passed" /\ n = Latest(c)
                         /\ check.status = "not_met" => check.best # 0
                         /\ check.best # 0 => \A n \in DOMAIN check.attempts :
                                                 check.attempts[n].score <= check.attempts[check.best].score
            <3> DEFINE check == checks[c]
                       k == Count(check)
            <3>1. k \in Nat \ {0} /\ DOMAIN check.attempts = 1 .. k /\ check \in CheckRow
                BY <1>1
            <3>2. /\ \A n \in 1 .. k : check.attempts[n].score \in -1 .. 100
                  /\ Threshold \in Nat
                BY <3>1, RowFields, ChecksAssumption
            <3>3. /\ check.status = "passed" => Last(check).score >= Threshold /\ check.best = k
                  /\ check.status = "not_met" => Missed(Last(check)) /\ check.best = BestAttempt(check)
                  /\ check.status \notin {"passed", "not_met"} => Last(check).score = -1 /\ check.best = 0
                BY <1>1 DEF Fits, LastFits
            <3>4. \A n \in 1 .. k - 1 : check.attempts[n].score < Threshold
                BY <1>1, <3>2 DEF Missed
            <3>5. ASSUME NEW n \in 1 .. k, check.attempts[n].score >= Threshold
                  PROVE  check.status = "passed" /\ n = k
                <4>1. n = k
                    <5>1. check.attempts[n].score \in -1 .. 100 /\ Threshold \in Nat
                        BY <3>2
                    <5>2. ~(check.attempts[n].score < Threshold)
                        BY <3>5, <5>1
                    <5>3. n \notin 1 .. k - 1
                        BY <3>4, <5>2
                    <5>4. QED
                        BY <3>1, <5>3
                <4>2. check.status = "passed"
                    BY <3>2, <3>3, <3>5, <4>1 DEF Last, Missed
                <4>3. QED
                    BY <4>1, <4>2
            <3>6. ASSUME check.status = "not_met"
                  PROVE  /\ check.best # 0
                         /\ \A n \in 1 .. k : check.attempts[n].score <= check.attempts[check.best].score
                <4>1. \A n \in 1 .. k : Missed(check.attempts[n])
                    BY <1>1, <3>1, <3>3, <3>6 DEF Last
                <4>2. BestAttempt(check) \in 1 .. k /\ Scored(check) # {}
                    <5>1. k \in Scored(check)
                        BY <3>1, <3>2, <4>1 DEF Scored, Missed
                    <5>2. QED
                        BY <3>1, <4>1, <5>1, NotMetBest
                <4>3. QED
                    BY <3>1, <3>3, <3>6, <4>2, BestOf
            <3>7. ASSUME check.status = "passed"
                  PROVE  \A n \in 1 .. k : check.attempts[n].score <= check.attempts[check.best].score
                <4>1. check.best = k /\ check.attempts[k].score >= Threshold
                    BY <3>3, <3>7 DEF Last
                <4>2. ASSUME NEW n \in 1 .. k
                      PROVE  check.attempts[n].score <= check.attempts[k].score
                    <5>1. CASE n = k
                        BY <3>2, <5>1
                    <5>2. CASE n # k
                        <6>1. n \in 1 .. k - 1 /\ k \in 1 .. k
                            BY <3>1, <5>2
                        <6>2. check.attempts[n].score < Threshold
                            BY <3>4, <6>1
                        <6>3. /\ check.attempts[n].score \in -1 .. 100
                              /\ check.attempts[k].score \in -1 .. 100 /\ Threshold \in Nat
                            BY <3>2, <6>1
                        <6>4. \A a, b \in -1 .. 100, t \in Nat : a < t /\ b >= t => a <= b
                            OBVIOUS
                        <6>5. QED
                            BY <4>1, <6>2, <6>3, <6>4
                    <5>3. QED
                        BY <5>1, <5>2
                <4>3. QED
                    BY <4>1, <4>2
            <3>8. check.best # 0 => check.status \in {"passed", "not_met"}
                BY <3>3
            <3>9. QED
                BY <1>1, <3>1, <3>5, <3>6, <3>7, <3>8
        <2>2. QED
            BY <2>1 DEF VerdictEarned
    <1>5. QED
        BY <1>2, <1>3, <1>4

(* In every reachable state all attempts of a check but its last were      *)
(* scored and missed, and the status of the last one, its image, its task  *)
(* and the batch follow from the status of the check.                      *)
THEOREM ChecksInvariance == ChecksSpec => []ChecksInv
    BY ChecksStart, ChecksStep, PTL DEF ChecksSpec

(* One image an attempt, the rest of the batch once and with the prompt    *)
(* that passed, a verdict that follows from the scores, never together     *)
(* with automatic generation, and nothing changes about an ended check.    *)
THEOREM ChecksAreKept == ChecksSpec => ChecksKept
    <1>1. ChecksInv /\ [ChecksNext]_checkVars =>
              [\A c \in DOMAIN checks : ~Running(c) =>
                  checks'[c] = checks[c] /\ Len(images'[c]) = Len(images[c]) /\ extra'[c] = extra[c]]_checkVars
        BY ChecksStep DEF EndedStep
    <1>2. QED
        BY <1>1, InvKeeps, ChecksInvariance, PTL DEF ChecksSpec, ChecksKept, EndedIsOver

-----------------------------------------------------------------------------
(* Automatic generation.                                                   *)

Words == {"accepted", "failed", "discarded", "cancelled"}
AutoRow  == [enabled : BOOLEAN, blocked : {"no", "yes", "gone"}, revision : 0 .. MaxChanges,
             accepted : Nat, since : Nat, limit : Limits, prompt : BOOLEAN]
CycleRow == [revision : 0 .. MaxChanges, claim : BOOLEAN,
             state : {"preparing", "ready", "accepted", "completed", "discarded"}]
GroupRow == [kind : {"manual", "rerun", "auto"}, cycle : Nat, size : Nat,
             status : PreparationActive \cup Words, wants : BOOLEAN, refined : BOOLEAN,
             text : {"none", "queued", "active", "succeeded", "failed", "discarded"}]
WorkRow  == [active : Nat, failed : BOOLEAN, batches : Nat]
TaskRow  == [group : Nat, stage : {"none", "compose", "accept", "fail"}]
StepRow  == [stage : {"none", "compose", "accept"}, revision : 0 .. MaxChanges, cycle : Nat]

RowsOK ==
    /\ auto \in AutoRow /\ cycles \in Seq(CycleRow) /\ groups \in Seq(GroupRow)
    /\ work \in [0 .. Len(cycles) -> WorkRow]
    /\ task \in TaskRow /\ task.group \in 0 .. Len(groups)
    /\ task.stage # "none" => task.group \in 1 .. Len(groups)
    /\ step \in StepRow /\ step.cycle \in 0 .. Len(cycles)
    /\ step.stage # "none" => step.cycle \in 1 .. Len(cycles)

Waits(c)  == cycles[c].state \in {"preparing", "ready"}
Wanted(g) == groups[g].cycle # 0 /\ IsActive(g)

AutoFits == auto.since = auto.accepted /\ (auto.enabled => auto.accepted < auto.limit)

(* What the step task works on is of the settings in force or older, and   *)
(* once the folder is deleted it is older.                                 *)
StepFits == step.stage # "none" =>
    step.revision <= auto.revision /\ (auto.blocked = "gone" => step.revision # auto.revision)

(* A cycle that waits has not begun; unless the folder is deleted it is of *)
(* the settings in force, and they have no text source.                    *)
CyclesFit ==
    /\ \A c \in 1 .. Len(cycles) :
          /\ cycles[c].claim => cycles[c].state = "preparing"
          /\ work[c].batches <= 1
          /\ Waits(c) =>
                /\ auto.blocked # "gone" => cycles[c].revision = auto.revision /\ ~auto.prompt
                /\ work[c].active = 0 /\ work[c].batches = 0
    /\ \A c, d \in 1 .. Len(cycles) : work[c].active > 0 /\ work[d].active > 0 => c = d

(* An automatic group that waits is the only one, and nothing automatic    *)
(* runs beside it; unless the folder is deleted its images are within the  *)
(* limit, and the settings in force are its own and have a text source.    *)
GroupsFit ==
    /\ \A g \in 1 .. Len(groups) :
          /\ groups[g].cycle \in 0 .. Len(cycles)
          /\ groups[g].cycle # 0 => cycles[groups[g].cycle].state \in {"accepted", "completed"}
          /\ Wanted(g) => /\ auto.blocked # "gone" =>
                                /\ cycles[groups[g].cycle].revision = auto.revision
                                /\ auto.prompt /\ auto.accepted + groups[g].size <= auto.limit
                          /\ work[groups[g].cycle].batches = 0
                          /\ \A c \in 1 .. Len(cycles) : work[c].active = 0
    /\ \A g, h \in 1 .. Len(groups) : Wanted(g) /\ Wanted(h) => g = h

AutoInv == RowsOK /\ AutoFits /\ StepFits /\ CyclesFit /\ GroupsFit

-----------------------------------------------------------------------------
(* What changes leave as it is.                                            *)

SameSettings ==
    /\ auto'.revision = auto.revision /\ auto'.prompt = auto.prompt
    /\ auto'.accepted = auto.accepted /\ auto'.limit = auto.limit
    /\ auto'.blocked = "gone" <=> auto.blocked = "gone"
NothingWaits ==
    /\ \A c \in 1 .. Len(cycles) : ~Waits(c)
    /\ \A g \in 1 .. Len(groups) : ~Wanted(g)
(* Other settings, or the folder is deleted.                               *)
OtherSettings == auto'.revision > auto.revision /\ (auto'.blocked = "gone" \/ NothingWaits')
CyclesGoOn ==
    /\ cycles' \in [1 .. Len(cycles) -> CycleRow]
    /\ \A c \in 1 .. Len(cycles) :
          /\ cycles'[c].revision = cycles[c].revision
          /\ cycles'[c].claim => cycles'[c].state = "preparing"
          /\ Waits(c)' => Waits(c)
          /\ cycles[c].state \in {"accepted", "completed"} =>
                 cycles'[c].state \in {"accepted", "completed"}
WorkGoesOn ==
    /\ work' \in [0 .. Len(cycles) -> WorkRow]
    /\ \A c \in 1 .. Len(cycles) :
        work'[c].active <= work[c].active /\ work'[c].batches = work[c].batches
GroupsGoOn ==
    /\ groups' \in [1 .. Len(groups) -> GroupRow]
    /\ \A g \in 1 .. Len(groups) :
          /\ groups'[g].cycle = groups[g].cycle /\ groups'[g].size = groups[g].size
          /\ IsActive(g)' => IsActive(g)

TaskGoesOn ==
    /\ task' \in TaskRow /\ task'.group \in 0 .. Len(groups)
    /\ task'.stage # "none" => task'.group \in 1 .. Len(groups)
StepGoesOn ==
    /\ step' \in StepRow /\ step'.cycle \in 0 .. Len(cycles)
    /\ step'.stage # "none" =>
          /\ step'.cycle \in 1 .. Len(cycles) /\ step'.revision <= auto.revision
          /\ auto.blocked = "gone" => step'.revision # auto.revision
FatesStay == \A g \in 1 .. Len(groups) : ~IsActive(g) => groups'[g].status = groups[g].status
SettingsGoOn == auto' \in AutoRow /\ AutoFits'

LEMMA SeqFrom ==
    ASSUME NEW S, NEW n \in Nat, NEW f \in [1 .. n -> S]
    PROVE  f \in Seq(S) /\ Len(f) = n
  BY SeqDef

LEMMA Rows ==
    ASSUME RowsOK
    PROVE  /\ Len(cycles) \in Nat /\ Len(groups) \in Nat
           /\ DOMAIN cycles = 1 .. Len(cycles) /\ DOMAIN groups = 1 .. Len(groups)
           /\ cycles \in [1 .. Len(cycles) -> CycleRow]
           /\ groups \in [1 .. Len(groups) -> GroupRow]
           /\ \A c \in 1 .. Len(cycles) : cycles[c] \in CycleRow
           /\ \A g \in 1 .. Len(groups) : groups[g] \in GroupRow
           /\ \A c \in 0 .. Len(cycles) : work[c] \in WorkRow
           /\ DOMAIN work = 0 .. Len(cycles)
  <1>1. ASSUME NEW S, NEW q \in Seq(S)
        PROVE  Len(q) \in Nat /\ DOMAIN q = 1 .. Len(q) /\ q \in [1 .. Len(q) -> S]
    BY <1>1, SeqDef
  <1>2. /\ Len(cycles) \in Nat /\ DOMAIN cycles = 1 .. Len(cycles)
        /\ cycles \in [1 .. Len(cycles) -> CycleRow]
    BY <1>1 DEF RowsOK
  <1>3. /\ Len(groups) \in Nat /\ DOMAIN groups = 1 .. Len(groups)
        /\ groups \in [1 .. Len(groups) -> GroupRow]
    BY <1>1 DEF RowsOK
  <1>4. QED
    BY <1>2, <1>3 DEF RowsOK

(* Most steps start nothing: rows are settled or go on, images end, and    *)
(* the settings stay, or nothing waits any more or can be accepted.        *)
LEMMA NothingStarts ==
    ASSUME AutoInv, SettingsGoOn, CyclesGoOn, WorkGoesOn, GroupsGoOn, TaskGoesOn, StepGoesOn,
           SameSettings \/ OtherSettings
    PROVE  AutoInv'
  <1> USE DEF AutoInv
  <1>a. /\ cycles' \in Seq(CycleRow) /\ Len(cycles') = Len(cycles)
        /\ groups' \in Seq(GroupRow) /\ Len(groups') = Len(groups)
    BY Rows, SeqFrom DEF CyclesGoOn, GroupsGoOn
  <1>b. RowsOK' /\ AutoFits'
    BY <1>a DEF RowsOK, SettingsGoOn, WorkGoesOn, TaskGoesOn, StepGoesOn
  <1>c. StepFits'
    <2>1. auto.revision \in Nat /\ auto'.revision \in Nat /\ step'.revision \in Nat
      BY <1>b, SizesAssumption DEF RowsOK, AutoRow, StepRow
    <2>2. QED
      BY <2>1 DEF StepFits, StepGoesOn, SameSettings, OtherSettings
  <1> USE <1>a DEF CyclesGoOn, WorkGoesOn, GroupsGoOn
  <1>1. \A c \in 1 .. Len(cycles) : /\ work[c].active \in Nat /\ work[c].batches \in Nat
                                    /\ work'[c].active \in Nat /\ work'[c].batches \in Nat
    <2>1. ASSUME NEW c \in 1 .. Len(cycles) PROVE work[c] \in WorkRow /\ work'[c] \in WorkRow
      <3>1. c \in 0 .. Len(cycles)
        BY DEF RowsOK
      <3>2. QED
        BY <3>1 DEF RowsOK
    <2>2. QED
      BY <2>1 DEF WorkRow
  <1>2. CyclesFit'
    <2>1. ASSUME NEW c \in 1 .. Len(cycles')
          PROVE  /\ cycles'[c].claim => cycles'[c].state = "preparing"
                 /\ work'[c].batches <= 1
                 /\ Waits(c)' =>
                       /\ auto'.blocked # "gone" => cycles'[c].revision = auto'.revision /\ ~auto'.prompt
                       /\ work'[c].active = 0 /\ work'[c].batches = 0
      <3>1. c \in 1 .. Len(cycles) /\ (Waits(c)' => Waits(c))
        BY <2>1
      <3>2. /\ cycles'[c].claim => cycles'[c].state = "preparing"
            /\ work'[c].batches <= 1
        BY <3>1 DEF CyclesFit
      <3>3. ASSUME Waits(c)' PROVE work'[c].active = 0 /\ work'[c].batches = 0
        <4>1. work[c].active = 0 /\ work[c].batches = 0 /\ work'[c].active \in Nat
          BY <1>1, <3>1, <3>3 DEF CyclesFit
        <4>2. work'[c].active <= work[c].active /\ work'[c].batches = work[c].batches
          BY <3>1
        <4>3. QED
          BY <4>1, <4>2
      <3>4. ASSUME Waits(c)', auto'.blocked # "gone"
            PROVE  cycles'[c].revision = auto'.revision /\ ~auto'.prompt
        <4>1. SameSettings
          BY <2>1, <3>4 DEF NothingWaits, OtherSettings
        <4>2. cycles[c].revision = auto.revision /\ ~auto.prompt
          BY <3>1, <3>4, <4>1 DEF CyclesFit, SameSettings
        <4>3. QED
          BY <3>1, <4>1, <4>2 DEF SameSettings
      <3>5. QED
        BY <3>2, <3>3, <3>4
    <2>2. ASSUME NEW c \in 1 .. Len(cycles'), NEW d \in 1 .. Len(cycles'),
                 work'[c].active > 0, work'[d].active > 0
          PROVE  c = d
      <3>1. work[c].active > 0 /\ work[d].active > 0
        BY <2>2, <1>1
      <3>2. QED
        BY <2>2, <3>1 DEF CyclesFit
    <2>3. QED
      BY <2>1, <2>2 DEF CyclesFit
  <1>3. GroupsFit'
    <2>1. ASSUME NEW g \in 1 .. Len(groups')
          PROVE  /\ groups'[g].cycle \in 0 .. Len(cycles')
                 /\ groups'[g].cycle # 0 => cycles'[groups'[g].cycle].state \in {"accepted", "completed"}
                 /\ Wanted(g)' => Wanted(g)
      BY <2>1 DEF GroupsFit, Wanted, RowsOK
    <2>2. ASSUME NEW g \in 1 .. Len(groups'), Wanted(g)'
          PROVE  /\ auto'.blocked # "gone" =>
                       /\ cycles'[groups'[g].cycle].revision = auto'.revision
                       /\ auto'.prompt /\ auto'.accepted + groups'[g].size <= auto'.limit
                 /\ work'[groups'[g].cycle].batches = 0
                 /\ \A c \in 1 .. Len(cycles') : work'[c].active = 0
      <3>1. auto'.blocked # "gone" => SameSettings
        BY <2>2 DEF NothingWaits, OtherSettings
      <3>2. Wanted(g) /\ groups[g].cycle \in 1 .. Len(cycles)
        BY <2>1, <2>2 DEF GroupsFit, Wanted, RowsOK
      <3>3. /\ auto.blocked # "gone" =>
                  /\ cycles[groups[g].cycle].revision = auto.revision
                  /\ auto.prompt /\ auto.accepted + groups[g].size <= auto.limit
            /\ work[groups[g].cycle].batches = 0
            /\ \A c \in 1 .. Len(cycles) : work[c].active = 0
        BY <3>2 DEF GroupsFit
      <3>4. \A c \in 1 .. Len(cycles) : work'[c].active = 0
        <4>1. TAKE c \in 1 .. Len(cycles)
        <4>2. work'[c].active <= work[c].active /\ work[c].active = 0 /\ work'[c].active \in Nat
          BY <3>3, <1>1
        <4>3. QED
          BY <4>2
      <3>5. groups'[g].cycle = groups[g].cycle /\ groups'[g].size = groups[g].size
        OBVIOUS
      <3>6. QED
        BY <3>1, <3>2, <3>3, <3>4, <3>5 DEF SameSettings
    <2>3. QED
      BY <2>1, <2>2 DEF GroupsFit
  <1>4. QED
    BY <1>b, <1>c, <1>2, <1>3

LEMMA UnchangedGoesOn ==
    ASSUME AutoInv
    PROVE  /\ UNCHANGED auto => SettingsGoOn /\ SameSettings
           /\ UNCHANGED cycles => CyclesGoOn
           /\ UNCHANGED work => WorkGoesOn
           /\ UNCHANGED groups => GroupsGoOn
           /\ UNCHANGED task => TaskGoesOn
           /\ UNCHANGED step => StepGoesOn
  <1> USE Rows DEF AutoInv
  <1>1. UNCHANGED auto => SettingsGoOn /\ SameSettings
    BY DEF RowsOK, SettingsGoOn, SameSettings, AutoFits
  <1>2. UNCHANGED cycles => CyclesGoOn
    BY DEF CyclesGoOn, CyclesFit, Waits
  <1>3. UNCHANGED work => WorkGoesOn
    BY DEF WorkGoesOn, RowsOK, WorkRow
  <1>4. UNCHANGED groups => GroupsGoOn
    BY DEF GroupsGoOn, IsActive
  <1>5. UNCHANGED task => TaskGoesOn
    BY DEF TaskGoesOn, RowsOK
  <1>6. UNCHANGED step => StepGoesOn
    BY DEF StepGoesOn, StepFits, RowsOK
  <1>7. QED
    BY <1>1, <1>2, <1>3, <1>4, <1>5, <1>6

-----------------------------------------------------------------------------
(* What the operators of the model do to the rows.                         *)

LEMMA FailedIs ==
    ASSUME RowsOK, NEW S, NEW word \in Words
    PROVE  /\ Failed(S, word) \in [1 .. Len(groups) -> GroupRow]
           /\ \A g \in 1 .. Len(groups) :
                 LET row == Failed(S, word)[g]
                 IN  /\ row.cycle = groups[g].cycle /\ row.size = groups[g].size
                     /\ row.status \in PreparationActive => IsActive(g) /\ g \notin S
                     /\ ~IsActive(g) => row.status = groups[g].status
  <1>1. \A g \in 1 .. Len(groups) : groups[g] \in GroupRow
    BY Rows
  <1>2. ASSUME NEW g \in 1 .. Len(groups)
        PROVE  LET row == Failed(S, word)[g]
               IN  /\ row \in GroupRow
                   /\ row.cycle = groups[g].cycle /\ row.size = groups[g].size
                   /\ row.status \in PreparationActive => IsActive(g) /\ g \notin S
                   /\ ~IsActive(g) => row.status = groups[g].status
    <2>1. g \in DOMAIN groups
      BY Rows
    <2>2. CASE g \in S /\ IsActive(g)
      <3>1. Failed(S, word)[g] = [groups[g] EXCEPT !.status = word,
                                    !.text = IF @ = "queued" THEN "discarded" ELSE @]
        BY <2>1, <2>2 DEF Failed
      <3>2. QED
        BY <3>1, <2>2, <1>1 DEF GroupRow, Words, PreparationActive, IsActive
    <2>3. CASE ~(g \in S /\ IsActive(g))
      <3>1. Failed(S, word)[g] = groups[g]
        BY <2>1, <2>3 DEF Failed
      <3>2. QED
        BY <3>1, <2>3, <1>1 DEF IsActive
    <2>4. QED
      BY <2>2, <2>3
  <1>3. Failed(S, word) = [g \in 1 .. Len(groups) |-> Failed(S, word)[g]]
    BY Rows DEF Failed
  <1>4. QED
    BY <1>2, <1>3

LEMMA FailedGoesOn ==
    ASSUME RowsOK, NEW S, NEW word \in Words, groups' = Failed(S, word)
    PROVE  /\ GroupsGoOn /\ FatesStay
           /\ \A g \in 1 .. Len(groups) : g \in S => ~IsActive(g)'
  BY FailedIs DEF GroupsGoOn, IsActive, FatesStay

LEMMA CompletedIs ==
    ASSUME AutoInv, NEW last \in Nat
    PROVE  /\ Completed(last) \in [1 .. Len(cycles) -> CycleRow]
           /\ \A c \in 1 .. Len(cycles) :
                 LET row == Completed(last)[c]
                 IN  /\ row.revision = cycles[c].revision /\ row.claim = cycles[c].claim
                     /\ row.state = cycles[c].state \/ (/\ cycles[c].state = "accepted"
                                                       /\ row.state = "completed")
  <1>1. \A c \in 1 .. Len(cycles) : cycles[c] \in CycleRow
    BY Rows DEF AutoInv
  <1>2. DOMAIN cycles = 1 .. Len(cycles)
    BY Rows DEF AutoInv
  <1>3. ASSUME NEW c \in 1 .. Len(cycles)
        PROVE  LET row == Completed(last)[c]
               IN  /\ row \in CycleRow
                   /\ row.revision = cycles[c].revision /\ row.claim = cycles[c].claim
                   /\ row.state = cycles[c].state \/ (/\ cycles[c].state = "accepted"
                                                     /\ row.state = "completed")
    <2>1. CASE c <= last /\ RanOut(c)
      <3>1. Completed(last)[c] = [cycles[c] EXCEPT !.state = "completed"] /\ cycles[c].state = "accepted"
        BY <1>2, <2>1 DEF Completed, RanOut
      <3>2. QED
        BY <3>1, <1>1 DEF CycleRow
    <2>2. CASE ~(c <= last /\ RanOut(c))
      <3>1. Completed(last)[c] = cycles[c]
        BY <1>2, <2>2 DEF Completed
      <3>2. QED
        BY <3>1, <1>1
    <2>3. QED
      BY <2>1, <2>2
  <1>4. Completed(last) = [c \in 1 .. Len(cycles) |-> Completed(last)[c]]
    BY <1>2 DEF Completed
  <1>5. QED
    BY <1>3, <1>4

LEMMA CompletedGoesOn ==
    ASSUME AutoInv, NEW last \in Nat, cycles' = Completed(last)
    PROVE  CyclesGoOn
  BY CompletedIs DEF CyclesGoOn, Waits, AutoInv, CyclesFit

(* Discarding what waits, and taking claims back.                          *)
LEMMA DiscardedGoesOn ==
    ASSUME AutoInv,
           cycles' = [c \in DOMAIN cycles |->
                        IF cycles[c].state \in {"preparing", "ready"}
                        THEN [cycles[c] EXCEPT !.state = "discarded", !.claim = FALSE] ELSE cycles[c]]
    PROVE  CyclesGoOn /\ \A c \in 1 .. Len(cycles) : ~Waits(c)'
  <1>1. \A c \in 1 .. Len(cycles) : cycles[c] \in CycleRow
    BY Rows DEF AutoInv
  <1>2. DOMAIN cycles = 1 .. Len(cycles)
    BY Rows DEF AutoInv
  <1>3. ASSUME NEW c \in 1 .. Len(cycles)
        PROVE  /\ cycles'[c] \in CycleRow /\ cycles'[c].revision = cycles[c].revision
               /\ cycles'[c].claim => cycles'[c].state = "preparing"
               /\ ~Waits(c)'
               /\ cycles[c].state \in {"accepted", "completed"} => cycles'[c].state = cycles[c].state
    <2>1. CASE Waits(c)
      <3>1. cycles'[c] = [cycles[c] EXCEPT !.state = "discarded", !.claim = FALSE]
        BY <1>2, <2>1 DEF Waits
      <3>2. /\ cycles'[c] \in CycleRow /\ cycles'[c].revision = cycles[c].revision
            /\ cycles'[c].claim = FALSE /\ cycles'[c].state = "discarded"
        <4>1. \A row \in CycleRow :
                 LET new == [row EXCEPT !.state = "discarded", !.claim = FALSE]
                 IN  /\ new \in CycleRow /\ new.revision = row.revision
                     /\ new.claim = FALSE /\ new.state = "discarded"
          BY DEF CycleRow
        <4>2. QED
          BY <4>1, <3>1, <1>1
      <3>3. QED
        BY <3>2, <2>1 DEF Waits
    <2>2. CASE ~Waits(c)
      <3>1. cycles'[c] = cycles[c]
        BY <1>2, <2>2 DEF Waits
      <3>2. QED
        BY <3>1, <1>1, <2>2 DEF Waits, AutoInv, CyclesFit
    <2>3. QED
      BY <2>1, <2>2
  <1>4. cycles' = [c \in 1 .. Len(cycles) |-> cycles'[c]]
    BY <1>2
  <1>5. QED
    BY <1>3, <1>4 DEF CyclesGoOn

LEMMA UnclaimedGoesOn ==
    ASSUME AutoInv,
           cycles' = [c \in DOMAIN cycles |->
                        IF cycles[c].state = "preparing" THEN [cycles[c] EXCEPT !.claim = FALSE] ELSE cycles[c]]
    PROVE  CyclesGoOn
  <1>1. \A c \in 1 .. Len(cycles) : cycles[c] \in CycleRow
    BY Rows DEF AutoInv
  <1>2. DOMAIN cycles = 1 .. Len(cycles)
    BY Rows DEF AutoInv
  <1>3. ASSUME NEW c \in 1 .. Len(cycles)
        PROVE  /\ cycles'[c] \in CycleRow /\ cycles'[c].revision = cycles[c].revision
               /\ cycles'[c].claim => cycles'[c].state = "preparing"
               /\ cycles'[c].state = cycles[c].state
    <2>1. CASE cycles[c].state = "preparing"
      <3>1. cycles'[c] = [cycles[c] EXCEPT !.claim = FALSE]
        BY <1>2, <2>1
      <3>2. QED
        BY <3>1, <1>1, <2>1 DEF CycleRow
    <2>2. CASE cycles[c].state # "preparing"
      <3>1. cycles'[c] = cycles[c]
        BY <1>2, <2>2
      <3>2. QED
        BY <3>1, <1>1, <2>2 DEF AutoInv, CyclesFit
    <2>3. QED
      BY <2>1, <2>2
  <1>4. cycles' = [c \in 1 .. Len(cycles) |-> cycles'[c]]
    BY <1>2
  <1>5. QED
    BY <1>3, <1>4 DEF CyclesGoOn, Waits

(* One cycle changes its row.                                              *)
LEMMA OneCycleGoesOn ==
    ASSUME AutoInv, NEW c \in 1 .. Len(cycles), NEW row \in CycleRow,
           cycles' = [cycles EXCEPT ![c] = row],
           row.revision = cycles[c].revision, row.claim => row.state = "preparing",
           row.state \in {"preparing", "ready"} => Waits(c),
           cycles[c].state \in {"accepted", "completed"} => row.state \in {"accepted", "completed"}
    PROVE  CyclesGoOn
  <1>1. /\ \A d \in 1 .. Len(cycles) : cycles[d] \in CycleRow
        /\ DOMAIN cycles = 1 .. Len(cycles) /\ cycles \in [1 .. Len(cycles) -> CycleRow]
    BY Rows DEF AutoInv
  <1>2. cycles'[c] = row /\ \A d \in 1 .. Len(cycles) : d # c => cycles'[d] = cycles[d]
    BY <1>1
  <1>3. cycles' \in [1 .. Len(cycles) -> CycleRow]
    BY <1>1
  <1>4. ASSUME NEW d \in 1 .. Len(cycles)
        PROVE  /\ cycles'[d].revision = cycles[d].revision
               /\ cycles'[d].claim => cycles'[d].state = "preparing"
               /\ Waits(d)' => Waits(d)
               /\ cycles[d].state \in {"accepted", "completed"} =>
                      cycles'[d].state \in {"accepted", "completed"}
    <2>1. CASE d = c
      BY <1>2, <2>1 DEF Waits
    <2>2. CASE d # c
      BY <1>2, <2>2 DEF Waits, AutoInv, CyclesFit
    <2>3. QED
      BY <2>1, <2>2
  <1>5. QED
    BY <1>3, <1>4 DEF CyclesGoOn

(* One group changes its row.                                              *)
LEMMA OneGroupGoesOn ==
    ASSUME RowsOK, NEW g \in 1 .. Len(groups), NEW row \in GroupRow,
           groups' = [groups EXCEPT ![g] = row],
           row.cycle = groups[g].cycle, row.size = groups[g].size,
           row.status \in PreparationActive => IsActive(g)
    PROVE  GroupsGoOn /\ ((~IsActive(g) => row.status = groups[g].status) => FatesStay)
  <1>1. /\ \A h \in 1 .. Len(groups) : groups[h] \in GroupRow
        /\ DOMAIN groups = 1 .. Len(groups) /\ groups \in [1 .. Len(groups) -> GroupRow]
    BY Rows
  <1>2. groups'[g] = row /\ \A h \in 1 .. Len(groups) : h # g => groups'[h] = groups[h]
    BY <1>1
  <1>3. groups' \in [1 .. Len(groups) -> GroupRow]
    BY <1>1
  <1>4. QED
    BY <1>2, <1>3 DEF GroupsGoOn, IsActive, FatesStay

-----------------------------------------------------------------------------
(* Every action keeps the invariant.  First the changes.                   *)

LEMMA ChangesKeeps ==
    ASSUME AutoInv, NEW s \in AutoRow, s.revision = auto.revision, s.since = s.accepted, Changes(s)
    PROVE  AutoInv'
  <1>1. CyclesGoOn /\ \A c \in 1 .. Len(cycles) : ~Waits(c)'
    BY DiscardedGoesOn DEF Changes, Invalidate
  <1>2. GroupsGoOn /\ \A g \in 1 .. Len(groups) : groups[g].cycle # 0 => ~IsActive(g)'
    <2>1. groups' = Failed({g \in DOMAIN groups : groups[g].cycle # 0}, "discarded")
      BY DEF Changes, Invalidate
    <2>2. \A g \in 1 .. Len(groups) : groups[g].cycle # 0 => g \in {h \in DOMAIN groups : groups[h].cycle # 0}
      BY Rows DEF AutoInv
    <2>3. QED
      BY <2>1, <2>2, FailedGoesOn DEF AutoInv, Words
  <1>3. NothingWaits'
    <2>1. Len(cycles') = Len(cycles) /\ Len(groups') = Len(groups)
      BY <1>1, <1>2, Rows, SeqFrom DEF CyclesGoOn, GroupsGoOn, AutoInv
    <2>2. \A g \in 1 .. Len(groups) : ~Wanted(g)'
      BY <1>2 DEF GroupsGoOn, Wanted
    <2>3. QED
      BY <1>1, <2>1, <2>2 DEF NothingWaits
  <1>4. SettingsGoOn /\ OtherSettings
    <2>1. auto' = [s EXCEPT !.revision = @ + 1, !.blocked = "no", !.enabled = @ /\ s.accepted < s.limit]
      BY DEF Changes
    <2>2. s.revision + 1 \in 0 .. MaxChanges
      BY SizesAssumption DEF Changes, AutoInv, RowsOK, AutoRow
    <2>3. (s.accepted < s.limit) \in BOOLEAN /\ (s.enabled /\ s.accepted < s.limit) \in BOOLEAN
      OBVIOUS
    <2>4. /\ auto' \in AutoRow /\ auto'.since = s.since /\ auto'.accepted = s.accepted
          /\ auto'.revision = s.revision + 1
          /\ auto'.limit = s.limit /\ auto'.enabled = (s.enabled /\ s.accepted < s.limit)
      <3> DEFINE on == s.enabled /\ s.accepted < s.limit
                 next == s.revision + 1
      <3>1. auto' = [s EXCEPT !.revision = next, !.blocked = "no", !.enabled = on]
        BY <2>1 DEF AutoRow
      <3>2. next \in 0 .. MaxChanges /\ on \in BOOLEAN
        BY <2>2, <2>3
      <3> HIDE DEF on, next
      <3>3. QED
        BY <3>1, <3>2 DEF AutoRow, on, next
    <2>5. AutoFits'
      BY <2>4 DEF AutoFits
    <2>6. auto'.revision > auto.revision
      BY <2>4 DEF AutoInv, RowsOK, AutoRow
    <2>7. QED
      BY <1>3, <2>4, <2>5, <2>6 DEF SettingsGoOn, OtherSettings
  <1>5. WorkGoesOn /\ TaskGoesOn /\ StepGoesOn
    BY UnchangedGoesOn DEF Changes
  <1>6. QED
    BY <1>1, <1>2, <1>3, <1>4, <1>5, NothingStarts

LEMMA RequestsKeep ==
    ASSUME AutoInv, Enable \/ Disable \/ Edit \/ Relimit
    PROVE  AutoInv'
  <1>1. auto \in AutoRow /\ auto.since = auto.accepted
    BY DEF AutoInv, RowsOK, AutoFits
  <1>2. CASE Enable
    <2>1. PICK limit \in Limits, prompt \in BOOLEAN :
              Changes([auto EXCEPT !.enabled = TRUE, !.accepted = 0, !.since = 0,
                                   !.limit = limit, !.prompt = prompt])
      BY <1>2 DEF Enable
    <2> DEFINE s == [auto EXCEPT !.enabled = TRUE, !.accepted = 0, !.since = 0,
                                 !.limit = limit, !.prompt = prompt]
    <2>2. s \in AutoRow /\ s.revision = auto.revision /\ s.since = s.accepted
      BY <1>1 DEF AutoRow
    <2>3. QED
      BY <2>1, <2>2, ChangesKeeps
  <1>3. CASE Disable
    <2> DEFINE s == [auto EXCEPT !.enabled = FALSE]
    <2>1. s \in AutoRow /\ s.revision = auto.revision /\ s.since = s.accepted
      BY <1>1 DEF AutoRow
    <2>2. QED
      BY <1>3, <2>1, ChangesKeeps DEF Disable
  <1>4. CASE Edit
    <2>1. PICK prompt \in BOOLEAN : Changes([auto EXCEPT !.prompt = prompt])
      BY <1>4 DEF Edit
    <2> DEFINE s == [auto EXCEPT !.prompt = prompt]
    <2>2. s \in AutoRow /\ s.revision = auto.revision /\ s.since = s.accepted
      BY <1>1 DEF AutoRow
    <2>3. QED
      BY <2>1, <2>2, ChangesKeeps
  <1>5. CASE Relimit
    <2>1. PICK limit \in Limits : Changes([auto EXCEPT !.limit = limit])
      BY <1>5 DEF Relimit
    <2> DEFINE s == [auto EXCEPT !.limit = limit]
    <2>2. s \in AutoRow /\ s.revision = auto.revision /\ s.since = s.accepted
      BY <1>1 DEF AutoRow
    <2>3. QED
      BY <2>1, <2>2, ChangesKeeps
  <1>6. QED
    BY <1>2, <1>3, <1>4, <1>5

LEMMA DeleteFolderKeeps ==
    ASSUME AutoInv, DeleteFolder
    PROVE  AutoInv' /\ FatesStay
  <1>1. PICK R : groups' = Failed(R, "cancelled")
    BY DEF DeleteFolder
  <1>2. GroupsGoOn /\ FatesStay
    BY <1>1, FailedGoesOn DEF AutoInv, Words
  <1>3. UNCHANGED <<cycles, work, task, step>>
    BY DEF DeleteFolder
  <1>4. SettingsGoOn /\ OtherSettings
    <2>1. auto' = [auto EXCEPT !.revision = @ + 1, !.blocked = "gone"] /\ auto.revision < MaxChanges
      BY SizesAssumption DEF DeleteFolder
    <2>2. auto \in AutoRow /\ auto.revision + 1 \in 0 .. MaxChanges
      BY <2>1, SizesAssumption DEF AutoInv, RowsOK, AutoRow
    <2>3. \A n \in 0 .. MaxChanges :
            LET new == [auto EXCEPT !.revision = n, !.blocked = "gone"]
            IN  /\ new \in AutoRow /\ new.revision = n /\ new.blocked = "gone"
                /\ new.since = auto.since /\ new.accepted = auto.accepted
                /\ new.limit = auto.limit /\ new.enabled = auto.enabled
      BY <2>2 DEF AutoRow
    <2>4. /\ auto' \in AutoRow /\ auto'.revision = auto.revision + 1 /\ auto'.blocked = "gone"
          /\ auto'.since = auto.since /\ auto'.accepted = auto.accepted
          /\ auto'.limit = auto.limit /\ auto'.enabled = auto.enabled
      BY <2>1, <2>2, <2>3
    <2>5. QED
      BY <2>2, <2>4 DEF SettingsGoOn, OtherSettings, AutoFits, AutoInv, AutoRow
  <1>5. QED
    BY <1>2, <1>3, <1>4, UnchangedGoesOn, NothingStarts

-----------------------------------------------------------------------------
(* The steps that observe and settle.                                      *)

(* An error is recorded, or none.                                          *)
LEMMA BlockedGoesOn ==
    ASSUME AutoInv, auto.blocked # "gone",
           NEW b \in {"no", "yes"}, auto' = [auto EXCEPT !.blocked = b]
    PROVE  SettingsGoOn /\ SameSettings
  <1>1. auto \in AutoRow
    BY DEF AutoInv, RowsOK
  <1>2. /\ auto' \in AutoRow /\ auto'.revision = auto.revision /\ auto'.prompt = auto.prompt
        /\ auto'.accepted = auto.accepted /\ auto'.limit = auto.limit /\ auto'.since = auto.since
        /\ auto'.enabled = auto.enabled /\ auto'.blocked = b
    BY <1>1 DEF AutoRow
  <1>3. QED
    BY <1>2 DEF SettingsGoOn, SameSettings, AutoFits, AutoInv

LEMMA SwitchedGoesOn ==
    ASSUME AutoInv, auto' = Switched
    PROVE  SettingsGoOn /\ SameSettings
  <1>1. auto \in AutoRow
    BY DEF AutoInv, RowsOK
  <1>2. /\ auto' \in AutoRow /\ auto'.revision = auto.revision /\ auto'.prompt = auto.prompt
        /\ auto'.accepted = auto.accepted /\ auto'.limit = auto.limit /\ auto'.since = auto.since
        /\ auto'.enabled = FALSE /\ auto'.blocked = auto.blocked
    BY <1>1 DEF AutoRow, Switched
  <1>3. QED
    BY <1>2 DEF SettingsGoOn, SameSettings, AutoFits, AutoInv

LEMMA ObservationsKeep ==
    ASSUME AutoInv, ClearClaims \/ BlockOnFailure \/ PrepareFails
    PROVE  AutoInv'
  <1> USE UnchangedGoesOn
  <1>1. CASE ClearClaims
    <2>1. CyclesGoOn
      BY <1>1, UnclaimedGoesOn DEF ClearClaims
    <2>2. UNCHANGED <<auto, groups, work, task, step>>
      BY <1>1 DEF ClearClaims
    <2>3. QED
      BY <2>1, <2>2, NothingStarts
  <1>2. CASE BlockOnFailure
    <2>1. PICK c \in DOMAIN cycles : cycles' = Completed(c)
      BY <1>2 DEF BlockOnFailure
    <2>2. c \in Nat
      BY <2>1, Rows DEF AutoInv
    <2>3. CyclesGoOn
      BY <2>1, <2>2, CompletedGoesOn
    <2>4. /\ auto.blocked # "gone" /\ auto' = [auto EXCEPT !.blocked = "yes"]
          /\ UNCHANGED <<groups, work, task, step>>
      BY <1>2 DEF BlockOnFailure, Begins
    <2>5. QED
      BY <2>3, <2>4, BlockedGoesOn, NothingStarts
  <1>3. CASE PrepareFails
    <2>1. CyclesGoOn
      BY <1>3, Rows, CompletedGoesOn DEF PrepareFails, AutoInv
    <2>2. PICK b \in {"no", "yes"} : auto' = [auto EXCEPT !.blocked = b]
      BY <1>3 DEF PrepareFails, SetError
    <2>3. auto.blocked # "gone" /\ UNCHANGED <<groups, work, task, step>>
      BY <1>3 DEF PrepareFails, Continues, Begins
    <2>4. QED
      BY <2>1, <2>2, <2>3, BlockedGoesOn, NothingStarts
  <1>4. QED
    BY <1>1, <1>2, <1>3

LEMMA StepEnds ==
    ASSUME AutoInv, step' = NoStep
    PROVE  StepGoesOn
  BY Rows, SizesAssumption DEF StepGoesOn, NoStep, StepRow, AutoInv

LEMMA TaskEnds ==
    ASSUME AutoInv, task' = Idle
    PROVE  TaskGoesOn
  BY Rows DEF TaskGoesOn, Idle, TaskRow, AutoInv

LEMMA RunStepsKeep ==
    ASSUME AutoInv, CycleComposed \/ StepFails \/ Stop \/ Crash \/ StartUp \/ SubmitManual
    PROVE  AutoInv'
  <1> USE UnchangedGoesOn
  <1>1. /\ step \in StepRow /\ (step.stage # "none" => step.cycle \in 1 .. Len(cycles))
        /\ \A c \in 1 .. Len(cycles) : cycles[c] \in CycleRow
    BY Rows DEF AutoInv, RowsOK
  <1>2. CASE CycleComposed
    <2>1. step.stage = "compose" /\ step.cycle \in 1 .. Len(cycles) /\ UNCHANGED <<auto, groups, work, task>>
      BY <1>1, <1>2 DEF CycleComposed
    <2>2. CASE /\ cycles[step.cycle].claim
               /\ cycles' = [cycles EXCEPT ![step.cycle].state = "ready", ![step.cycle].claim = FALSE]
               /\ step' = [step EXCEPT !.stage = "accept"]
      <3> DEFINE c == step.cycle
                 row == [cycles[c] EXCEPT !.state = "ready", !.claim = FALSE]
      <3>1. cycles' = [cycles EXCEPT ![c] = row]
        BY <2>1, <2>2, Rows DEF AutoInv, CycleRow
      <3>2. /\ row \in CycleRow /\ row.revision = cycles[c].revision
            /\ row.claim = FALSE /\ row.state = "ready"
        BY <1>1, <2>1 DEF CycleRow
      <3>3. cycles[c].state = "preparing" /\ Waits(c)
        BY <2>1, <2>2 DEF AutoInv, CyclesFit, Waits
      <3>4. StepGoesOn
        BY <1>1, <2>1, <2>2 DEF StepGoesOn, StepRow, StepFits, AutoInv
      <3> HIDE DEF row, c
      <3>5. CyclesGoOn
        BY <2>1, <3>1, <3>2, <3>3, OneCycleGoesOn DEF c
      <3>6. QED
        BY <2>1, <3>4, <3>5, NothingStarts
    <2>3. CASE step' = NoStep /\ UNCHANGED cycles
      BY <2>1, <2>3, StepEnds, NothingStarts
    <2>4. QED
      BY <1>2, <2>2, <2>3 DEF CycleComposed
  <1>3. CASE StepFails
    <2>1. step' = NoStep /\ UNCHANGED <<groups, work, task>>
      BY <1>3 DEF StepFails
    <2>2. CASE UNCHANGED <<auto, cycles>>
      BY <2>1, <2>2, StepEnds, NothingStarts
    <2>3. CASE ~UNCHANGED <<auto, cycles>>
      <3>1. SetError /\ cycles' = [c \in DOMAIN cycles |->
                 IF cycles[c].state = "preparing" THEN [cycles[c] EXCEPT !.claim = FALSE] ELSE cycles[c]]
        BY <1>3, <2>3 DEF StepFails
      <3>0. auto.blocked # "gone"
        BY <1>3, <2>3 DEF StepFails, StepFits, AutoInv
      <3>2. CyclesGoOn
        BY <3>1, UnclaimedGoesOn
      <3>3. PICK b \in {"no", "yes"} : auto' = [auto EXCEPT !.blocked = b]
        BY <3>1 DEF SetError
      <3>4. QED
        BY <2>1, <3>0, <3>2, <3>3, BlockedGoesOn, StepEnds, NothingStarts
    <2>4. QED
      BY <2>2, <2>3
  <1>4. CASE Stop
    <2>1. task' = Idle /\ step' = NoStep /\ UNCHANGED <<auto, groups, work>>
      BY <1>4 DEF Stop
    <2>2. CyclesGoOn
      <3>1. CASE step.stage = "compose"
        <4> DEFINE c == step.cycle
                   row == [cycles[c] EXCEPT !.claim = FALSE]
        <4>1. c \in 1 .. Len(cycles)
          BY <1>1, <3>1
        <4>2. cycles' = [cycles EXCEPT ![c] = row]
          BY <1>4, <3>1 DEF Stop
        <4>3. /\ row \in CycleRow /\ row.revision = cycles[c].revision
              /\ row.claim = FALSE /\ row.state = cycles[c].state
          BY <1>1, <4>1 DEF CycleRow
        <4> HIDE DEF row, c
        <4>4. QED
          BY <4>1, <4>2, <4>3, OneCycleGoesOn DEF Waits
      <3>2. CASE step.stage # "compose"
        BY <1>4, <3>2 DEF Stop
      <3>3. QED
        BY <3>1, <3>2
    <2>3. QED
      BY <2>1, <2>2, StepEnds, TaskEnds, NothingStarts
  <1>5. CASE Crash
    BY <1>5, StepEnds, TaskEnds, NothingStarts DEF Crash
  <1>6. CASE StartUp
    BY <1>6, NothingStarts DEF StartUp
  <1>7. CASE SubmitManual
    <2>1. UNCHANGED <<auto, cycles, groups, task, step>> /\ work' = Started(0, 1)
      BY <1>7 DEF SubmitManual
    <2>2. WorkGoesOn
      <3>1. work \in [0 .. Len(cycles) -> WorkRow] /\ 0 \in 0 .. Len(cycles) /\ Len(cycles) \in Nat
        BY Rows DEF AutoInv, RowsOK
      <3>2. work' = [work EXCEPT ![0].active = @ + 1, ![0].batches = 0]
        BY <2>1 DEF Started
      <3>3. \A c \in 1 .. Len(cycles) : work'[c] = work[c] /\ work[c] \in WorkRow
        BY <3>1, <3>2
      <3>4. work'[0] = [work[0] EXCEPT !.active = @ + 1, !.batches = 0]
        BY <3>1, <3>2 DEF WorkRow
      <3>5. work'[0] \in WorkRow
        BY <3>1, <3>4 DEF WorkRow
      <3>6. work' \in [0 .. Len(cycles) -> WorkRow]
        BY <3>1, <3>2, <3>3, <3>5
      <3>7. QED
        BY <3>3, <3>6 DEF WorkGoesOn, WorkRow
    <2>3. QED
      BY <2>1, <2>2, NothingStarts
  <1>8. QED
    BY <1>2, <1>3, <1>4, <1>5, <1>6, <1>7

-----------------------------------------------------------------------------
(* The preparations.                                                       *)

LEMMA TextsKeep ==
    ASSUME AutoInv, NEW g \in DOMAIN groups, TextMoves(g) \/ TextGivesUp(g), UNCHANGED step
    PROVE  AutoInv' /\ FatesStay
  <1>1. g \in 1 .. Len(groups) /\ groups[g] \in GroupRow /\ RowsOK
    BY Rows DEF AutoInv
  <1>2. PICK text \in {"active", "succeeded", "failed"} : groups' = [groups EXCEPT ![g].text = text]
    BY DEF TextMoves, TextGivesUp
  <1> DEFINE row == [groups[g] EXCEPT !.text = text]
  <1>3. groups' = [groups EXCEPT ![g] = row]
    BY <1>2
  <1>4. /\ row \in GroupRow /\ row.cycle = groups[g].cycle /\ row.size = groups[g].size
        /\ row.status = groups[g].status
    BY <1>1 DEF GroupRow
  <1> HIDE DEF row
  <1>5. GroupsGoOn /\ FatesStay
    BY <1>1, <1>3, <1>4, OneGroupGoesOn DEF IsActive
  <1>6. UNCHANGED <<auto, cycles, work, task>>
    BY DEF TextMoves, TextGivesUp
  <1>7. QED
    BY <1>5, <1>6, UnchangedGoesOn, NothingStarts

LEMMA StopRerunKeeps ==
    ASSUME AutoInv, StopRerun, UNCHANGED step
    PROVE  AutoInv' /\ FatesStay
  <1>1. PICK g : groups' = Failed({g}, "cancelled")
    BY DEF StopRerun
  <1>2. GroupsGoOn /\ FatesStay
    BY <1>1, FailedGoesOn DEF AutoInv, Words
  <1>3. UNCHANGED <<auto, cycles, work, task>>
    BY DEF StopRerun
  <1>4. QED
    BY <1>2, <1>3, UnchangedGoesOn, NothingStarts

LEMMA LoadKeeps ==
    ASSUME AutoInv, NEW g \in DOMAIN groups, LoadBatch(g), UNCHANGED step
    PROVE  AutoInv' /\ FatesStay
  <1>1. g \in 1 .. Len(groups) /\ groups[g] \in GroupRow /\ RowsOK
    BY Rows DEF AutoInv
  <1>2. IsActive(g) /\ task = Idle /\ UNCHANGED <<auto, cycles, work>>
    BY DEF LoadBatch, Takes
  <1>3. TaskGoesOn
    <2>1. CASE ~ValidCycle(g)
      <3>1. UNCHANGED task
        BY <2>1 DEF LoadBatch
      <3>2. QED
        BY <3>1, UnchangedGoesOn
    <2>2. CASE ValidCycle(g)
      <3>1. task' = Idle \/ \E stage \in {"fail", "compose", "accept"} : task' = [group |-> g, stage |-> stage]
        <4> DEFINE refines == groups[g].wants /\ ~groups[g].refined
        <4>1. task' = CASE groups[g].text \in {"queued", "active"} -> Idle
                        [] groups[g].text \in {"failed", "discarded"} -> [group |-> g, stage |-> "fail"]
                        [] OTHER -> [group |-> g, stage |-> IF refines THEN "compose" ELSE "accept"]
          BY <2>2 DEF LoadBatch
        <4> HIDE DEF refines
        <4>2. CASE groups[g].text \in {"queued", "active"}
          BY <4>1, <4>2
        <4>3. CASE groups[g].text \in {"failed", "discarded"}
          BY <4>1, <4>3
        <4>4. CASE groups[g].text \notin {"queued", "active", "failed", "discarded"}
          BY <4>1, <4>4
        <4>5. QED
          BY <4>2, <4>3, <4>4
      <3>2. Len(groups) \in Nat
        BY <1>1, Rows
      <3>3. QED
        BY <1>1, <3>1, <3>2, TaskEnds DEF TaskGoesOn, TaskRow
    <2>3. QED
      BY <2>1, <2>2
  <1>4. GroupsGoOn /\ FatesStay
    <2>1. CASE groups' = Failed({g}, "discarded")
      BY <1>1, <2>1, FailedGoesOn DEF Words
    <2>2. CASE UNCHANGED groups
      BY <2>2, UnchangedGoesOn DEF FatesStay
    <2>3. ASSUME NEW status \in {"refining", "ready"}, groups' = [groups EXCEPT ![g].status = status]
          PROVE  GroupsGoOn /\ FatesStay
      <3> DEFINE row == [groups[g] EXCEPT !.status = status]
      <3>1. groups' = [groups EXCEPT ![g] = row]
        BY <2>3
      <3>2. row \in GroupRow /\ row.cycle = groups[g].cycle /\ row.size = groups[g].size
        BY <1>1 DEF GroupRow, PreparationActive
      <3> HIDE DEF row
      <3>3. QED
        BY <1>1, <1>2, <3>1, <3>2, OneGroupGoesOn
    <2>4. \/ groups' = Failed({g}, "discarded")
          \/ UNCHANGED groups
          \/ groups' = [groups EXCEPT ![g].status = "refining"]
          \/ groups' = [groups EXCEPT ![g].status = "ready"]
      BY DEF LoadBatch
    <2>5. QED
      BY <2>1, <2>2, <2>3, <2>4
  <1>5. QED
    BY <1>2, <1>3, <1>4, UnchangedGoesOn, NothingStarts

LEMMA ComposeKeeps ==
    ASSUME AutoInv, Compose, UNCHANGED step
    PROVE  AutoInv' /\ FatesStay
  <1> DEFINE g == task.group
  <1>1. /\ g \in 1 .. Len(groups) /\ groups[g] \in GroupRow /\ RowsOK /\ task \in TaskRow
        /\ UNCHANGED <<auto, cycles, work>>
    BY Rows DEF AutoInv, RowsOK, Compose
  <1>2. TaskGoesOn
    <2>1. PICK stage \in {"accept", "fail"} : task' = [task EXCEPT !.stage = stage]
      BY DEF Compose
    <2>2. QED
      BY <1>1, <2>1 DEF TaskGoesOn, TaskRow, RowsOK
  <1>3. GroupsGoOn /\ FatesStay
    <2>1. CASE UNCHANGED groups
      BY <2>1, UnchangedGoesOn DEF FatesStay
    <2>2. CASE ~UNCHANGED groups
      <3> DEFINE row == [groups[g] EXCEPT !.refined = TRUE, !.status = "ready"]
      <3>1. /\ groups[g].status \in {"preparing", "refining"}
            /\ groups' = [groups EXCEPT ![g].refined = TRUE, ![g].status = "ready"]
        BY <2>2 DEF Compose
      <3>2. groups' = [groups EXCEPT ![g] = row]
        BY <1>1, <3>1, Rows
      <3>3. row \in GroupRow /\ row.cycle = groups[g].cycle /\ row.size = groups[g].size
        BY <1>1 DEF GroupRow, PreparationActive
      <3>4. IsActive(g)
        BY <3>1 DEF IsActive, PreparationActive
      <3> HIDE DEF row, g
      <3>5. QED
        BY <1>1, <3>2, <3>3, <3>4, OneGroupGoesOn
    <2>3. QED
      BY <2>1, <2>2
  <1>4. QED
    BY <1>1, <1>2, <1>3, UnchangedGoesOn, NothingStarts

LEMMA FailureKeeps ==
    ASSUME AutoInv, AcceptFails \/ Fail, UNCHANGED step
    PROVE  AutoInv' /\ FatesStay
  <1>1. CASE AcceptFails
    <2>1. UNCHANGED <<groups, auto, cycles, work>>
      BY <1>1 DEF AcceptFails
    <2>2. TaskGoesOn
      <3>1. CASE task' = Idle
        BY <3>1, TaskEnds
      <3>2. CASE task' = [task EXCEPT !.stage = "fail"]
        BY <1>1, <3>2 DEF AcceptFails, TaskGoesOn, TaskRow, AutoInv, RowsOK
      <3>3. QED
        BY <1>1, <3>1, <3>2 DEF AcceptFails
    <2>3. QED
      BY <2>1, <2>2, UnchangedGoesOn, NothingStarts DEF FatesStay
  <1>2. CASE Fail
    <2>1. task' = Idle /\ groups' = Failed({task.group}, "failed") /\ UNCHANGED <<cycles, work>>
      BY <1>2 DEF Fail
    <2>2. GroupsGoOn /\ FatesStay
      BY <2>1, FailedGoesOn DEF AutoInv, Words
    <2>3. SettingsGoOn /\ SameSettings
      BY <1>2, UnchangedGoesOn, BlockedGoesOn DEF Fail, ValidCycle
    <2>4. QED
      BY <2>1, <2>2, <2>3, TaskEnds, UnchangedGoesOn, NothingStarts
  <1>3. QED
    BY <1>1, <1>2

LEMMA ImageEndsKeeps ==
    ASSUME AutoInv, NEW c \in DOMAIN work, WorkEnds(c), UNCHANGED step
    PROVE  AutoInv'
  <1>1. c \in 0 .. Len(cycles) /\ work[c] \in WorkRow /\ work \in [0 .. Len(cycles) -> WorkRow]
    BY Rows DEF AutoInv, RowsOK
  <1>2. work[c].active > 0 /\ UNCHANGED <<auto, cycles, groups, task>>
    BY DEF WorkEnds
  <1>3. PICK row : /\ row = [work[c] EXCEPT !.active = @ - 1]
                      \/ row = [work[c] EXCEPT !.active = @ - 1, !.failed = TRUE]
                   /\ work' = [work EXCEPT ![c] = row]
    <2>1. CASE work' = [work EXCEPT ![c].active = @ - 1]
      BY <1>1, <2>1 DEF WorkRow
    <2>2. CASE work' = [work EXCEPT ![c].active = @ - 1, ![c].failed = TRUE]
      <3>1. work' = [work EXCEPT ![c] = [work[c] EXCEPT !.active = @ - 1, !.failed = TRUE]]
        BY <1>1, <2>2 DEF WorkRow
      <3>2. QED
        BY <3>1
    <2>3. QED
      BY <2>1, <2>2 DEF WorkEnds
  <1>4. row \in WorkRow /\ row.active = work[c].active - 1 /\ row.batches = work[c].batches
    BY <1>1, <1>2, <1>3 DEF WorkRow
  <1>5. WorkGoesOn
    <2>1. work' \in [0 .. Len(cycles) -> WorkRow]
      BY <1>1, <1>3, <1>4
    <2>2. ASSUME NEW d \in 1 .. Len(cycles)
          PROVE  work'[d].active <= work[d].active /\ work'[d].batches = work[d].batches
      <3>1. d \in 0 .. Len(cycles) /\ work[d] \in WorkRow
        BY Rows DEF AutoInv
      <3>2. work'[d] = IF d = c THEN row ELSE work[d]
        BY <1>1, <1>3, <3>1
      <3>3. QED
        BY <1>4, <3>1, <3>2 DEF WorkRow
    <2>3. QED
      BY <2>1, <2>2 DEF WorkGoesOn
  <1>6. QED
    BY <1>2, <1>5, UnchangedGoesOn, NothingStarts

-----------------------------------------------------------------------------
(* What begins: groups and cycles.                                         *)

LEMMA AppendIs ==
    ASSUME NEW S, NEW q \in Seq(S), NEW e \in S
    PROVE  /\ Append(q, e) \in Seq(S) /\ Len(Append(q, e)) = Len(q) + 1
           /\ \A k \in 1 .. Len(q) : Append(q, e)[k] = q[k]
           /\ Append(q, e)[Len(q) + 1] = e
  OBVIOUS

LEMMA PrepareKeeps ==
    ASSUME AutoInv, NEW kind \in {"manual", "rerun"}, Prepare(kind), UNCHANGED step
    PROVE  AutoInv' /\ FatesStay
  <1> DEFINE row == NewGroup(kind, 0, Batch, TRUE)
             n == Len(groups)
  <1>1. row \in GroupRow /\ row.cycle = 0
    <2>1. Batch \in Nat /\ 0 \in Nat /\ kind \in {"manual", "rerun", "auto"}
      BY SizesAssumption
    <2>2. QED
      BY <2>1 DEF NewGroup, GroupRow, PreparationActive
  <1>2. groups' = Append(groups, row) /\ UNCHANGED <<auto, cycles, work, task>>
    BY DEF Prepare
  <1> HIDE DEF row
  <1>3. /\ groups' \in Seq(GroupRow) /\ Len(groups') = n + 1 /\ n \in Nat
        /\ \A g \in 1 .. n : groups'[g] = groups[g]
        /\ groups'[n + 1] = row
    BY <1>1, <1>2, AppendIs, Rows DEF AutoInv, RowsOK
  <1>4. RowsOK' /\ AutoFits' /\ StepFits'
    BY <1>2, <1>3 DEF AutoInv, RowsOK, AutoFits, StepFits
  <1>5. CyclesFit'
    BY <1>2 DEF AutoInv, CyclesFit, Waits
  <1>6. GroupsFit'
    <2>1. \A g \in 1 .. n + 1 : g \in 1 .. n \/ g = n + 1
      BY <1>3
    <2>2. \A g \in 1 .. n + 1 : Wanted(g)' => g \in 1 .. n /\ Wanted(g)
      BY <1>1, <1>3, <2>1 DEF Wanted, IsActive
    <2>3. ASSUME NEW g \in 1 .. n + 1
          PROVE  /\ groups'[g].cycle \in 0 .. Len(cycles')
                 /\ groups'[g].cycle # 0 => cycles'[groups'[g].cycle].state \in {"accepted", "completed"}
                 /\ Wanted(g)' => /\ auto'.blocked # "gone" =>
                                        /\ cycles'[groups'[g].cycle].revision = auto'.revision
                                        /\ auto'.prompt
                                        /\ auto'.accepted + groups'[g].size <= auto'.limit
                                  /\ work'[groups'[g].cycle].batches = 0
                                  /\ \A c \in 1 .. Len(cycles') : work'[c].active = 0
      <3>1. CASE g \in 1 .. n
        <4>1. groups'[g] = groups[g]
          BY <1>3, <3>1
        <4>2. QED
          BY <1>2, <2>2, <3>1, <4>1 DEF AutoInv, GroupsFit
      <3>2. CASE g = n + 1
        <4>1. groups'[g].cycle = 0 /\ ~Wanted(g)'
          BY <1>1, <1>3, <3>2 DEF Wanted
        <4>2. Len(cycles') \in Nat
          BY <1>2, Rows DEF AutoInv
        <4>3. QED
          BY <4>1, <4>2
      <3>3. QED
        BY <2>1, <3>1, <3>2
    <2>4. QED
      BY <1>3, <2>2, <2>3 DEF AutoInv, GroupsFit
  <1>7. FatesStay
    BY <1>3 DEF FatesStay
  <1>8. QED
    BY <1>4, <1>5, <1>6, <1>7 DEF AutoInv

LEMMA AddCycleIs ==
    ASSUME AutoInv, NEW state \in {"preparing", "accepted"}, NEW claim \in BOOLEAN,
           AddCycle(state, claim)
    PROVE  LET n == Len(cycles)
               new == [revision |-> auto.revision, state |-> state, claim |-> claim]
           IN  /\ cycles' \in Seq(CycleRow) /\ Len(cycles') = n + 1 /\ cycles'[n + 1] = new
               /\ \A c \in 1 .. n :
                     /\ cycles'[c].revision = cycles[c].revision /\ cycles'[c].claim = cycles[c].claim
                     /\ cycles'[c].state = cycles[c].state \/ (/\ cycles[c].state = "accepted"
                                                              /\ cycles'[c].state = "completed")
               /\ work' \in [0 .. n + 1 -> WorkRow]
               /\ \A c \in 0 .. n : work'[c] = work[c]
               /\ work'[n + 1] = NoWork
  <1> DEFINE n == Len(cycles)
             new == [revision |-> auto.revision, state |-> state, claim |-> claim]
             done == Completed(n)
  <1>1. n \in Nat /\ DOMAIN work = 0 .. n /\ \A c \in 0 .. n : work[c] \in WorkRow
    BY Rows DEF AutoInv
  <1>2. new \in CycleRow
    BY DEF AutoInv, RowsOK, AutoRow, CycleRow
  <1>3. done \in Seq(CycleRow) /\ Len(done) = n
    BY <1>1, CompletedIs, SeqFrom
  <1>4. /\ cycles' = Append(done, new)
        /\ work' = [c \in 0 .. n + 1 |-> IF c \in DOMAIN work THEN work[c] ELSE NoWork]
    BY DEF AddCycle
  <1> HIDE DEF done, new
  <1>5. /\ cycles' \in Seq(CycleRow) /\ Len(cycles') = n + 1 /\ cycles'[n + 1] = new
        /\ \A c \in 1 .. n : cycles'[c] = done[c]
    BY <1>2, <1>3, <1>4, AppendIs
  <1>6. /\ work' \in [0 .. n + 1 -> WorkRow]
        /\ \A c \in 0 .. n : work'[c] = work[c]
        /\ work'[n + 1] = NoWork
    <2>1. NoWork \in WorkRow
      BY DEF NoWork, WorkRow
    <2>2. \A c \in 0 .. n + 1 : work'[c] = IF c \in 0 .. n THEN work[c] ELSE NoWork
      BY <1>1, <1>4
    <2>3. n + 1 \in 0 .. n + 1 /\ n + 1 \notin 0 .. n /\ 0 .. n \subseteq 0 .. n + 1
      BY <1>1
    <2>4. QED
      BY <1>1, <1>4, <2>1, <2>2, <2>3
  <1>7. \A c \in 1 .. n :
            /\ done[c].revision = cycles[c].revision /\ done[c].claim = cycles[c].claim
            /\ done[c].state = cycles[c].state \/ (/\ cycles[c].state = "accepted"
                                                  /\ done[c].state = "completed")
    BY <1>1, CompletedIs DEF done
  <1>8. QED
    BY <1>5, <1>6, <1>7 DEF new

(* A cycle with a text source begins when nothing else is under way.       *)
LEMMA PromptCycleKeeps ==
    ASSUME AutoInv, PromptCycle
    PROVE  AutoInv' /\ FatesStay
  <1> DEFINE n == Len(cycles)
             m == Len(groups)
  <1>0. n \in Nat /\ m \in Nat /\ auto \in AutoRow /\ DOMAIN groups = 1 .. m /\ DOMAIN work = 0 .. n
        /\ \A c \in 0 .. n : work[c] \in WorkRow
    BY Rows DEF AutoInv, RowsOK
  <1>1. CASE Budget <= 0
    <2>1. auto' = Switched /\ cycles' = Completed(n) /\ UNCHANGED <<groups, work, task, step>>
      BY <1>1 DEF PromptCycle
    <2>2. CyclesGoOn
      BY <1>0, <2>1, CompletedGoesOn
    <2>3. QED
      BY <2>1, <2>2, SwitchedGoesOn, UnchangedGoesOn, NothingStarts DEF FatesStay
  <1>2. CASE Budget > 0
    <2> DEFINE row == NewGroup("auto", n + 1, Budget, TRUE)
    <2>1. Budget \in Nat /\ auto.accepted + Budget <= auto.limit
      <3>1. Quantity \in Nat /\ auto.limit \in Nat /\ auto.accepted \in Nat
        BY <1>0, SizesAssumption DEF AutoRow
      <3>2. QED
        BY <1>2, <3>1 DEF Budget
    <2>2. /\ AddCycle("accepted", FALSE) /\ groups' = Append(groups, row)
          /\ UNCHANGED <<auto, task, step>>
      <3>1. ~(Budget <= 0)
        BY <1>2, <2>1
      <3>2. QED
        BY <3>1, Zenon DEF PromptCycle
    <2>3. /\ auto.prompt /\ auto.blocked = "no"
          /\ \A g \in 1 .. m : ~IsActive(g)
          /\ \A c \in 0 .. n : ~(work[c].active > 0)
      <3>1. auto.prompt /\ auto.blocked = "no" /\ ~Busy
        BY DEF PromptCycle, Continues, Begins
      <3>2. \A g \in DOMAIN groups : ~IsActive(g)
        BY DEF PromptCycle
      <3>3. QED
        BY <1>0, <3>1, <3>2 DEF Busy
    <2>4. /\ row \in GroupRow /\ row.cycle = n + 1 /\ row.size = Budget
      BY <1>0, <2>1 DEF NewGroup, GroupRow, PreparationActive
    <2> DEFINE new == [revision |-> auto.revision, state |-> "accepted", claim |-> FALSE]
    <2>5. /\ cycles' \in Seq(CycleRow) /\ Len(cycles') = n + 1 /\ cycles'[n + 1] = new
          /\ \A c \in 1 .. n :
                /\ cycles'[c].revision = cycles[c].revision /\ cycles'[c].claim = cycles[c].claim
                /\ cycles'[c].state = cycles[c].state \/ (/\ cycles[c].state = "accepted"
                                                         /\ cycles'[c].state = "completed")
          /\ work' \in [0 .. n + 1 -> WorkRow]
          /\ \A c \in 0 .. n : work'[c] = work[c]
          /\ work'[n + 1] = NoWork
      BY <2>2, AddCycleIs
    <2> HIDE DEF row
    <2>6. /\ groups' \in Seq(GroupRow) /\ Len(groups') = m + 1 /\ groups'[m + 1] = row
          /\ \A g \in 1 .. m : groups'[g] = groups[g]
      BY <2>2, <2>4, AppendIs DEF AutoInv, RowsOK
    <2>7. \A c \in 1 .. n + 1 : work'[c].active = 0
      <3>1. \A c \in 1 .. n : work'[c] = work[c] /\ work[c].active = 0
        BY <1>0, <2>3, <2>5 DEF WorkRow
      <3>2. work'[n + 1].active = 0
        BY <2>5 DEF NoWork
      <3>3. \A c \in 1 .. n + 1 : c \in 1 .. n \/ c = n + 1
        BY <1>0
      <3>4. QED
        BY <3>1, <3>2, <3>3
    <2>8. RowsOK' /\ AutoFits' /\ StepFits'
      <3>1. task.group \in 0 .. m + 1 /\ (task.stage # "none" => task.group \in 1 .. m + 1)
        BY <1>0 DEF AutoInv, RowsOK
      <3>2. step.cycle \in 0 .. n + 1 /\ (step.stage # "none" => step.cycle \in 1 .. n + 1)
        BY <1>0 DEF AutoInv, RowsOK
      <3>3. QED
        BY <2>2, <2>5, <2>6, <3>1, <3>2 DEF AutoInv, RowsOK, AutoFits, StepFits
    <2>9. CyclesFit'
      <3>1. ASSUME NEW c \in 1 .. n + 1
            PROVE  /\ cycles'[c].claim => cycles'[c].state = "preparing"
                   /\ work'[c].batches <= 1 /\ ~Waits(c)'
        <4>1. CASE c \in 1 .. n
          BY <4>1, <2>3, <2>5 DEF AutoInv, CyclesFit, Waits
        <4>2. CASE c = n + 1
          BY <4>2, <2>5 DEF NoWork, Waits
        <4>3. QED
          BY <1>0, <4>1, <4>2
      <3>2. QED
        BY <3>1, <2>5, <2>7 DEF CyclesFit
    <2>10. GroupsFit'
      <3>1. \A g \in 1 .. m + 1 : g \in 1 .. m \/ g = m + 1
        BY <1>0
      <3>2. \A g \in 1 .. m : ~Wanted(g)'
        BY <2>3, <2>6 DEF Wanted, IsActive
      <3>3. ASSUME NEW g \in 1 .. m
            PROVE  /\ groups'[g].cycle \in 0 .. n + 1
                   /\ groups'[g].cycle # 0 => cycles'[groups'[g].cycle].state \in {"accepted", "completed"}
        <4>1. groups'[g].cycle \in 0 .. n
          BY <2>6 DEF AutoInv, GroupsFit
        <4>2. groups'[g].cycle # 0 => cycles[groups'[g].cycle].state \in {"accepted", "completed"}
          BY <2>6 DEF AutoInv, GroupsFit
        <4>3. QED
          BY <1>0, <2>5, <4>1, <4>2
      <3>4. /\ groups'[m + 1].cycle = n + 1 /\ groups'[m + 1].size = Budget
            /\ cycles'[n + 1].state = "accepted" /\ cycles'[n + 1].revision = auto.revision
            /\ work'[n + 1].batches = 0
        BY <2>4, <2>5, <2>6 DEF NoWork
      <3>5. QED
        BY <1>0, <2>1, <2>2, <2>3, <2>5, <2>6, <2>7, <3>1, <3>2, <3>3, <3>4 DEF GroupsFit
    <2>11. FatesStay
      BY <2>6 DEF FatesStay
    <2>12. QED
      BY <2>8, <2>9, <2>10, <2>11 DEF AutoInv
  <1>3. Budget \in Int
    <2>1. Quantity \in Nat /\ auto.limit \in Nat /\ auto.accepted \in Nat
      BY <1>0, SizesAssumption DEF AutoRow
    <2>2. QED
      BY <2>1 DEF Budget
  <1>4. QED
    BY <1>1, <1>2, <1>3

(* Another cycle begins or goes on.                                        *)
LEMMA DirectCycleKeeps ==
    ASSUME AutoInv, DirectCycle
    PROVE  AutoInv'
  <1> DEFINE n == Len(cycles)
  <1>1. /\ n \in Nat /\ auto \in AutoRow /\ DOMAIN cycles = 1 .. n
        /\ \A c \in 1 .. n : cycles[c] \in CycleRow
        /\ ~auto.prompt /\ auto.blocked = "no" /\ UNCHANGED <<auto, groups, task>>
    BY Rows DEF AutoInv, RowsOK, DirectCycle, Continues, Begins
  <1>2. CASE Open = {}
    <2> DEFINE new == [revision |-> auto.revision, state |-> "preparing", claim |-> TRUE]
    <2>1. /\ AddCycle("preparing", TRUE)
          /\ step' = [stage |-> "compose", revision |-> auto.revision, cycle |-> n + 1]
      BY <1>2 DEF DirectCycle
    <2>2. /\ cycles' \in Seq(CycleRow) /\ Len(cycles') = n + 1 /\ cycles'[n + 1] = new
          /\ \A c \in 1 .. n :
                /\ cycles'[c].revision = cycles[c].revision /\ cycles'[c].claim = cycles[c].claim
                /\ cycles'[c].state = cycles[c].state \/ (/\ cycles[c].state = "accepted"
                                                         /\ cycles'[c].state = "completed")
          /\ work' \in [0 .. n + 1 -> WorkRow]
          /\ \A c \in 0 .. n : work'[c] = work[c]
          /\ work'[n + 1] = NoWork
      BY <2>1, AddCycleIs
    <2>3. \A c \in 1 .. n + 1 : c \in 1 .. n \/ c = n + 1
      BY <1>1
    <2>4. \A c \in 1 .. n : work'[c] = work[c]
      BY <2>2
    <2>5. RowsOK' /\ AutoFits' /\ StepFits'
      <3>1. step' \in StepRow /\ step'.cycle \in 1 .. n + 1
        BY <1>1, <2>1 DEF StepRow, AutoRow
      <3>2. QED
        BY <1>1, <2>1, <2>2, <3>1, SizesAssumption DEF AutoInv, RowsOK, AutoFits, StepFits, AutoRow
    <2>6. CyclesFit'
      <3>1. ASSUME NEW c \in 1 .. n + 1
            PROVE  /\ cycles'[c].claim => cycles'[c].state = "preparing"
                   /\ work'[c].batches <= 1
                   /\ Waits(c)' => /\ cycles'[c].revision = auto.revision
                                   /\ work'[c].active = 0 /\ work'[c].batches = 0
        <4>1. CASE c \in 1 .. n
          BY <4>1, <1>1, <2>2, <2>4 DEF AutoInv, CyclesFit, Waits
        <4>2. CASE c = n + 1
          BY <4>2, <2>2 DEF NoWork, Waits
        <4>3. QED
          BY <2>3, <4>1, <4>2
      <3>2. ASSUME NEW c \in 1 .. n + 1, NEW d \in 1 .. n + 1, work'[c].active > 0, work'[d].active > 0
            PROVE  c = d
        <4>1. c \in 1 .. n /\ d \in 1 .. n
          BY <2>2, <2>3, <3>2 DEF NoWork
        <4>2. QED
          BY <2>4, <3>2, <4>1 DEF AutoInv, CyclesFit
      <3>3. QED
        BY <1>1, <2>2, <3>1, <3>2 DEF CyclesFit
    <2>7. GroupsFit'
      <3>1. \A g \in 1 .. Len(groups) : ~Wanted(g)
        BY <1>1 DEF AutoInv, GroupsFit
      <3>2. ASSUME NEW g \in 1 .. Len(groups)
            PROVE  /\ groups[g].cycle \in 0 .. n + 1
                   /\ groups[g].cycle # 0 => cycles'[groups[g].cycle].state \in {"accepted", "completed"}
        <4>1. groups[g].cycle \in 0 .. n
          BY DEF AutoInv, GroupsFit
        <4>2. groups[g].cycle # 0 => cycles[groups[g].cycle].state \in {"accepted", "completed"}
          BY DEF AutoInv, GroupsFit
        <4>3. QED
          BY <1>1, <2>2, <4>1, <4>2
      <3>3. \A g \in 1 .. Len(groups) : ~Wanted(g)'
        BY <1>1, <3>1 DEF Wanted, IsActive
      <3>4. QED
        BY <1>1, <2>2, <3>2, <3>3 DEF GroupsFit
    <2>8. QED
      BY <2>5, <2>6, <2>7 DEF AutoInv
  <1>3. CASE Open # {}
    <2>1. PICK c \in Open :
            /\ cycles' = [Completed(n) EXCEPT ![c].claim = (cycles[c].state = "preparing")]
            /\ step' = [stage |-> IF cycles[c].state = "ready" THEN "accept" ELSE "compose",
                        revision |-> auto.revision, cycle |-> c]
            /\ UNCHANGED work
      BY <1>3 DEF DirectCycle
    <2>2. c \in 1 .. n /\ Waits(c)
      BY <1>1, <2>1 DEF Open, Waits
    <2>3. StepGoesOn
      BY <1>1, <2>1, <2>2 DEF StepGoesOn, StepRow, AutoRow
    <2>4. CyclesGoOn
      <3> DEFINE done == Completed(n)
                 claims == cycles[c].state = "preparing"
                 row == [done[c] EXCEPT !.claim = claims]
      <3>1. /\ done \in [1 .. n -> CycleRow]
            /\ \A d \in 1 .. n :
                  /\ done[d].revision = cycles[d].revision /\ done[d].claim = cycles[d].claim
                  /\ done[d].state = cycles[d].state \/ (/\ cycles[d].state = "accepted"
                                                        /\ done[d].state = "completed")
        BY <1>1, CompletedIs
      <3>2. claims \in BOOLEAN
        OBVIOUS
      <3>3. cycles' = [done EXCEPT ![c] = row]
        BY <2>1, <2>2, <3>1
      <3> HIDE DEF done, claims
      <3>4. row \in CycleRow /\ row.revision = done[c].revision /\ row.state = done[c].state /\ row.claim = claims
        BY <2>2, <3>1, <3>2 DEF CycleRow
      <3>5. done[c].state = cycles[c].state /\ (claims => cycles[c].state = "preparing")
        BY <2>2, <3>1 DEF Waits, claims
      <3> HIDE DEF row
      <3>6. cycles' \in [1 .. n -> CycleRow] /\ cycles'[c] = row
            /\ \A d \in 1 .. n : d # c => cycles'[d] = done[d]
        BY <2>2, <3>1, <3>3, <3>4
      <3>7. ASSUME NEW d \in 1 .. n
            PROVE  /\ cycles'[d].revision = cycles[d].revision
                   /\ cycles'[d].claim => cycles'[d].state = "preparing"
                   /\ Waits(d)' => Waits(d)
                   /\ cycles[d].state \in {"accepted", "completed"} =>
                          cycles'[d].state \in {"accepted", "completed"}
        <4>1. CASE d = c
          BY <2>2, <3>1, <3>4, <3>5, <3>6, <4>1 DEF Waits
        <4>2. CASE d # c
          BY <3>1, <3>6, <4>2 DEF Waits, AutoInv, CyclesFit
        <4>3. QED
          BY <4>1, <4>2
      <3>8. QED
        BY <3>6, <3>7 DEF CyclesGoOn
    <2>5. QED
      BY <1>1, <2>1, <2>3, <2>4, UnchangedGoesOn, NothingStarts
  <1>4. QED
    BY <1>2, <1>3

-----------------------------------------------------------------------------
(* What is accepted.                                                       *)

InForce ==
    \A c \in DOMAIN cycles :
        work'[c].batches > work[c].batches =>
            /\ cycles[c].revision = auto.revision /\ auto.enabled /\ auto.blocked # "gone"
            /\ auto'.since <= auto'.limit

LEMMA StartedIs ==
    ASSUME AutoInv, NEW c \in 0 .. Len(cycles), NEW k \in Nat, work' = Started(c, k)
    PROVE  /\ work' \in [0 .. Len(cycles) -> WorkRow]
           /\ \A d \in 0 .. Len(cycles) : d # c => work'[d] = work[d]
           /\ work'[c].active = work[c].active + k
           /\ c # 0 => work'[c].batches = work[c].batches + 1
  <1> DEFINE again == IF c = 0 THEN 0 ELSE work[c].batches + 1
             more == work[c].active + k
             row == [work[c] EXCEPT !.active = more, !.batches = again]
  <1>1. work[c] \in WorkRow /\ work \in [0 .. Len(cycles) -> WorkRow]
    BY Rows DEF AutoInv, RowsOK
  <1>2. work' = [work EXCEPT ![c] = row]
    BY <1>1 DEF Started, WorkRow
  <1>3. more \in Nat /\ again \in Nat /\ (c # 0 => again = work[c].batches + 1)
    BY <1>1 DEF WorkRow
  <1> HIDE DEF again, more
  <1>4. row \in WorkRow /\ row.active = more /\ row.batches = again
    BY <1>1, <1>3 DEF WorkRow
  <1> HIDE DEF row
  <1>5. QED
    BY <1>1, <1>2, <1>3, <1>4 DEF more

LEMMA CountedIs ==
    ASSUME AutoInv, NEW k \in Nat, auto' = Counted(k)
    PROVE  /\ SettingsGoOn
           /\ auto'.revision = auto.revision /\ auto'.prompt = auto.prompt
           /\ auto'.limit = auto.limit /\ auto'.blocked = "no"
           /\ auto'.since = auto.accepted + k
  <1> DEFINE total == auto.accepted + k
             on == auto.enabled /\ total < auto.limit
             since == auto.since + k
  <1>1. auto \in AutoRow /\ auto.since = auto.accepted
    BY DEF AutoInv, RowsOK, AutoFits
  <1>2. auto' = [auto EXCEPT !.accepted = total, !.since = since, !.blocked = "no", !.enabled = on]
    BY DEF Counted
  <1>3. total \in Nat /\ since = total /\ on \in BOOLEAN
    BY <1>1 DEF AutoRow
  <1>4. on => total < auto.limit
    OBVIOUS
  <1> HIDE DEF total, on, since
  <1>5. /\ auto' \in AutoRow /\ auto'.revision = auto.revision /\ auto'.prompt = auto.prompt
        /\ auto'.limit = auto.limit /\ auto'.blocked = "no"
        /\ auto'.since = total /\ auto'.accepted = total /\ auto'.enabled = on
    BY <1>1, <1>2, <1>3 DEF AutoRow
  <1>6. QED
    BY <1>4, <1>5 DEF SettingsGoOn, AutoFits, total

LEMMA AcceptKeeps ==
    ASSUME AutoInv, Accept, UNCHANGED step
    PROVE  AutoInv' /\ FatesStay /\ InForce
  <1> DEFINE n == Len(cycles)
             m == Len(groups)
  <1>0. PICK g : g = task.group
    OBVIOUS
  <1> DEFINE c == groups[g].cycle
  <1>1. /\ g \in 1 .. m /\ groups[g] \in GroupRow /\ RowsOK /\ n \in Nat /\ m \in Nat
        /\ DOMAIN cycles = 1 .. n /\ DOMAIN groups = 1 .. m
        /\ \A d \in 0 .. n : work[d] \in WorkRow
    BY <1>0, Rows DEF AutoInv, RowsOK, Accept
  <1>2. task' = Idle /\ UNCHANGED <<cycles, step>> /\ TaskGoesOn
    BY TaskEnds DEF Accept
  <1>3. CASE UNCHANGED <<groups, auto, work>>
    BY <1>1, <1>2, <1>3, UnchangedGoesOn, NothingStarts DEF FatesStay, InForce, WorkRow
  <1>4. CASE ~UNCHANGED <<groups, auto, work>>
    <2>1. /\ IsActive(g) /\ ValidCycle(g)
          /\ groups' = [groups EXCEPT ![g].status = "accepted"]
          /\ work' = Started(c, groups[g].size)
          /\ auto' = IF c = 0 THEN auto ELSE Counted(groups[g].size)
      BY <1>0, <1>4 DEF Accept
    <2>2. c \in 0 .. n /\ groups[g].size \in Nat
      BY <1>1 DEF AutoInv, GroupsFit, GroupRow
    <2>3. GroupsGoOn /\ FatesStay /\ ~IsActive(g)'
      <3> DEFINE row == [groups[g] EXCEPT !.status = "accepted"]
      <3>1. groups' = [groups EXCEPT ![g] = row]
        BY <2>1
      <3>2. /\ row \in GroupRow /\ row.cycle = groups[g].cycle /\ row.size = groups[g].size
            /\ row.status = "accepted"
        BY <1>1 DEF GroupRow, Words
      <3> HIDE DEF row
      <3>3. groups'[g] = row
        BY <1>1, <3>1
      <3>4. QED
        BY <1>1, <2>1, <3>1, <3>2, <3>3, OneGroupGoesOn DEF IsActive, PreparationActive
    <2>4. /\ work' \in [0 .. n -> WorkRow]
          /\ \A d \in 0 .. n : d # c => work'[d] = work[d]
          /\ c # 0 => work'[c].batches = work[c].batches + 1
      BY <2>1, <2>2, StartedIs
    <2>5. CASE c = 0
      <3>1. \A d \in 1 .. n : work'[d] = work[d] /\ work[d] \in WorkRow
        BY <1>1, <2>4, <2>5
      <3>2. WorkGoesOn /\ InForce
        BY <1>1, <2>4, <3>1 DEF WorkGoesOn, InForce, WorkRow
      <3>3. UNCHANGED auto
        BY <2>1, <2>5
      <3>4. QED
        BY <1>2, <2>3, <3>2, <3>3, UnchangedGoesOn, NothingStarts
    <2>6. CASE c # 0
      <3>1. /\ Wanted(g) /\ auto.enabled /\ auto.blocked = "no" /\ cycles[c].revision = auto.revision
            /\ c \in 1 .. n
        BY <1>1, <2>1, <2>2, <2>6 DEF Wanted, ValidCycle
      <3>2. /\ auto.prompt /\ auto.accepted + groups[g].size <= auto.limit
            /\ work[c].batches = 0 /\ \A d \in 1 .. n : work[d].active = 0
        BY <1>1, <3>1 DEF AutoInv, GroupsFit
      <3>3. /\ SettingsGoOn
            /\ auto'.revision = auto.revision /\ auto'.prompt = auto.prompt
            /\ auto'.limit = auto.limit /\ auto'.blocked = "no"
            /\ auto'.since = auto.accepted + groups[g].size
        BY <2>1, <2>2, <2>6, CountedIs
      <3>4. \A d \in 1 .. n : d # c => work'[d] = work[d]
        BY <2>4
      <3>5. InForce
        BY <1>1, <3>1, <3>2, <3>3, <3>4 DEF InForce, WorkRow
      <3>6. /\ groups' \in Seq(GroupRow) /\ Len(groups') = m
        BY <1>1, <2>3, SeqFrom DEF GroupsGoOn
      <3>7. RowsOK' /\ AutoFits' /\ StepFits'
        <4>1. RowsOK' /\ AutoFits'
          BY <1>1, <1>2, <2>4, <3>3, <3>6 DEF RowsOK, SettingsGoOn, TaskGoesOn
        <4>2. QED
          BY <1>2, <3>1, <3>3, <4>1 DEF StepFits, AutoInv
      <3>8. CyclesFit'
        <4>1. ASSUME NEW d \in 1 .. n
              PROVE  /\ cycles'[d].claim => cycles'[d].state = "preparing"
                     /\ work'[d].batches <= 1 /\ ~Waits(d)'
                     /\ d # c => ~(work'[d].active > 0)
          <5>1. ~Waits(d) /\ (cycles[d].claim => cycles[d].state = "preparing") /\ work[d].batches <= 1
            BY <3>1, <3>2 DEF AutoInv, CyclesFit
          <5>2. work'[d].batches <= 1
            BY <2>4, <2>6, <3>2, <3>4, <5>1
          <5>3. d # c => ~(work'[d].active > 0)
            BY <3>2, <3>4
          <5>4. QED
            BY <1>2, <5>1, <5>2, <5>3 DEF Waits
        <4>2. QED
          BY <1>2, <4>1 DEF CyclesFit
      <3>9. GroupsFit'
        <4>1. \A h \in 1 .. m : Wanted(h)' => Wanted(h)
          BY <2>3 DEF GroupsGoOn, Wanted
        <4>2. \A h \in 1 .. m : ~Wanted(h)'
          <5>1. \A h \in 1 .. m : Wanted(h) => h = g
            BY <1>1, <3>1 DEF AutoInv, GroupsFit
          <5>2. QED
            BY <2>3, <4>1, <5>1 DEF Wanted
        <4>3. \A h \in 1 .. m : groups'[h].cycle = groups[h].cycle
          BY <2>3 DEF GroupsGoOn
        <4>4. QED
          BY <1>2, <3>6, <4>2, <4>3 DEF AutoInv, GroupsFit
      <3>10. QED
        BY <2>3, <3>5, <3>7, <3>8, <3>9 DEF AutoInv
    <2>7. QED
      BY <2>5, <2>6
  <1>5. QED
    BY <1>3, <1>4

LEMMA AcceptReadyKeeps ==
    ASSUME AutoInv, AcceptReady
    PROVE  AutoInv' /\ InForce
  <1> DEFINE n == Len(cycles)
  <1>0. PICK c : c = step.cycle
    OBVIOUS
  <1>1. /\ c \in 1 .. n /\ RowsOK /\ n \in Nat /\ DOMAIN cycles = 1 .. n /\ DOMAIN work = 0 .. n
        /\ cycles[c] \in CycleRow /\ \A d \in 0 .. n : work[d] \in WorkRow
    BY <1>0, Rows DEF AutoInv, RowsOK, AcceptReady
  <1>2. step' = NoStep /\ UNCHANGED <<groups, task>> /\ StepGoesOn
    BY StepEnds DEF AcceptReady
  <1>3. CASE UNCHANGED <<cycles, work>> /\ (UNCHANGED auto \/ auto' = Switched)
    BY <1>1, <1>2, <1>3, SwitchedGoesOn, UnchangedGoesOn, NothingStarts DEF InForce, WorkRow
  <1>4. CASE ~(UNCHANGED <<cycles, work>> /\ (UNCHANGED auto \/ auto' = Switched))
    <2>1. /\ auto.enabled /\ auto.revision = step.revision /\ cycles[c].state = "ready" /\ ~Busy
          /\ ~(Budget <= 0)
          /\ cycles' = [cycles EXCEPT ![c].state = "accepted"]
          /\ work' = Started(c, Budget) /\ auto' = Counted(Budget)
      BY <1>0, <1>4 DEF AcceptReady
    <2>0. auto.blocked # "gone"
      BY <2>1 DEF AcceptReady, StepFits, AutoInv
    <2>2. Budget \in Nat /\ auto.accepted + Budget <= auto.limit
      <3>1. Quantity \in Nat /\ auto.limit \in Nat /\ auto.accepted \in Nat
        BY <1>1, SizesAssumption DEF AutoRow, RowsOK
      <3>2. QED
        BY <2>1, <3>1 DEF Budget
    <2>3. /\ cycles[c].revision = auto.revision /\ ~auto.prompt /\ auto.blocked # "gone"
          /\ work[c].batches = 0 /\ ~cycles[c].claim
      BY <1>1, <2>0, <2>1 DEF AutoInv, CyclesFit, Waits
    <2>4. \A d \in 1 .. n : ~(work[d].active > 0)
      BY <1>1, <2>1 DEF Busy
    <2>5. /\ work' \in [0 .. n -> WorkRow]
          /\ \A d \in 1 .. n : d # c => work'[d] = work[d]
          /\ work'[c].batches = work[c].batches + 1
      BY <1>1, <2>1, <2>2, StartedIs
    <2>6. /\ SettingsGoOn
          /\ auto'.revision = auto.revision /\ auto'.prompt = auto.prompt
          /\ auto'.limit = auto.limit /\ auto'.blocked = "no"
          /\ auto'.since = auto.accepted + Budget
      BY <2>1, <2>2, CountedIs
    <2>7. CyclesGoOn /\ ~Waits(c)'
      <3> DEFINE row == [cycles[c] EXCEPT !.state = "accepted"]
      <3>1. cycles' = [cycles EXCEPT ![c] = row]
        BY <2>1
      <3>2. /\ row \in CycleRow /\ row.revision = cycles[c].revision /\ row.claim = cycles[c].claim
            /\ row.state = "accepted"
        BY <1>1 DEF CycleRow
      <3> HIDE DEF row
      <3>3. cycles'[c] = row
        BY <1>1, <3>1
      <3>4. CyclesGoOn
        BY <1>1, <2>3, <3>1, <3>2, OneCycleGoesOn
      <3>5. QED
        BY <3>2, <3>3, <3>4 DEF Waits
    <2>8. InForce
      <3>1. \A d \in 1 .. n : work'[d].batches > work[d].batches => d = c
        BY <1>1, <2>5 DEF WorkRow
      <3>2. auto'.since <= auto'.limit
        BY <2>2, <2>6
      <3>3. QED
        BY <1>1, <2>1, <2>3, <3>1, <3>2 DEF InForce
    <2>9. cycles' \in Seq(CycleRow) /\ Len(cycles') = n
      BY <1>1, <2>7, SeqFrom DEF CyclesGoOn
    <2>10. RowsOK' /\ AutoFits' /\ StepFits'
      <3>1. RowsOK' /\ AutoFits'
        BY <1>1, <1>2, <2>5, <2>6, <2>9 DEF RowsOK, SettingsGoOn, StepGoesOn
      <3>2. QED
        BY <1>2, <3>1 DEF StepFits, NoStep
    <2>11. CyclesFit'
      <3>1. ASSUME NEW d \in 1 .. n
            PROVE  /\ cycles'[d].claim => cycles'[d].state = "preparing"
                   /\ work'[d].batches <= 1
                   /\ Waits(d)' => /\ cycles'[d].revision = auto.revision
                                   /\ work'[d].active = 0 /\ work'[d].batches = 0
                   /\ d # c => ~(work'[d].active > 0)
        <4>1. CASE d = c
          BY <2>3, <2>5, <2>7, <4>1 DEF CyclesGoOn
        <4>2. CASE d # c
          BY <2>0, <2>4, <2>5, <2>7, <4>2 DEF CyclesGoOn, AutoInv, CyclesFit
        <4>3. QED
          BY <4>1, <4>2
      <3>2. QED
        BY <2>3, <2>6, <2>9, <3>1 DEF CyclesFit
    <2>12. GroupsFit'
      <3>1. \A h \in 1 .. Len(groups) : ~Wanted(h) /\ ~Wanted(h)'
        BY <1>2, <2>3 DEF AutoInv, GroupsFit, Wanted, IsActive
      <3>2. ASSUME NEW h \in 1 .. Len(groups)
            PROVE  /\ groups[h].cycle \in 0 .. n
                   /\ groups[h].cycle # 0 => cycles'[groups[h].cycle].state \in {"accepted", "completed"}
        <4>1. /\ groups[h].cycle \in 0 .. n
              /\ groups[h].cycle # 0 => cycles[groups[h].cycle].state \in {"accepted", "completed"}
          BY DEF AutoInv, GroupsFit
        <4>2. QED
          BY <1>1, <2>7, <4>1 DEF CyclesGoOn
      <3>3. QED
        BY <1>2, <2>9, <3>1, <3>2 DEF GroupsFit
    <2>13. QED
      BY <2>8, <2>10, <2>11, <2>12 DEF AutoInv
  <1>5. QED
    BY <1>3, <1>4

-----------------------------------------------------------------------------
(* Together.                                                               *)

LEMMA AutoStarts ==
    ASSUME AutoInit
    PROVE  AutoInv
  <1> DEFINE first == CHOOSE n \in Limits : TRUE
  <1>1. first \in Limits
    BY SizesAssumption
  <1>2. auto \in AutoRow /\ AutoFits
    <2>1. auto = [enabled |-> FALSE, blocked |-> "no", revision |-> 0, accepted |-> 0, since |-> 0,
                  limit |-> first, prompt |-> FALSE]
      BY DEF AutoInit, Off
    <2> HIDE DEF first
    <2>2. QED
      BY <1>1, <2>1, SizesAssumption DEF AutoRow, AutoFits
  <1>3. cycles = << >> /\ groups = << >> /\ Len(cycles) = 0 /\ Len(groups) = 0
    BY DEF AutoInit
  <1>4. work \in [0 .. Len(cycles) -> WorkRow]
    <2>1. work = [c \in {0} |-> NoWork] /\ 0 .. Len(cycles) = {0} /\ NoWork \in WorkRow
      BY <1>3 DEF AutoInit, NoWork, WorkRow
    <2>2. QED
      BY <2>1
  <1>5. task \in TaskRow /\ task.group = 0 /\ task.stage = "none"
    BY DEF AutoInit, Idle, TaskRow
  <1>6. step \in StepRow /\ step.cycle = 0 /\ step.stage = "none"
    BY SizesAssumption DEF AutoInit, NoStep, StepRow
  <1>7. RowsOK
    BY <1>2, <1>3, <1>4, <1>5, <1>6 DEF RowsOK
  <1>8. CyclesFit /\ GroupsFit
    BY <1>3 DEF CyclesFit, GroupsFit
  <1>9. QED
    BY <1>2, <1>6, <1>7, <1>8 DEF AutoInv, StepFits

LEMMA AutoStutters ==
    ASSUME AutoInv, UNCHANGED autoVars
    PROVE  AutoInv' /\ FatesStay /\ InForce
  <1>1. UNCHANGED <<auto, cycles, groups, work, task, step>>
    BY DEF autoVars
  <1>2. AutoInv'
    BY <1>1, UnchangedGoesOn, NothingStarts
  <1>3. \A c \in 1 .. Len(cycles) : work[c].batches \in Nat
    BY Rows DEF AutoInv, WorkRow
  <1>4. InForce
    BY <1>1, <1>3, Rows DEF InForce, AutoInv
  <1>5. QED
    BY <1>1, <1>2, <1>4 DEF FatesStay

(* Work that is as it was is in force.                                     *)
LEMMA NothingAccepted ==
    ASSUME AutoInv, \A c \in 1 .. Len(cycles) : work'[c].batches = work[c].batches
    PROVE  InForce
  <1>1. \A c \in 1 .. Len(cycles) : work[c].batches \in Nat
    BY Rows DEF AutoInv, WorkRow
  <1>2. QED
    BY <1>1, Rows DEF InForce, AutoInv

LEMMA AutoSteps ==
    ASSUME AutoInv, AutoNext
    PROVE  AutoInv' /\ FatesStay /\ InForce
  <1>1. CASE Enable \/ Disable \/ Edit \/ Relimit
    <2>1. UNCHANGED work /\ groups' = Failed({g \in DOMAIN groups : groups[g].cycle # 0}, "discarded")
      BY <1>1 DEF Enable, Disable, Edit, Relimit, Changes, Invalidate
    <2>2. FatesStay
      BY <2>1, FailedGoesOn DEF AutoInv, Words
    <2>3. QED
      BY <1>1, <2>1, <2>2, RequestsKeep, NothingAccepted
  <1>2. CASE DeleteFolder
    <2>1. UNCHANGED work
      BY <1>2 DEF DeleteFolder
    <2>2. QED
      BY <1>2, <2>1, DeleteFolderKeeps, NothingAccepted
  <1>3. CASE ClearClaims \/ BlockOnFailure \/ PrepareFails
    <2>1. UNCHANGED <<groups, work>>
      BY <1>3 DEF ClearClaims, BlockOnFailure, PrepareFails
    <2>2. QED
      BY <1>3, <2>1, ObservationsKeep, NothingAccepted DEF FatesStay
  <1>4. CASE PromptCycle
    <2>1. \A c \in 1 .. Len(cycles) : work'[c] = work[c]
      <3>1. CASE UNCHANGED work
        BY <3>1
      <3>2. CASE AddCycle("accepted", FALSE)
        BY <3>2, Rows DEF AddCycle, AutoInv
      <3>3. QED
        BY <1>4, <3>1, <3>2, Zenon DEF PromptCycle
    <2>2. QED
      BY <1>4, <2>1, PromptCycleKeeps, NothingAccepted
  <1>5. CASE DirectCycle
    <2>1. \A c \in 1 .. Len(cycles) : work'[c] = work[c]
      <3>1. CASE UNCHANGED work
        BY <3>1
      <3>2. CASE AddCycle("preparing", TRUE)
        BY <3>2, Rows DEF AddCycle, AutoInv
      <3>3. QED
        BY <1>5, <3>1, <3>2, Zenon DEF DirectCycle
    <2>2. UNCHANGED groups
      BY <1>5 DEF DirectCycle
    <2>3. QED
      BY <1>5, <2>1, <2>2, DirectCycleKeeps, NothingAccepted DEF FatesStay
  <1>6. CASE AcceptReady
    <2>1. UNCHANGED groups
      BY <1>6 DEF AcceptReady
    <2>2. QED
      BY <1>6, <2>1, AcceptReadyKeeps DEF FatesStay
  <1>7. CASE CycleComposed \/ StepFails \/ Stop \/ Crash \/ StartUp
    <2>1. UNCHANGED <<groups, work>>
      BY <1>7 DEF CycleComposed, StepFails, Stop, Crash, StartUp
    <2>2. QED
      BY <1>7, <2>1, RunStepsKeep, NothingAccepted DEF FatesStay
  <1>8. CASE SubmitManual
    <2>1. UNCHANGED groups /\ work' = Started(0, 1)
      BY <1>8 DEF SubmitManual
    <2>2. \A c \in 1 .. Len(cycles) : work'[c] = work[c]
      BY <2>1, StartedIs, Rows DEF AutoInv
    <2>3. QED
      BY <1>8, <2>1, <2>2, RunStepsKeep, NothingAccepted DEF FatesStay
  <1>9. ASSUME UNCHANGED step, NEW kind \in {"manual", "rerun"}, Prepare(kind)
        PROVE  AutoInv' /\ FatesStay /\ InForce
    BY <1>9, PrepareKeeps, NothingAccepted DEF Prepare
  <1>10. CASE UNCHANGED step /\ StopRerun
    BY <1>10, StopRerunKeeps, NothingAccepted DEF StopRerun
  <1>11. CASE UNCHANGED step /\ Advances
    <2>1. ASSUME NEW g \in DOMAIN groups, LoadBatch(g) PROVE AutoInv' /\ FatesStay /\ InForce
      <3>1. UNCHANGED work
        BY <2>1 DEF LoadBatch
      <3>2. QED
        BY <1>11, <2>1, <3>1, LoadKeeps, NothingAccepted
    <2>2. CASE Compose
      <3>1. UNCHANGED work
        BY <2>2 DEF Compose
      <3>2. QED
        BY <1>11, <2>2, <3>1, ComposeKeeps, NothingAccepted
    <2>3. CASE Accept
      BY <1>11, <2>3, AcceptKeeps
    <2>4. CASE AcceptFails \/ Fail
      <3>1. UNCHANGED work
        BY <2>4 DEF AcceptFails, Fail
      <3>2. QED
        BY <1>11, <2>4, <3>1, FailureKeeps, NothingAccepted
    <2>5. QED
      BY <1>11, <2>1, <2>2, <2>3, <2>4 DEF Advances
  <1>12. ASSUME UNCHANGED step, NEW g \in DOMAIN groups, TextMoves(g) \/ TextGivesUp(g)
         PROVE  AutoInv' /\ FatesStay /\ InForce
    <2>1. UNCHANGED work
      BY <1>12 DEF TextMoves, TextGivesUp
    <2>2. QED
      BY <1>12, <2>1, TextsKeep, NothingAccepted
  <1>13. ASSUME UNCHANGED step, NEW c \in DOMAIN work, WorkEnds(c)
         PROVE  AutoInv' /\ FatesStay /\ InForce
    <2>1. UNCHANGED groups
      BY <1>13 DEF WorkEnds
    <2>2. work \in [0 .. Len(cycles) -> WorkRow] /\ work[c] \in WorkRow
      BY <1>13, Rows DEF AutoInv, RowsOK
    <2>3. \A d \in 1 .. Len(cycles) : work'[d].batches = work[d].batches
      BY <1>13, <2>2 DEF WorkEnds, WorkRow
    <2>4. QED
      BY <1>13, <2>1, <2>3, ImageEndsKeeps, NothingAccepted DEF FatesStay
  <1>14. QED
    BY <1>1, <1>2, <1>3, <1>4, <1>5, <1>6, <1>7, <1>8, <1>9, <1>10, <1>11, <1>12, <1>13
       DEF AutoNext, StepTask

(* AutoInv holds throughout.                                               *)
THEOREM AutoInvariance == AutoSpec => []AutoInv
  <1>1. AutoInit => AutoInv
    BY AutoStarts
  <1>2. AutoInv /\ [AutoNext]_autoVars => AutoInv'
    BY AutoSteps, AutoStutters
  <1>3. QED
    BY <1>1, <1>2, PTL DEF AutoSpec

(* Automatic cycles never overlap and each begins once; whatever is        *)
(* edited, switched off, blocked or limited leaves nothing of the settings *)
(* before waiting (_prepare_cycle, _accept_ready, accept_batch).           *)
THEOREM CyclesApart == AutoSpec => []OneCycle
  <1>1. AutoInv => OneCycle
    <2> SUFFICES ASSUME AutoInv PROVE OneCycle
      OBVIOUS
    <2>1. DOMAIN cycles = 1 .. Len(cycles) /\ DOMAIN groups = 1 .. Len(groups)
      BY Rows DEF AutoInv
    <2>2. OneCycleAtATime
      BY <2>1 DEF AutoInv, CyclesFit, OneCycleAtATime
    <2>3. NothingLeftBehind
      BY <2>1 DEF AutoInv, CyclesFit, GroupsFit, NothingLeftBehind, Waits, Wanted
    <2>4. QED
      BY <2>2, <2>3 DEF OneCycle
  <1>2. QED
    BY <1>1, AutoInvariance, PTL

(* What was stopped, dropped or failed stays so however late its answer,   *)
(* and images are accepted under the settings in force and within the      *)
(* limit (_save_run, valid_cycle, accept_batch, _accept_ready).            *)
THEOREM EndsAreKept == AutoSpec => EndsHold
  <1>1. AutoInv /\ [AutoNext]_autoVars => FatesStay /\ InForce
    BY AutoSteps, AutoStutters
  <1>2. AutoInv /\ FatesStay => \A g \in DOMAIN groups : ~IsActive(g) => groups'[g].status = groups[g].status
    BY Rows DEF AutoInv, FatesStay
  <1>3. QED
    BY <1>1, <1>2, AutoInvariance, PTL DEF AutoSpec, EndsHold, AcceptsInForce, FateIsFinal, InForce

-----------------------------------------------------------------------------
(* Both together.                                                          *)

LEMMA AutoTypes == AutoInv => AutoTypeOK
  <1> SUFFICES ASSUME AutoInv PROVE AutoTypeOK
    OBVIOUS
  <1>1. RowsOK /\ AutoFits /\ CyclesFit /\ DOMAIN cycles = 1 .. Len(cycles)
    BY Rows DEF AutoInv
  <1>2. /\ auto.blocked \in {"no", "yes", "gone"} /\ auto.revision \in 0 .. MaxChanges
        /\ auto.enabled \in BOOLEAN /\ (auto.enabled => auto.accepted < auto.limit)
    BY <1>1 DEF RowsOK, AutoRow, AutoFits
  <1>3. ASSUME NEW c \in DOMAIN cycles
        PROVE  /\ cycles[c].state \in {"preparing", "ready", "accepted", "completed", "discarded"}
               /\ cycles[c].claim => cycles[c].state = "preparing"
    <2>1. c \in 1 .. Len(cycles) /\ cycles[c] \in CycleRow
      BY <1>1, <1>3, Rows
    <2>2. QED
      BY <1>1, <2>1 DEF CycleRow, CyclesFit
  <1>4. /\ DOMAIN work = 0 .. Len(cycles)
        /\ task.stage \in {"none", "compose", "accept", "fail"} /\ task.group \in 0 .. Len(groups)
        /\ step.stage \in {"none", "compose", "accept"} /\ step.cycle \in 0 .. Len(cycles)
    BY <1>1 DEF RowsOK, TaskRow, StepRow
  <1>5. QED
    BY <1>2, <1>3, <1>4 DEF AutoTypeOK

LEMMA CheckTypes == ChecksInv => ChecksTypeOK
  <1> SUFFICES ASSUME ChecksInv PROVE ChecksTypeOK
    OBVIOUS
  <1>1. SameLength
    BY DEF ChecksInv
  <1>2. /\ DOMAIN checks = DOMAIN images /\ DOMAIN checks = DOMAIN extra
        /\ DOMAIN checks = DOMAIN steps
    BY <1>1 DEF SameLength
  <1>3. ASSUME NEW c \in DOMAIN checks
        PROVE  /\ checks[c].status \in ActiveCheck \cup {"passed", "not_met", "failed", "stopped"}
               /\ checks[c].failures \in 0 .. MaxFailures - 1
               /\ Latest(c) \in 1 .. MaxAttempts /\ checks[c].best \in 0 .. Latest(c)
               /\ \A n \in 1 .. Latest(c) : checks[c].attempts[n].score \in Scores \cup {-1}
    <2> DEFINE check == checks[c]
    <2>1. /\ Fits(check, images[c], extra[c], steps[c]) /\ check \in CheckRow
          /\ MissedSoFar(check) /\ LastFits(check) /\ Latest(c) = Count(check)
      BY <1>3 DEF ChecksInv, Fits, Latest, Count
    <2> HIDE DEF check
    <2>2. Count(check) \in 1 .. MaxAttempts /\ Count(check) \in Nat \ {0}
      BY <2>1, ChecksAssumption DEF MissedSoFar
    <2>3. /\ check.status \in ActiveCheck \cup {"passed", "not_met", "failed", "stopped"}
          /\ check.failures \in 0 .. MaxFailures - 1
          /\ check.attempts \in Seq(AttemptRow)
      BY <2>1 DEF CheckRow
    <2>4. \A n \in 1 .. Count(check) : check.attempts[n].score \in Scores \cup {-1}
      <3>1. ASSUME NEW n \in 1 .. Count(check) PROVE check.attempts[n] \in AttemptRow
        BY <2>3, <3>1 DEF Count
      <3>2. QED
        BY <3>1 DEF AttemptRow
    <2>5. check.best \in 0 .. Count(check)
      <3>1. CASE check.status = "passed"
        BY <2>1, <2>2, <3>1 DEF LastFits
      <3>2. CASE check.status = "not_met"
        <4>1. check.best = BestAttempt(check)
          BY <2>1, <3>2 DEF LastFits
        <4>2. CASE Scored(check) = {}
          BY <2>2, <4>1, <4>2 DEF BestAttempt
        <4>3. CASE Scored(check) # {}
          BY <2>1, <2>2, <4>1, <4>3, BestOf
        <4>4. QED
          BY <4>2, <4>3
      <3>3. CASE check.status \notin {"passed", "not_met"}
        BY <2>1, <2>2, <3>3 DEF LastFits
      <3>4. QED
        BY <3>1, <3>2, <3>3
    <2>6. QED
      BY <2>1, <2>2, <2>3, <2>4, <2>5 DEF check
  <1>4. ASSUME NEW c \in DOMAIN steps PROVE steps[c].attempt \in 0 .. MaxAttempts
    <2>1. steps[c] \in Task
      BY <1>1, <1>4 DEF SameLength
    <2>2. QED
      BY <2>1 DEF Task
  <1>5. QED
    BY <1>2, <1>3, <1>4 DEF ChecksTypeOK

WorkInv == AutoInv /\ ChecksInv

LEMMA WorkInductive == WorkInv /\ [Next]_vars => WorkInv'
  <1> SUFFICES ASSUME WorkInv, [Next]_vars PROVE WorkInv'
    OBVIOUS
  <1>1. [AutoNext]_autoVars
    BY DEF Next, OfA, OfE, vars
  <1>2. [ChecksNext]_checkVars
    BY DEF Next, OfA, OfE, vars
  <1>3. QED
    BY <1>1, <1>2, AutoSteps, AutoStutters, ChecksStep DEF WorkInv

(* Checks, attempts, cycles, claims, groups and tasks keep their types,    *)
(* and automation stays within its limit, whatever users, models, errors   *)
(* and crashes do.                                                         *)
THEOREM WorkTypes == Spec => []TypesOK
  <1>1. Init => WorkInv
    BY AutoStarts, ChecksStart DEF Init, WorkInv
  <1>2. WorkInv => TypesOK
    BY AutoTypes, CheckTypes DEF WorkInv, TypesOK
  <1>3. QED
    BY <1>1, <1>2, WorkInductive, PTL DEF Spec
=============================================================================
