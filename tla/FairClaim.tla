----------------------------- MODULE FairClaim -----------------------------
(***************************************************************************)
(* Which queued work a worker gets next (queue_worker.py: _dispatch_order, *)
(* _dispatch_iteration and _claim_next).  Images and prompt runs wait in   *)
(* one order (queue_seq); owners take turns after a durable cursor that    *)
(* the members of the image pool share; within an owner manual work goes   *)
(* first, then the oldest.                                                 *)
(***************************************************************************)
EXTENDS Integers, Sequences, SequencesExt, FiniteSets

CONSTANTS
    Owners,       \* accounts
    Nobody,       \* not an owner and not a worker
    Workers,      \* ComfyUI instances, in configured order
    PoolSize,     \* the first PoolSize of them form the image pool
    Concurrency,  \* of each worker
    Kinds,        \* the work each owner may submit: records [text, automatic, on]
    MaxQueue,     \* bound on the work in the system
    MaxSetbacks   \* bound on lost instances, requeues and withdrawals together

WorkerSet == {Workers[k] : k \in DOMAIN Workers}

(* Instances have different ids (the settings are validated).              *)
ASSUME FairClaimAssumption ==
    /\ Workers \in Seq(WorkerSet) /\ IsInjective(Workers)
    /\ PoolSize \in 0 .. Len(Workers) /\ Concurrency \in Nat
    /\ Nobody \notin WorkerSet
    /\ \A o \in Owners : Kinds[o] \subseteq [text : BOOLEAN, automatic : BOOLEAN, on : SUBSET WorkerSet]
    /\ MaxQueue \in Nat

VARIABLES
    queue,      \* work by queue_seq: [owner, text, automatic, on, at], at = Nobody while queued
    cursor,     \* SchedulerState.last_user_id of each scope
    offers,     \* what is left of the iteration: workers still to be offered work
    left,       \* claims left for the first of them
    available,  \* recorded health of each worker
    setbacks    \* how many of those there were

claimVars == <<queue, cursor, offers, left, available, setbacks>>

Scope(w) == IF \E k \in 1 .. PoolSize : Workers[k] = w THEN "pool" ELSE w
QueuedWork == [owner : Owners, text : BOOLEAN, automatic : BOOLEAN,
               on : SUBSET WorkerSet, at : WorkerSet \cup {Nobody}]

FairClaimInit ==
    /\ queue = << >> /\ offers = << >> /\ left = 0 /\ setbacks = 0
    /\ cursor = [s \in {Scope(w) : w \in WorkerSet} |-> Nobody]
    /\ available = [w \in WorkerSet |-> TRUE]

-----------------------------------------------------------------------------
ActiveCount(w) == Cardinality({i \in DOMAIN queue : queue[i].at = w})

(* Free capacity is offered to the least loaded member of the pool first,  *)
(* then to the other instances.                                            *)
Pool     == {Workers[k] : k \in 1 .. PoolSize}
Place(w) == CHOOSE k \in 1 .. PoolSize : Workers[k] = w
Ahead(v, w) ==
    \/ ActiveCount(v) < ActiveCount(w)
    \/ ActiveCount(v) = ActiveCount(w) /\ Place(v) < Place(w)

DispatchOrder ==
    LET ranked == CHOOSE s \in [1 .. PoolSize -> Pool] :
                      \A j, k \in 1 .. PoolSize : j < k => Ahead(s[j], s[k])
    IN  ranked \o SubSeq(Workers, PoolSize + 1, Len(Workers))

(* What worker w may claim: an image it carries or that is pinned to it, a *)
(* prompt run of its own.                                                  *)
Claimable(w) == {i \in DOMAIN queue : queue[i].at = Nobody /\ w \in queue[i].on}

(* The oldest work of each owner in S: the owners by age (first_seq).      *)
Oldest(S) == {i \in S : \A j \in S : queue[j].owner = queue[i].owner => i <= j}

Mut_Turn(oldest, last) == oldest \* the oldest work, whose ever it is

(* The owners after the one served last; all, if it has nothing or is the  *)
(* youngest.                                                               *)
Turn(oldest, last) ==
    LET later == {i \in oldest : \E k \in oldest : queue[k].owner = last /\ k < i}
    IN  IF later = {} THEN oldest ELSE later

\* Order within an owner: (automatic, queue_seq).
Before(i, j) == \/ ~queue[i].automatic /\ queue[j].automatic
                \/ queue[i].automatic = queue[j].automatic /\ i < j

(* Of the owner whose turn it is, images and prompt runs together.         *)
Chosen(S, last) ==
    LET turn == Turn(Oldest(S), last)
        first == CHOOSE k \in turn : \A j \in turn : k <= j
        own   == {i \in S : queue[i].owner = queue[first].owner}
    IN  CHOOSE i \in own : \A j \in own \ {i} : Before(i, j)

-----------------------------------------------------------------------------
(* One iteration of the dispatcher.                                        *)

BeginIteration ==
    /\ offers = << >>
    /\ offers' = DispatchOrder
    /\ UNCHANGED <<queue, cursor, left, available, setbacks>>

Offer == \* looks at the next worker's free slots and health
    /\ offers # << >> /\ left = 0
    /\ LET w == Head(offers)
           free == Concurrency - ActiveCount(w)
       IN  IF free <= 0 \/ ~available[w]
           THEN offers' = Tail(offers) /\ left' = 0
           ELSE left' = free /\ UNCHANGED offers
    /\ UNCHANGED <<queue, cursor, available, setbacks>>

ClaimNext ==
    /\ left > 0
    /\ LET w == Head(offers)
       IN  IF Claimable(w) = {}
           THEN left' = 0 /\ offers' = Tail(offers) /\ UNCHANGED <<queue, cursor>>
           ELSE LET i == Chosen(Claimable(w), cursor[Scope(w)])
                IN  /\ queue' = [queue EXCEPT ![i].at = w]
                    /\ cursor' = [cursor EXCEPT ![Scope(w)] = queue[i].owner]
                    /\ left' = left - 1
                    /\ offers' = IF left = 1 THEN Tail(offers) ELSE offers
    /\ UNCHANGED <<available, setbacks>>

-----------------------------------------------------------------------------
(* The rest of the system.                                                 *)

Enqueue(o, k) ==
    /\ Len(queue) < MaxQueue
    /\ queue' = Append(queue, [owner |-> o, text |-> k.text, automatic |-> k.automatic,
                               on |-> k.on, at |-> Nobody])
    /\ UNCHANGED <<cursor, offers, left, available, setbacks>>

Ends(i) == \* the executor is done
    /\ queue[i].at # Nobody
    /\ queue' = RemoveAt(queue, i)
    /\ UNCHANGED <<cursor, offers, left, available, setbacks>>

Setback == setbacks < MaxSetbacks /\ setbacks' = setbacks + 1

Withdraw(i) == \* queued work is cancelled
    /\ queue[i].at = Nobody /\ Setback
    /\ queue' = RemoveAt(queue, i)
    /\ UNCHANGED <<cursor, offers, left, available>>

Requeue(i) == \* the executor gave the work back; it keeps its queue_seq
    /\ queue[i].at # Nobody /\ Setback
    /\ queue' = [queue EXCEPT ![i].at = Nobody]
    /\ UNCHANGED <<cursor, offers, left, available>>

Health(w) ==
    /\ available' = [available EXCEPT ![w] = ~@]
    /\ IF available[w] THEN Setback ELSE UNCHANGED setbacks
    /\ UNCHANGED <<queue, cursor, offers, left>>

FairClaimNext ==
    \/ BeginIteration \/ Offer \/ ClaimNext
    \/ \E o \in Owners : \E k \in Kinds[o] : Enqueue(o, k)
    \/ \E i \in DOMAIN queue : Ends(i) \/ Withdraw(i) \/ Requeue(i)
    \/ \E w \in WorkerSet : Health(w)

Dispatcher == BeginIteration \/ Offer \/ ClaimNext
EndsOn(w) == \E i \in DOMAIN queue : queue[i].at = w /\ Ends(i)
Recovers(w) == ~available[w] /\ Health(w)

(* The dispatcher loop runs on, executors end, and an instance that is     *)
(* down is found healthy again.                                            *)
FairClaimSpec ==
    /\ FairClaimInit /\ [][FairClaimNext]_claimVars
    /\ WF_claimVars(Dispatcher)
    /\ \A w \in WorkerSet : WF_claimVars(EndsOn(w)) /\ WF_claimVars(Recovers(w))

-----------------------------------------------------------------------------
FairClaimTypeOK ==
    /\ queue \in Seq(QueuedWork) /\ Len(queue) <= MaxQueue
    /\ cursor \in [{Scope(w) : w \in WorkerSet} -> Owners \cup {Nobody}]
    /\ offers \in Seq(WorkerSet) /\ left \in 0 .. Concurrency /\ (left > 0 => offers # << >>)
    /\ available \in [WorkerSet -> BOOLEAN]

Waits(o, w) == \E i \in Claimable(w) : queue[i].owner = o

(* No owner starves: whoever has work a worker may claim is the one that   *)
(* is served next in that worker's scope at some time, however much the    *)
(* others submit (the shared cursor of _claim_next).                       *)
Served(o, w) == Waits(o, w) ~> (cursor[Scope(w)] = o \/ ~Waits(o, w))

(* Within an owner nothing is taken past older work of the same urgency,   *)
(* and automatic work never past manual work, images and prompt runs taken *)
(* together (the two queries at the end of _claim_next); and an owner is   *)
(* served twice in a row only if all the others that wait for the worker   *)
(* came before it, so that its own submissions never put it before one     *)
(* that is behind the shared cursor.                                       *)
OwnOrder(i, w) ==
    \A j \in Claimable(w) :
        queue[j].owner = queue[i].owner =>
            /\ queue[i].automatic => queue[j].automatic
            /\ queue[i].automatic = queue[j].automatic => i <= j
InTurn(i, w) ==
    queue[i].owner = cursor[Scope(w)] =>
        \A j \in Oldest(Claimable(w)) :
            \E k \in Oldest(Claimable(w)) : queue[k].owner = queue[i].owner /\ j <= k
OwnersInTurn ==
    [][\A i \in DOMAIN queue, w \in WorkerSet :
          ClaimNext /\ queue[i].at = Nobody /\ queue'[i].at = w => OwnOrder(i, w) /\ InTurn(i, w)]_claimVars
=============================================================================
