----------------------------- MODULE Admission -----------------------------
(***************************************************************************)
(* Request admission (backend/app/admission.py): at most ActiveLimit       *)
(* requests do API work at once, at most MediaLimit of them for media, the *)
(* others wait in one queue for a bounded time.                            *)
(*                                                                         *)
(* Each request is three coroutines on one event loop: the middleware      *)
(* (handler), the task of Admission.acquire (acquiring) and the task of    *)
(* watch_disconnect (watching).  A step runs one of them up to its next    *)
(* await; the loop may run the ready ones in any order.                    *)
(***************************************************************************)
EXTENDS Integers, Sequences, FiniteSets

CONSTANTS
    Requests,     \* the requests that ever arrive
    Media,        \* those that read artifacts or uploads
    ActiveLimit,  \* Admission.active_limit
    MediaLimit,   \* Admission.media_limit
    QueueLimit    \* Admission.queue_limit

ASSUME LimitsAssumption ==
    /\ IsFiniteSet(Requests)
    /\ Media \subseteq Requests
    /\ ActiveLimit \in Nat \ {0}
    /\ MediaLimit \in 1 .. ActiveLimit
    /\ QueueLimit \in Nat

VARIABLES
    active,     \* Admission.active: requests that hold a place
    media,      \* Admission.media: those of them that are media
    waiters,    \* Admission.waiters, oldest first
    closed,     \* Admission.closed
    ticket,     \* the Ticket of each request
    acquiring,  \* its Admission.acquire task
    watching,   \* its watch_disconnect task
    handler     \* its AdmissionMiddleware.__call__

queue == <<active, media, waiters, ticket>>
vars  == <<active, media, waiters, closed, ticket, acquiring, watching, handler>>

Ticket == [admitted : BOOLEAN, released : BOOLEAN,
           future : {"none", "pending", "result", "exception"}]
NoTicket  == [admitted |-> FALSE, released |-> FALSE, future |-> "none"]
NewTicket == [NoTicket EXCEPT !.future = "pending"]

\* How an acquire task ends.
Ended == {"returned", "raised", "cancelled"}
AcquiringStates == {"none", "new", "waiting", "expiring", "cancelling"} \cup Ended
WatchingStates  == {"none", "watching", "gone", "over"}
HandlerStates   == {"idle", "queued", "gone", "running", "streaming", "refusing",
                    "leaving", "done"}

Holds(r) == ticket[r].admitted /\ ~ticket[r].released

Init ==
    /\ active = 0 /\ media = 0 /\ waiters = << >> /\ closed = FALSE
    /\ ticket = [r \in Requests |-> NoTicket]
    /\ acquiring = [r \in Requests |-> "none"]
    /\ watching = [r \in Requests |-> "none"]
    /\ handler = [r \in Requests |-> "idle"]

-----------------------------------------------------------------------------
(* Admission                                                               *)

(* The requests of q that are not gone, in their order: the k-th of them   *)
(* is the one that has k - 1 of them before it.                            *)
Left(q, gone) == {k \in DOMAIN q : q[k] \notin gone}
UpTo(S, k) == Cardinality({j \in S : j <= k})
Without(q, gone) ==
    [j \in 1 .. Cardinality(Left(q, gone)) |->
        q[CHOOSE k \in Left(q, gone) : UpTo(Left(q, gone), k) = j]]
Indicator(b) == IF b THEN 1 ELSE 0

(* drain() reaches position k of the queue q having admitted the positions *)
(* in A so far: there is a place, and a media place if it needs one.       *)
Admits(q, A, k, a, m) ==
    LET before == {j \in A : j < k}
    IN  /\ a + Cardinality(before) < ActiveLimit
        /\ q[k] \in Media =>
               m + Cardinality({j \in before : q[j] \in Media}) < MediaLimit

(* drain(), called with the queue q, the counters a and m and the tickets  *)
(* t its caller leaves.                                                    *)
Drain(q, a, m, t) ==
    \E A \in SUBSET DOMAIN q :
        LET granted == {q[k] : k \in A}
        IN  /\ \A k \in DOMAIN q : k \in A <=> ~closed /\ Admits(q, A, k, a, m)
            /\ waiters' = Without(q, granted)
            /\ active' = a + Cardinality(granted)
            /\ media' = m + Cardinality(granted \cap Media)
            /\ ticket' = [r \in Requests |->
                             IF r \in granted
                             THEN [t[r] EXCEPT !.admitted = TRUE, !.future = "result"]
                             ELSE t[r]]

Mut_Release(r) == \* without the early return
    Drain(Without(waiters, {r}),
          active - Indicator(ticket[r].admitted),
          media - Indicator(ticket[r].admitted /\ r \in Media),
          [ticket EXCEPT ![r].released = TRUE])

(* release(): returns a held place once, forgets a waiter, serves the next.*)
Release(r) ==
    IF ticket[r].released
    THEN UNCHANGED queue
    ELSE Drain(Without(waiters, {r}),
               active - Indicator(ticket[r].admitted),
               media - Indicator(ticket[r].admitted /\ r \in Media),
               [ticket EXCEPT ![r].released = TRUE])

(* close() at shutdown: every waiter is refused.                           *)
Close ==
    /\ ~closed
    /\ closed' = TRUE
    /\ waiters' = << >>
    /\ ticket' = [r \in Requests |->
                     IF \E k \in DOMAIN waiters : waiters[k] = r
                     THEN [ticket[r] EXCEPT !.released = TRUE, !.future = "exception"]
                     ELSE ticket[r]]
    /\ UNCHANGED <<active, media, acquiring, watching, handler>>

-----------------------------------------------------------------------------
(* The acquire task                                                        *)

AcquireEnds(r, how) == acquiring' = [acquiring EXCEPT ![r] = how]

(* Its first step: refused at once, or queued and drained; a request whose *)
(* future is set by that drain does not wait at all.                       *)
AcquireRefused(r) ==
    /\ acquiring[r] = "new"
    /\ closed \/ Len(waiters) >= QueueLimit
    /\ AcquireEnds(r, "raised")
    /\ UNCHANGED <<queue, closed, watching, handler>>

AcquireQueued(r) ==
    /\ acquiring[r] = "new"
    /\ ~closed /\ Len(waiters) < QueueLimit
    /\ Drain(Append(waiters, r), active, media, [ticket EXCEPT ![r] = NewTicket])
    /\ AcquireEnds(r, IF ticket'[r].admitted THEN "returned" ELSE "waiting")
    /\ UNCHANGED <<closed, watching, handler>>

(* The task wakes with the outcome another request's release gave it.      *)
AcquireResumes(r) ==
    /\ acquiring[r] = "waiting" /\ ticket[r].future = "result"
    /\ AcquireEnds(r, "returned")
    /\ UNCHANGED <<queue, closed, watching, handler>>

AcquireFails(r) ==
    /\ acquiring[r] = "waiting" /\ ticket[r].future = "exception"
    /\ Release(r)
    /\ AcquireEnds(r, "raised")
    /\ UNCHANGED <<closed, watching, handler>>

(* The timer of wait_for: it fires as long as the task has not run again,  *)
(* even when its future was set meanwhile.                                 *)
Expire(r) ==
    /\ acquiring[r] = "waiting"
    /\ AcquireEnds(r, "expiring")
    /\ UNCHANGED <<queue, closed, watching, handler>>

AcquireExpired(r) ==
    /\ acquiring[r] = "expiring"
    /\ Release(r)
    /\ AcquireEnds(r, "raised")
    /\ UNCHANGED <<closed, watching, handler>>

AcquireCancelled(r) ==
    /\ acquiring[r] = "cancelling"
    /\ Release(r)
    /\ AcquireEnds(r, "cancelled")
    /\ UNCHANGED <<closed, watching, handler>>

(* Task.cancel: a task that never ran ends at once, a waiting one is woken.*)
CancelAcquiring(r) ==
    AcquireEnds(r, CASE acquiring[r] = "new" -> "cancelled"
                     [] acquiring[r] \in {"waiting", "expiring"} -> "cancelling"
                     [] OTHER -> acquiring[r])

-----------------------------------------------------------------------------
(* The middleware                                                          *)

(* A request on a governed /api path: both tasks are created.              *)
Arrive(r) ==
    /\ handler[r] = "idle"
    /\ handler' = [handler EXCEPT ![r] = "queued"]
    /\ acquiring' = [acquiring EXCEPT ![r] = "new"]
    /\ watching' = [watching EXCEPT ![r] = "watching"]
    /\ UNCHANGED <<queue, closed>>

(* The client disconnects, or more of a large body follows: then nothing   *)
(* watches it any longer and the middleware awaits the acquire task only.  *)
Watch(r) ==
    /\ handler[r] = "queued" /\ watching[r] = "watching"
    /\ \E seen \in {"over", "gone"} : watching' = [watching EXCEPT ![r] = seen]
    /\ UNCHANGED <<queue, closed, acquiring, handler>>

(* asyncio.wait returns: a disconnect wins over everything else.           *)
ClientGone(r) ==
    /\ handler[r] = "queued" /\ watching[r] = "gone"
    /\ handler' = [handler EXCEPT ![r] = "gone"]
    /\ UNCHANGED <<queue, closed, acquiring, watching>>

AcquireDone(r, how) ==
    /\ handler[r] = "queued" /\ watching[r] # "gone"
    /\ acquiring[r] = how

(* The watcher is cancelled and the application called.                    *)
StartApp(r) ==
    /\ AcquireDone(r, "returned")
    /\ handler' = [handler EXCEPT ![r] = "running"]
    /\ watching' = [watching EXCEPT ![r] = "over"]
    /\ UNCHANGED <<queue, closed, acquiring>>

(* 503 service_busy.                                                       *)
Refuse(r) ==
    /\ AcquireDone(r, "raised")
    /\ handler' = [handler EXCEPT ![r] = "refusing"]
    /\ watching' = [watching EXCEPT ![r] = "over"]
    /\ UNCHANGED <<queue, closed, acquiring>>

(* http.response.start: the place is given up before the body is sent.     *)
ResponseStart(r) ==
    /\ handler[r] = "running"
    /\ Release(r)
    /\ handler' = [handler EXCEPT ![r] = "streaming"]
    /\ UNCHANGED <<closed, acquiring, watching>>

(* The finally clauses: release() if the application was called, then both *)
(* tasks are cancelled.                                                    *)
BeginLeave(r) ==
    /\ IF handler[r] \in {"running", "streaming"} THEN Release(r) ELSE UNCHANGED queue
    /\ handler' = [handler EXCEPT ![r] = "leaving"]
    /\ watching' = [watching EXCEPT ![r] = "over"]
    /\ CancelAcquiring(r)
    /\ UNCHANGED closed

(* The application ends or raises, the refusal is sent, the client is gone.*)
Finish(r) ==
    /\ handler[r] \in {"running", "streaming", "refusing", "gone"}
    /\ BeginLeave(r)

(* The server cancels the request when the graceful shutdown runs out.     *)
CancelHandler(r) ==
    /\ handler[r] \in HandlerStates \ {"idle", "leaving", "done"}
    /\ BeginLeave(r)

Mut_Leave(r) == \* without the last release()
    /\ handler[r] = "leaving" /\ acquiring[r] \in Ended
    /\ handler' = [handler EXCEPT ![r] = "done"]
    /\ UNCHANGED <<queue, closed, acquiring, watching>>

(* Both tasks are over: a ticket acquired but never used is returned.      *)
Leave(r) ==
    /\ handler[r] = "leaving" /\ acquiring[r] \in Ended
    /\ IF acquiring[r] = "returned" THEN Release(r) ELSE UNCHANGED queue
    /\ handler' = [handler EXCEPT ![r] = "done"]
    /\ UNCHANGED <<closed, acquiring, watching>>

AcquireStep(r) ==
    \/ AcquireRefused(r) \/ AcquireQueued(r) \/ AcquireResumes(r)
    \/ AcquireFails(r) \/ AcquireExpired(r) \/ AcquireCancelled(r)

HandlerStep(r) ==
    ClientGone(r) \/ StartApp(r) \/ Refuse(r) \/ Leave(r)

Next ==
    \/ Close
    \/ \E r \in Requests :
           \/ Arrive(r) \/ Watch(r) \/ Expire(r)
           \/ AcquireStep(r) \/ HandlerStep(r)
           \/ ResponseStart(r) \/ Finish(r) \/ CancelHandler(r)

Spec == Init /\ [][Next]_vars

-----------------------------------------------------------------------------
(* Properties                                                              *)

TypeOK ==
    /\ active \in 0 .. Cardinality(Requests)
    /\ media \in 0 .. Cardinality(Requests)
    /\ waiters \in Seq(Requests)
    /\ closed \in BOOLEAN
    /\ ticket \in [Requests -> Ticket]
    /\ acquiring \in [Requests -> AcquiringStates]
    /\ watching \in [Requests -> WatchingStates]
    /\ handler \in [Requests -> HandlerStates]

(* The counters count the tickets that hold a place, and stay within their *)
(* limits, whatever mix of grants, timeouts, cancellations and early       *)
(* releases led there (docs/api.md, Admission and overload).               *)
Accounting ==
    /\ active = Cardinality({r \in Requests : Holds(r)})
    /\ media = Cardinality({r \in Media : Holds(r)})
    /\ active <= ActiveLimit
    /\ media <= MediaLimit

(* No place is idle while somebody waits for it: every step that frees one *)
(* drains the queue, so a waiter is always a media request that waits for  *)
(* a media place, or all places are taken.  This is what reserves          *)
(* ActiveLimit - MediaLimit places for other API work.                     *)
NoIdleCapacity ==
    \A k \in DOMAIN waiters :
        active = ActiveLimit \/ (waiters[k] \in Media /\ media = MediaLimit)

(* A request that is over holds no place and waits in no queue, and the    *)
(* application runs only with a place: a grant that races the timer, the   *)
(* client's disconnect or a cancellation is given back.                    *)
NothingLeaks ==
    \A r \in Requests :
        /\ handler[r] = "done" =>
               ~Holds(r) /\ \A k \in DOMAIN waiters : waiters[k] # r
        /\ handler[r] = "running" => Holds(r)
        /\ acquiring[r] \in {"raised", "cancelled"} => ~Holds(r)

(* The oldest eligible request is served first (production-reliability.md):*)
(* none is admitted past an older waiter of its own kind, and past one of  *)
(* the other kind only if media has no place left.                         *)
OldestFirst ==
    [][ \A j, k \in DOMAIN waiters :
            (j < k /\ ticket'[waiters[k]].admitted) =>
                \/ \A i \in DOMAIN waiters' : waiters'[i] # waiters[j]
                \/ waiters[j] \in Media /\ waiters[k] \notin Media /\ media' = MediaLimit
      ]_vars
(* What admission promises to those who wait and to those who are served.  *)
PlacesKept == [](Accounting /\ NoIdleCapacity /\ NothingLeaks) /\ OldestFirst

=============================================================================
