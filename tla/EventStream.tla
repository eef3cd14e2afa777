---------------------------- MODULE EventStream ----------------------------
(***************************************************************************)
(* The live event stream of one account: durable generation_events rows,   *)
(* the in-process broker (services/event_broker.py), the SSE iterator      *)
(* (api/events.py) and the browser that reconnects (frontend/src/app.mjs). *)
(*                                                                         *)
(* A coroutine commits an event and publishes it some steps later, so that *)
(* events of different coroutines may be published in any order.           *)
(***************************************************************************)
EXTENDS Integers, Sequences, FiniteSets, Functions, FiniteSetsExt

CONSTANTS
    Publishers,    \* coroutines, each working for one generation after another
    QueueSize,    \* maxsize of a subscriber's queue
    ReplayLimit,   \* LIMIT of the replay query
    MaxEvents,     \* bound: events ever written
    MaxEphemeral,  \* bound: events without a row ever published
    MaxDeletes,    \* bound: generations ever deleted
    MaxConnects    \* bound: connections ever opened

ASSUME EventLimitsAssumption == QueueSize \in Nat \ {0} /\ ReplayLimit \in Nat

NoId == 0  \* the id of an event without a row

VARIABLES
    store,     \* generation_events
    written,   \* how many events were ever made: numbers them
    pending,   \* the event a coroutine has committed and not published yet
    conn,      \* the connection: closed, subscribed, replaying or live
    buffer,    \* the subscriber's queue
    replay,    \* the rows still to be yielded
    high,      \* replay_high_water
    client,    \* the browser: URL parameter, Last-Event-ID and state.lastEventId
    log,       \* what this connection delivered, in order (history)
    excused,   \* what it lost to a full queue or the LIMIT (history)
    after,     \* after_id of this connection
    offered,   \* events without a row published to it (history)
    issued,    \* the ids given out so far, and the events that got an old one (history)
    used       \* connections, deletions and events without a row so far

eventVars == <<store, written, pending, conn, buffer, replay, high, client, log, excused,
          after, offered, issued, used>>

Event   == [n : 1 .. MaxEvents + MaxEphemeral, id : 0 .. MaxEvents, by : Publishers]
Nothing == << >>

EventsInit ==
    /\ store = {} /\ written = 0
    /\ pending = [p \in Publishers |-> Nothing]
    /\ conn = "closed" /\ buffer = << >> /\ replay = << >> /\ high = 0 /\ after = 0
    /\ client = [query |-> 0, latest |-> 0, seen |-> 0]
    /\ log = << >> /\ excused = {} /\ offered = {}
    /\ issued = [top |-> 0, again |-> {}]
    /\ used = [connects |-> 0, deletes |-> 0, ephemeral |-> 0]

Larger(a, b) == IF a > b THEN a ELSE b

-----------------------------------------------------------------------------
(* The rows                                                                *)

(* INTEGER PRIMARY KEY without AUTOINCREMENT: SQLite continues from the    *)
(* largest id that is present.                                             *)
NextId == 1 + Max({0} \cup {e.id : e \in store})

connection == <<conn, buffer, replay, high, client, log, excused, after, offered>>

(* add_generation_event and the commit of its transaction.                 *)
CommitEvent(p) ==
    /\ pending[p] = Nothing
    /\ written - used.ephemeral < MaxEvents
    /\ LET e == [n |-> written + 1, id |-> NextId, by |-> p]
       IN  /\ store' = store \cup {e}
           /\ pending' = [pending EXCEPT ![p] = <<e>>]
    /\ written' = written + 1
    /\ issued' = [top |-> Larger(issued.top, NextId),
                  again |-> issued.again \cup IF NextId <= issued.top THEN {written'} ELSE {}]
    /\ UNCHANGED <<connection, used>>

(* delete_terminal: the rows of the generation's events go with it.        *)
DeleteGeneration(p) ==
    /\ used.deletes < MaxDeletes
    /\ \E e \in store : e.by = p
    /\ store' = {e \in store : e.by # p}
    /\ used' = [used EXCEPT !.deletes = @ + 1]
    /\ UNCHANGED <<connection, written, pending, issued>>

-----------------------------------------------------------------------------
(* The broker                                                              *)

Mut_Subscribed == conn = "live" \* subscribes after the replay
Subscribed == conn # "closed"

HasRoom == Len(buffer) < QueueSize

(* publish: put_nowait into the queue of the connection; a full one drops. *)
Offer(e) ==
    /\ buffer' = IF Subscribed /\ HasRoom THEN Append(buffer, e) ELSE buffer
    /\ excused' = IF Subscribed /\ ~HasRoom THEN excused \cup {e.n} ELSE excused
    /\ offered' = IF Subscribed /\ e.id = NoId THEN offered \cup {e.n} ELSE offered
    /\ UNCHANGED <<conn, replay, high, client, log, after>>

Publish(p) ==
    /\ pending[p] # Nothing
    /\ Offer(pending[p][1])
    /\ pending' = [pending EXCEPT ![p] = Nothing]
    /\ UNCHANGED <<store, written, issued, used>>

(* Progress ticks, deletions, preference changes: published without a row. *)
PublishEphemeral(p) ==
    /\ pending[p] = Nothing
    /\ used.ephemeral < MaxEphemeral
    /\ Offer([n |-> written + 1, id |-> NoId, by |-> p])
    /\ written' = written + 1
    /\ used' = [used EXCEPT !.ephemeral = @ + 1]
    /\ UNCHANGED <<store, pending, issued>>

-----------------------------------------------------------------------------
(* The iterator                                                            *)

(* events() and subscribe(): the first connection of a page (whose URL     *)
(* carries the largest id it has seen) or the browser's own reconnection   *)
(* (which repeats the URL and adds the id it received last).               *)
Connect(fresh) ==
    /\ conn = "closed"
    /\ used.connects < MaxConnects
    /\ client' = IF fresh THEN [client EXCEPT !.query = client.seen, !.latest = 0]
                          ELSE client
    /\ after' = Larger(client'.query, client'.latest)
    /\ high' = after'
    /\ conn' = "subscribed"
    /\ used' = [used EXCEPT !.connects = @ + 1]
    /\ buffer' = << >> /\ log' = << >> /\ excused' = {} /\ offered' = {}
    /\ UNCHANGED <<store, written, pending, replay, issued>>

(* ORDER BY id: the k-th row is the one that k ids reach up to.            *)
Oldest(rows) ==
    LET ids == {e.id : e \in rows}
    IN  [k \in 1 .. Cardinality(ids) |->
            CHOOSE e \in rows : Cardinality({i \in ids : i <= e.id}) = k]

(* _load_replay, in a worker thread.                                       *)
LoadReplay ==
    /\ conn = "subscribed"
    /\ LET rows == Oldest({e \in store : e.id > after})
           kept == SubSeq(rows, 1, IF Len(rows) > ReplayLimit THEN ReplayLimit ELSE Len(rows))
       IN  /\ replay' = kept
           /\ excused' = excused \cup {e.n : e \in Range(rows) \ Range(kept)}
    /\ conn' = "replaying"
    /\ UNCHANGED <<store, written, pending, buffer, high, client, log, after, offered, issued,
                   used>>

(* One SSE frame reaches the browser.                                      *)
Deliver(e) ==
    /\ log' = Append(log, e)
    /\ client' = IF e.id = NoId THEN client
                 ELSE [client EXCEPT !.latest = e.id, !.seen = Larger(@, e.id)]

SendReplay ==
    /\ conn = "replaying" /\ replay # << >>
    /\ Deliver(Head(replay))
    /\ high' = Larger(high, Head(replay).id)
    /\ replay' = Tail(replay)
    /\ UNCHANGED <<store, written, pending, conn, buffer, excused, after, offered,
                   issued, used>>

GoLive ==
    /\ conn = "replaying" /\ replay = << >>
    /\ conn' = "live"
    /\ UNCHANGED <<store, written, pending, buffer, replay, high, client, log, excused,
                   after, offered, issued, used>>

Replayed(e) == e.id # NoId /\ e.id <= high

SendLive ==
    /\ conn = "live" /\ buffer # << >>
    /\ buffer' = Tail(buffer)
    /\ IF Replayed(Head(buffer)) THEN UNCHANGED <<log, client>> ELSE Deliver(Head(buffer))
    /\ UNCHANGED <<store, written, pending, conn, replay, high, excused, after, offered,
                   issued, used>>

(* The client goes, the session has ended, or the server stops.            *)
Disconnect ==
    /\ conn # "closed"
    /\ conn' = "closed"
    /\ buffer' = << >> /\ replay' = << >>
    /\ UNCHANGED <<store, written, pending, high, client, log, excused,
                   after, offered, issued, used>>

EventsNext ==
    \/ \E p \in Publishers :
           CommitEvent(p) \/ DeleteGeneration(p) \/ Publish(p) \/ PublishEphemeral(p)
    \/ \E fresh \in BOOLEAN : Connect(fresh)
    \/ LoadReplay \/ SendReplay \/ GoLive \/ SendLive \/ Disconnect

EventsSpec == EventsInit /\ [][EventsNext]_eventVars

-----------------------------------------------------------------------------
(* Properties                                                              *)

EventsTypeOK ==
    /\ store \subseteq Event
    /\ written \in 0 .. MaxEvents + MaxEphemeral
    /\ \A p \in Publishers : pending[p] = Nothing \/ pending[p] \in {<<e>> : e \in Event}
    /\ conn \in {"closed", "subscribed", "replaying", "live"}
    /\ Range(buffer) \subseteq Event /\ Len(buffer) <= QueueSize
    /\ Range(replay) \subseteq Event /\ Len(replay) <= ReplayLimit
    /\ {high, after, client.query, client.latest, client.seen} \subseteq 0 .. MaxEvents
    /\ Range(log) \subseteq Event

(* One connection never delivers an event twice, although an event that is *)
(* committed while the stream is set up is both replayed and queued.       *)
DeliveredOnce == \A j, k \in DOMAIN log : log[j].n = log[k].n => j = k

(* The rows of one coroutine whose ids are new arrive in the order they    *)
(* were committed, across the border between replay and live.              *)
PublisherOrder ==
    \A j, k \in DOMAIN log :
        /\ j < k /\ log[j].by = log[k].by
        /\ NoId \notin {log[j].id, log[k].id}
        /\ {log[j].n, log[k].n} \cap issued.again = {}
        => log[j].n < log[k].n

Delivered == {e.n : e \in Range(log)}
Awaiting  == {pending[p][1].n : p \in {q \in Publishers : pending[q] # Nothing}}

CaughtUp(rows) ==
    (conn = "live" /\ buffer = << >>) =>
        \A e \in rows : e.id > after => e.n \in Delivered \cup excused \cup Awaiting

(* Setting a connection up loses no durable event (docs/database.md): once *)
(* a live stream has caught up, every row past the id the client asked for *)
(* was delivered on it, unless its publication is still to come, the queue  *)
(* was full or the replay was cut off.                                     *)
SetupLosesNothing == CaughtUp(store)

(* The same for the rows whose id was never in use before; and an event    *)
(* without a row is never taken for a replayed one.                        *)
NoneLost ==
    /\ CaughtUp({e \in store : e.n \notin issued.again})
    /\ (conn = "live" /\ buffer = << >>) => offered \subseteq Delivered \cup excused

(* What the stream promises a browser while coroutines commit and publish, *)
(* rows are deleted and connections come and go: no event twice, the rows  *)
(* of a coroutine in their order, and none lost without an excuse.         *)
EventsArrive == DeliveredOnce /\ PublisherOrder /\ NoneLost
=============================================================================
