---------------------------- MODULE ModelRouting ----------------------------
(***************************************************************************)
(* Which language model serves a request of the Prompt Assistant: the copy *)
(* of the router's capabilities document this process keeps (RouterWatch,  *)
(* services/llm_router.py), the choice of a service for each request, the  *)
(* slots of a service, and what the answers of the router lead to          *)
(* (OllamaAdapter._generate, services/ollama.py).  The router is external: *)
(* docs/llm-router-contract.md says how it answers.                        *)
(*                                                                         *)
(* A document is what the choice and the slots read of it; its revision   *)
(* and its ETag are hashes of the content, so that the document stands for *)
(* both.  A service has further names (aliases, the id of its model), and  *)
(* a request is sent, counted and excluded by the name it was chosen by.   *)
(***************************************************************************)
EXTENDS Naturals, FiniteSets, Sequences, SequencesExt

CONSTANTS
    Services,     \* the services (the service IDs of the catalog's entries)
    Called,       \* the names the router knows, the service IDs among them
    NoService,    \* no service
    Document,     \* the documents the router may publish
    Preference,   \* CIF_OLLAMA_NSFW: "prefer", "require", "avoid" or "any"
    Names,        \* CIF_OLLAMA_MODEL and its fallbacks; <<>>: selection by capability
    Asking,       \* the requests to the router
    Looking,      \* the requests that show an image (vision)
    Pin,          \* Pin[q]: the name q's account has chosen, or NoService
    Readable,     \* whether the capabilities endpoint answers with a document
    Attempts,     \* MAX_GENERATE_ATTEMPTS
    Patience,     \* pauses that exhaust CIF_OLLAMA_ROUTER_WAIT_SECONDS
    MaxChanges,   \* bound: changes of the router
    MaxTrouble    \* bound: reads, streams and requests that fail

Contents == [accepting : BOOLEAN,                \* whether the router takes requests
             up     : Seq(Services),             \* available, the most capable first
             slots  : [Services -> Nat \ {0}],
             means  : [Called -> Services \cup {NoService}],
             nsfw   : SUBSET Services,
             vision : SUBSET Services]

ASSUME RoutingAssumption ==
    /\ IsFiniteSet(Asking)
    /\ Services \subseteq Called /\ NoService \notin Called
    /\ Document \subseteq Contents
    /\ \A d \in Document : \A s \in Range(d.up) : d.means[s] = s
    /\ Names \in Seq(Called) /\ Pin \in [Asking -> Called \cup {NoService}]
    /\ Attempts \in Nat \ {0} /\ Patience \in Nat

NoDoc == [accepting |-> FALSE, up |-> <<NoService>>]   \* self.doc is None

VARIABLES
    router,   \* what the router would publish now
    doc,      \* RouterWatch.doc
    etag,     \* RouterWatch._etag, as the document it was sent with
    stream,   \* "off": no subscriber; "down", "reading", "up": run_forever
    events,   \* documents sent on the stream and not read yet
    reads,    \* reads[a]: the answer to a's GET that is on its way
    req,      \* the requests in _generate
    line,     \* line[n]: the requests waiting for a slot under the name n, in order
    changes, trouble

routingVars == <<router, doc, etag, stream, events, reads, req, line, changes, trouble>>

Subscriber == NoService  \* the subscriber, as a reader of the document
Readers == Asking \cup {Subscriber}
NoAnswer == [kind |-> "none", doc |-> NoDoc]
Settled  == {"done", "failed"}

New == [pc |-> "choosing", svc |-> NoService, exclude |-> {}, dropped |-> FALSE,
        attempt |-> 1, waited |-> 0, failed |-> {}]

ModelRoutingInit ==
    /\ router \in Document
    /\ doc = NoDoc /\ etag = NoDoc
    /\ stream \in {"off", "down"} /\ events = <<>>
    /\ reads = [a \in Readers |-> NoAnswer]
    /\ req = [q \in Asking |-> New]
    /\ line = [n \in Called |-> <<>>]
    /\ changes = MaxChanges /\ trouble = MaxTrouble

-----------------------------------------------------------------------------
(* The choice of a service (select_model).                                 *)

Serves(q, s) == s \in Range(doc.up) /\ (q \in Looking => s \in doc.vision)

(* _entry_identities: every name of a service.                             *)
Identities(s) == {n \in Called : doc.means[n] = s}

FirstOf(list, S) ==
    list[CHOOSE i \in DOMAIN list : list[i] \in S /\ \A j \in 1 .. i - 1 : list[j] \notin S]

Wanted(S) == CASE Preference \in {"prefer", "require"} -> S \cap doc.nsfw
               [] Preference = "avoid" -> S \ doc.nsfw
               [] OTHER -> S

(* A service is out when it failed under any of its names.                 *)
Usable(q, excluded) == {s \in Services : Serves(q, s) /\ Identities(s) \cap excluded = {}}

(* pick_from_catalog: the service's own ID.                                *)
ByCapability(q, excluded) ==
    LET usable == Usable(q, excluded)
    IN  IF doc = NoDoc THEN "unavailable"
        ELSE IF ~doc.accepting THEN "wait"
        ELSE IF Wanted(usable) # {} THEN FirstOf(doc.up, Wanted(usable))
        ELSE IF Preference = "prefer" /\ usable # {} THEN FirstOf(doc.up, usable)
        ELSE "unavailable"

(* resolve_from_catalog: the name as it is configured; without a document  *)
(* the preferred one.                                                      *)
ByName(q, excluded) ==
    LET named == {n \in Range(Names) : doc.means[n] \in Usable(q, excluded)}
    IN  IF doc = NoDoc THEN IF Names[1] \in excluded THEN "unavailable" ELSE Names[1]
        ELSE IF ~doc.accepting THEN "wait"
        ELSE IF named # {} THEN FirstOf(Names, named)
        ELSE "unavailable"

Automatic(q, excluded) == IF Names = <<>> THEN ByCapability(q, excluded) ELSE ByName(q, excluded)

(* _honor_pinned_service: a name or "wait" or "unavailable".  The name the *)
(* account has chosen is out only when it failed itself.                   *)
Choice(q, excluded) ==
    IF Pin[q] = NoService \/ Automatic(q, excluded) = "wait" THEN Automatic(q, excluded)
    ELSE IF doc = NoDoc THEN Pin[q]
    ELSE IF Pin[q] \notin excluded /\ Serves(q, doc.means[Pin[q]]) THEN Pin[q]
    ELSE Automatic(q, excluded)

-----------------------------------------------------------------------------
(* The document.                                                           *)

(* The router answers a GET; If-None-Match is the stored ETag.  A read     *)
(* that fails changes nothing (refresh).                                   *)
Answered(a) ==
    IF ~Readable THEN NoAnswer
    ELSE IF etag = router /\ doc # NoDoc THEN [kind |-> "same", doc |-> router]
    ELSE [kind |-> "new", doc |-> router]

Ask(a) == reads' = [reads EXCEPT ![a] = Answered(a)]

(* fetch, from the answer on.                                              *)
Take(a) ==
    /\ reads' = [reads EXCEPT ![a] = NoAnswer]
    /\ IF reads[a].kind = "new" THEN doc' = reads[a].doc /\ etag' = reads[a].doc
       ELSE UNCHANGED <<doc, etag>>

ReadFails(a) ==
    /\ reads[a].kind # "none" /\ trouble > 0
    /\ reads' = [reads EXCEPT ![a] = NoAnswer] /\ trouble' = trouble - 1
    /\ UNCHANGED <<router, doc, etag, stream, events, req, line, changes>>

RouterChanges ==
    /\ changes > 0 /\ changes' = changes - 1
    /\ router' \in Document \ {router}
    /\ events' = IF stream = "up" THEN Append(events, router') ELSE events
    /\ UNCHANGED <<doc, etag, stream, reads, req, line, trouble>>

(* run_forever: a read first and after every stream.                       *)
WatchReads ==
    /\ stream = "reading" /\ stream' = "down"
    /\ Take(Subscriber)
    /\ UNCHANGED <<router, events, req, line, changes, trouble>>

Connects ==
    /\ stream = "down" /\ stream' = "up"
    /\ events' = <<router>>
    /\ UNCHANGED <<router, doc, etag, reads, req, line, changes, trouble>>

(* The stream is refused (TOO_MANY_SUBSCRIBERS) or ends: poll.             *)
StreamEnds ==
    /\ stream \in {"down", "up"} /\ stream' = "reading"
    /\ trouble > 0 /\ trouble' = trouble - 1
    /\ events' = <<>>
    /\ Ask(Subscriber)
    /\ UNCHANGED <<router, doc, etag, req, line, changes>>

(* _follow: a capabilities event.                                          *)
DocumentEvent ==
    /\ events # <<>> /\ events' = Tail(events)
    /\ doc' = Head(events)
    /\ UNCHANGED <<router, etag, stream, reads, req, line, changes, trouble>>

-----------------------------------------------------------------------------
(* A request.                                                              *)

To(q, pc) == req' = [req EXCEPT ![q].pc = pc]
Becomes(q, request) == req' = [req EXCEPT ![q] = request]

Running == stream # "off"
Excluded(q) == IF req[q].dropped THEN {} ELSE req[q].exclude

(* _ensure_document reads where no subscriber does, or with no document.   *)
Ensure(q) ==
    /\ req[q].pc = "choosing" /\ (~Running \/ doc = NoDoc)
    /\ Ask(q) /\ To(q, "reading")
    /\ UNCHANGED <<router, doc, etag, stream, events, line, changes, trouble>>

(* What _choose does with the selection.                                   *)
Choose(q) ==
    LET s == Choice(q, Excluded(q))
        spent == req[q].waited >= Patience
    IN  CASE s = "unavailable" \/ (s = "wait" /\ spent)
               -> To(q, "failed") /\ UNCHANGED line
          [] s = "wait" /\ ~spent
               -> To(q, "pausing") /\ UNCHANGED line
          [] OTHER
               -> Becomes(q, [req[q] EXCEPT !.pc = "queued", !.svc = s]) /\ line' = [line EXCEPT ![s] = Append(@, q)]

ChooseNow(q) ==
    /\ req[q].pc = "choosing" /\ Running /\ doc # NoDoc
    /\ Choose(q)
    /\ UNCHANGED <<router, doc, etag, stream, events, reads, changes, trouble>>

(* The read has been taken: choose by what the document says now.          *)
ChooseRead(q) ==
    /\ req[q].pc = "read"
    /\ Choose(q)
    /\ UNCHANGED <<router, doc, etag, stream, events, reads, changes, trouble>>

Reads(q) ==
    /\ req[q].pc \in {"reading", "rereading"}
    /\ Take(q)
    /\ To(q, IF req[q].pc = "reading" THEN "read" ELSE "choosing")
    /\ UNCHANGED <<router, stream, events, line, changes, trouble>>

(* _service_slots, read of the current document at every check of         *)
(* _ServiceSlots.hold, which counts by the name that was sent.             *)
SlotsOf(n) == IF doc = NoDoc \/ doc.means[n] = NoService THEN 1 ELSE doc.slots[doc.means[n]]
Active(n) == {q \in Asking : req[q].pc = "sent" /\ req[q].svc = n}

Mut_MaySend(q) == Cardinality(Active(req[q].svc)) < SlotsOf(req[q].svc)
MaySend(q) == /\ Head(line[req[q].svc]) = q
              /\ Cardinality(Active(req[q].svc)) < SlotsOf(req[q].svc)

WithoutWaiter(queue, q) == \* queue.remove(waiter)
    IF q \in Range(queue) THEN RemoveAt(queue, CHOOSE i \in DOMAIN queue : queue[i] = q) ELSE queue

Send(q) ==
    /\ req[q].pc = "queued" /\ MaySend(q)
    /\ line' = [line EXCEPT ![req[q].svc] = WithoutWaiter(@, q)]
    /\ To(q, "sent")
    /\ UNCHANGED <<router, doc, etag, stream, events, reads, changes, trouble>>

(* A pause of the wait budget: inside _choose (the exclusions are dropped  *)
(* for this choice) and after a WAIT code (they are cleared).              *)
Pause(q) ==
    /\ req[q].pc = "pausing"
    /\ Becomes(q, [req[q] EXCEPT !.pc = "choosing", !.waited = @ + 1, !.dropped = TRUE, !.failed = {}])
    /\ UNCHANGED <<router, doc, etag, stream, events, reads, line, changes, trouble>>

(* _refresh_after_router_error, then the loop again.                       *)
Again(q, request) ==
    IF stream = "up" THEN Becomes(q, [request EXCEPT !.pc = "choosing"]) /\ UNCHANGED reads
    ELSE Becomes(q, [request EXCEPT !.pc = "rereading"]) /\ Ask(q)

(* A transient failure: three attempts, of which the first two pause.      *)
Retry(q) ==
    /\ IF req[q].attempt < Attempts
       THEN Becomes(q, [req[q] EXCEPT !.pc = "choosing", !.attempt = @ + 1, !.dropped = FALSE])
       ELSE To(q, "failed")
    /\ UNCHANGED reads

(* FALLBACK: SERVICE_OFFLINE and MODEL_NOT_FOUND; BACKEND_UNAVAILABLE      *)
(* where another service can be chosen.                                    *)
FallBack(q) ==
    Again(q, [req[q] EXCEPT !.exclude = @ \cup {req[q].svc}, !.failed = @ \cup {req[q].svc},
                            !.dropped = FALSE])

Alternative(q) == Choice(q, req[q].exclude \cup {req[q].svc}) # "unavailable"

Offered(q) == router.means[req[q].svc] \in Range(router.up)

Offline(q) == ~Offered(q) /\ FallBack(q) /\ UNCHANGED trouble

Unhealthy(q) ==
    /\ trouble > 0 /\ trouble' = trouble - 1
    /\ IF Alternative(q) THEN FallBack(q) ELSE Retry(q)

(* BACKEND_DRAINING and MAINTENANCE_MODE: pause, refresh, choose again.    *)
Draining(q) ==
    /\ ~router.accepting
    /\ IF req[q].waited >= Patience THEN To(q, "failed") /\ UNCHANGED reads
       ELSE Again(q, [req[q] EXCEPT !.waited = @ + 1, !.exclude = {}, !.dropped = FALSE, !.failed = {}])
    /\ UNCHANGED trouble

(* Other 5xx, 408 and 429, a lost connection, an answer that is not JSON   *)
(* or not complete.                                                        *)
Transient(q) == trouble > 0 /\ trouble' = trouble - 1 /\ Retry(q)

(* Another 4xx, a declined request or a read timeout: never sent again.    *)
GivesUp(q) == trouble > 0 /\ trouble' = trouble - 1 /\ To(q, "failed") /\ UNCHANGED reads

Succeeds(q) ==
    /\ Offered(q)
    /\ To(q, "done") /\ UNCHANGED <<reads, trouble>>

Response(q) ==
    /\ req[q].pc = "sent"
    /\ Offline(q) \/ Unhealthy(q) \/ Draining(q) \/ Transient(q) \/ GivesUp(q) \/ Succeeds(q)
    /\ UNCHANGED <<router, doc, etag, stream, events, line, changes>>

(* The task of the request is cancelled.                                   *)
Cancelled(q) ==
    /\ req[q].pc \notin Settled \cup {"read"}
    /\ trouble > 0 /\ trouble' = trouble - 1
    /\ To(q, "failed")
    /\ reads' = [reads EXCEPT ![q] = NoAnswer]
    /\ line' = [n \in Called |-> WithoutWaiter(line[n], q)]
    /\ UNCHANGED <<router, doc, etag, stream, events, changes>>

RequestStep(q) == Ensure(q) \/ ChooseNow(q) \/ ChooseRead(q) \/ Reads(q) \/ Send(q) \/ Pause(q) \/ Response(q)

ModelRoutingNext ==
    \/ RouterChanges \/ WatchReads \/ Connects \/ StreamEnds \/ DocumentEvent
    \/ \E a \in Readers : ReadFails(a)
    \/ \E q \in Asking : RequestStep(q) \/ Cancelled(q)

ModelRoutingSpec == ModelRoutingInit /\ [][ModelRoutingNext]_routingVars

-----------------------------------------------------------------------------
RoutingTypeOK ==
    /\ router \in Document /\ doc \in Document \cup {NoDoc} /\ etag \in Document \cup {NoDoc}
    /\ stream \in {"off", "down", "reading", "up"}
    /\ \A i \in DOMAIN events : events[i] \in Document
    /\ \A a \in Readers : reads[a] \in [kind : {"none", "same", "new"}, doc : Document \cup {NoDoc}]
    /\ \A q \in Asking :
         /\ req[q].pc \in Settled \cup {"choosing", "reading", "read", "rereading", "queued", "sent", "pausing"}
         /\ req[q].svc \in Called \cup {NoService}
         /\ req[q].exclude \cup req[q].failed \subseteq Called
         /\ req[q].attempt \in 1 .. Attempts /\ req[q].waited \in 0 .. Patience
    /\ \A n \in Called : \A q \in Asking :
         (q \in Range(line[n])) = (req[q].pc = "queued" /\ req[q].svc = n)

(* More requests get under way under a name only within the slots that the *)
(* document held at that moment gives it.  A document that lowers them     *)
(* leaves more under way, and a service with two names gets its slots      *)
(* under each.                                                             *)
InSlots ==
    \A n \in Called : \/ Cardinality(Active(n)') <= Cardinality(Active(n))
                     \/ Cardinality(Active(n)') <= SlotsOf(n)
WithinSlots == [][InSlots]_routingVars

(* A name gives its slots in the order the requests came for them, also    *)
(* when some of them are cancelled while they wait.                        *)
FirstGoes ==
    \A q \in Asking : req[q].pc = "queued" /\ req'[q].pc = "sent" =>
        \A i \in DOMAIN line[req[q].svc] : line[req[q].svc][i] # q =>
            \E j \in 1 .. i - 1 : line[req[q].svc][j] = q
InTurn == [][FirstGoes]_routingVars

(* A name that could not serve a request is not chosen for it again before *)
(* the request has waited: every choice of an exchange of FALLBACK answers *)
(* is another one, so that they end.                                       *)
FailedNotAgain == \A q \in Asking : ~(req[q].pc = "queued" /\ req[q].svc \in req[q].failed)

(* The same where the choice had a document to read, and then of a service *)
(* under any of its names, unless the account has chosen the name itself   *)
(* (which may have become a name of the service since).                    *)
Untried(q, n, failed) ==
    n \notin failed /\ (n # Pin[q] => Identities(doc.means[n]) \cap failed = {})
NotChosenAgain ==
    \A q \in Asking : req[q].pc # "queued" /\ req'[q].pc = "queued" /\ doc # NoDoc =>
        Untried(q, req'[q].svc, req[q].failed)
FailedNotAgainKnowing == [][NotChosenAgain]_routingVars

(* A read that has been answered leaves the document the router answered   *)
(* for, whichever way it answered.                                         *)
ReadIsCurrent ==
    [][\A a \in Readers : reads[a].kind # "none" /\ reads'[a].kind = "none" /\ trouble' = trouble
          => doc' = reads[a].doc]_routingVars

(* A name gets no further request beyond the slots its service has in the *)
(* document of the moment, gives them in the order the requests came, and  *)
(* a service that failed is not chosen again before the request has        *)
(* waited, as long as there is a document to choose by.                    *)
RoutedFairly == WithinSlots /\ InTurn /\ FailedNotAgainKnowing
=============================================================================
