-------------------------- MODULE WorkflowRegistry --------------------------
(***************************************************************************)
(* The catalog of the workflows published on one ComfyUI instance:         *)
(* discovery (services/workflow_registry.py), what starts it (startup      *)
(* discovery in container.py, _health_loop in services/queue_worker.py,    *)
(* administrators and LoRA operations), and the publisher, who writes the  *)
(* API graph before the manifest that announces it (external).             *)
(*                                                                         *)
(* Publication v of a source is its version; a manifest names the API      *)
(* graph of its own version, and an accepted revision is the pair that was *)
(* read.  The editable workflow only adds a warning and is left out.       *)
(***************************************************************************)
EXTENDS Naturals, FiniteSets

CONSTANTS
    Sources,      \* the sources of the instance
    Picky,        \* the sources that need a node class an extension provides
    MaxVersion,   \* bound: publications of a source
    MaxTrouble    \* bound: outages, failed reads, restarts and requests for a refresh

ASSUME SourcesAssumption == Picky \subseteq Sources /\ MaxVersion \in Nat \ {0}

VARIABLES
    manifest,   \* manifest[s]: the version of the manifest on the instance, 0 without one
    api,        \* api[s]: the version of the API graph
    classes,    \* the extension's node classes are loaded
    up,         \* ComfyUI answers
    current,    \* current[s]: the current revision of s, or NoRevision
    health,     \* workflow_catalog_health of the instance
    waiting,    \* who waits for _refresh_lock
    refresh,    \* the discovery of each caller
    loop,       \* the health loop
    trouble

registryVars == <<manifest, api, classes, up, current, health, waiting, refresh, loop, trouble>>

Versions     == 0 .. MaxVersion
Revision     == [manifest : Versions, api : Versions]
NoRevision   == [manifest |-> 0, api |-> 0]
Callers      == {"startup", "health", "request"}
HealthStates == {"loading", "ready", "cached_offline", "unavailable"}

NoRefresh == [busy |-> FALSE, classes |-> FALSE, listed |-> {}, todo |-> {}, at |-> NoRevision, valid |-> {}]

RegistryInit ==
    /\ manifest = [s \in Sources |-> 1] /\ api = [s \in Sources |-> 1]
    /\ classes \in BOOLEAN /\ up \in BOOLEAN
    /\ current = [s \in Sources |-> NoRevision]
    /\ health = [state |-> "loading", available |-> FALSE, missing |-> {}]  \* mark_startup_loading
    /\ waiting = {"startup"}
    /\ refresh = [c \in Callers |-> NoRefresh]
    /\ loop = "rest"
    /\ trouble = MaxTrouble

-----------------------------------------------------------------------------
(* The instance.                                                           *)

PublishApi(s) ==
    /\ api[s] < MaxVersion /\ api[s] = manifest[s]
    /\ api' = [api EXCEPT ![s] = @ + 1]
    /\ UNCHANGED <<manifest, classes, up, current, health, waiting, refresh, loop, trouble>>

PublishManifest(s) ==
    /\ manifest[s] # api[s]
    /\ manifest' = [manifest EXCEPT ![s] = api[s]]
    /\ UNCHANGED <<api, classes, up, current, health, waiting, refresh, loop, trouble>>

Withdraw(s) ==
    /\ manifest[s] # 0 /\ trouble > 0 /\ trouble' = trouble - 1
    /\ manifest' = [manifest EXCEPT ![s] = 0]
    /\ UNCHANGED <<api, classes, up, current, health, waiting, refresh, loop>>

Outage ==
    /\ up /\ trouble > 0 /\ trouble' = trouble - 1
    /\ up' = FALSE
    /\ UNCHANGED <<manifest, api, classes, current, health, waiting, refresh, loop>>

(* ComfyUI comes back, with or without the extension.                      *)
ComesBack ==
    /\ ~up /\ up' = TRUE
    /\ classes' \in BOOLEAN
    /\ UNCHANGED <<manifest, api, current, health, waiting, refresh, loop, trouble>>

-----------------------------------------------------------------------------
(* Discovery.                                                              *)

Cached == {s \in Sources : current[s] # NoRevision}

Wants(c) == waiting' = waiting \cup {c}

(* The discovery and whoever waits for it end.                             *)
EndsRefresh(c) ==
    /\ refresh' = [refresh EXCEPT ![c] = NoRefresh]
    /\ loop' = IF c = "health" THEN "rest" ELSE loop

(* An administrator or a LoRA operation refreshes.                         *)
RequestRefresh ==
    /\ trouble > 0 /\ trouble' = trouble - 1
    /\ "request" \notin waiting /\ Wants("request")
    /\ UNCHANGED <<manifest, api, classes, up, current, health, refresh, loop>>

Mut_StartRefresh(c) == \* without the lock
    /\ c \in waiting /\ ~refresh[c].busy
    /\ waiting' = waiting \ {c}
    /\ refresh' = [refresh EXCEPT ![c].busy = TRUE]
    /\ UNCHANGED <<manifest, api, classes, up, current, health, loop, trouble>>

(* One discovery at a time holds _refresh_lock.                            *)
StartRefresh(c) ==
    /\ c \in waiting /\ \A other \in Callers : ~refresh[other].busy
    /\ waiting' = waiting \ {c}
    /\ refresh' = [refresh EXCEPT ![c].busy = TRUE]
    /\ UNCHANGED <<manifest, api, classes, up, current, health, loop, trouble>>

(* _record_transport_failure                                               *)
Mut_TransportFailure == \* a catalog without cached workflows stays ready
    /\ health' = [health EXCEPT !.available = FALSE]
    /\ UNCHANGED current
TransportFailure ==
    /\ health' = [health EXCEPT !.available = FALSE,
                                !.state = IF Cached # {} THEN "cached_offline" ELSE "unavailable"]
    /\ UNCHANGED current

(* The probe: the node classes the instance offers; then the listing.      *)
Probe(c) ==
    /\ refresh[c].busy /\ refresh[c].listed = {} /\ up
    /\ LET listed == {s \in Sources : manifest[s] # 0}
       IN  refresh' = [refresh EXCEPT ![c] =
               [refresh[c] EXCEPT !.classes = classes, !.listed = listed \cup {"listed"}, !.todo = listed]]
    /\ UNCHANGED <<manifest, api, classes, up, current, health, waiting, loop, trouble>>

NotReached(c) ==
    /\ refresh[c].busy /\ refresh[c].listed = {} /\ ~up
    /\ TransportFailure /\ EndsRefresh(c)
    /\ UNCHANGED <<manifest, api, classes, up, waiting, trouble>>

Pick(c) == CHOOSE s \in refresh[c].todo : TRUE   \* the candidates in the order of their paths

(* The commit marker is read first, the artifacts it names after it.       *)
ReadManifest(c) ==
    /\ refresh[c].todo # {} /\ refresh[c].at = NoRevision
    /\ up /\ manifest[Pick(c)] # 0
    /\ refresh' = [refresh EXCEPT ![c].at = [manifest |-> manifest[Pick(c)], api |-> 0]]
    /\ UNCHANGED <<manifest, api, classes, up, current, health, waiting, loop, trouble>>

(* validate_publication: API graph of another version is a warning.        *)
Usable(c, s) == s \in Picky => refresh[c].classes
ReadArtifacts(c) ==
    /\ refresh[c].at # NoRevision /\ up
    /\ LET s == Pick(c)
           found == [source |-> s, rev |-> [refresh[c].at EXCEPT !.api = api[s]]]
       IN  refresh' = [refresh EXCEPT ![c] =
               [refresh[c] EXCEPT !.todo = @ \ {s}, !.at = NoRevision,
                         !.valid = @ \cup IF Usable(c, s) THEN {found} ELSE {}]]
    /\ UNCHANGED <<manifest, api, classes, up, current, health, waiting, loop, trouble>>

(* An artifact that cannot be read: this candidate is rejected, and it     *)
(* keeps what was accepted before.                                         *)
ReadFails(c) ==
    /\ refresh[c].todo # {}
    /\ IF up /\ (refresh[c].at # NoRevision \/ manifest[Pick(c)] # 0)
       THEN trouble > 0 /\ trouble' = trouble - 1
       ELSE UNCHANGED trouble
    /\ refresh' = [refresh EXCEPT ![c] = [refresh[c] EXCEPT !.todo = @ \ {Pick(c)}, !.at = NoRevision]]
    /\ UNCHANGED <<manifest, api, classes, up, current, health, waiting, loop>>

(* The validated revision of a source; at most one in a discovery.         *)
Accepted(c, s) == {v \in refresh[c].valid : v.source = s}
Found(c, s) == (CHOOSE v \in Accepted(c, s) : TRUE).rev

Committed(c, s) ==
    IF Accepted(c, s) # {} THEN Found(c, s)
    ELSE IF s \in refresh[c].listed THEN current[s]
    ELSE NoRevision

CommitRefresh(c) ==
    /\ refresh[c].listed # {} /\ refresh[c].todo = {}
    /\ current' = [s \in Sources |-> Committed(c, s)]
    /\ health' = [state |-> "ready", available |-> TRUE,
                  missing |-> {s \in Picky : current'[s] # NoRevision /\ ~refresh[c].classes}]
    /\ EndsRefresh(c)
    /\ UNCHANGED <<manifest, api, classes, up, waiting, trouble>>

-----------------------------------------------------------------------------
(* The health loop: a probe, the decision by the catalog's row, and what   *)
(* follows from it.  It does not hold the lock.                            *)
HealthProbe ==
    /\ loop = "rest"
    /\ loop' = IF up THEN "online" ELSE "offline"
    /\ UNCHANGED <<manifest, api, classes, up, current, health, waiting, refresh, trouble>>

RefreshDue == health.state # "loading" /\ ~(health.available /\ health.state = "ready")

HealthDecides ==
    /\ loop \in {"online", "offline"}
    /\ CASE loop = "online" /\ RefreshDue -> loop' = "refreshing" /\ Wants("health")
         [] loop = "offline" /\ health.state # "loading" -> loop' = "recording" /\ UNCHANGED waiting
         [] OTHER -> loop' = "rest" /\ UNCHANGED waiting
    /\ UNCHANGED <<manifest, api, classes, up, current, health, refresh, trouble>>

(* record_offline reads the row again.                                     *)
RecordOffline ==
    /\ loop = "recording" /\ loop' = "rest"
    /\ IF health.state = "loading" THEN UNCHANGED <<health, current>> ELSE TransportFailure
    /\ UNCHANGED <<manifest, api, classes, up, waiting, refresh, trouble>>

(* The application restarts: start_workflow_discovery.                     *)
RestartRegistry ==
    /\ trouble > 0 /\ trouble' = trouble - 1
    /\ health' = [health EXCEPT !.state = "loading", !.available = FALSE]
    /\ waiting' = {"startup"} /\ refresh' = [c \in Callers |-> NoRefresh] /\ loop' = "rest"
    /\ UNCHANGED <<manifest, api, classes, up, current>>

Discovery == \E c \in Callers :
    StartRefresh(c) \/ Probe(c) \/ NotReached(c) \/ ReadManifest(c) \/ ReadArtifacts(c) \/ ReadFails(c) \/ CommitRefresh(c)
HealthLoop == HealthProbe \/ HealthDecides \/ RecordOffline

RegistryNext ==
    \/ \E s \in Sources : PublishApi(s) \/ PublishManifest(s) \/ Withdraw(s)
    \/ Outage \/ ComesBack \/ RequestRefresh \/ RestartRegistry \/ Discovery \/ HealthLoop

RegistrySpec ==
    /\ RegistryInit /\ [][RegistryNext]_registryVars
    /\ WF_registryVars(Discovery) /\ WF_registryVars(HealthLoop)

-----------------------------------------------------------------------------
RegistryTypeOK ==
    /\ manifest \in [Sources -> Versions] /\ api \in [Sources -> Versions]
    /\ current \in [Sources -> Revision]
    /\ health \in [state : HealthStates, available : BOOLEAN, missing : SUBSET Sources]
    /\ waiting \subseteq Callers
    /\ \A c \in Callers : /\ refresh[c].todo \subseteq refresh[c].listed /\ refresh[c].at \in Revision
                          /\ refresh[c] # NoRefresh => refresh[c].busy
    /\ loop \in {"rest", "online", "offline", "recording", "refreshing"}

(* An available catalog is the one a completed discovery left: nothing     *)
(* else says that the sources of the instance are ready.                   *)
AvailableMeansReady == health.available <=> health.state = "ready"

(* Discoveries that overlap do not undo each other: the current revision   *)
(* of a source never goes back to an older manifest or API graph.          *)
NeverOlder ==
    [][\A s \in Sources : current[s] # NoRevision /\ current'[s] # NoRevision =>
          current'[s].manifest >= current[s].manifest /\ current'[s].api >= current[s].api]_registryVars

(* A source keeps its current revision for as long as it is published: an  *)
(* outage, a failed read or a missing node class does not retire it.       *)
KeptWhilePublished ==
    [][\A s \in Sources : current[s] # NoRevision /\ current'[s] = NoRevision =>
          \E c \in Callers : refresh[c].listed # {} /\ s \notin refresh[c].listed]_registryVars

(* What users may run stays what was accepted last, whoever discovers.     *)
CatalogKept == []AvailableMeansReady /\ NeverOlder /\ KeptWhilePublished

(* Once the instance stays up the catalog becomes ready again: the health  *)
(* loop starts the discovery an outage or a failed start has left due.     *)
ReadyAgain == <>[]up => []<>(health.state = "ready")
=============================================================================
