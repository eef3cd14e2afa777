----------------------------- MODULE MCPlatform -----------------------------
(***************************************************************************)
(* The safety of parts that share no state, as small instances one of      *)
(* which each behaviour is of (focus): the admission of requests, the      *)
(* event stream, two generations that compete for one worker, the choice   *)
(* of a language model and what is made of its answers, and the update of  *)
(* a production installation.                                              *)
(***************************************************************************)
EXTENDS MCAdmission, EventStream, ModelRouting, PromptComposition, ProductionUpdate

CONSTANTS i1, noInst, noGen

\* The same model values stand for requests, coroutines, generations and
\* update runs, so that one small symmetry serves all of them.

VARIABLES
    row, job, disp, rec, mode, pool, notices, account, native, faults,
    focus

MCPublishers == Media

MCGens == Requests \ Media
MCInstances == {i1}
MCDeployments == {MCInstances}
MCCarries == [g \in MCGens |-> MCInstances]
MCPins == [g \in MCGens |-> noInst]
MCDoomed == {}
MCFaultKinds == {"connect", "absent", "ambiguous", "stop"}
T == INSTANCE GenerationLifecycle WITH
        Gens <- MCGens, Instances <- MCInstances, NoInst <- noInst, NoGen <- noGen,
        Deployments <- MCDeployments, Carries <- MCCarries, LegacyPin <- MCPins, Doomed <- MCDoomed,
        Slots <- 1, MaxPrompts <- 3, FaultKinds <- MCFaultKinds, MaxFaults <- 1,
        task <- job

\* The more capable service is the one that does not read images.  Both
\* accounts have chosen "other", a further name of the plain service, which
\* a document may give to the deep one.
MCServices == {"deep", "plain"}
MCCalled == MCServices \cup {"other"}
Published(accepting, up, plain, other) ==
    [accepting |-> accepting, up |-> up, slots |-> [deep |-> 1, plain |-> plain],
     means |-> [deep |-> "deep", plain |-> "plain", other |-> other], nsfw |-> {"deep"}, vision |-> {"plain"}]
MCFirst == Published(TRUE, <<"deep", "plain">>, 2, "plain")
MCDocuments == {MCFirst,
    Published(FALSE, <<"deep", "plain">>, 2, "plain"),  \* draining
    Published(TRUE, <<"deep", "plain">>, 1, "plain"),   \* fewer slots
    Published(TRUE, <<"deep", "plain">>, 1, "deep"),    \* another model under the name
    Published(TRUE, <<"deep">>, 2, "plain"),
    Published(TRUE, <<"plain">>, 2, "deep")}
MCNames == <<>>
MCAsking == {"ask", "look"}
MCLooking == {"look"}
MCPin == [q \in MCAsking |-> "other"]

twoVars     == <<row, job, disp, rec, mode, pool, notices, account, native, faults>>
parts       == <<vars, eventVars, twoVars, routingVars, compositionVars, updateVars>>
allVars     == <<parts, focus>>

Focuses == {"admission", "events", "two", "routing", "composition", "update"}

(* What is not followed starts in one state.                               *)
FocusInit ==
    /\ focus \in Focuses
    /\ Init /\ EventsInit /\ T!Init /\ UpdateInit
    /\ ModelRoutingInit /\ router = MCFirst /\ (focus # "routing" => stream = "off")
    /\ CompositionInit /\ (focus # "composition" => task.mode = "create" /\ ~task.think)

FocusNext ==
    /\ UNCHANGED focus
    /\ \/ focus = "admission" /\ Next
          /\ UNCHANGED <<eventVars, twoVars, routingVars, compositionVars, updateVars>>
       \/ focus = "events" /\ EventsNext
          /\ UNCHANGED <<vars, twoVars, routingVars, compositionVars, updateVars>>
       \/ focus = "two" /\ T!Next
          /\ UNCHANGED <<vars, eventVars, routingVars, compositionVars, updateVars>>
       \/ focus = "routing" /\ ModelRoutingNext
          /\ UNCHANGED <<vars, eventVars, twoVars, compositionVars, updateVars>>
       \/ focus = "composition" /\ CompositionNext
          /\ UNCHANGED <<vars, eventVars, twoVars, routingVars, updateVars>>
       \/ focus = "update" /\ UpdateNext
          /\ UNCHANGED <<vars, eventVars, twoVars, routingVars, compositionVars>>

FocusSpec == FocusInit /\ [][FocusNext]_allVars

(* See the modules for what the properties say, and for PlacesKept,        *)
(* EventsArrive, RoutedFairly, NewPrompts and UpdateSafe, which hold of a  *)
(* part that is not followed as well.                                      *)
TypesOK ==
    CASE focus = "admission"   -> TypeOK
      [] focus = "events"      -> EventsTypeOK
      [] focus = "two"         -> T!TypeOK
      [] focus = "routing"     -> RoutingTypeOK
      [] focus = "composition" -> CompositionTypeOK
      [] focus = "update"      -> UpdateTypeOK
TwoCompete == focus = "two" =>
    T!OneNativeRun /\ T!ConcurrencyBound /\ T!NobodyStranded /\ T!CacheResetBeforeOffer
=============================================================================
