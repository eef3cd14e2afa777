----------------------------- MODULE MCLifecycle -----------------------------
(***************************************************************************)
(* The safety of a generation in small instances, one of which each        *)
(* behaviour is of (focus): "faults", two workers of one pool with every   *)
(* fault but a crash; "restarts", a row pinned by an older release among   *)
(* three workers, of which one or two are configured at each start, of an  *)
(* account that is deleted; "parameters", a manifest of up to three        *)
(* inputs and a request; "files", the archive of a prompt with four        *)
(* images; "relay", the events of a prompt with two nodes; and "results",  *)
(* what three nodes report of it.                                          *)
(***************************************************************************)
EXTENDS MCGenerationLifecycle, HistoryResult, ImageArchive, ProgressRelay

CONSTANTS i1, i2, i3, noText, t1, c1, c2, s1, s2, upload, foreign, null, blank, random, absent, wrong

VARIABLES
    inputs, kind, verdict, request, compiled, recalled,
    columns, executors, claim, recovery, server, configured, cancels, owner, prompts, chances,
    focus

R == INSTANCE LifecycleInvariant WITH
        row <- columns, task <- executors, disp <- claim, rec <- recovery, mode <- server,
        pool <- configured, notices <- cancels, account <- owner, native <- prompts, faults <- chances,
        Instances <- {i1, i2, i3}, Deployments <- {{i1}, {i2}, {i3}, {i1, i2}},
        LegacyPin <- [g \in Gens |-> i1], Carries <- [g \in Gens |-> {i2}], Doomed <- Gens,
        FaultKinds <- {"crash", "stop", "ambiguous", "connect", "vanish", "reject", "absent"},
        MaxPrompts <- 3, MaxFaults <- 2

\* A node the workflow does not declare, a preview and a final output of two images.
MCOrder == <<"undeclared", "preview", "final0", "final1">>
MCFiles == {"undeclared", "preview", "final0", "final1"}
MCOutput == [undeclared |-> "node", preview |-> "preview", final0 |-> "final", final1 |-> "final"]
MCBatch == [undeclared |-> 0, preview |-> 0, final0 |-> 0, final1 |-> 1]
MCRank == [undeclared |-> 0, preview |-> 2000, final0 |-> 4001, final1 |-> 4001]
MCBytes == [f \in MCFiles |-> f]
MCDurable == MCFiles \ {"preview"}

\* The second node is only told of by the older kind of event.
MCEvent(type, node, value) == [kind |-> type, node |-> node, value |-> value]
MCScript ==
    <<MCEvent("execution_start", "none", 0), MCEvent("progress_state", "a", 1),
      MCEvent("progress", "a", 7), MCEvent("progress_state", "a", 2),
      MCEvent("executing", "b", 0), MCEvent("progress", "b", 1),
      MCEvent("execution_success", "none", 0)>>

\* "n" is an ordinary node; the others publish one output each.
MCNodes == <<"p", "n", "q">>
MCOutputs == <<"final", "preview">>
MCNodeOf == [final |-> "p", preview |-> "q"]
MCEntry(b, f) == [batch |-> b, file |-> f]
MCLists == {<<>>, <<MCEntry(0, "f")>>, <<MCEntry(0, "f"), MCEntry(1, "g")>>, <<MCEntry(0, "f"), MCEntry(0, "g")>>,
            <<MCEntry(-1, "f"), MCEntry(0, "g")>>, <<MCEntry(-1, "f")>>}

\* A prompt, a style with its weight, a seed, LoRAs and an image, each also as it may be ill declared.
MCInput(id, type, role, default, node) ==
    [id |-> id, type |-> type, role |-> role, required |-> FALSE, default |-> default,
     minimum |-> 0, maximum |-> 4, step |-> 2, mode |-> "fixed", choices |-> (c1 :> absent),
     strengthOf |-> absent, items |-> {"x", "y"}, mimes |-> {"png"}, limit |-> 2,
     bindings |-> <<[node |-> node, input |-> IF type = "image" THEN "image" ELSE "value"]>>,
     uuid |-> id, formed |-> TRUE]
MCPrompt == MCInput("prompt", "string", "positive_prompt", t1, "text")
MCNote   == [MCPrompt EXCEPT !.id = "note", !.uuid = "note", !.role = "note",
                             !.bindings = @ \o <<[node |-> "old", input |-> "remark"]>>]
MCStyle  == [MCInput("style", "choice", "style", c1, "choice") EXCEPT !.choices = (c1 :> absent @@ c2 :> 4)]
MCWeight == [MCInput("weight", "number", "style", 2, "number") EXCEPT !.strengthOf = "style"]
MCSeed   == [MCInput("seed", "seed", "seed", 3, "seed") EXCEPT !.minimum = 1, !.maximum = 6, !.mode = "random"]
MCStack  == MCInput("stack", "lora_stack", "lora", s1, "stack")
MCImage  == [MCInput("image", "image", "reference_image", absent, "image") EXCEPT !.required = TRUE]
MCInputs ==
    <<MCPrompt, [MCPrompt EXCEPT !.required = TRUE], MCNote, [MCNote EXCEPT !.bindings[1].input = "remark"],
     MCStyle, [MCStyle EXCEPT !.choices[c2] = 3], [MCStyle EXCEPT !.default = s1],
     MCWeight, [MCWeight EXCEPT !.strengthOf = absent], [MCWeight EXCEPT !.default = 3],
     [MCWeight EXCEPT !.role = "positive_prompt"],
     MCSeed, [MCSeed EXCEPT !.mode = "fixed"], MCStack, [MCStack EXCEPT !.maximum = 6],
     MCImage, [MCImage EXCEPT !.bindings = @ \o @]>>
\* Manifests differ in what they list, not in its order.
MCManifests ==
    {[k \in DOMAIN at |-> MCInputs[at[k]]] :
        at \in {s \in SeqOf(DOMAIN MCInputs, 3) : \A k \in 2 .. Len(s) : s[k - 1] < s[k]}}
MCNode(class, input, takes) ==
    [class |-> class, inputs |-> (input :> absent @@ "kept" :> absent),
     takes |-> IF takes = absent THEN absent ELSE (input :> takes)]
MCGraph ==
    [text   |-> MCNode("CIFTextParameter", "value", "STRING"),
     choice |-> MCNode("CIFChoiceParameter", "value", "STRING"),
     number |-> MCNode("CIFDecimalParameter", "value", "FLOAT"),
     seed   |-> MCNode("CIFSeedParameter", "value", "INT"),
     old    |-> MCNode("CIFImageFrontendInterface", "remark", absent),
     stack  |-> [class |-> "CIFLoraStack", takes |-> ("value" :> "STRING"),
                 inputs |-> [value |-> [json |-> s1], catalog |-> {"x", "y"}, minimum |-> 0, maximum |-> 4, step |-> 2]],
     image  |-> [class |-> "CIFImageParameter", takes |-> absent, inputs |-> [image |-> absent, limit |-> 2]],
     images |-> MCNode("CIFPublishImage", "images", absent), texts |-> MCNode("CIFPublishText", "text", absent)]
MCOut(id, role, type, node) ==
    [id |-> id, role |-> role, type |-> type, node |-> node, source |-> "text", uuid |-> id, formed |-> TRUE]
MCPublishers ==
    {<<MCOut("o", "final", "image", "images")>>, <<MCOut("o", "final", "text", "texts")>>,
     <<MCOut("o", "preview", "image", "images")>>,
     <<MCOut("o", "final", "image", "images"), MCOut("p", "preview", "image", "images")>>,
     <<MCOut("seed", "final", "image", "images")>>}
MCEntryOf(node, class) == [node |-> node, class |-> class]
MCLora(item) == [item |-> item, strength |-> 0]
MCUpload == [mine |-> TRUE, image |-> TRUE, mime |-> "png", size |-> 2]
C == INSTANCE PublishedParameters WITH
        result <- compiled,
        Manifests <- MCManifests, Publishers <- MCPublishers,
        Inventories <- {<<MCEntryOf("images", absent), MCEntryOf("texts", "CIFPublishText")>>,
                        <<MCEntryOf("images", "CIFPublishText")>>},
        Graph <- MCGraph, Strings <- {t1},
        StackOf <- (s1 :> <<MCLora("x"), MCLora("y")>> @@ s2 :> <<MCLora("x"), MCLora("x")>>),
        Uploads <- (upload :> MCUpload @@ foreign :> [MCUpload EXCEPT !.mine = FALSE]),
        Supplies <- [string |-> <<blank, 2>>, choice |-> <<c2, blank>>, number |-> <<0, 3, null>>,
                     seed |-> <<[as |-> "whole", of |-> 5], [as |-> "digits", of |-> 2], random, t1>>,
                     lora_stack |-> <<s2, null>>, image |-> <<upload, foreign>>],
        MaxSupplies <- 4,
        Null <- null, Blank <- blank, Random <- random, NoValue <- absent, Wrong <- wrong,
        Stray <- "stray", MaxSlot <- 2

restartVars == <<columns, executors, claim, recovery, server, configured, cancels, owner, prompts, chances>>
inputVars   == <<inputs, kind, verdict, request, compiled, recalled>>
allVars     == <<vars, restartVars, archiveVars, relayVars, resultVars, inputVars, focus>>

(* What is not followed starts in one state.                               *)
FocusInit ==
    /\ focus \in {"restarts", "faults", "parameters", "files", "relay", "results"}
    /\ Init /\ R!Init /\ (focus # "restarts" => configured = {i1, i2})
    /\ ArchiveInit /\ (focus # "files" => status = "running")
    /\ RelayInit /\ ResultInit /\ C!ParamInit

FocusNext ==
    /\ UNCHANGED focus
    /\ focus # "faults" => UNCHANGED vars
    /\ focus # "restarts" => UNCHANGED restartVars
    /\ focus # "files" => UNCHANGED archiveVars
    /\ focus # "relay" => UNCHANGED relayVars
    /\ focus # "results" => UNCHANGED resultVars
    /\ focus # "parameters" => UNCHANGED inputVars
    /\ \/ focus = "faults" /\ Next
       \/ focus = "restarts" /\ R!Next
       \/ focus = "files" /\ ArchiveNext
       \/ focus = "relay" /\ RelayNext
       \/ focus = "results" /\ ResultNext
       \/ focus = "parameters" /\ C!ParamNext

FocusSpec == FocusInit /\ [][FocusNext]_allVars

(* See the modules for what the properties say.  Those of "faults" are     *)
(* checked as they stand.  Of "restarts", where crashes, lost answers and  *)
(* the removal of the account may happen, OneNativeRun and EndsOnce are    *)
(* not claimed.                                                            *)
RestartsHold ==
    /\ [](R!TypeOK /\ R!IInv /\ R!MonitorOwnsPrompt /\ R!SuccessIsEarned)
    /\ R!InterruptedOnlyIfUnknown
ResultsRight ==
    focus = "results" =>
        ResultTypeOK /\ NoFileLost /\ NoImpostor /\ LiveAgrees /\ OutcomeTold /\ ShownOnce
RequestsHonoured ==
    focus = "parameters" =>
        C!ParamTypeOK /\ C!NotTheirFault /\ C!Honoured /\ C!PatchedOnly /\ C!RecallExact
=============================================================================
