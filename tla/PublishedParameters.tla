------------------------- MODULE PublishedParameters -------------------------
(***************************************************************************)
(* What a published workflow may be asked for and what becomes of it: the  *)
(* interface of a manifest is checked against the frozen graph             *)
(* (_validate_interface, domain/publication.py), a request is resolved     *)
(* against the accepted interface and written into a copy of the graph     *)
(* (PublicationCompiler.compile, domain/compiler.py), and its uploads are  *)
(* verified (_verify_uploads, services/generations.py).                    *)
(*                                                                         *)
(* Integer and Boolean parameters are left out: the code treats them as it *)
(* treats numbers, and choices, that have no companion.  Of the form of    *)
(* names, labels, fields and lists only the outcome of its checks is       *)
(* modelled (formed), and the three limits of an image are one.            *)
(*                                                                         *)
(* A seed is supplied as a whole number or as its digits, recorded as      *)
(* digits and written into the graph as a number; a stack of LoRAs is      *)
(* written as JSON, and for an image a placeholder, which the submission   *)
(* replaces; the record of a generation describes the image.               *)
(***************************************************************************)
EXTENDS Integers, Sequences, FiniteSets, SequencesExt, TLC

CONSTANTS
    Manifests,    \* the lists of input declarations that a manifest may contain
    Publishers,   \* lists of output declarations it may contain
    Inventories,  \* lists of nodes with outputs it may contain: [node, class], the class if given
    Graph,        \* the frozen API graph: for each node its class, the values of its inputs and
                  \* the types the runtime says they take, if it knows that class
    Strings,      \* texts that may be supplied, and the values of choices
    StackOf,      \* LoRA stacks that may be supplied: sequences of [item, strength]
    Uploads,      \* assets that may be supplied, with what is known of them
    Supplies,     \* for each type of input the values a request may have for it (a sequence)
    MaxSupplies,  \* bound: values of a type
    Null, Blank, Random,   \* null, the empty string, and the string "random"
    NoValue,      \* nothing
    Wrong,        \* a parameter that is refused
    Stray,        \* an id that no input has
    MaxSlot       \* bound: places of a seed on its grid, less one

VARIABLES
    inputs,      \* the declarations of the accepted interface
    kind,        \* what its final output is
    verdict,     \* "none", "accepted" or "refused": the publication
    request,     \* the parameters of a request
    result,      \* what came of it
    recalled     \* the result whose parameters were recalled for this request

paramVars == <<inputs, kind, verdict, request, result, recalled>>

NoResult == [code |-> "none", fields |-> {}, effective |-> <<>>, graph |-> <<>>]

ParamInit ==
    /\ inputs = <<>> /\ kind = "image" /\ verdict = "none"
    /\ request = <<>> /\ result = NoResult /\ recalled = NoResult

-----------------------------------------------------------------------------
(* _validate_numeric_value, _validate_numeric_constraints.                 *)
OnGrid(d, v) == v \in Int /\ v >= d.minimum /\ v <= d.maximum /\ (v - d.minimum) % d.step = 0

(* The numbers a seed may be supplied as (_parse_seed), and what is        *)
(* recorded of one (str).                                                  *)
Numerals == [as : {"whole", "digits"}, of : Int]
Digits(n) == [as |-> "digits", of |-> n]
Parsed(v) == IF v \in Numerals THEN v.of ELSE NoValue

(* validate_lora_stack: every item once, in any order.                     *)
LegalStack(d, v) ==
    /\ v \in DOMAIN StackOf
    /\ {StackOf[v][i].item : i \in DOMAIN StackOf[v]} = d.items
    /\ Len(StackOf[v]) = Cardinality(d.items)
    /\ \A i \in DOMAIN StackOf[v] : OnGrid(d, StackOf[v][i].strength)

(* _validate_value, for all but seeds.                                     *)
Legal(d, v) ==
    CASE d.type = "string"     -> v \in Strings \cup {Blank, Random}
      [] d.type = "number"     -> OnGrid(d, v)
      [] d.type = "choice"     -> v \in DOMAIN d.choices
      [] d.type = "lora_stack" -> LegalStack(d, v)
      [] OTHER                 -> v \in DOMAIN Uploads

(* EXPECTED_PARAMETER_CLASSES, EXPECTED_RUNTIME_INPUT_TYPES.               *)
Legacy == "CIFImageFrontendInterface"
ClassOf == [string |-> "CIFTextParameter", number |-> "CIFDecimalParameter", seed |-> "CIFSeedParameter",
            choice |-> "CIFChoiceParameter", image |-> "CIFImageParameter", lora_stack |-> "CIFLoraStack"]
RuntimeType == [string |-> "STRING", number |-> "FLOAT", seed |-> "INT",
                choice |-> "STRING", lora_stack |-> "STRING"]

(* _validate_bindings: every target is an input of a parameter node of its *)
(* type, the value of a typed node, and none is listed twice.              *)
BindingOK(type, node, input) ==
    /\ input \in DOMAIN node.inputs
    /\ \/ node.class = ClassOf[type] /\ input = IF type = "image" THEN "image" ELSE "value"
       \/ node.class = Legacy /\ type \in {"string", "number", "seed"}
    /\ node.takes # NoValue /\ type # "image" =>
         input \in DOMAIN node.takes /\ node.takes[input] = RuntimeType[type]

BindingsOK(d) ==
    /\ d.bindings # <<>> /\ IsInjective(d.bindings)
    /\ \A b \in ToSet(d.bindings) : b.node \in DOMAIN Graph /\ BindingOK(d.type, Graph[b.node], b.input)

Json(v) == [json |-> v]

(* _lora_contract, _image_contract, _choice_contract and _numeric_contract.*)
(* A stack and the limits of an image are those of the frozen node.        *)
Frozen(d) == {Graph[b.node].inputs : b \in ToSet(d.bindings)}

StackOK(d) ==
    /\ d.role = "lora" /\ ~d.required
    /\ \A node \in Frozen(d) :
         /\ node.catalog = d.items
         /\ node.minimum = d.minimum /\ node.maximum = d.maximum /\ node.step = d.step
         /\ node.value = Json(d.default)
    /\ d.minimum = 0 /\ d.maximum > 0 /\ d.step > 0
    /\ LegalStack(d, d.default)
    /\ \A i \in DOMAIN StackOf[d.default] : StackOf[d.default][i].strength = 0
ImageOK(d) ==
    /\ d.role = "reference_image" /\ d.required /\ d.default = NoValue
    /\ d.mimes # {} /\ d.limit >= 1 /\ \A node \in Frozen(d) : node.limit = d.limit
ChoiceOK(d) == d.default \in DOMAIN d.choices
NumberOK(d) == d.minimum <= d.maximum /\ d.step > 0

ContractOK(d) ==
    CASE d.type = "string"     -> Legal(d, d.default)
      [] d.type = "choice"     -> ChoiceOK(d)
      [] d.type = "image"      -> ImageOK(d)
      [] d.type = "lora_stack" -> StackOK(d)
      [] OTHER                 -> NumberOK(d) /\ OnGrid(d, d.default)

(* The loop of _validate_interface over the inputs.                        *)
InputsOK(declared) ==
    /\ declared # <<>>
    /\ \A i \in DOMAIN declared : declared[i].formed /\ BindingsOK(declared[i]) /\ ContractOK(declared[i])
    /\ \A i, j \in DOMAIN declared : i # j => declared[i].id # declared[j].id /\ declared[i].uuid # declared[j].uuid

-----------------------------------------------------------------------------
PromptsOf(declared) == SelectSeq(declared, LAMBDA d : d.role = "positive_prompt")

(* publication_kind: the type of the first final output.                   *)
KindOf(outputs) == LET finals == SelectSeq(outputs, LAMBDA o : o.role = "final")
                   IN  IF finals = <<>> THEN "image" ELSE finals[1].type

(* _validate_output: a publisher node of that type, connected to another.  *)
OutputOK(o, type) ==
    /\ o.formed /\ o.type = type
    /\ o.node \in DOMAIN Graph
    /\ Graph[o.node].class = IF type = "text" THEN "CIFPublishText" ELSE "CIFPublishImage"
    /\ o.source \in DOMAIN Graph \ {o.node}

OutputsOK(outputs, type, declared) ==
    /\ outputs # <<>> /\ \A i \in DOMAIN outputs : OutputOK(outputs[i], type)
    /\ \A i, j \in DOMAIN outputs :
         i # j => \A field \in {"id", "uuid", "node"} : outputs[i][field] # outputs[j][field]
    /\ \A i \in DOMAIN outputs, j \in DOMAIN declared : outputs[i].uuid # declared[j].uuid
    /\ Cardinality({i \in DOMAIN outputs : outputs[i].role = "final"}) = 1

(* _validate_native_outputs: the nodes the manifest says have outputs, the *)
(* publishers among them.                                                  *)
InventoryOK(inventory, outputs) ==
    /\ inventory # <<>>
    /\ \A i, j \in DOMAIN inventory : i # j => inventory[i].node # inventory[j].node
    /\ \A entry \in ToSet(inventory) :
         /\ entry.node \in DOMAIN Graph
         /\ entry.class \in {NoValue, Graph[entry.node].class}
    /\ \A i \in DOMAIN outputs : \E entry \in ToSet(inventory) : entry.node = outputs[i].node

(* _validate_interface: nothing is kept of an interface that is refused.   *)
Validate(declared, outputs, inventory) ==
    LET type == KindOf(outputs)
        asks == IF type = "text"
                THEN /\ Cardinality({i \in DOMAIN declared : declared[i].required}) = 1
                     /\ \A i \in DOMAIN declared : declared[i].type \notin {"image", "lora_stack"}
                ELSE Len(PromptsOf(declared)) = 1
    IN  /\ verdict = "none"
        /\ IF InputsOK(declared) /\ asks
               /\ OutputsOK(outputs, type, declared) /\ InventoryOK(inventory, outputs)
           THEN verdict' = "accepted" /\ inputs' = declared /\ kind' = type
           ELSE verdict' = "refused" /\ UNCHANGED <<inputs, kind>>
        /\ UNCHANGED <<request, result, recalled>>

-----------------------------------------------------------------------------
Ids         == {inputs[i].id : i \in DOMAIN inputs}
Decl(id)    == inputs[CHOOSE i \in DOMAIN inputs : inputs[i].id = id]
OfType(type) == {id \in Ids : Decl(id).type = type}

(* given: the parameters of the request, requested_controls.               *)
Asked(given, id) == IF id \in DOMAIN given THEN given[id] ELSE NoValue

Absent(given, d) ==
    LET value == Asked(given, d.id)
    IN  \/ value \in {NoValue, Null}
        \/ value = Blank /\ d.type # "choice" /\ ~(kind = "text" /\ d.type = "string")

(* _resolve_seed: slot is what secrets.randbelow has drawn.                *)
Seed(value, d, slot) ==
    LET free  == value \in {NoValue, Null, Blank, Random}
        fixed == IF free THEN d.default ELSE Parsed(value)
    IN  IF free /\ d.mode = "random" THEN Digits(d.minimum + slot * d.step)
        ELSE IF OnGrid(d, fixed) THEN Digits(fixed) ELSE Wrong
LastSlot(d) == (d.maximum - d.minimum) \div d.step

Resolved(given, d, slots) ==
    LET asked   == Asked(given, d.id)
        default == asked = NoValue \/ (asked = Null /\ d.type # "lora_stack")
        value   == IF default THEN d.default ELSE asked
    IN  IF d.required /\ Absent(given, d) THEN Wrong
        ELSE IF d.type = "seed" THEN Seed(asked, d, slots[d.id])
        ELSE IF Legal(d, value) THEN value ELSE Wrong

(* _choice_companions: the choice a number is the strength of, by its id   *)
(* or by their role when that says which.                                  *)
ByName(n, c) == Decl(n).strengthOf = c /\ Decl(n).role = Decl(c).role
Named == {p \in OfType("number") \X OfType("choice") : ByName(p[1], p[2])}
ByRole(n, c) ==
    /\ {m \in OfType("number") : Decl(m).role = Decl(c).role /\ \A p \in Named : p[1] # m} = {n}
    /\ {k \in OfType("choice") : Decl(k).role = Decl(c).role /\ \A p \in Named : p[2] # k} = {c}
Companions == Named \cup {p \in OfType("number") \X OfType("choice") : ByRole(p[1], p[2])}

\* Mutant: the strength 0 is taken for none.
Mut_Explicit(given, id) == Asked(given, id) \notin {NoValue, Null, 0}

Explicit(given, id) == Asked(given, id) \notin {NoValue, Null}

(* The strength of a chosen option, unless one is supplied.                *)
Strength(given, n, c, resolved) ==
    LET own   == Decl(c).choices[resolved[c]]
        value == IF own = NoValue THEN Decl(n).default ELSE own
    IN  IF Explicit(given, n) \/ resolved[n] = Wrong \/ resolved[c] = Wrong THEN resolved[n]
        ELSE IF Legal(Decl(n), value) THEN value ELSE Wrong

(* The value of each parameter of the interface.                           *)
Effective(given, slots) ==
    LET resolved   == [id \in Ids |-> Resolved(given, Decl(id), slots)]
        companions == Companions
    IN  [id \in Ids |->
            IF \E p \in companions : p[1] = id
            THEN Strength(given, id, (CHOOSE p \in companions : p[1] = id)[2], resolved)
            ELSE resolved[id]]

(* Every binding of every parameter in a copy of the graph.                *)
InGraph(d, v) ==
    CASE d.type = "image"      -> [app_upload_id |-> v]
      [] d.type = "lora_stack" -> Json(v)
      [] d.type = "seed"       -> v.of
      [] OTHER                 -> v
Patch(graph, b, v) == [graph EXCEPT ![b.node].inputs[b.input] = v]
Patched(effective) ==
    FoldLeft(LAMBDA g, d : FoldLeft(LAMBDA h, b : Patch(h, b, InGraph(d, effective[d.id])), g, d.bindings),
             Graph, inputs)

(* _verify_uploads: the first upload that cannot be used, in the order of  *)
(* the interface.                                                          *)
Usable(d, asset) == LET u == Uploads[asset] IN u.mine /\ u.image /\ u.mime \in d.mimes /\ u.size <= d.limit
Unusable(effective) == SelectSeq(inputs, LAMBDA d : d.type = "image" /\ ~Usable(d, effective[d.id]))

(* What is recorded of the parameters: of an image its description as well.*)
Described(effective) ==
    [id \in Ids |-> IF id \in OfType("image")
                    THEN [asset_id |-> effective[id], of |-> Uploads[effective[id]]]
                    ELSE effective[id]]

(* GenerationService._compile: WorkflowCompiler.compile, which ends in an  *)
(* internal error for a ContractError, and _verify_uploads.                *)
Compiled(given, slots) ==
    LET effective == Effective(given, slots)
        unknown   == DOMAIN given \ Ids
        faulty    == {id \in Ids : effective[id] = Wrong}
        prompt    == PromptsOf(inputs)[1].id
        Refused(code, fields) == [NoResult EXCEPT !.code = code, !.fields = fields]
    IN  IF unknown # {} THEN Refused("refused", unknown)
        ELSE IF faulty # {} THEN Refused("refused", faulty)
        ELSE IF kind = "image" /\ effective[prompt] \notin Strings \cup {Blank, Random} THEN Refused("internal", {})
        ELSE IF Unusable(effective) # <<>> THEN Refused("refused", {Unusable(effective)[1].id})
        ELSE [code |-> "compiled", fields |-> {}, effective |-> Described(effective), graph |-> Patched(effective)]

(* A request for an accepted publication.                                  *)
Compile(given, slots) ==
    /\ verdict = "accepted" /\ result = NoResult
    /\ request' = given /\ result' = Compiled(given, slots)
    /\ UNCHANGED <<inputs, kind, verdict, recalled>>

(* The value of a parameter as a request has it: an image by its id alone. *)
Recorded(id) == IF id \in OfType("image") THEN result.effective[id].asset_id ELSE result.effective[id]

(* recall: the recorded parameters of a generation are compiled again to   *)
(* see whether the source still makes the same of them.                    *)
Recall(slots) ==
    /\ result.code = "compiled" /\ recalled = NoResult
    /\ recalled' = result
    /\ request' = [id \in Ids |-> Recorded(id)]
    /\ result' = Compiled(request', slots)
    /\ UNCHANGED <<inputs, kind, verdict>>

-----------------------------------------------------------------------------
ParamNext ==
    \/ /\ verdict = "none"
       /\ \E declared \in Manifests, outputs \in Publishers, inventory \in Inventories :
            Validate(declared, outputs, inventory)
    \/ /\ verdict = "accepted" /\ recalled = NoResult
       /\ \E slots \in [OfType("seed") -> 0 .. MaxSlot] :
            /\ \A id \in OfType("seed") : slots[id] <= LastSlot(Decl(id))
            /\ \/ /\ result = NoResult
                  /\ \/ Compile(Stray :> Null, slots)
                     \/ \E ids \in SUBSET Ids : \E pick \in [ids -> 1 .. MaxSupplies] :
                           /\ \A id \in ids : pick[id] <= Len(Supplies[Decl(id).type])
                           /\ Compile([id \in ids |-> Supplies[Decl(id).type][pick[id]]], slots)
               \/ Recall(slots)

-----------------------------------------------------------------------------
(* What a validated publication may still be wrong in: two parameters that *)
(* are bound to one input, an option whose strength its companion does not *)
(* take, a positive prompt that is no text.                                *)
Separate == \A i, j \in DOMAIN inputs :
    i # j => ToSet(inputs[i].bindings) \cap ToSet(inputs[j].bindings) = {}
StrengthsFit == \A p \in Companions : \A v \in DOMAIN Decl(p[2]).choices :
    Decl(p[2]).choices[v] # NoValue => Legal(Decl(p[1]), Decl(p[2]).choices[v])
PromptIsText == kind = "image" => PromptsOf(inputs)[1].type = "string"

(* Values of the state.                                                    *)
ParamTypeOK ==
    /\ inputs \in Manifests \cup {<<>>} /\ verdict \in {"none", "accepted", "refused"}
    /\ inputs # <<>> <=> verdict = "accepted"
    /\ result.code \in {"none", "compiled", "refused", "internal"}
    /\ result.code = "compiled" => DOMAIN result.effective = Ids

(* A request is refused only for a parameter it sets or has to set: what a *)
(* validated publication fills in by itself is never at fault, and compile *)
(* never finds the accepted interface invalid.                             *)
NotTheirFault ==
    /\ result.code = "internal" => ~PromptIsText
    /\ result.code = "refused" /\ StrengthsFit =>
         \A id \in result.fields : id \in DOMAIN request \/ Decl(id).required

(* What is set explicitly is what is used; otherwise the strength of the   *)
(* chosen option wins over the default of its number.                      *)
Honoured ==
    result.code = "compiled" =>
        /\ \A id \in DOMAIN request :
              request[id] \notin {Null, Blank, Random} =>
                 CASE id \in OfType("seed")  -> result.effective[id] = Digits(request[id].of)
                   [] id \in OfType("image") -> result.effective[id].asset_id = request[id]
                   [] OTHER                  -> result.effective[id] = request[id]
        /\ \A p \in Companions :
              LET own == Decl(p[2]).choices[result.effective[p[2]]]
              IN  p[1] \notin DOMAIN request =>
                    result.effective[p[1]] = IF own = NoValue THEN Decl(p[1]).default ELSE own

(* The graph that is sent to ComfyUI is the frozen one but for the inputs  *)
(* that are bound, which have the legal, effective values of their         *)
(* parameters; its images are the account's own, within the limits.        *)
PatchedOnly ==
    result.code = "compiled" =>
        /\ \A id \in Ids \ OfType("seed") : Legal(Decl(id), Recorded(id))
        /\ \A id \in OfType("seed") : OnGrid(Decl(id), Recorded(id).of)
        /\ \A id \in OfType("image") : Usable(Decl(id), Recorded(id))
        /\ \A n \in DOMAIN Graph : \A i \in DOMAIN Graph[n].inputs :
              LET bound == {id \in Ids : [node |-> n, input |-> i] \in ToSet(Decl(id).bindings)}
              IN  IF bound = {} THEN result.graph[n].inputs[i] = Graph[n].inputs[i]
                  ELSE Separate => \A id \in bound : result.graph[n].inputs[i] = InGraph(Decl(id), Recorded(id))

(* A generation that is recalled compiles to the same graph, its random    *)
(* seeds included.                                                         *)
RecallExact == recalled # NoResult => result = recalled
=============================================================================
