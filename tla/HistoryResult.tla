---------------------------- MODULE HistoryResult ----------------------------
(***************************************************************************)
(* What a generation is said to have made, read from what ComfyUI reports  *)
(* of its prompt: normalize_history and project_public_declared_outputs    *)
(* (domain/results.py).  A report has the payloads of nodes in the order   *)
(* in which they were executed; any item of a payload may be malformed,    *)
(* name another output, or not be what was declared.                       *)
(*                                                                         *)
(* A node is read alone when the event that it was executed is received    *)
(* (_process_node_output), and with the whole history at the end           *)
(* (_finalize); a client may ask for the result after that.               *)
(***************************************************************************)
EXTENDS Integers, Sequences, FiniteSets, SequencesExt, TLC

CONSTANTS
    PromptNodes,  \* the nodes of the prompt, in the order of their execution (a sequence)
    Outputs,      \* the declared outputs, in the order of the contract (a sequence)
    NodeOf,       \* the publisher node of each output
    FileNames,    \* file locators a node may name
    Lists,        \* what an item may have as "artifacts": sequences of [batch, file], or Malformed
    Malformed,    \* no list; also an item without an output id
    Undeclared,   \* an output id that is not declared
    NoFile,       \* no archived artifact
    MaxOdd        \* bound: what of a report is not exactly as it should be

VARIABLES
    reports,     \* what the nodes executed so far reported: [node, readable, items, beside]
    heard,       \* the nodes whose events were received
    live,        \* the files found in these events
    outcome,     \* "open", then what the status says of the prompt
    history,     \* what is recorded of the whole history
    kept,        \* the artifacts archived of the declared files when a client asks
    view,       \* the public declared outputs it is told of, an entry for each reference
    odd

resultVars == <<reports, heard, live, outcome, history, kept, view, odd>>

Ids        == {Outputs[i] : i \in DOMAIN Outputs}
Publishers == {NodeOf[o] : o \in Ids}

-----------------------------------------------------------------------------
(* _publisher_artifact_references: an entry needs an index and a locator.  *)
References(list) == IF list = Malformed THEN <<>> ELSE SelectSeq(list, LAMBDA r : r.batch >= 0)

Repeats(refs) == \E i, j \in DOMAIN refs : i < j /\ refs[i].batch = refs[j].batch

ReferenceErrors(o, list) ==
    {[code |-> c, about |-> o] : c \in
        (IF list = Malformed THEN {"publisher_artifacts_invalid"} ELSE {})
        \cup (IF list # Malformed /\ Len(References(list)) < Len(list) THEN {"publisher_artifact_invalid"} ELSE {})
        \cup (IF Repeats(References(list)) THEN {"publisher_artifact_batch_duplicate"} ELSE {})}

DeclaredFiles(node, o, refs) ==
    [i \in DOMAIN refs |-> [node |-> node, output |-> o, batch |-> refs[i].batch, file |-> refs[i].file]]

\* Mutant: an item is matched whatever node it comes from.
Mut_Refusal(node, item, matched) ==
    CASE item.id = Malformed           -> "publisher_metadata_invalid"
      [] item.id \notin Ids            -> "undeclared_publisher_output"
      [] ~item.fits                    -> "publisher_metadata_mismatch"
      [] item.id \in DOMAIN matched    -> "duplicate_publisher_output"
      [] OTHER                         -> "none"

(* Why an item is not a declared output, in the order of the checks; fits: *)
(* every field is the declared one (_publisher_metadata_mismatch).         *)
Refusal(node, item, matched) ==
    CASE item.id = Malformed           -> "publisher_metadata_invalid"
      [] item.id \notin Ids            -> "undeclared_publisher_output"
      [] NodeOf[item.id] # node        -> "publisher_binding_mismatch"
      [] ~item.fits                    -> "publisher_metadata_mismatch"
      [] item.id \in DOMAIN matched    -> "duplicate_publisher_output"
      [] OTHER                         -> "none"

(* found: matched_outputs with the files of each, the valid artifacts of   *)
(* the node that is read (valid_publisher_artifact_count), native_files    *)
(* and errors.                                                             *)
Nothing == [matched |-> <<>>, valid |-> 0, native |-> <<>>, errors |-> {}]

ReadItem(node, item, found) ==
    LET refusal == Refusal(node, item, found.matched)
        refs    == References(item.list)
    IN  IF refusal # "none"
        THEN [found EXCEPT !.errors = @ \cup {[code |-> refusal, about |-> node]}]
        ELSE [found EXCEPT !.matched = (item.id :> DeclaredFiles(node, item.id, refs)) @@ @,
                           !.valid = @ + Len(refs),
                           !.errors = @ \cup ReferenceErrors(item.id, item.list)]

(* find_file_references: each locator of the payload once, whatever item   *)
(* or list of the node names it.                                           *)
Named(items) ==
    FoldLeft(LAMBDA s, item : IF item.list = Malformed THEN s
                              ELSE s \o [i \in DOMAIN item.list |-> item.list[i].file], <<>>, items)
Locators(report) ==
    FoldLeft(LAMBDA seen, f : IF Contains(seen, f) THEN seen ELSE Append(seen, f),
             <<>>, report.beside \o Named(report.items))

(* The ordinary files of a node are taken unless it published some.        *)
NativeOf(report, published) ==
    LET files == Locators(report)
    IN  IF report.node \in Publishers /\ published > 0 THEN <<>>
        ELSE [i \in DOMAIN files |->
                [node |-> report.node, output |-> "native", batch |-> i - 1, file |-> files[i]]]

(* A node whose payload is no object is passed over.                       *)
ReadNode(found, report) ==
    LET read == FoldLeft(LAMBDA f, item : ReadItem(report.node, item, f),
                         [found EXCEPT !.valid = 0], report.items)
    IN  IF report.readable THEN [read EXCEPT !.native = @ \o NativeOf(report, read.valid)] ELSE found

(* normalize_history but for the status.                                   *)
Read(nodes) == FoldLeft(ReadNode, Nothing, nodes)

Unpublished(found) ==
    {[code |-> "missing_publisher_output", about |-> o] : o \in Ids \ DOMAIN found.matched}

(* NormalizedHistory.files: the declared ones in the order of the          *)
(* contract, then the native ones.                                         *)
DeclaredFound(found) ==
    FoldLeft(LAMBDA s, o : IF o \in DOMAIN found.matched THEN s \o found.matched[o] ELSE s, <<>>, Outputs)
AllFiles(found) == DeclaredFound(found) \o found.native

-----------------------------------------------------------------------------
ResultInit ==
    /\ reports = <<>> /\ heard = {} /\ live = {}
    /\ outcome = "open" /\ history = Nothing /\ kept = <<>> /\ view = <<>> /\ odd = 0

(* The next node is executed.  The event is not received when the          *)
(* connection to ComfyUI is lost meanwhile.                                *)
Executed(report, received) ==
    /\ outcome = "open"
    /\ reports' = Append(reports, report)
    /\ IF received /\ report.readable
       THEN heard' = heard \cup {report.node} /\ live' = live \cup ToSet(AllFiles(Read(<<report>>)))
       ELSE UNCHANGED <<heard, live>>
    /\ UNCHANGED <<outcome, history, kept, view>>

(* The status of the history: its text, and whether its messages tell of   *)
(* an interruption (history_status_indicates_interruption).                *)
Texts == {"success", "error", "cancelled", "other"}

StatusErrors(text, interrupted) ==
    CASE interrupted          -> {"comfyui_execution_interrupted"}
      [] text = "error"       -> {"comfyui_execution_failed"}
      [] text = "cancelled"   -> {"comfyui_execution_interrupted"}
      [] OTHER                -> {}

(* _history_terminal; the text "other" is terminal when it is completed.   *)
Outcome(text, interrupted) ==
    CASE interrupted -> "cancelled"
      [] text \in {"success", "cancelled"} -> text
      [] OTHER -> "failed"

(* The prompt ends, after any number of its nodes.                         *)
Finish(text, interrupted) ==
    LET found == Read(reports)
    IN  /\ outcome = "open"
        /\ outcome' = Outcome(text, interrupted)
        /\ history' = [found EXCEPT
                !.errors = @ \cup Unpublished(found)
                             \cup {[code |-> c, about |-> "status"] : c \in StatusErrors(text, interrupted)}]
        /\ UNCHANGED <<reports, heard, live, kept, view>>

-----------------------------------------------------------------------------
(* A reference takes the first artifact of its output and index that is    *)
(* left (matches.pop(0)); the artifacts that are left over are appended,   *)
(* index by index in the order in which these are met.                     *)
Of(o, b, artifacts) == SelectSeq(artifacts, LAMBDA a : a.output = o /\ a.batch = b)
Nth(refs, i)        == Cardinality({j \in 1 .. i : refs[j].batch = refs[i].batch})
Indices(o, artifacts) ==
    FoldLeft(LAMBDA seen, a : IF a.output # o \/ Contains(seen, a.batch) THEN seen ELSE Append(seen, a.batch),
             <<>>, artifacts)

JoinedWith(ref, n, artifacts) ==
    LET own == Of(ref.output, ref.batch, artifacts)
    IN  [output |-> ref.output, batch |-> ref.batch, file |-> ref.file,
         artifact |-> IF n <= Len(own) THEN own[n].file ELSE NoFile]

LeftOver(o, refs, artifacts) ==
    LET Unused(b) == LET own == Of(o, b, artifacts)
                     IN  SubSeq(own, Cardinality({i \in DOMAIN refs : refs[i].batch = b}) + 1, Len(own))
    IN  FoldLeft(LAMBDA s, b : s \o Unused(b), <<>>, Indices(o, artifacts))

Joined(o, artifacts) ==
    LET refs == history.matched[o]
        over == LeftOver(o, refs, artifacts)
    IN  [i \in DOMAIN refs |-> JoinedWith(refs[i], Nth(refs, i), artifacts)]
        \o [k \in DOMAIN over |->
              [output |-> o, batch |-> over[k].batch, file |-> NoFile, artifact |-> over[k].file]]

(* A client asks when some of the declared files are archived, in an order *)
(* of their own.                                                           *)
Show ==
    /\ outcome # "open" /\ view = <<>>
    /\ kept' \in SetToAllKPermutations(ToSet(DeclaredFound(history)))
    /\ view' = FoldLeft(LAMBDA s, o : IF o \in DOMAIN history.matched THEN s \o Joined(o, kept') ELSE s,
                         <<>>, Outputs)
    /\ UNCHANGED <<reports, heard, live, outcome, history, odd>>

-----------------------------------------------------------------------------
Item(id, fits, list) == [id |-> id, fits |-> fits, list |-> list]
Items == {Item(id, TRUE, list) : id \in Ids \cup {Malformed, Undeclared}, list \in Lists \cup {Malformed}}
         \cup {Item(id, FALSE, list) : id \in Ids, list \in Lists \cup {Malformed}}

(* What a publisher node lists beside its items are the files of its       *)
(* artifacts (CIFPublishImage.publish); another node may list any.         *)
Listed(report) ==
    Read(<<report>>).valid > 0 => ToSet(report.beside) \subseteq ToSet(Named(report.items))

(* An item is as it should be if it is the first, and the node lists the   *)
(* files of the artifacts of its output.                                   *)
Sound(node, item) ==
    /\ Refusal(node, item, <<>>) = "none" /\ item.list # Malformed
    /\ References(item.list) = item.list /\ ~Repeats(item.list) /\ item.list # <<>>

Oddities(report) ==
    LET first  == report.items # <<>> /\ Sound(report.node, report.items[1])
        needed == report.node \in Publishers
    IN  (IF report.readable THEN 0 ELSE 1)
        + (IF needed /\ report.items = <<>> /\ report.readable THEN 1 ELSE 0)
        + Len(report.items) - (IF first THEN 1 ELSE 0)

(* Bound: of two items of a node the first is as it should be.             *)
ItemLists(node) ==
    LET sound == {item \in Items : Sound(node, item)}
    IN  {<<>>} \cup {<<item>> : item \in Items} \cup {<<first, item>> : first \in sound, item \in Items}

Payload(node, readable, items, beside) ==
    [node |-> node, readable |-> readable, items |-> items, beside |-> beside]
Payloads ==
    UNION {{Payload(node, TRUE, items, beside) :
                items \in ItemLists(node), beside \in {s \in SeqOf(FileNames, 2) : IsInjective(s)}} : node \in ToSet(PromptNodes)}
    \cup {Payload(node, FALSE, <<>>, <<>>) : node \in ToSet(PromptNodes)}
Reports ==
    {r \in Payloads :
        /\ Oddities(r) <= MaxOdd /\ Listed(r)
        /\ r.node \in Publishers /\ Oddities(r) = 0 => r.beside = Named(r.items)}

ReportsOf ==
    [node \in ToSet(PromptNodes), n \in 0 .. MaxOdd |-> {r \in Reports : r.node = node /\ Oddities(r) = n}]

(* Bound: a client asks where no node lists files beside its items but its *)
(* own.                                                                    *)
Plain == \A i \in DOMAIN reports : reports[i].beside \in {<<>>, Named(reports[i].items)}

Odd(n) == odd' = odd + n /\ odd' <= MaxOdd

ResultNext ==
    \/ /\ Len(reports) < Len(PromptNodes)
       /\ \E n \in 0 .. MaxOdd, received \in BOOLEAN :
            /\ Odd(n + IF received THEN 0 ELSE 1)
            /\ \E report \in ReportsOf[PromptNodes[Len(reports) + 1], n] : Executed(report, received)
    \/ \E text \in Texts, interrupted \in BOOLEAN :
          Odd(IF text = "success" /\ ~interrupted THEN 0 ELSE 1) /\ Finish(text, interrupted)
    \/ Plain /\ Show

-----------------------------------------------------------------------------
(* Values of the state.                                                    *)
ResultTypeOK ==
    /\ Len(reports) <= Len(PromptNodes) /\ \A i \in DOMAIN reports : reports[i] \in Reports /\ reports[i].node = PromptNodes[i]
    /\ heard \subseteq {reports[i].node : i \in DOMAIN reports}
    /\ DOMAIN history.matched \subseteq Ids /\ history.valid \in Nat
    /\ outcome \in {"open", "success", "failed", "cancelled"}
    /\ outcome = "open" => history = Nothing /\ view = <<>>

Codes   == {e.code : e \in history.errors}
Told(n) == \E e \in history.errors : /\ e.about = n \/ (e.about \in Ids /\ NodeOf[e.about] = n)
                                    /\ e.code # "missing_publisher_output"
Taken   == ToSet(AllFiles(history))

(* No file is lost silently: a file that a node names is taken, or an error*)
(* is reported of that node; and a file is not taken a second time as an   *)
(* ordinary file of the node that published it.                            *)
NoFileLost ==
    outcome # "open" =>
        /\ \A i \in DOMAIN reports : \A file \in ToSet(Locators(reports[i])) :
              \/ Told(reports[i].node)
              \/ \E f \in Taken : f.node = reports[i].node /\ f.file = file
        /\ \A f \in ToSet(history.native), d \in ToSet(DeclaredFound(history)) : f.node # d.node

(* No node passes a file off as the output of another; and without an error*)
(* every declared output is there, with what its own node published.       *)
NoImpostor ==
    /\ \A d \in ToSet(DeclaredFound(history)) : d.node = NodeOf[d.output]
    /\ outcome # "open" /\ history.errors = {} => DOMAIN history.matched = Ids

(* What the nodes whose events were received were found to have made is    *)
(* what they are found to have made in the history: nothing is archived on *)
(* the way that the result does not have, or under another output or index.*)
LiveAgrees == outcome # "open" => live = {f \in Taken : f.node \in heard}

(* An interruption is a cancellation and is reported as one; a success     *)
(* reports no failure of the execution.                                    *)
OutcomeTold ==
    outcome # "open" =>
        /\ outcome = "cancelled" <=> "comfyui_execution_interrupted" \in Codes
        /\ outcome = "success" => "comfyui_execution_failed" \notin Codes

(* Every archived declared file is told of once, under its output and    *)
(* index and, unless an index was repeated, beside its own reference.     *)
ShownOnce ==
    view # <<>> =>
        /\ \A r \in ToSet(kept) : Cardinality({k \in DOMAIN view : view[k].output = r.output
                /\ view[k].batch = r.batch /\ view[k].artifact = r.file}) = 1
        /\ \A k \in DOMAIN view :
              \/ view[k].artifact \in {NoFile, view[k].file}
              \/ [code |-> "publisher_artifact_batch_duplicate", about |-> view[k].output] \in history.errors

=============================================================================
