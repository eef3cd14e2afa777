---------------------------- MODULE ImageArchive ----------------------------
(***************************************************************************)
(* The files of one generation.  ComfyUI writes them while the prompt      *)
(* runs; the executor fetches each, stores it under a new path, adds its   *)
(* row and drops the images of earlier stages; when the history says the   *)
(* prompt ended it does so for all of them, has ComfyUI remove what it     *)
(* archived, and commits the result.  At each start old results are        *)
(* compacted and removals that failed are asked for again.                 *)
(*                                                                         *)
(* The files on disk, the rows and ComfyUI's files are changed one after   *)
(* the other, and the process may end in between.                          *)
(***************************************************************************)
EXTENDS Integers, Sequences, FiniteSets, Functions

CONSTANTS
    HistoryOrder,      \* the files of a prompt, in the order of its history
    NoSource,
    Output,     \* [Files -> outputs]
    Batch,      \* [Files -> batch indices]
    Bytes,      \* [Files -> contents]
    Rank,       \* [Files -> Nat]: a thousand times the rank of the role, and
                \* the place of the declaration
    Durable,    \* the files of type "output"; the rest are of type "temp"
    Images,     \* the files of kind image
    MaxMishaps, \* failed calls, stops and kills
    MaxPaths    \* bound: the files the store can hold

Files == Range(HistoryOrder)
Paths == 1 .. MaxPaths
Finals == {f \in Files : Rank[f] >= 4000}

ASSUME ArchiveAssumption ==
    /\ HistoryOrder \in Seq(Files) /\ HistoryOrder # << >> /\ NoSource \notin Files
    /\ Rank \in [Files -> Nat] /\ Batch \in [Files -> Nat]
    /\ Images \subseteq Files /\ HistoryOrder[1] \in Images
    /\ MaxPaths \in Nat /\ Len(HistoryOrder) <= MaxPaths /\ MaxMishaps \in Nat

(* A publication has exactly one final image output (publication.py), whose *)
(* files are told apart by their batch index.                              *)
ASSUME FinalsAssumption ==
    /\ Finals \subseteq Images
    /\ \A f \in Finals, g \in Files : g \in Finals <=> Output[g] = Output[f]
    /\ \A f, g \in Finals : Rank[f] = Rank[g] /\ (Batch[f] = Batch[g] => f = g)

VARIABLES
    prompt,     \* what ComfyUI says of the prompt
    source,     \* ComfyUI's files: not written yet, present, or gone
    disk,       \* the paths that have a file
    rows,       \* the artifacts, in the order of their insertion
    status,
    best,       \* best_available_artifact_id, by its file
    failed,     \* why a file could not be archived
    archived,   \* archived_comfyui_sources
    cleaned,    \* comfyui_source_cleanup_complete
    retried,    \* comfyui_absent_sources_retry
    job,        \* the executor
    upkeep,     \* the maintenance of the start
    leaving,    \* the paths of a result that was deleted by its owner
    process,    \* "up", "stopping" or "down"
    lost,       \* history: the files nobody will remove any more
    mishaps

archiveVars == <<prompt, source, disk, rows, status, best, failed, archived, cleaned, retried,
                 job, upkeep, leaving, process, lost, mishaps>>

Results == {"succeeded", "failed"}
NoTask == [at |-> "idle", file |-> NoSource, path |-> 0, left |-> << >>, last |-> FALSE,
         prune |-> {}, ok |-> TRUE]
NoUpkeep == [at |-> "off", prune |-> {}, ok |-> TRUE]

PathsOf(s) == {s[i].path : i \in DOMAIN s}
RowOf(f) == \E i \in DOMAIN rows : rows[i].file = f
Held == {job.path} \cup job.prune \cup upkeep.prune \cup leaving \cup PathsOf(rows)

ArchiveTypeOK ==
    /\ prompt \in {"running", "success", "error", "lost"}
    /\ source \in [Files -> {"none", "present", "gone"}]
    /\ {disk, leaving, lost} \subseteq SUBSET Paths /\ archived \subseteq Files
    /\ rows \in Seq([file : Files, path : Paths])
    /\ status \in {"running", "deleted"} \cup Results
    /\ best \in Files \cup {NoSource}
    /\ failed \in [Files -> {"no", "absent", "error"}]
    /\ job \in [at : {"idle", "fetch", "insert", "discard", "prune", "mark", "clear", "fail",
                       "sources", "record", "commit", "finish"},
                 file : Files \cup {NoSource}, path : Paths \cup {0}, left : Seq(Files),
                 last : BOOLEAN, prune : SUBSET Paths, ok : BOOLEAN]
    /\ upkeep \in [at : {"off", "prepare", "compact", "prune", "sources", "record"},
                   prune : SUBSET Paths, ok : BOOLEAN]
    /\ process \in {"up", "stopping", "down"} /\ mishaps \in 0 .. MaxMishaps
    /\ {cleaned, retried} \subseteq BOOLEAN

(* A new generation, or a result of an older release: every file has its   *)
(* row, and nobody asked ComfyUI to remove anything.                       *)
ArchiveInit ==
    /\ \/ /\ prompt = "running" /\ status = "running" /\ best = NoSource
          /\ source = [f \in Files |-> "none"] /\ rows = << >> /\ disk = {}
          /\ process = "up"
       \/ /\ prompt \in {"success", "error"} /\ process = "down"
          /\ status = IF prompt = "success" THEN "succeeded" ELSE "failed"
          /\ source = [f \in Files |-> "present"]
          /\ rows = [i \in DOMAIN HistoryOrder |-> [file |-> HistoryOrder[i], path |-> i]]
          /\ disk = DOMAIN HistoryOrder /\ best = HistoryOrder[1]
    /\ failed = [f \in Files |-> "no"] /\ archived = {} /\ cleaned = FALSE /\ retried = FALSE
    /\ job = NoTask /\ upkeep = NoUpkeep /\ leaving = {} /\ lost = {} /\ mishaps = 0

Mishap == mishaps < MaxMishaps /\ mishaps' = mishaps + 1
NoMishap == UNCHANGED mishaps

-----------------------------------------------------------------------------
(* ComfyUI: it writes the files in order and ends the prompt; the history  *)
(* of a failed prompt has what was written.  A prompt may be answered from *)
(* its cache with the names of files that were removed, or be lost.        *)
Written == {f \in Files : source[f] # "none"}

Write ==
    /\ prompt = "running" /\ Written # Files
    /\ source' = [source EXCEPT ![HistoryOrder[Cardinality(Written) + 1]] = "present"]
    /\ UNCHANGED <<prompt, disk, rows, status, best, failed, archived, cleaned, retried, job, upkeep,
                   leaving, process, lost, mishaps>>

EndPrompt ==
    /\ prompt = "running"
    /\ \/ Written = Files /\ prompt' = "success" /\ UNCHANGED source /\ NoMishap
       \/ prompt' \in {"error", "lost"} /\ UNCHANGED source /\ Mishap
       \/ Written = {} /\ prompt' = "success" /\ source' = [f \in Files |-> "gone"] /\ Mishap
    /\ UNCHANGED <<disk, rows, status, best, failed, archived, cleaned, retried, job, upkeep,
                   leaving, process, lost>>

-----------------------------------------------------------------------------
(* Order among the artifacts: the stage, batch zero, and the time; and the *)
(* order of _best_native_image, where durable files go before the place of *)
(* the declaration.                                                        *)
Before(s, i, j) ==
    LET f == s[i].file  g == s[j].file IN
    \/ Rank[f] < Rank[g]
    \/ Rank[f] = Rank[g] /\ Batch[f] # 0 /\ Batch[g] = 0
    \/ Rank[f] = Rank[g] /\ (Batch[f] = 0) = (Batch[g] = 0) /\ i < j

Lesser(s, i, j) ==
    LET f == s[i].file  g == s[j].file
        role(x) == Rank[x] \div 1000
    IN  \/ role(f) < role(g)
        \/ role(f) = role(g) /\ f \notin Durable /\ g \in Durable
        \/ role(f) = role(g) /\ (f \in Durable) = (g \in Durable) /\ Before(s, i, j)

Pictures(s) == {i \in DOMAIN s : s[i].file \in Images}
Latest(s) == CHOOSE i \in Pictures(s) : \A j \in Pictures(s) \ {i} : Before(s, j, i)
BestOf(s) == CHOOSE i \in Pictures(s) : \A j \in Pictures(s) \ {i} : Lesser(s, j, i)

(* What s has at the places I, in its order.                               *)
InOrder(s, I) ==
    [k \in 1 .. Cardinality(I) |-> s[CHOOSE i \in I : Cardinality({j \in I : j <= i}) = k]]

Without(s, drop) == InOrder(s, {i \in DOMAIN s : s[i].path \notin drop})
PathsAt(s, I) == {s[i].path : i \in I}

(* What the insertion of an image removes: earlier stages, or an earlier   *)
(* emission of the same batch.                                             *)
Superseded(f) ==
    IF Pictures(rows) = {} THEN {}
    ELSE LET c == rows[Latest(rows)].file
         IN  {i \in Pictures(rows) :
                IF Rank[f] > Rank[c] THEN Rank[rows[i].file] < Rank[f]
                ELSE /\ Rank[rows[i].file] = Rank[f]
                     /\ Output[rows[i].file] = Output[f] /\ Batch[rows[i].file] = Batch[f]}

Advances(f) ==
    \/ Pictures(rows) = {}
    \/ LET c == rows[Latest(rows)].file
       IN  \/ Rank[f] > Rank[c]
           \/ Rank[f] = Rank[c] /\ Batch[f] = 0 /\ Batch[c] # 0
    \/ Pictures(rows) # {} /\ Latest(rows) \in Superseded(f)

(* The bytes are already there, or a later stage is.                       *)
Useless(f) ==
    \/ \E i \in DOMAIN rows : LET g == rows[i].file IN
            Output[g] = Output[f] /\ Batch[g] = Batch[f] /\ Bytes[g] = Bytes[f]
    \/ /\ f \in Images /\ Pictures(rows) # {}
       /\ Rank[f] < Rank[rows[Latest(rows)].file]

-----------------------------------------------------------------------------
(* The executor.  A file is taken up when its node is reported as executed *)
(* and, with all others, when the history says how the prompt ended.       *)
Doing(a) == process # "down" /\ job.at = a
Active == process = "up" /\ status = "running"
Free == Paths \ (disk \cup Held)
FreePath == CHOOSE p \in Free : \A q \in Free : p <= q

Begun(left, last) ==
    IF left = << >> THEN [NoTask EXCEPT !.at = IF last THEN "sources" ELSE "idle", !.last = last]
    ELSE [NoTask EXCEPT !.at = IF RowOf(left[1]) THEN "mark" ELSE "fetch",
                      !.file = left[1], !.left = Tail(left), !.last = last]

NodeExecuted ==
    /\ Doing("idle") /\ Active /\ prompt = "running"
    /\ \E f \in Written : job' = Begun(<<f>>, FALSE)
    /\ UNCHANGED <<prompt, source, disk, rows, status, best, failed, archived, cleaned, retried, upkeep,
                   leaving, process, lost, mishaps>>

(* A lost prompt has no history and is interrupted.                        *)
HistoryFiles == InOrder(HistoryOrder, {i \in DOMAIN HistoryOrder : HistoryOrder[i] \in Written})
Finalize ==
    /\ Doing("idle") /\ Active /\ prompt # "running"
    /\ job' = Begun(IF prompt = "lost" THEN << >> ELSE HistoryFiles, TRUE)
    /\ UNCHANGED <<prompt, source, disk, rows, status, best, failed, archived, cleaned, retried, upkeep,
                   leaving, process, lost, mishaps>>

(* It may be gone, or fail otherwise (ok is FALSE).                        *)
Fetch ==
    /\ Doing("fetch") /\ process = "up"
    /\ \/ /\ source[job.file] = "present" /\ Free # {} /\ NoMishap
          /\ job' = [job EXCEPT !.at = "insert", !.path = FreePath]
          /\ disk' = disk \cup {FreePath}
       \/ /\ source[job.file] = "gone" /\ NoMishap
          /\ job' = [job EXCEPT !.at = "fail"] /\ UNCHANGED disk
       \/ /\ Mishap
          /\ job' = [job EXCEPT !.at = "fail", !.ok = FALSE] /\ UNCHANGED disk
    /\ UNCHANGED <<prompt, source, rows, status, best, failed, archived, cleaned, retried, upkeep,
                   leaving, process, lost>>

Insert ==
    /\ Doing("insert")
    /\ IF Useless(job.file)
       THEN job' = [job EXCEPT !.at = "discard"] /\ UNCHANGED <<rows, best>>
       ELSE LET image == job.file \in Images
                old   == IF image THEN PathsAt(rows, Superseded(job.file)) ELSE {}
            IN  /\ rows' = Append(Without(rows, old), [file |-> job.file, path |-> job.path])
                /\ best' = IF image /\ Advances(job.file) THEN job.file ELSE best
                /\ job' = [job EXCEPT !.at = "prune", !.path = 0, !.prune = old]
    /\ UNCHANGED <<prompt, source, disk, status, failed, archived, cleaned, retried, upkeep,
                   leaving, process, lost, mishaps>>

Mut_Discard == \* leaves the file that got no row
    /\ Doing("discard")
    /\ job' = [job EXCEPT !.at = "mark", !.path = 0]
    /\ UNCHANGED <<prompt, source, disk, rows, status, best, failed, archived, cleaned, retried, upkeep,
                   leaving, process, lost, mishaps>>

Discard ==
    /\ Doing("discard")
    /\ disk' = disk \ {job.path} /\ job' = [job EXCEPT !.at = "mark", !.path = 0]
    /\ UNCHANGED <<prompt, source, rows, status, best, failed, archived, cleaned, retried, upkeep,
                   leaving, process, lost, mishaps>>

Prune ==
    /\ Doing("prune")
    /\ disk' = disk \ job.prune /\ job' = [job EXCEPT !.at = "mark", !.prune = {}]
    /\ UNCHANGED <<prompt, source, rows, status, best, failed, archived, cleaned, retried, upkeep,
                   leaving, process, lost, mishaps>>

Mark ==
    /\ Doing("mark") /\ process = "up"
    /\ archived' = archived \cup {job.file}
    /\ cleaned' = (cleaned /\ job.file \in archived)
    /\ job' = [job EXCEPT !.at = "clear"]
    /\ UNCHANGED <<prompt, source, disk, rows, status, best, failed, retried, upkeep,
                   leaving, process, lost, mishaps>>

Clear ==
    /\ Doing("clear") /\ process = "up"
    /\ failed' = [failed EXCEPT ![job.file] = "no"]
    /\ job' = Begun(job.left, job.last)
    /\ UNCHANGED <<prompt, source, disk, rows, status, best, archived, cleaned, retried, upkeep,
                   leaving, process, lost, mishaps>>

Fail ==
    /\ Doing("fail") /\ process = "up"
    /\ failed' = [failed EXCEPT ![job.file] = IF job.ok THEN "absent" ELSE "error"]
    /\ job' = Begun(job.left, job.last)
    /\ UNCHANGED <<prompt, source, disk, rows, status, best, archived, cleaned, retried, upkeep,
                   leaving, process, lost, mishaps>>

-----------------------------------------------------------------------------
(* The call that removes the archived sources; it may fail before or after *)
(* it was carried out.                                                     *)
Removed == [f \in Files |-> IF f \in archived THEN "gone" ELSE source[f]]
RemovesSources(ok) ==
    \/ ok /\ source' = Removed /\ NoMishap
    \/ ~ok /\ source' \in {source, Removed} /\ Mishap

CleanSources ==
    /\ Doing("sources") /\ process = "up"
    /\ \E ok \in BOOLEAN :
        /\ RemovesSources(ok)
        /\ job' = [job EXCEPT !.at = "record", !.ok = ok]
    /\ UNCHANGED <<prompt, disk, rows, status, best, failed, archived, cleaned, retried, upkeep,
                   leaving, process, lost>>

RecordCleaning ==
    /\ Doing("record") /\ process = "up"
    /\ cleaned' = job.ok /\ job' = [job EXCEPT !.at = "commit", !.ok = TRUE]
    /\ UNCHANGED <<prompt, source, disk, rows, status, best, failed, archived, retried, upkeep,
                   leaving, process, lost, mishaps>>

(* What a result keeps: the final images, or the best of what there is.    *)
FinalRows(s) == InOrder(s, {i \in DOMAIN s : s[i].file \in Finals})
Retained(s, success) ==
    IF success /\ FinalRows(s) # << >> THEN FinalRows(s)
    ELSE IF Pictures(s) = {} THEN << >> ELSE <<s[BestOf(s)]>>
Shown(left) == IF left = << >> THEN NoSource ELSE left[BestOf(left)].file
First(finals) ==
    LET Place(i) == <<Rank[finals[i].file], Batch[finals[i].file]>>
        i == CHOOSE i \in DOMAIN finals : \A j \in DOMAIN finals :
                \/ Place(i)[1] < Place(j)[1]
                \/ Place(i)[1] = Place(j)[1] /\ Place(i)[2] <= Place(j)[2]
    IN  finals[i].file

(* The failures that a success does not survive.                           *)
Unarchived == {f \in Finals \cap Durable : failed[f] # "no"}
GivenBack == rows = << >> /\ ~retried /\ \A f \in Unarchived : failed[f] = "absent"

Kept(success) ==
    InOrder(rows, {i \in DOMAIN rows : \/ rows[i].file \notin Images
                                       \/ rows[i].path \in PathsOf(Retained(rows, success))})
PrunedBy(success) == PathsOf(rows) \ PathsOf(Kept(success))

(* Also the one case in which the work is given back: ComfyUI reported a   *)
(* success, and each final file is absent.                                 *)
Commit ==
    /\ Doing("commit") /\ process = "up"
    /\ IF prompt = "success" /\ Unarchived # {} /\ GivenBack
       THEN /\ retried' = TRUE /\ failed' = [f \in Files |-> "no"]
            /\ archived' = {} /\ cleaned' = FALSE
            /\ prompt' = "running" /\ source' = [f \in Files |-> "none"]
            /\ job' = NoTask /\ UNCHANGED <<rows, best, status>>
       ELSE LET success == prompt = "success" /\ Unarchived = {}
            IN  /\ status' = IF success THEN "succeeded" ELSE "failed"
                /\ rows' = Kept(success)
                /\ best' = IF success /\ FinalRows(rows) # << >> THEN First(FinalRows(rows))
                           ELSE Shown(Retained(rows, success))
                /\ job' = [NoTask EXCEPT !.at = "finish", !.prune = PrunedBy(success)]
                /\ UNCHANGED <<retried, failed, archived, cleaned, prompt, source>>
    /\ UNCHANGED <<disk, upkeep, leaving, process, lost, mishaps>>

(* Between the commit and the removal of what it pruned the estimates are  *)
(* refreshed.  A stop that is noticed there, or once the thread of the     *)
(* commit is done, ends the task, and so does an error; a removal whose    *)
(* thread has begun goes on.                                               *)
DeletePruned ==
    /\ Doing("finish")
    /\ disk' = disk \ job.prune /\ job' = NoTask
    /\ UNCHANGED <<prompt, source, rows, status, best, failed, archived, cleaned, retried, upkeep,
                   leaving, process, lost, mishaps>>

LosePruned ==
    /\ Doing("finish")
    /\ \/ process = "stopping" /\ NoMishap
       \/ process = "up" /\ Mishap
    /\ lost' = lost \cup job.prune /\ job' = NoTask
    /\ UNCHANGED <<prompt, source, disk, rows, status, best, failed, archived, cleaned, retried, upkeep,
                   leaving, process>>

-----------------------------------------------------------------------------
(* The maintenance of the start, of results only.                          *)
Keeps(a) == process # "down" /\ upkeep.at = a

(* A result of an older release has no list of its sources: the rows do.   *)
Prepare ==
    /\ Keeps("prepare") /\ process = "up"
    /\ archived' = IF cleaned \/ status = "deleted" \/ archived # {} THEN archived
                   ELSE {rows[i].file : i \in DOMAIN rows}
    /\ upkeep' = [upkeep EXCEPT !.at = "compact", !.ok = ~cleaned]
    /\ UNCHANGED <<prompt, source, disk, rows, status, best, failed, cleaned, retried, job,
                   leaving, process, lost, mishaps>>

Compact ==
    /\ Keeps("compact") /\ process = "up"
    /\ IF status = "deleted" \/ Pictures(rows) = {}
       THEN upkeep' = [upkeep EXCEPT !.at = "prune"] /\ UNCHANGED <<rows, best>>
       ELSE /\ rows' = Kept(status = "succeeded")
            /\ best' = Shown(Retained(rows, status = "succeeded"))
            /\ upkeep' = [upkeep EXCEPT !.at = "prune", !.prune = PrunedBy(status = "succeeded")]
    /\ UNCHANGED <<prompt, source, disk, status, failed, archived, cleaned, retried, job,
                   leaving, process, lost, mishaps>>

RemoveCompacted ==
    /\ Keeps("prune")
    /\ disk' = disk \ upkeep.prune
    /\ upkeep' = IF upkeep.ok THEN [NoUpkeep EXCEPT !.at = "sources"] ELSE NoUpkeep
    /\ UNCHANGED <<prompt, source, rows, status, best, failed, archived, cleaned, retried, job,
                   leaving, process, lost, mishaps>>

CleanAgain ==
    /\ Keeps("sources") /\ process = "up"
    /\ IF status = "deleted"
       THEN upkeep' = NoUpkeep /\ UNCHANGED source /\ NoMishap
       ELSE \E ok \in BOOLEAN :
                RemovesSources(ok) /\ upkeep' = [upkeep EXCEPT !.at = "record", !.ok = ok]
    /\ UNCHANGED <<prompt, disk, rows, status, best, failed, archived, cleaned, retried, job,
                   leaving, process, lost>>

RecordAgain ==
    /\ Keeps("record") /\ process = "up"
    /\ cleaned' = IF status = "deleted" THEN cleaned ELSE upkeep.ok
    /\ upkeep' = NoUpkeep
    /\ UNCHANGED <<prompt, source, disk, rows, status, best, failed, archived, retried, job,
                   leaving, process, lost, mishaps>>

-----------------------------------------------------------------------------
(* The owner deletes the result: the rows in a transaction, then the files.*)
Delete ==
    /\ process = "up" /\ status \in Results
    /\ status' = "deleted" /\ leaving' = leaving \cup PathsOf(rows) /\ rows' = << >> /\ best' = NoSource
    /\ UNCHANGED <<prompt, source, disk, failed, archived, cleaned, retried, job, upkeep,
                   process, lost, mishaps>>

RemoveDeleted ==
    /\ process # "down" /\ leaving # {}
    /\ disk' = disk \ leaving /\ leaving' = {}
    /\ UNCHANGED <<prompt, source, rows, status, best, failed, archived, cleaned, retried, job, upkeep,
                   process, lost, mishaps>>

(* A stop cancels the tasks, which finish what a thread has begun and      *)
(* remove a file that got no row; a kill leaves every file without a row.  *)
StopProcess ==
    /\ process = "up" /\ Mishap /\ process' = "stopping"
    /\ UNCHANGED <<prompt, source, disk, rows, status, best, failed, archived, cleaned, retried, job,
                   upkeep, leaving, lost>>

Exit ==
    /\ process = "stopping" /\ leaving = {} /\ upkeep.at # "prune"
    /\ job.at \notin {"insert", "discard", "prune", "finish"}
    /\ process' = "down" /\ job' = NoTask /\ upkeep' = NoUpkeep
    /\ UNCHANGED <<prompt, source, disk, rows, status, best, failed, archived, cleaned, retried,
                   leaving, lost, mishaps>>

Kill ==
    /\ process # "down" /\ Mishap
    /\ process' = "down" /\ job' = NoTask /\ upkeep' = NoUpkeep /\ leaving' = {}
    /\ lost' = lost \cup (disk \ PathsOf(rows))
    /\ UNCHANGED <<prompt, source, disk, rows, status, best, failed, archived, cleaned, retried>>

Start ==
    /\ process = "down" /\ process' = "up"
    /\ upkeep' = IF status \in Results THEN [NoUpkeep EXCEPT !.at = "prepare"] ELSE NoUpkeep
    /\ UNCHANGED <<prompt, source, disk, rows, status, best, failed, archived, cleaned, retried, job,
                   leaving, lost, mishaps>>

ArchiveNext ==
    \/ Write \/ EndPrompt
    \/ NodeExecuted \/ Finalize \/ Fetch \/ Insert \/ Discard \/ Prune \/ Mark \/ Clear \/ Fail
    \/ CleanSources \/ RecordCleaning \/ Commit \/ DeletePruned \/ LosePruned
    \/ Prepare \/ Compact \/ RemoveCompacted \/ CleanAgain \/ RecordAgain
    \/ Delete \/ RemoveDeleted \/ StopProcess \/ Exit \/ Kill \/ Start

ArchiveSpec == ArchiveInit /\ [][ArchiveNext]_archiveVars

-----------------------------------------------------------------------------
(* A row never names a file that is gone, and a result shows an image      *)
(* whenever it kept one (routes that serve artifacts; best_available_      *)
(* artifact_id of a terminal row).                                         *)
RowsHaveFiles ==
    /\ PathsOf(rows) \subseteq disk
    /\ status \in Results /\ Pictures(rows) # {} => best \in {rows[i].file : i \in Pictures(rows)}

(* Every file on disk has a row, or is in the hands of an operation that   *)
(* will remove it or give it one, or was left behind in one of two ways:   *)
(* the process was killed, or a stop or an error came between the commit   *)
(* of a result and the removal of what that commit pruned.                 *)
NothingStranded == disk \subseteq Held \cup lost

(* A final image is never lost: until the owner deletes the result it is   *)
(* in ComfyUI or in a row.  A failure keeps one image, which may be        *)
(* another of the batch (docs/architecture.md: Result normalization).      *)
FinalSomewhere ==
    status # "deleted" /\ ~(prompt = "success" /\ \A f \in Files : source[f] = "gone" /\ ~RowOf(f)) =>
        \A f \in Finals : source[f] = "gone" =>
            IF status = "failed" THEN \E g \in Finals : RowOf(g) ELSE RowOf(f)

(* A success that ComfyUI reported is turned into a failure only when a    *)
(* final file is not in the archive then.                                  *)
FailsForMissing ==
    [][status = "running" /\ status' = "failed" /\ prompt = "success"
         => \E f \in Finals : ~RowOf(f)]_archiveVars

(* What the archive promises of the files of a generation.                 *)
FilesKept ==
    [](ArchiveTypeOK /\ RowsHaveFiles /\ NothingStranded /\ FinalSomewhere) /\ FailsForMissing
=============================================================================
