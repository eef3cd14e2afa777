--------------------------- MODULE LoraCompanion ---------------------------
(***************************************************************************)
(* The companions of one LoRA operation: one per ComfyUI instance          *)
(* (comfyui-image-frontend-interface/lora_management.py).  Each keeps a    *)
(* journal of the operation and the publications of its own instance; the  *)
(* model files are on a disk all instances share and only Writer changes.  *)
(* The handlers do not await, so that each is one step of its process; a   *)
(* process that dies, or a disk that fails, leaves a part of one.          *)
(*                                                                         *)
(* The targets of an operation are written and restored together:          *)
(* publication[r] is "mixed" while some of the files of replica r are the  *)
(* candidates and some the previous ones, and "other" once Save & Publish  *)
(* replaced one.                                                           *)
(***************************************************************************)
EXTENDS FiniteSets

CONSTANTS
    Replicas,   \* the instances of the image pool
    Writer      \* the one with model_writer

ASSUME ReplicasAssumption == IsFiniteSet(Replicas) /\ Writer \in Replicas

VARIABLES
    action,       \* LoraOperation.action, the same in every journal
    journal,      \* journal.json of each replica, "none" if there is no file
    publication,  \* the publication triples of each replica
    weight,       \* the model file is installed under the model root
    stage,        \* .cif-lora-staging/<operation>.part exists
    quarantine,   \* .cif-lora-staging/<operation>.quarantine exists
    lease         \* the Save & Publish lease of each replica's browser

companion == <<action, journal, publication, weight, stage, quarantine, lease>>
files     == <<weight, stage, quarantine>>

\* A sync takes the path of an edit, without a file of its own.
Actions == {"install", "remove", "edit"}
States  == {"none", "staged", "prepared", "committing", "committed", "quarantined",
            "finalized", "rolled_back", "repair_required"}
Closed  == {"none", "rolled_back", "finalized"}
Ours    == {"old", "mixed", "new"}

CompanionTypeOK ==
    /\ action \in Actions
    /\ journal \in [Replicas -> States]
    /\ publication \in [Replicas -> Ours \cup {"other"}]
    /\ {weight, stage, quarantine} \subseteq BOOLEAN
    /\ lease \in [Replicas -> {"free", "held", "lapsed", "over"}]

CompanionInit ==
    /\ action \in Actions
    /\ journal = [r \in Replicas |-> "none"]
    /\ publication = [r \in Replicas |-> "old"]
    /\ weight = (action # "install")
    /\ stage = FALSE /\ quarantine = FALSE
    /\ lease = [r \in Replicas |-> "free"]

\* What is there when the files are written one by one and it stops somewhere.
Between(from, to) == IF from = to THEN {to} ELSE {from, "mixed", to}

Enters(r, state) == journal' = [journal EXCEPT ![r] = state]
Publishes(r, bundle) == publication' = [publication EXCEPT ![r] = bundle]

-----------------------------------------------------------------------------
(* The management routes.  For each request: when it is accepted, and what *)
(* it does then.                                                           *)

CanStage(r) == r = Writer /\ journal[r] \in {"none", "staged"}

Stage(r) ==
    /\ Enters(r, "staged")
    /\ stage' = TRUE
    /\ UNCHANGED <<action, publication, weight, quarantine, lease>>

CanPrepare(r) ==
    /\ lease[r] # "held"
    /\ \/ journal[r] = "prepared"
       \/ /\ journal[r] = "none" \/ (journal[r] = "staged" /\ action = "install")
          /\ publication[r] = "old"
          /\ IF action = "install" THEN stage ELSE weight

Prepare(r) ==
    /\ Enters(r, "prepared")
    /\ UNCHANGED <<action, publication, files, lease>>

\* The writer moves the staged file to its place unless it is there already.
Activates(r) == action = "install" /\ r = Writer /\ ~weight

CanCommit(r) ==
    \/ journal[r] = "committed"
    \/ /\ journal[r] \in {"prepared", "committing"}
       /\ lease[r] # "held"
       /\ publication[r] \in Ours
       /\ action = "install" => weight \/ (Activates(r) /\ stage)

Commit(r) ==
    IF journal[r] = "committed"
    THEN UNCHANGED companion
    ELSE /\ Enters(r, "committed")
         /\ Publishes(r, "new")
         /\ weight' = (weight \/ Activates(r))
         /\ stage' = (stage /\ ~Activates(r))
         /\ UNCHANGED <<action, quarantine, lease>>

CanQuarantine(r) ==
    /\ action = "remove"
    /\ \/ journal[r] = "quarantined"
       \/ journal[r] = "committed" /\ (r = Writer => weight)

Quarantine(r) ==
    /\ Enters(r, "quarantined")
    /\ IF r = Writer /\ journal[r] = "committed"
       THEN weight' = FALSE /\ quarantine' = TRUE
       ELSE UNCHANGED <<weight, quarantine>>
    /\ UNCHANGED <<action, publication, stage, lease>>

\* A journal that is only staged has no targets yet.
HasTargets(r) == journal[r] \notin {"none", "staged"}

Restores(r) == r = Writer /\ action = "remove" /\ quarantine
Withdraws(r) == r = Writer /\ action = "install"

CanRollback(r) ==
    \/ journal[r] \in {"none", "rolled_back"}
    \/ /\ journal[r] # "finalized"
       /\ HasTargets(r) => publication[r] \in Ours
       /\ Restores(r) => ~weight

Rollback(r) ==
    \/ /\ journal[r] = "none"         \* no journal: only a stage may be left
       /\ stage' = (stage /\ r # Writer)
       /\ UNCHANGED <<action, journal, publication, weight, quarantine, lease>>
    \/ journal[r] = "rolled_back" /\ UNCHANGED companion
    \/ /\ journal[r] \notin {"none", "rolled_back"}
       /\ Enters(r, "rolled_back")
       /\ IF HasTargets(r) THEN Publishes(r, "old") ELSE UNCHANGED publication
       /\ weight' = IF Withdraws(r) /\ HasTargets(r) THEN FALSE ELSE weight \/ Restores(r)
       /\ quarantine' = (quarantine /\ ~Restores(r))
       /\ stage' = (stage /\ ~Withdraws(r))
       /\ UNCHANGED <<action, lease>>

CanFinalize(r) ==
    \/ journal[r] \in {"finalized", "quarantined"}
    \/ journal[r] = "committed" /\ ~(action = "remove" /\ r = Writer)

Finalize(r) ==
    /\ Enters(r, "finalized")
    /\ quarantine' = (quarantine /\ r # Writer)
    /\ UNCHANGED <<action, publication, weight, stage, lease>>

-----------------------------------------------------------------------------
(* What a request can do.                                                  *)

Accepts(request, r) ==
    CASE request = "stage"      -> CanStage(r)
      [] request = "prepare"    -> CanPrepare(r)
      [] request = "commit"     -> CanCommit(r)
      [] request = "quarantine" -> CanQuarantine(r)
      [] request = "rollback"   -> CanRollback(r)
      [] request = "finalize"   -> CanFinalize(r)

(* The request is carried out.                                             *)
Performs(request, r) ==
    /\ Accepts(request, r)
    /\ \/ request = "stage"      /\ Stage(r)
       \/ request = "prepare"    /\ Prepare(r)
       \/ request = "commit"     /\ Commit(r)
       \/ request = "quarantine" /\ Quarantine(r)
       \/ request = "rollback"   /\ Rollback(r)
       \/ request = "finalize"   /\ Finalize(r)

\* Another publication, an authoring workflow or the native queue needs the file.
ReferencedElsewhere(request) == action = "remove" /\ request \in {"prepare", "quarantine"}

(* The request is refused; a rollback that is refused asks for repair.     *)
Refuses(request, r) ==
    /\ ~Accepts(request, r) \/ ReferencedElsewhere(request)
    /\ IF request = "rollback" /\ journal[r] # "finalized"
       THEN Enters(r, "repair_required") /\ UNCHANGED <<action, publication, files, lease>>
       ELSE UNCHANGED companion

PartOfStage(r) == \* linked, the journal not written
    /\ stage' = TRUE
    /\ UNCHANGED <<action, journal, publication, weight, quarantine, lease>>

PartOfCommit(r) ==
    /\ journal[r] # "committed"
    /\ UNCHANGED <<action, quarantine, lease>>
    /\ \/ \* the process dies before or after "committing" was saved
          /\ weight' = (weight \/ Activates(r))
          /\ stage' = (stage /\ ~Activates(r))
          /\ \/ UNCHANGED <<journal, publication>>
             \/ \E bundle \in Between(publication[r], "new") :
                    Enters(r, "committing") /\ Publishes(r, bundle)
       \/ \* a write fails: this replica restores itself
          /\ Enters(r, "rolled_back")
          /\ Publishes(r, "old")
          /\ weight' = (weight /\ ~Withdraws(r))
          /\ stage' = (stage /\ ~Withdraws(r))

PartOfQuarantine(r) == \* moved, the journal not written
    /\ journal[r] = "committed" /\ r = Writer
    /\ weight' = FALSE /\ quarantine' = TRUE
    /\ UNCHANGED <<action, journal, publication, stage, lease>>

(* The file of a removal comes back before the publications, that of an    *)
(* installation goes after them.  The journal says repair_required if the  *)
(* process lived to write it.                                              *)
PartOfRollback(r) ==
    /\ journal[r] \notin Closed /\ HasTargets(r)
    /\ journal' = journal \/ Enters(r, "repair_required")
    /\ \E bundle \in Between(publication[r], "old") : Publishes(r, bundle)
    /\ weight' \in {weight, IF Withdraws(r) THEN FALSE ELSE weight \/ Restores(r)}
    /\ Restores(r) /\ ~weight' => publication' = publication
    /\ Withdraws(r) /\ ~weight' /\ weight => publication'[r] = "old"
    /\ quarantine' = (quarantine /\ ~(Restores(r) /\ weight'))
    /\ UNCHANGED <<action, stage, lease>>

PartOfFinalize(r) == \* unlinked, the journal not written
    /\ journal[r] # "finalized" /\ r = Writer
    /\ quarantine' = FALSE
    /\ UNCHANGED <<action, journal, publication, weight, stage, lease>>

(* The request is carried out in part.                                     *)
Breaks(request, r) ==
    /\ Accepts(request, r)
    /\ \/ request = "stage"      /\ PartOfStage(r)
       \/ request = "commit"     /\ PartOfCommit(r)
       \/ request = "quarantine" /\ PartOfQuarantine(r)
       \/ request = "rollback"   /\ PartOfRollback(r)
       \/ request = "finalize"   /\ PartOfFinalize(r)

-----------------------------------------------------------------------------
(* Save & Publish in the browser of an instance, at most once each.        *)

AcquireLease(r) ==
    /\ lease[r] = "free"
    /\ journal[r] \in Closed \cup {"staged"}
    /\ lease' = [lease EXCEPT ![r] = "held"]
    /\ UNCHANGED <<action, journal, publication, files>>

\* Ten minutes without a renewal.
LeaseLapses(r) ==
    /\ lease[r] = "held"
    /\ lease' = [lease EXCEPT ![r] = "lapsed"]
    /\ UNCHANGED <<action, journal, publication, files>>

\* The browser writes its files, even those of a lease that lapsed meanwhile.
SaveAndPublish(r) ==
    /\ lease[r] \in {"held", "lapsed"}
    /\ lease' = [lease EXCEPT ![r] = "over"]
    /\ Publishes(r, "other")
    /\ UNCHANGED <<action, journal, files>>

=============================================================================
