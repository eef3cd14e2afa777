--------------------------- MODULE ProductionUpdate --------------------------
(***************************************************************************)
(* The release runner (scripts/production-update.py with                   *)
(* backup-production-bind.py): a run takes the deployment lock, builds a   *)
(* candidate, stops the application, archives its data, cuts over, verifies *)
(* and prunes; what fails on the way is rolled back.                       *)
(*                                                                         *)
(* A run may be interrupted by a signal or fail at any step outside its    *)
(* recovery (Fails), a step of the recovery may fail, and the host may     *)
(* kill it anywhere (Killed).  Users write to the database so long as the  *)
(* application is up.  Changes made by an operator meanwhile are left out. *)
(***************************************************************************)
EXTENDS Integers, FiniteSets

CONSTANTS
    Runs,      \* runs of the runner, each made once
    Nobody,
    Newest,    \* releases are 0 .. Newest, as main has them
    MaxWrites  \* bound: writes accepted by each release

ASSUME UpdateAssumption ==
    /\ Nobody \notin Runs
    /\ Newest \in Nat
    /\ MaxWrites \in Nat

Releases == 0 .. Newest

VARIABLES
    lock,      \* .deployment-update.lock/owner.json
    run,       \* each run: where it is, and the locals of deploy and transaction
    app,       \* the container: its image, and whether it is up
    compose,   \* the image in compose.yaml
    state,     \* release-state.json: candidate and previous
    data,      \* app.db: the newest release that migrated it, and its content
    archives,  \* releases/*/data.tar
    images,    \* tags local/comfyui-image-frontend:<sha>
    receipts,  \* image.json
    accepted   \* writes that were answered, by release (history)

world == <<app, compose, state, data, archives, images, receipts, accepted>>
updateVars == <<lock, run, world>>

NoData == [schema |-> -1, content |-> [r \in Releases |-> 0]]
None   == -1

Commands == {"update", "restart", "install", "check"}
Idle ==
    [at |-> "start", mode |-> "none", target |-> 0, before |-> 0, state |-> state,
     stopped |-> FALSE, cutover |-> FALSE, pruned |-> FALSE, outcome |-> "none"]

UpdateInit ==
    /\ lock = Nobody
    /\ app = [image |-> 0, up |-> TRUE] /\ compose = 0
    /\ state = [candidate |-> 0, previous |-> None]
    /\ data = [schema |-> 0, content |-> [r \in Releases |-> 0]]
    /\ archives = [r \in {} |-> NoData]
    /\ images = {0} /\ receipts = {0}
    /\ accepted = [r \in Releases |-> 0]
    /\ run = [j \in Runs |-> Idle]

At(j, here) == run[j].at = here
Goes(j, there) == run' = [run EXCEPT ![j].at = there]
Ends(j, outcome) == run' = [run EXCEPT ![j].at = "leaving", ![j].outcome = outcome]
Install(j) == run[j].mode = "install"

(* The container comes up: the release in it migrates the database.        *)
Migrated(image) == [data EXCEPT !.schema = IF image > @ THEN image ELSE @]
ComesUp(image) == app' = [image |-> image, up |-> TRUE] /\ data' = Migrated(image)

-----------------------------------------------------------------------------
(* deploy, before anything is changed                                      *)

TakesLock(j) ==
    /\ At(j, "start") /\ lock = Nobody
    /\ lock' = j
    /\ \E m \in Commands, t \in Releases :
        run' = [run EXCEPT ![j].at = "preflight", ![j].mode = m, ![j].target = t]
    /\ UNCHANGED world

(* mkdir fails: another run's lock is not touched.                         *)
FindsLock(j) ==
    /\ At(j, "start") /\ lock # Nobody
    /\ run' = [run EXCEPT ![j].at = "over", ![j].outcome = "refused"]
    /\ UNCHANGED <<lock, world>>

(* The saved configuration is that of the container, and there is data.    *)
BackupPreflight == compose = app.image /\ data # NoData
(* The target is a descendant of the release that is deployed.             *)
FetchesSource(j) == run[j].mode \in {"update", "restart"} => run[j].target >= app.image
Preflight(j) ==
    /\ At(j, "preflight")
    /\ BackupPreflight /\ state.candidate = app.image
    /\ FetchesSource(j)
    /\ run' = [run EXCEPT ![j].at = "operational", ![j].before = app.image, ![j].state = state]
    /\ UNCHANGED <<lock, world>>

(* Within the time that is allowed; one that is up but slow is Fails.      *)
ApplicationReady == app.up
(* An application that is not ready is restarted once.                     *)
RecoverApplication(j) ==
    \/ ApplicationReady /\ UNCHANGED <<app, data>>
    \/ ~ApplicationReady /\ run[j].mode \in {"update", "restart"} /\ ComesUp(app.image)
Operational(j) ==
    /\ At(j, "operational") /\ RecoverApplication(j)
    /\ \/ run[j].mode = "check" /\ Ends(j, "checked")
       \/ run[j].mode \in {"update", "restart"} /\ run[j].target = run[j].before
            /\ IF run[j].mode = "restart" /\ app.up THEN Goes(j, "restart") ELSE Ends(j, "current")
       \/ run[j].mode \in {"update", "restart"} /\ run[j].target # run[j].before /\ Goes(j, "build")
       \/ Install(j) /\ Goes(j, "cutover")
    /\ UNCHANGED <<lock, compose, state, archives, images, receipts, accepted>>

(* restart_application on request: docker restart may leave it stopped.    *)
RequestedRestart(j) ==
    /\ At(j, "restart")
    /\ \/ ComesUp(app.image) /\ Ends(j, "current")
       \/ app' = [app EXCEPT !.up = FALSE] /\ Ends(j, "failed") /\ UNCHANGED data
    /\ UNCHANGED <<lock, compose, state, archives, images, receipts, accepted>>

-----------------------------------------------------------------------------
(* transaction                                                             *)

(* build_image: a tag is reused only with its receipt, never overwritten.  *)
Build(j) ==
    /\ At(j, "build")
    /\ run[j].target \in images => run[j].target \in receipts
    /\ images' = images \cup {run[j].target}
    /\ Goes(j, "receipt")
    /\ UNCHANGED <<lock, app, compose, state, data, archives, receipts, accepted>>
Receipt(j) ==
    /\ At(j, "receipt")
    /\ receipts' = receipts \cup {run[j].target}
    /\ Goes(j, "smoke")
    /\ UNCHANGED <<lock, app, compose, state, data, archives, images, accepted>>
(* smoke_image: the candidate starts on data of its own, that is thrown    *)
(* away, while the application stays in service.                           *)
SmokeImage(j) ==
    /\ At(j, "smoke") /\ run[j].target \in images
    /\ Goes(j, "stop") /\ UNCHANGED <<lock, world>>

(* stopped_archive(keep_stopped)                                           *)
Stop(j) ==
    /\ At(j, "stop") /\ app.image = run[j].before
    /\ app' \in {app, [app EXCEPT !.up = FALSE]}
    /\ Goes(j, "archive")
    /\ UNCHANGED <<lock, compose, state, data, archives, images, receipts, accepted>>
Archive(j) ==
    /\ At(j, "archive") /\ ~app.up
    /\ archives' = [i \in DOMAIN archives \cup {j} |-> IF i = j THEN data ELSE archives[i]]
    /\ Goes(j, "archived")
    /\ UNCHANGED <<lock, app, compose, state, data, images, receipts, accepted>>
(* backup.restart: docker start, which may fail.                           *)
RestartOriginal == ComesUp(app.image) \/ UNCHANGED <<app, data>>
(* Its finally clause, when it did not complete: signals are ignored.      *)
RestartsAfterArchive(j) ==
    /\ At(j, "restore") /\ RestartOriginal
    /\ Goes(j, "recover")
    /\ UNCHANGED <<lock, compose, state, archives, images, receipts, accepted>>

(* stopped = True comes after the return; the archive must be readable.    *)
VerifyArchive(j) == j \in DOMAIN archives /\ archives[j] # NoData
Archived(j) ==
    /\ At(j, "archived") /\ VerifyArchive(j)
    /\ run' = [run EXCEPT ![j].at = "cutover", ![j].stopped = TRUE]
    /\ UNCHANGED <<lock, world>>

Target(j) == IF Install(j) THEN run[j].before ELSE run[j].target
Cutover(j) ==
    /\ At(j, "cutover")
    /\ run' = [run EXCEPT ![j].at = "up", ![j].cutover = TRUE]
    /\ compose' = Target(j)
    /\ UNCHANGED <<lock, app, state, data, archives, images, receipts, accepted>>

(* reconcile: docker compose up --wait, or less.                           *)
Reconcile(j, there, failing) ==
    \/ compose \in images /\ ComesUp(compose) /\ Goes(j, there)
    \/ /\ Goes(j, failing)
       /\ \/ UNCHANGED <<app, data>>
          \/ app' = [image |-> compose, up |-> FALSE] /\ UNCHANGED data
          \/ ComesUp(compose)
Up(j) ==
    /\ At(j, "up") /\ Reconcile(j, "verify", "recover")
    /\ UNCHANGED <<lock, compose, state, archives, images, receipts, accepted>>

(* verify_service, the final preflight, and save_state.                    *)
Save(j) ==
    /\ At(j, "verify") /\ app = [image |-> Target(j), up |-> TRUE]
    /\ state' = [candidate |-> Target(j), previous |-> run[j].before]
    /\ Goes(j, IF Install(j) THEN "report" ELSE "prune archives")
    /\ UNCHANGED <<lock, app, compose, data, archives, images, receipts, accepted>>

(* require_held_lock                                                       *)
HoldsLock(j) == lock = j

(* enforce_retention: every archive but this run's, and every tag that     *)
(* nothing protects; either may stop half way, and never fails the run.    *)
PruneArchives(j) ==
    /\ At(j, "prune archives")
    /\ \E kept \in SUBSET DOMAIN archives :
        /\ j \in kept /\ (~HoldsLock(j) => kept = DOMAIN archives)
        /\ archives' = [i \in kept |-> archives[i]]
    /\ run' = [run EXCEPT ![j].at = "prune images", ![j].pruned = DOMAIN archives' # DOMAIN archives]
    /\ UNCHANGED <<lock, app, compose, state, data, images, receipts, accepted>>

Protected(j) == {Target(j), run[j].before, compose, state.candidate, state.previous, app.image}
(* remove_image_tag: a tag that docker refuses to remove is kept.          *)
Untagged(j) == {S \in SUBSET images : images \cap Protected(j) \subseteq S}
PruneImages(j) ==
    /\ At(j, "prune images")
    /\ images' \in Untagged(j) /\ (~HoldsLock(j) => UNCHANGED images)
    /\ run' = [run EXCEPT ![j].at = "report", ![j].pruned = @ \/ images' # images]
    /\ UNCHANGED <<lock, app, compose, state, data, archives, receipts, accepted>>

EnforceRetention(j) == PruneArchives(j) \/ PruneImages(j)

Report(j) == At(j, "report") /\ Ends(j, "updated") /\ UNCHANGED <<lock, world>>

-----------------------------------------------------------------------------
(* Failure and recovery                                                    *)

BeforeTransaction == {"preflight", "operational", "restart"}
InTransaction == {"build", "receipt", "smoke", "stop", "archive", "archived", "cutover", "up",
                  "verify", "prune archives", "prune images", "report"}

(* A signal, a command that fails, a check that does, a full disk.         *)
Fails(j) ==
    /\ \/ run[j].at \in BeforeTransaction /\ Ends(j, "failed")
       \/ run[j].at \in {"stop", "archive"} /\ Goes(j, "restore")
       \/ run[j].at \in InTransaction \ {"stop", "archive"} /\ Goes(j, "recover")
    /\ UNCHANGED <<lock, world>>

(* Not cut over: the original is started again, if it is known stopped.    *)
Preserve(j) ==
    /\ At(j, "recover") /\ ~run[j].cutover
    /\ \/ run[j].stopped /\ ComesUp(app.image) /\ Goes(j, "check original")
       \/ ~run[j].stopped /\ Goes(j, "check original") /\ UNCHANGED <<app, data>>
       \/ run[j].stopped /\ Ends(j, "operator-required") /\ UNCHANGED <<app, data>>
    /\ UNCHANGED <<lock, compose, state, archives, images, receipts, accepted>>
CheckOriginal(j) ==
    /\ At(j, "check original")
    /\ \/ app = [image |-> run[j].before, up |-> TRUE] /\ Ends(j, "original-preserved")
       \/ Ends(j, "operator-required")
    /\ UNCHANGED <<lock, world>>

(* Cut over: stop the candidate, its data, the files, the original.        *)
StopCandidate(j) ==
    /\ At(j, "recover") /\ run[j].cutover
    /\ \/ app' = [app EXCEPT !.up = FALSE] /\ Goes(j, IF Install(j) THEN "files" ELSE "database")
       \/ app' \in {app, [app EXCEPT !.up = FALSE]} /\ Ends(j, "operator-required")
    /\ UNCHANGED <<lock, compose, state, data, archives, images, receipts, accepted>>
Mut_RestoreDatabase(j) ==  \* the database stays as the candidate left it
    /\ At(j, "database")
    /\ Goes(j, "files")
    /\ UNCHANGED <<lock, app, compose, state, data, archives, images, receipts, accepted>>
RestoreDatabase(j) ==
    /\ At(j, "database")
    /\ \/ /\ VerifyArchive(j)
          /\ data' = archives[j]
          /\ accepted' = [r \in Releases |-> IF r = run[j].target THEN archives[j].content[r]
                                             ELSE accepted[r]]  \* given up with it
          /\ Goes(j, "files")
       \/ data' \in {data, NoData} /\ Ends(j, "operator-required") /\ UNCHANGED accepted
    /\ UNCHANGED <<lock, app, compose, state, archives, images, receipts>>
RestoreFiles(j) ==
    /\ At(j, "files")
    /\ \/ compose' = run[j].before /\ state' = run[j].state /\ Goes(j, "up again")
       \/ compose' \in {compose, run[j].before} /\ Ends(j, "operator-required") /\ UNCHANGED state
    /\ UNCHANGED <<lock, app, data, archives, images, receipts, accepted>>
UpAgain(j) ==
    /\ At(j, "up again") /\ Reconcile(j, "check rollback", "stranded")
    /\ UNCHANGED <<lock, compose, state, archives, images, receipts, accepted>>
CheckRollback(j) ==
    /\ At(j, "check rollback") \/ At(j, "stranded")
    /\ \/ At(j, "check rollback") /\ app = [image |-> run[j].before, up |-> TRUE]
            /\ Ends(j, "rolled-back")
       \/ Ends(j, "operator-required")
    /\ UNCHANGED <<lock, world>>

(* The finally clause of deploy.                                           *)
Leaves(j) ==
    /\ At(j, "leaving") /\ lock' = Nobody /\ Goes(j, "over")
    /\ UNCHANGED world

Killed(j) ==
    /\ run[j].at \notin {"start", "over"}
    /\ run' = [run EXCEPT ![j].at = "over", ![j].outcome = "killed"]
    /\ UNCHANGED <<lock, world>>

-----------------------------------------------------------------------------
(* Users write, and what they are answered is in the database.             *)
UserWrites ==
    /\ app.up /\ data # NoData /\ accepted[app.image] < MaxWrites
    /\ accepted' = [accepted EXCEPT ![app.image] = @ + 1]
    /\ data' = [data EXCEPT !.content[app.image] = @ + 1]
    /\ UNCHANGED <<lock, run, app, compose, state, archives, images, receipts>>

Deploy(j) ==
    \/ TakesLock(j) \/ FindsLock(j) \/ Preflight(j) \/ Operational(j) \/ RequestedRestart(j)
    \/ Leaves(j)
Transaction(j) ==
    \/ Build(j) \/ Receipt(j) \/ SmokeImage(j) \/ Stop(j) \/ Archive(j) \/ Archived(j)
    \/ Cutover(j) \/ Up(j) \/ Save(j) \/ EnforceRetention(j) \/ Report(j)
Recovery(j) ==
    \/ RestartsAfterArchive(j) \/ Preserve(j) \/ CheckOriginal(j) \/ StopCandidate(j)
    \/ RestoreDatabase(j) \/ RestoreFiles(j) \/ UpAgain(j) \/ CheckRollback(j)

UpdateNext ==
    \/ \E j \in Runs : Deploy(j) \/ Transaction(j) \/ Recovery(j) \/ Fails(j) \/ Killed(j)
    \/ UserWrites
UpdateSpec == UpdateInit /\ [][UpdateNext]_updateVars

-----------------------------------------------------------------------------
UpdateTypeOK ==
    /\ lock \in Runs \cup {Nobody}
    /\ app \in [image : Releases, up : BOOLEAN]
    /\ compose \in Releases
    /\ state \in [candidate : Releases, previous : Releases \cup {None}]
    /\ DOMAIN archives \subseteq Runs /\ images \subseteq Releases /\ receipts \subseteq Releases
    /\ \A j \in Runs : run[j].at \notin {"start", "over"} => lock = j
    /\ app.image \in images /\ state.candidate \in images

(* No release ever runs on a database that a later one has migrated.       *)
CodeFitsData == app.up /\ data # NoData => data.schema <= app.image

(* Whenever no run is at work on an application that is up, no write that  *)
(* was answered is missing, other than those of a candidate that was rolled *)
(* back: what the archive and the cutover left out would be lost here.     *)
NothingLost ==
    app.up /\ lock = Nobody => data # NoData /\ data.content = accepted

(* A run that reports success, or that the original was kept or restored,  *)
(* has left the files, the record, the container and the data at one and   *)
(* the same release.                                                       *)
OutcomeHolds ==
    \A j \in Runs :
        At(j, "leaving") /\ run[j].outcome \in {"updated", "rolled-back", "original-preserved"} =>
            /\ app.up
            /\ app.image = compose /\ app.image = state.candidate /\ data.schema = app.image
            /\ app.image = IF run[j].outcome = "updated" THEN Target(j) ELSE run[j].before

(* From the cutover to the end of the run what a rollback needs is there:  *)
(* this run's archive and the image before.  After a successful run they   *)
(* are the one rollback that is left.                                      *)
RollbackKept ==
    \A j \in Runs :
        /\ lock = j /\ run[j].cutover
        /\ At(j, "leaving") => run[j].outcome \in {"updated", "rolled-back"}
        => run[j].before \in images /\ (~Install(j) => j \in DOMAIN archives)

(* What an operator may rely on while and after a release is put in place. *)
UpdateSafe == CodeFitsData /\ NothingLost /\ OutcomeHolds /\ RollbackKept

(* "A failed deploy never reduces the number of usable rollbacks"          *)
(* (docs/production-service-portal.md, Rollback retention).                *)
FailedNeverPrunes ==
    \A j \in Runs :
        run[j].outcome \in {"rolled-back", "original-preserved", "operator-required"} => ~run[j].pruned
=============================================================================
