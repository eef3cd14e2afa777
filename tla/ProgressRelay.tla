---------------------------- MODULE ProgressRelay ----------------------------
(***************************************************************************)
(* What the application tells of the progress of one generation.  ComfyUI  *)
(* sends events over a socket that may break; the monitor takes them from  *)
(* a buffer, thins them out with a tracker it keeps in memory, and writes  *)
(* snapshots to the row, some of them with a durable event.  Each write    *)
(* looks at the row in one transaction and changes it in another; in       *)
(* between the owner may cancel, and an end of another generation of the   *)
(* batch has the same snapshot written again for its estimate.             *)
(***************************************************************************)
EXTENDS Integers, Sequences

CONSTANTS
    Script,     \* the events of a prompt: [kind, node, value]
    NoNode,
    Room,       \* of the buffer (512)
    MaxTrouble  \* disconnections, crashes, cancellations, new attempts, refreshes

VARIABLES
    position,   \* the events ComfyUI has sent
    connected,  \* the socket
    buffer,     \* of the channel
    record,     \* the row: status, attempt (started_at), progress and timing
    tracker,    \* _ProgressTracker, or NoTracker
    observed,   \* _execution_observations, or NoObservation
    doing,      \* what the monitor does next
    after,      \* what it does after that
    monitor,    \* "on", "off" or, without a process, "down"
    refresh,    \* what the refresh of the estimate does next
    log,        \* the durable progress events, with the attempt they are of
    left,       \* snapshots of nodes the monitor has gone on from, likewise
    excuses,    \* refused writes, late refreshes and ends of the process (history)
    trouble

relayVars == <<position, connected, buffer, record, tracker, observed, doing, after, monitor, refresh,
               log, left, excuses, trouble>>
rest == <<position, connected, buffer>>
ops  == <<doing, after>>

Messages == {Script[i] : i \in DOMAIN Script}

(* The numbers ComfyUI tells of a node rise, and the first event of a      *)
(* prompt is that it started.                                              *)
Counters == {"progress_state", "progress"}
Rises(d, e) == d.kind = e.kind /\ d.node = e.node /\ e.kind \in Counters => d.value <= e.value
ASSUME ScriptAssumption ==
    /\ Script \in Seq(Messages) /\ Script # << >> /\ Script[1].kind = "execution_start"
    /\ \A i \in DOMAIN Script : Script[i].value \in Nat
    /\ \A i, j \in DOMAIN Script : i < j => Rises(Script[i], Script[j])
ASSUME BoundsAssumption == Room \in Nat /\ MaxTrouble \in Nat

Nodes == {e.node : e \in Messages}
NoProgress == [kind |-> "none", node |-> NoNode, value |-> 0, legacy |-> FALSE, attempt |-> 0]
Attempts == 1 .. MaxTrouble + 1
Snapshots ==
    {NoProgress}
    \cup [kind : {"indeterminate"}, node : Nodes \cup {NoNode}, value : {0}, legacy : {FALSE}, attempt : Attempts]
    \cup [kind : {"node"}, node : Nodes, value : Nat, legacy : BOOLEAN, attempt : Attempts]
NoTracker == [there |-> FALSE, last |-> NoProgress, pending |-> NoProgress, audited |-> NoProgress,
              fresh |-> FALSE, stateNodes |-> {}]
NoObservation == [there |-> FALSE, executed |-> FALSE, finished |-> FALSE]

(* legacy and attempt say where a snapshot comes from; the code has them   *)
(* neither in the snapshot nor in the comparison.                          *)
Snapshot(kind, node, value, legacy) ==
    [kind |-> kind, node |-> node, value |-> value, legacy |-> legacy, attempt |-> record.attempt]
Same(a, b) == a.kind = b.kind /\ a.node = b.node /\ a.value = b.value
StartOf(n) == [kind |-> "indeterminate", node |-> NoNode, value |-> 0, legacy |-> FALSE, attempt |-> n]

Op(name, snap, audit) ==
    [op |-> name, snap |-> snap, audit |-> audit, status |-> "none", attempt |-> 0]
NoOp == Op("none", NoProgress, FALSE)
Flush(force) == Op("flush", NoProgress, force)
Persist(snap, audit) == Op("load", snap, audit)

RowStatuses == {"running", "cancel_requested", "queued", "ended"}
RelayOps == {"none", "saveStart", "snap", "prefer", "legacy", "moved", "flush", "load", "write", "note",
             "history", "timing", "commit", "close", "look"}
RelaySteps == [op : RelayOps, snap : Snapshots, audit : BOOLEAN, status : RowStatuses \cup {"none"},
               attempt : Attempts \cup {0}]
Trackers == [there : BOOLEAN, last : Snapshots, pending : Snapshots, audited : Snapshots,
             fresh : BOOLEAN, stateNodes : SUBSET Nodes]
Observations == [there : BOOLEAN, executed : BOOLEAN, finished : BOOLEAN]
RelayTypeOK ==
    /\ position \in 0 .. Len(Script) /\ connected \in BOOLEAN
    /\ buffer \in Seq(Messages) /\ Len(buffer) <= Room
    /\ record \in [status : RowStatuses, attempt : Attempts, progress : Snapshots,
                   timing : {"none", "started", "monotonic"}]
    /\ tracker \in Trackers /\ observed \in Observations
    /\ doing \in RelaySteps /\ after \in RelaySteps /\ refresh \in RelaySteps
    /\ monitor \in {"on", "off", "down"}
    /\ log \in Seq(Snapshots \ {NoProgress}) /\ left \subseteq Snapshots \ {NoProgress}
    /\ excuses \subseteq {"refused", "late", "crash"} /\ trouble \in 0 .. MaxTrouble

RelayInit ==
    /\ position = 0 /\ connected = TRUE /\ buffer = << >>
    /\ record = [status |-> "running", attempt |-> 1, progress |-> StartOf(1), timing |-> "none"]
    /\ tracker = NoTracker /\ observed = NoObservation
    /\ doing = Persist(NoProgress, FALSE) /\ after = NoOp /\ monitor = "on" /\ refresh = NoOp
    /\ log = << >> /\ left = {} /\ excuses = {} /\ trouble = 0

Troubles == trouble < MaxTrouble /\ trouble' = trouble + 1
Calm == UNCHANGED trouble

-----------------------------------------------------------------------------
(* ComfyUI and the socket.  What it sends while there is none is lost; a   *)
(* new socket may be told again that the prompt started.                   *)
Send ==
    /\ position < Len(Script) /\ record.status \in {"running", "cancel_requested"}
    /\ connected => Len(buffer) < Room
    /\ position' = position + 1
    /\ buffer' = IF connected /\ monitor = "on" THEN Append(buffer, Script[position + 1]) ELSE buffer
    /\ UNCHANGED <<connected, record, tracker, observed, ops, monitor, refresh, log, left, excuses, trouble>>

(* _runtime_event_pump after the end of a socket.                          *)
Disconnect ==
    /\ monitor = "on" /\ connected /\ Troubles
    /\ connected' = FALSE /\ observed' = NoObservation
    /\ UNCHANGED <<position, buffer, record, tracker, ops, monitor, refresh, log, left, excuses>>

Reconnect ==
    /\ monitor = "on" /\ ~connected /\ connected' = TRUE
    /\ \/ UNCHANGED buffer
       \/ position > 0 /\ Len(buffer) < Room /\ buffer' = Append(buffer, Script[1])
    /\ UNCHANGED <<position, record, tracker, observed, ops, monitor, refresh, log, left, excuses, trouble>>

-----------------------------------------------------------------------------
(* The monitor does one thing after the other: it goes on to o, or to what *)
(* is left to do, or takes up two things.                                  *)
At1(name)      == monitor = "on" /\ doing.op = name
Then(o)        == doing' = o /\ UNCHANGED after
Done           == doing' = after /\ after' = NoOp
Goes(o)        == IF o.op = "none" THEN Done ELSE Then(o)
Both(o, later) == doing' = o /\ after' = later

(* What an event asks of the monitor (_process_runtime_event).  The        *)
(* observation is changed in memory at once; only its start is saved.      *)
Observed(e) ==
    IF e.kind = "execution_start" /\ ~observed.there THEN [NoObservation EXCEPT !.there = TRUE]
    ELSE IF ~observed.there THEN observed
    ELSE [observed EXCEPT
            !.executed = @ \/ e.kind \in {"executing", "progress_state", "progress"},
            !.finished = @ \/ (e.kind = "execution_success" /\ observed.executed)]

Asked(e) ==
    CASE e.kind = "execution_start" -> Op("snap", Snapshot("indeterminate", NoNode, 0, FALSE), TRUE)
      [] e.kind = "executing"      -> Op("snap", Snapshot("indeterminate", e.node, 0, FALSE), TRUE)
      [] e.kind = "progress_state" -> Op("prefer", Snapshot("node", e.node, e.value, FALSE), FALSE)
      [] e.kind = "progress"       -> Op("legacy", Snapshot("node", e.node, e.value, TRUE), FALSE)
      [] e.kind = "executed"       -> Flush(TRUE)
      [] OTHER                     -> NoOp

Take ==
    /\ At1("none") /\ buffer # << >>
    /\ LET e == Head(buffer) IN
       /\ observed' = Observed(e)
       /\ IF e.kind = "execution_start" /\ ~observed.there
          THEN Both(Op("saveStart", NoProgress, FALSE), Asked(e)) ELSE Both(Asked(e), NoOp)
    /\ buffer' = Tail(buffer)
    /\ UNCHANGED <<position, connected, record, tracker, monitor, refresh, log, left, excuses, trouble>>

(* The end of a turn of the loop: what is pending, then the history.       *)
Turn ==
    /\ At1("none") /\ Both(Flush(FALSE), Op("history", NoProgress, FALSE))
    /\ UNCHANGED <<rest, record, tracker, observed, monitor, refresh, log, left, excuses, trouble>>

(* _progress_tracker: the one in memory, or one made of the row.           *)
Tracked == IF tracker.there THEN tracker
           ELSE [NoTracker EXCEPT !.there = TRUE, !.last = record.progress]

SaveStart ==
    /\ At1("saveStart") /\ Done
    /\ IF record.timing = "none"
       THEN record' = [record EXCEPT !.timing = "started"] /\ UNCHANGED observed
       ELSE observed' = NoObservation /\ UNCHANGED record
    /\ UNCHANGED <<rest, tracker, monitor, refresh, log, left, excuses, trouble>>

(* progress_state goes before the older progress of the same node.         *)
Prefer ==
    /\ At1("prefer")
    /\ tracker' = [Tracked EXCEPT !.stateNodes = @ \cup {doing.snap.node}]
    /\ Then([doing EXCEPT !.op = "snap"])
    /\ UNCHANGED <<rest, record, observed, monitor, refresh, log, left, excuses, trouble>>

Legacy ==
    /\ At1("legacy")
    /\ tracker' = Tracked
    /\ IF doing.snap.node \in Tracked.stateNodes THEN Done ELSE Then([doing EXCEPT !.op = "snap"])
    /\ UNCHANGED <<rest, record, observed, monitor, refresh, log, left, excuses, trouble>>

(* _queue_progress_snapshot: a change of node flushes the old one first    *)
(* and is written at once, a change of the number only now and then.       *)
Leaves(t, s) == t.last # NoProgress /\ t.last.node # s.node
Queue ==
    /\ At1("snap") /\ tracker' = Tracked
    /\ LET s == doing.snap IN
       IF Same(Tracked.last, s) THEN Done
       ELSE IF Leaves(Tracked, s) THEN Both(Flush(TRUE), Op("moved", s, TRUE))
       ELSE Then([doing EXCEPT !.op = "moved"])
    /\ UNCHANGED <<rest, record, observed, monitor, refresh, log, left, excuses, trouble>>

Moved ==
    /\ At1("moved")
    /\ LET s == doing.snap  t == Tracked
           audit == doing.audit \/ t.last.kind # s.kind
           now == audit \/ ~t.fresh
       IN  /\ left' = IF Leaves(t, s) THEN left \cup {t.last} ELSE left
           /\ tracker' = [t EXCEPT !.last = s, !.pending = IF now THEN NoProgress ELSE s]
           /\ IF now THEN Then(Persist(s, audit)) ELSE Done
    /\ UNCHANGED <<rest, record, observed, monitor, refresh, log, excuses, trouble>>

(* _flush_pending_progress; audit says both force and audit.               *)
Overdue(force) == tracker.there /\ tracker.pending # NoProgress /\ (force \/ ~tracker.fresh)
Unaudited(force) ==
    tracker.there /\ force /\ tracker.last # NoProgress /\ ~Same(tracker.audited, tracker.last)
FlushPending ==
    /\ At1("flush")
    /\ LET force == doing.audit IN
       \/ /\ Overdue(force) /\ tracker' = [tracker EXCEPT !.pending = NoProgress]
          /\ Then(Persist(tracker.pending, force))
       \/ /\ ~Overdue(force) /\ UNCHANGED tracker
          /\ IF Unaudited(force) THEN Then(Persist(tracker.last, TRUE)) ELSE Done
    /\ UNCHANGED <<rest, record, observed, monitor, refresh, log, left, excuses, trouble>>

-----------------------------------------------------------------------------
(* _persist_progress_snapshot, for the monitor and for the refresh: what   *)
(* was seen of the row must still hold when it is written.                 *)
Seen(o) == IF o.snap = NoProgress THEN record.progress ELSE o.snap
Loaded(o) ==
    IF record.status = "ended" \/ Seen(o) = NoProgress THEN NoOp
    ELSE [op |-> "write", snap |-> Seen(o), audit |-> o.audit /\ ~Same(Tracked.audited, Seen(o)),
          status |-> record.status, attempt |-> record.attempt]

Mut_Current(o) == record.attempt = o.attempt \* an end in between goes unnoticed
Current(o) == record.status = o.status /\ record.attempt = o.attempt

Stored(o) ==
    IF Current(o)
    THEN /\ record' = [record EXCEPT !.progress = o.snap]
         /\ log' = IF o.audit THEN Append(log, o.snap) ELSE log
         /\ UNCHANGED excuses
    ELSE excuses' = excuses \cup {"refused"} /\ UNCHANGED <<record, log>>

Noted(o) == [Tracked EXCEPT !.fresh = TRUE, !.audited = IF o.audit THEN o.snap ELSE @]

Load ==
    /\ At1("load") /\ tracker' = Tracked /\ Goes(Loaded(doing))
    /\ UNCHANGED <<rest, record, observed, monitor, refresh, log, left, excuses, trouble>>
WriteRow ==
    /\ At1("write") /\ Stored(doing)
    /\ IF Current(doing) THEN Then([doing EXCEPT !.op = "note"]) ELSE Done
    /\ UNCHANGED <<rest, tracker, observed, monitor, refresh, left, trouble>>
Note ==
    /\ At1("note") /\ tracker' = Noted(doing) /\ Done
    /\ UNCHANGED <<rest, record, observed, monitor, refresh, log, left, excuses, trouble>>

(* 0.15 seconds have passed since the last write.                          *)
Elapse ==
    /\ tracker.fresh /\ tracker' = [tracker EXCEPT !.fresh = FALSE]
    /\ UNCHANGED <<rest, record, observed, ops, monitor, refresh, log, left, excuses, trouble>>

-----------------------------------------------------------------------------
(* The end.  The duration counts when the socket was observed from the     *)
(* start to the success and the history has no times of its own.           *)
History ==
    /\ At1("history")
    /\ IF position = Len(Script) THEN Both(Op("timing", NoProgress, FALSE), Op("commit", NoProgress, FALSE)) ELSE Done
    /\ UNCHANGED <<rest, record, tracker, observed, monitor, refresh, log, left, excuses, trouble>>

SaveTiming ==
    /\ At1("timing") /\ Done
    /\ record' = IF record.status = "running" /\ observed.finished THEN [record EXCEPT !.timing = "monotonic"]
                 ELSE record
    /\ UNCHANGED <<rest, tracker, observed, monitor, refresh, log, left, excuses, trouble>>

(* The result is committed, or the work given back; the monitor ends.      *)
GiveUp ==
    /\ At1("commit")
    /\ \/ record' = [record EXCEPT !.status = "ended", !.progress = NoProgress] /\ Calm
       \/ /\ record.status = "running" /\ record.timing # "monotonic" /\ Troubles
          /\ record' = [record EXCEPT !.status = "queued", !.progress = NoProgress]
    /\ Then(Op("close", NoProgress, FALSE))
    /\ UNCHANGED <<rest, tracker, observed, monitor, refresh, log, left, excuses>>

Closed ==
    /\ Both(NoOp, NoOp) /\ buffer' = << >> /\ connected' = FALSE
    /\ tracker' = NoTracker /\ observed' = NoObservation
Close ==
    /\ At1("close") /\ monitor' = "off" /\ Closed
    /\ UNCHANGED <<position, record, refresh, log, left, excuses, trouble>>

(* The next attempt is submitted and marked as running.                    *)
Again ==
    /\ record.status = "queued" /\ monitor = "off"
    /\ position' = 0 /\ connected' = TRUE /\ monitor' = "on" /\ buffer' = << >>
    /\ record' = [status |-> "running", attempt |-> record.attempt + 1,
                  progress |-> StartOf(record.attempt + 1), timing |-> "none"]
    /\ Both(Persist(NoProgress, FALSE), NoOp)
    /\ UNCHANGED <<tracker, observed, refresh, log, left, excuses, trouble>>

-----------------------------------------------------------------------------
(* Another generation of the batch has ended (_refresh_sibling_eta).       *)
Refresh ==
    /\ refresh.op = "none" /\ monitor # "down" /\ record.status = "running" /\ Troubles
    /\ refresh' = [Op("look", NoProgress, FALSE) EXCEPT !.attempt = record.attempt]
    /\ UNCHANGED <<rest, record, tracker, observed, ops, monitor, log, left, excuses>>

RefreshLook ==
    /\ refresh.op = "look" /\ tracker' = Tracked
    /\ refresh' = [refresh EXCEPT !.op = "load", !.snap = Tracked.last]
    /\ UNCHANGED <<rest, record, observed, ops, monitor, log, left, excuses, trouble>>
RefreshLoad ==
    /\ refresh.op = "load" /\ tracker' = Tracked /\ refresh' = Loaded(refresh)
    /\ excuses' = IF record.status = "queued" \/ record.attempt # refresh.attempt
                  THEN excuses \cup {"late"} ELSE excuses
    /\ UNCHANGED <<rest, record, observed, ops, monitor, log, left, trouble>>
RefreshWrite ==
    /\ refresh.op = "write" /\ Stored(refresh)
    /\ refresh' = IF Current(refresh) THEN [refresh EXCEPT !.op = "note"] ELSE NoOp
    /\ UNCHANGED <<rest, tracker, observed, ops, monitor, left, trouble>>
RefreshNote ==
    /\ refresh.op = "note" /\ tracker' = Noted(refresh) /\ refresh' = NoOp
    /\ UNCHANGED <<rest, record, observed, ops, monitor, log, left, excuses, trouble>>

CancelRequest ==
    /\ record.status = "running" /\ Troubles /\ record' = [record EXCEPT !.status = "cancel_requested"]
    /\ UNCHANGED <<rest, tracker, observed, ops, monitor, refresh, log, left, excuses>>

(* The process ends; the next one monitors the prompt again.               *)
EndProcess ==
    /\ monitor # "down" /\ Troubles /\ monitor' = "down" /\ Closed /\ refresh' = NoOp
    /\ excuses' = excuses \cup {"crash"}
    /\ UNCHANGED <<position, record, log, left>>

StartProcess ==
    /\ monitor = "down"
    /\ monitor' = IF record.status \in {"running", "cancel_requested"} THEN "on" ELSE "off"
    /\ UNCHANGED <<rest, record, tracker, observed, ops, refresh, log, left, excuses, trouble>>

Monitoring ==
    \/ Take \/ Turn \/ SaveStart \/ Prefer \/ Legacy \/ Queue \/ Moved \/ FlushPending
    \/ Load \/ WriteRow \/ Note \/ History \/ SaveTiming \/ GiveUp \/ Close
Refreshing == Refresh \/ RefreshLook \/ RefreshLoad \/ RefreshWrite \/ RefreshNote

RelayNext ==
    \/ Send \/ Disconnect \/ Reconnect \/ Monitoring \/ Elapse \/ Again
    \/ Refreshing \/ CancelRequest \/ EndProcess \/ StartProcess

RelaySpec == RelayInit /\ [][RelayNext]_relayVars

-----------------------------------------------------------------------------
(* A generation that ended shows no progress, one that waits again none    *)
(* either, and one that runs that of its own attempt, unless a refresh     *)
(* that began in the attempt before reads the row only now.                *)
OfThisAttempt ==
    /\ record.status = "ended" => record.progress = NoProgress
    /\ "late" \notin excuses =>
          IF record.status \in {"ended", "queued"} THEN record.progress = NoProgress
          ELSE record.progress.attempt = record.attempt

(* When the monitor goes on to another node the last number of the former  *)
(* is in a durable event (docs/architecture.md: node transitions and final *)
(* counters are retained), unless the row changed while it was written or  *)
(* a refresh was late: from what that wrote a tracker of this attempt may  *)
(* be made, and an equal number is then taken for one that was written.    *)
Logged(s) == \E i \in DOMAIN log : Same(log[i], s) /\ log[i].attempt = s.attempt
CountersKept == {"refused", "late"} \cap excuses = {} => \A s \in left : Logged(s)

(* While no process ends and no refresh is late, durable progress of a     *)
(* node does not go back, and once progress_state was told of a node its   *)
(* older progress is not.                                                  *)
NotBack(x, y) ==
    x.kind = "node" /\ x.node = y.node =>
        /\ y.legacy = x.legacy /\ y.kind = "node" => y.value >= x.value
        /\ y.legacy => x.legacy
NeverBack ==
    {"crash", "late"} \cap excuses = {} =>
        \A i, j \in DOMAIN log : i < j /\ log[i].attempt = log[j].attempt => NotBack(log[i], log[j])

(* All of it, and values of the state.                                     *)
ProgressTold == RelayTypeOK /\ OfThisAttempt /\ CountersKept /\ NeverBack
=============================================================================
