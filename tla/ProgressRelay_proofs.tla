------------------------- MODULE ProgressRelay_proofs -------------------------
(***************************************************************************)
(* What the application tells of progress is told rightly (ProgressTold),  *)
(* for any script of events whose numbers rise, any length of the buffer   *)
(* and any number of disconnections, ends of the process, cancellations,   *)
(* new attempts and refreshes, in any order with the steps of the monitor. *)
(*                                                                         *)
(* The invariant has one part for each way the promise could break.        *)
(* Timely: all a tracker, a write under way or a refresh holds is of the   *)
(* attempt of the row.  Counting: what the monitor is about to leave, or   *)
(* takes for written, is in the log.  TellsAhead: the events of a node that*)
(* are in the buffer or not sent yet are not behind what the tracker holds *)
(* or the log has.  Each holds until the excuse of its property happens;   *)
(* Control, Tracking and Rising hold always.                               *)
(***************************************************************************)
EXTENDS ProgressRelay, SequenceTheorems, TLAPS

-----------------------------------------------------------------------------
(* What the monitor may still do after o.                                  *)
Persisting == {"flush", "load", "write", "note"}
Comings    == {"prefer", "legacy", "snap", "moved"}
Follows(o, later) ==
    \/ later.op = "none"
    \/ later.op \in {"moved", "history"} /\ o.op \in Persisting
    \/ later.op = "snap" /\ o.op = "saveStart"
    \/ later.op = "commit" /\ o.op = "timing"

(* A thing the monitor may have to do.                                     *)
StepOK(o) ==
    /\ o.op # "look" /\ (o.op = "none" => o = NoOp)
    /\ o.op \in Comings \cup {"write", "note"} => o.snap # NoProgress
    /\ o.op \in {"prefer", "legacy"} => o.snap.kind = "node"

(* The control of the monitor, the refresh and the row, whatever happened. *)
Over == record.status \in {"queued", "ended"}
Control ==
    /\ record.attempt <= trouble + 1 /\ (record.status = "queued" => record.attempt <= trouble)
    /\ monitor = "off" => Over
    /\ monitor = "on" => (Over <=> doing.op = "close")
    /\ monitor # "on" => doing.op = "none"
    /\ monitor = "down" => tracker = NoTracker /\ refresh.op = "none" /\ "crash" \in excuses
    /\ Follows(doing, after) /\ StepOK(doing) /\ StepOK(after)
    /\ refresh.op \in {"none", "look", "load", "write", "note"} /\ ~refresh.audit
    /\ refresh.attempt <= record.attempt
    /\ refresh.op = "write" => refresh.status # "ended"
    /\ refresh.op \in {"write", "note"} => refresh.snap # NoProgress
    /\ record.status = "ended" => record.progress = NoProgress

(* The tracker and what is written of it.                                  *)
Tracking ==
    /\ ~tracker.there => tracker = NoTracker
    /\ tracker.pending \in {NoProgress, tracker.last}
    /\ doing.op \in {"write", "note", "moved"} \/ after.op = "moved" => tracker.there
    /\ doing.op = "load" /\ doing.snap # NoProgress => tracker.there /\ doing.snap = tracker.last
    /\ doing.op = "load" /\ doing.audit => doing.snap # NoProgress
    /\ doing.op \in {"write", "note"} /\ (doing.audit \/ after.op = "moved") => doing.snap = tracker.last
    /\ after.op = "moved" =>
          /\ tracker.last # NoProgress
          /\ doing.op = "flush" => doing.audit
          /\ doing.op = "load" => doing.audit

(* Unless a refresh was late: everything is of the attempt of the row.     *)
OfRow(s) == s = NoProgress \/ s.attempt = record.attempt
Timely ==
    /\ IF Over THEN record.progress = NoProgress ELSE record.progress.attempt = record.attempt
    /\ OfRow(tracker.last) /\ OfRow(tracker.audited) /\ OfRow(doing.snap) /\ OfRow(after.snap)
    /\ monitor = "off" =>
          tracker.last = NoProgress /\ tracker.audited = NoProgress /\ tracker.stateNodes = {}
    /\ refresh.op \in {"load", "write", "note"} /\ refresh.attempt = record.attempt => OfRow(refresh.snap)
    /\ refresh.op = "write" => refresh.status # "queued"
    /\ \A i \in DOMAIN log : log[i].attempt <= record.attempt

(* Unless a write was refused as well: what is left is in the log.         *)
Counting ==
    /\ \A s \in left : Logged(s)
    /\ tracker.audited # NoProgress => Logged(tracker.audited)
    /\ doing.op = "note" /\ doing.audit => Logged(doing.snap)
    /\ doing.op = "moved" /\ Leaves(tracker, doing.snap) => Logged(tracker.last)
    /\ doing.op = "note" /\ after.op = "moved" => Logged(tracker.last)
    /\ doing.op = "write" /\ after.op = "moved" => doing.audit \/ Logged(tracker.last)

(* The numbers the buffer holds and those still to be sent rise.           *)
Rising ==
    /\ \A i, j \in DOMAIN buffer : i < j => Rises(buffer[i], buffer[j])
    /\ \A i \in DOMAIN buffer, k \in position + 1 .. Len(Script) : Rises(buffer[i], Script[k])

(* Unless the process ended or a refresh was late: what is still to come of*)
(* a node is not behind what the tracker holds (t) and what was told.      *)
Upcoming == {buffer[i] : i \in DOMAIN buffer} \cup {Script[k] : k \in position + 1 .. Len(Script)}
Told     == {log[i] : i \in {j \in DOMAIN log : log[j].attempt = record.attempt}}
KindOf(x) == IF x.legacy THEN "progress" ELSE "progress_state"
Ahead(x, coming) == \A e \in coming : e.node = x.node /\ e.kind = KindOf(x) => x.value <= e.value
Before(x, y) == x.kind = "node" /\ y.kind = "node" /\ x.node = y.node /\ x.legacy = y.legacy => x.value <= y.value
Preferred(x, nodes) == ~x.legacy => x.node \in nodes

InTurn(o, t, told, coming) ==
    o.op \in Comings /\ o.snap.kind = "node" =>
        /\ Ahead(o.snap, coming) /\ Before(t.last, o.snap) /\ \A x \in told : Before(x, o.snap)
        /\ o.op = "prefer" => ~o.snap.legacy
        /\ o.op = "legacy" => o.snap.legacy
        /\ o.op \in {"snap", "moved"} => (o.snap.legacy <=> o.snap.node \notin t.stateNodes)
LastInTurn(t, told, coming) ==
    /\ t.last.kind = "node" => Ahead(t.last, coming) /\ Preferred(t.last, t.stateNodes)
    /\ \A x \in told : t.there /\ NotBack(x, t.last)
    /\ \A x \in told : x.kind = "node" => Ahead(x, coming) /\ Preferred(x, t.stateNodes)
TellsAhead ==
    /\ monitor = "on" =>
          /\ ~tracker.there => record.progress.kind # "node"
          /\ refresh.op \in {"load", "write"} /\ refresh.attempt = record.attempt => tracker.there
          /\ LastInTurn(tracker, Told, Upcoming)
    /\ InTurn(doing, tracker, Told, Upcoming) /\ InTurn(after, tracker, Told, Upcoming)

RelayInv ==
    /\ RelayTypeOK /\ Control /\ Tracking /\ Rising
    /\ "late" \notin excuses =>
          /\ Timely
          /\ "refused" \notin excuses => Counting
          /\ "crash" \notin excuses => TellsAhead /\ NeverBack
LEMMA SnapFacts ==
    /\ NoProgress \in Snapshots
    /\ \A s \in Snapshots : /\ s.kind \in {"none", "indeterminate", "node"} /\ s.legacy \in BOOLEAN /\ s.value \in Nat
                            /\ s.attempt \in Attempts \cup {0}
                            /\ s.node \in Nodes \cup {NoNode}
                            /\ s.kind = "none" <=> s = NoProgress
                            /\ s.kind # "node" => ~s.legacy
                            /\ s.kind = "node" => s.node \in Nodes
                            /\ s # NoProgress => s.attempt \in Attempts
    /\ \A n \in Attempts : StartOf(n) \in Snapshots \ {NoProgress} /\ StartOf(n).attempt = n /\ StartOf(n).kind = "indeterminate"
  <1>1. NoProgress \in Snapshots BY DEF Snapshots
  <1>3. ASSUME NEW s \in Snapshots
        PROVE  /\ s.kind \in {"none", "indeterminate", "node"} /\ s.legacy \in BOOLEAN /\ s.value \in Nat
               /\ s.attempt \in Attempts \cup {0} /\ s.node \in Nodes \cup {NoNode}
               /\ s.kind = "none" <=> s = NoProgress
               /\ s.kind # "node" => ~s.legacy
               /\ s.kind = "node" => s.node \in Nodes
               /\ s # NoProgress => s.attempt \in Attempts
    <2>1. CASE s = NoProgress BY <2>1 DEF NoProgress
    <2>2. CASE s \in [kind : {"indeterminate"}, node : Nodes \cup {NoNode}, value : {0}, legacy : {FALSE}, attempt : Attempts]
      <3>1. s.kind = "indeterminate" /\ s.node \in Nodes \cup {NoNode} /\ s.value = 0 /\ s.attempt \in Attempts
        BY <2>2
      <3>2. s.legacy \in {FALSE} BY <2>2
      <3>3. s.legacy = FALSE BY <3>2, Zenon
      <3>4. s # NoProgress BY <3>1 DEF NoProgress
      <3>5. s.legacy \in BOOLEAN /\ ~s.legacy BY <3>3, Zenon
      <3>. QED BY <3>1, <3>4, <3>5
    <2>3. CASE s \in [kind : {"node"}, node : Nodes, value : Nat, legacy : BOOLEAN, attempt : Attempts]
      BY <2>3 DEF NoProgress
    <2>. QED BY <2>1, <2>2, <2>3 DEF Snapshots
  <1>4. ASSUME NEW n \in Attempts
        PROVE  /\ StartOf(n) \in Snapshots \ {NoProgress} /\ StartOf(n).attempt = n
               /\ StartOf(n).kind = "indeterminate"
    BY DEF StartOf, Snapshots, NoProgress
  <1>. QED BY <1>1, <1>3, <1>4

LEMMA ScriptIs ==
    /\ Len(Script) \in Nat /\ DOMAIN Script = 1 .. Len(Script)
    /\ \A i \in DOMAIN Script : Script[i] \in Messages
    /\ \A e \in Messages : e.value \in Nat /\ e.node \in Nodes
  BY ScriptAssumption DEF Messages, Nodes

LEMMA StepsAre ==
    /\ NoOp \in RelaySteps /\ NoTracker \in Trackers /\ NoObservation \in Observations
    /\ Flush(TRUE) \in RelaySteps /\ Flush(FALSE) \in RelaySteps
    /\ Op("saveStart", NoProgress, FALSE) \in RelaySteps /\ Op("history", NoProgress, FALSE) \in RelaySteps
    /\ Op("timing", NoProgress, FALSE) \in RelaySteps /\ Op("commit", NoProgress, FALSE) \in RelaySteps
    /\ Op("close", NoProgress, FALSE) \in RelaySteps /\ Persist(NoProgress, FALSE) \in RelaySteps
    /\ \A s \in Snapshots : /\ Op("moved", s, TRUE) \in RelaySteps /\ Persist(s, TRUE) \in RelaySteps
                            /\ Op("snap", s, TRUE) \in RelaySteps /\ Op("prefer", s, FALSE) \in RelaySteps
                            /\ Op("legacy", s, FALSE) \in RelaySteps
    /\ \A o \in RelaySteps, n \in RelayOps : [o EXCEPT !.op = n] \in RelaySteps
    /\ \A o \in RelaySteps : /\ o.snap \in Snapshots /\ o.audit \in BOOLEAN /\ o.status \in RowStatuses \cup {"none"}
                             /\ o.attempt \in Attempts \cup {0} /\ o.op \in RelayOps
  <1>1. NoProgress \in Snapshots BY SnapFacts
  <1>2. NoTracker \in Trackers BY <1>1 DEF NoTracker, Trackers
  <1>3. NoObservation \in Observations BY DEF NoObservation, Observations
  <1>4. /\ NoOp \in RelaySteps /\ Flush(TRUE) \in RelaySteps /\ Flush(FALSE) \in RelaySteps
        /\ Op("saveStart", NoProgress, FALSE) \in RelaySteps /\ Op("history", NoProgress, FALSE) \in RelaySteps
        /\ Op("timing", NoProgress, FALSE) \in RelaySteps /\ Op("commit", NoProgress, FALSE) \in RelaySteps
        /\ Op("close", NoProgress, FALSE) \in RelaySteps /\ Persist(NoProgress, FALSE) \in RelaySteps
    BY <1>1 DEF NoOp, Flush, Persist, Op, RelaySteps, RelayOps, RowStatuses
  <1>5. \A s \in Snapshots : /\ Op("moved", s, TRUE) \in RelaySteps /\ Persist(s, TRUE) \in RelaySteps
                             /\ Op("snap", s, TRUE) \in RelaySteps /\ Op("prefer", s, FALSE) \in RelaySteps
                             /\ Op("legacy", s, FALSE) \in RelaySteps
    BY DEF Persist, Op, RelaySteps, RelayOps, RowStatuses
  <1>6. \A o \in RelaySteps, n \in RelayOps : [o EXCEPT !.op = n] \in RelaySteps BY DEF RelaySteps
  <1>7. \A o \in RelaySteps : /\ o.snap \in Snapshots /\ o.audit \in BOOLEAN /\ o.status \in RowStatuses \cup {"none"}
                              /\ o.attempt \in Attempts \cup {0} /\ o.op \in RelayOps
    BY DEF RelaySteps
  <1>. QED BY <1>1, <1>2, <1>3, <1>4, <1>5, <1>6, <1>7

LEMMA TrackedIs ==
    ASSUME RelayTypeOK
    PROVE  /\ Tracked \in Trackers /\ Tracked.there
           /\ tracker.there => Tracked = tracker
           /\ ~tracker.there => /\ Tracked.last = record.progress /\ Tracked.pending = NoProgress
                                /\ Tracked.audited = NoProgress /\ Tracked.stateNodes = {} /\ ~Tracked.fresh
  BY SnapFacts DEF RelayTypeOK, Tracked, NoTracker, Trackers

LEMMA TrackersAre ==
    \A t \in Trackers : /\ t.last \in Snapshots /\ t.pending \in Snapshots /\ t.audited \in Snapshots
                        /\ t.there \in BOOLEAN /\ t.fresh \in BOOLEAN /\ t.stateNodes \subseteq Nodes
  BY DEF Trackers

LEMMA AskedIs ==
    ASSUME RelayTypeOK, NEW e \in Messages
    PROVE  Asked(e) \in RelaySteps
  <1>1. record.attempt \in Attempts BY DEF RelayTypeOK
  <1>2. Snapshot("indeterminate", NoNode, 0, FALSE) \in Snapshots /\ Snapshot("indeterminate", e.node, 0, FALSE) \in Snapshots
    BY <1>1, ScriptIs DEF Snapshot, Snapshots
  <1>3. Snapshot("node", e.node, e.value, TRUE) \in Snapshots /\ Snapshot("node", e.node, e.value, FALSE) \in Snapshots
    BY <1>1, ScriptIs DEF Snapshot, Snapshots
  <1>. QED BY <1>2, <1>3, StepsAre DEF Asked

LEMMA TroubleGrows == ASSUME RelayTypeOK, Troubles PROVE trouble' \in 0 .. MaxTrouble /\ trouble' = trouble + 1
  BY BoundsAssumption DEF RelayTypeOK, Troubles

LEMMA LoadedIs ==
    ASSUME RelayTypeOK, NEW o \in RelaySteps
    PROVE  /\ Loaded(o) \in RelaySteps
           /\ Loaded(o) = NoOp <=> record.status = "ended" \/ Seen(o) = NoProgress
           /\ Loaded(o) # NoOp => /\ Loaded(o).op = "write" /\ Loaded(o).snap = Seen(o)
                                  /\ Loaded(o).audit <=> o.audit /\ ~Same(Tracked.audited, Seen(o))
                                  /\ Loaded(o).status = record.status /\ Loaded(o).attempt = record.attempt
  <1>1. Seen(o) \in Snapshots /\ o.audit \in BOOLEAN /\ record.status \in RowStatuses /\ record.attempt \in Attempts
    BY StepsAre DEF Seen, RelayTypeOK
  <1>2. NoOp.op = "none" BY DEF NoOp, Op
  <1>3. CASE record.status = "ended" \/ Seen(o) = NoProgress
    BY <1>3, <1>2, StepsAre DEF Loaded
  <1>4. CASE ~(record.status = "ended" \/ Seen(o) = NoProgress)
    <2>. DEFINE w == [op |-> "write", snap |-> Seen(o), audit |-> o.audit /\ ~Same(Tracked.audited, Seen(o)),
                      status |-> record.status, attempt |-> record.attempt]
    <2>1. Loaded(o) = w BY <1>4 DEF Loaded
    <2>2. w \in RelaySteps BY <1>1 DEF RelaySteps, RelayOps
    <2>3. w # NoOp BY <1>2
    <2>4. w.audit <=> o.audit /\ ~Same(Tracked.audited, Seen(o)) OBVIOUS
    <2>5. w.op = "write" /\ w.snap = Seen(o) /\ w.status = record.status /\ w.attempt = record.attempt OBVIOUS
    <2>. HIDE DEF w
    <2>. QED BY <1>4, <2>1, <2>2, <2>3, <2>4, <2>5
  <1>. QED BY <1>3, <1>4

LEMMA StoredTypes ==
    ASSUME RelayTypeOK, NEW o \in RelaySteps, o.snap # NoProgress, Stored(o)
    PROVE  /\ record' \in [status : RowStatuses, attempt : Attempts, progress : Snapshots,
                           timing : {"none", "started", "monotonic"}]
           /\ log' \in Seq(Snapshots \ {NoProgress}) /\ excuses' \subseteq {"refused", "late", "crash"}
  <1>1. o.snap \in Snapshots \ {NoProgress} BY StepsAre
  <1>2. record' \in [status : RowStatuses, attempt : Attempts, progress : Snapshots,
                     timing : {"none", "started", "monotonic"}]
    BY <1>1 DEF Stored, RelayTypeOK
  <1>3. log' \in Seq(Snapshots \ {NoProgress})
    <2>1. log \in Seq(Snapshots \ {NoProgress}) BY DEF RelayTypeOK
    <2>2. log' = log \/ log' = Append(log, o.snap) BY DEF Stored
    <2>. QED BY <1>1, <2>1, <2>2
  <1>4. excuses' \subseteq {"refused", "late", "crash"} BY DEF Stored, RelayTypeOK
  <1>. QED BY <1>2, <1>3, <1>4

LEMMA NotedIs ==
    ASSUME RelayTypeOK, NEW o \in RelaySteps
    PROVE  /\ Noted(o) \in Trackers /\ Noted(o).there
           /\ Noted(o).last = Tracked.last /\ Noted(o).pending = Tracked.pending
           /\ Noted(o).stateNodes = Tracked.stateNodes
           /\ Noted(o).audited = IF o.audit THEN o.snap ELSE Tracked.audited
  <1>1. Tracked \in Trackers /\ Tracked.there /\ o.snap \in Snapshots BY TrackedIs, StepsAre
  <1>. QED BY <1>1 DEF Noted, Trackers

-----------------------------------------------------------------------------
LEMMA InitTypes == RelayInit => RelayTypeOK
  <1>. SUFFICES ASSUME RelayInit PROVE RelayTypeOK OBVIOUS
  <1>1. 1 \in Attempts BY BoundsAssumption DEF Attempts
  <1>2. record \in [status : RowStatuses, attempt : Attempts, progress : Snapshots,
                    timing : {"none", "started", "monotonic"}]
    BY <1>1, SnapFacts DEF RelayInit, RowStatuses
  <1>3. buffer \in Seq(Messages) /\ Len(buffer) <= Room /\ log \in Seq(Snapshots \ {NoProgress})
    BY BoundsAssumption DEF RelayInit
  <1>4. position \in 0 .. Len(Script) /\ trouble \in 0 .. MaxTrouble BY ScriptIs, BoundsAssumption DEF RelayInit
  <1>5. doing \in RelaySteps /\ after \in RelaySteps /\ refresh \in RelaySteps BY StepsAre DEF RelayInit
  <1>6. tracker \in Trackers /\ observed \in Observations BY StepsAre DEF RelayInit
  <1>. QED BY <1>2, <1>3, <1>4, <1>5, <1>6 DEF RelayInit, RelayTypeOK

LEMMA SocketTypes ==
    ASSUME RelayTypeOK, Control, Send \/ Disconnect \/ Reconnect
    PROVE  RelayTypeOK'
  <1>1. CASE Send
    <2>1. position + 1 \in DOMAIN Script BY <1>1, ScriptIs DEF Send, RelayTypeOK
    <2>2. buffer' \in Seq(Messages) /\ Len(buffer') <= Room
      BY <1>1, <2>1, ScriptIs, BoundsAssumption DEF Send, RelayTypeOK
    <2>. QED BY <1>1, <2>1, <2>2, ScriptIs DEF Send, RelayTypeOK, ops
  <1>2. CASE Disconnect
    BY <1>2, TroubleGrows, StepsAre DEF Disconnect, RelayTypeOK, ops
  <1>3. CASE Reconnect
    <2>1. Script[1] \in Messages BY ScriptIs, ScriptAssumption
    <2>2. buffer' \in Seq(Messages) /\ Len(buffer') <= Room
      BY <1>3, <2>1, BoundsAssumption DEF Reconnect, RelayTypeOK
    <2>. QED BY <1>3, <2>2 DEF Reconnect, RelayTypeOK, ops
  <1>. QED BY <1>1, <1>2, <1>3

LEMMA TakeTypes == ASSUME RelayTypeOK, Control, Take PROVE RelayTypeOK'
  <1>1. Head(buffer) \in Messages /\ Tail(buffer) \in Seq(Messages) /\ Len(Tail(buffer)) <= Room
    BY BoundsAssumption DEF Take, RelayTypeOK
  <1>2. Observed(Head(buffer)) \in Observations
    BY DEF Observed, RelayTypeOK, NoObservation, Observations
  <1>3. doing' \in RelaySteps /\ after' \in RelaySteps
    BY <1>1, AskedIs, StepsAre DEF Take, Both
  <1>. QED BY <1>1, <1>2, <1>3 DEF Take, RelayTypeOK

LEMMA TurnTypes ==
    ASSUME RelayTypeOK, Control, Turn \/ History \/ SaveStart \/ SaveTiming PROVE RelayTypeOK'
  <1>0. after \in RelaySteps BY DEF RelayTypeOK
  <1>1. doing' \in RelaySteps /\ after' \in RelaySteps
    BY <1>0, StepsAre DEF Turn, History, SaveStart, SaveTiming, Both, Done
  <1>2. record' \in [status : RowStatuses, attempt : Attempts, progress : Snapshots,
                     timing : {"none", "started", "monotonic"}]
    BY DEF RelayTypeOK, Turn, History, SaveStart, SaveTiming
  <1>3. observed' \in Observations BY StepsAre DEF RelayTypeOK, Turn, History, SaveStart, SaveTiming
  <1>. QED BY <1>1, <1>2, <1>3 DEF RelayTypeOK, Turn, History, SaveStart, SaveTiming, rest

LEMMA TellTypes == ASSUME RelayTypeOK, Control, Prefer \/ Legacy \/ Queue \/ Moved PROVE RelayTypeOK'
  <1>0. doing \in RelaySteps /\ after \in RelaySteps /\ doing.snap \in Snapshots /\ doing.audit \in BOOLEAN
    BY StepsAre DEF RelayTypeOK
  <1>1. [doing EXCEPT !.op = "snap"] \in RelaySteps /\ [doing EXCEPT !.op = "moved"] \in RelaySteps
    BY <1>0, StepsAre DEF RelayOps
  <1>2. CASE Prefer
    <2>1. doing.snap.node \in Nodes
      <3>1. doing.op = "prefer" BY <1>2 DEF Prefer, At1
      <3>2. doing.snap.kind = "node" BY <3>1 DEF Control, StepOK
      <3>. QED BY <1>0, <3>2, SnapFacts
    <2>2. tracker' \in Trackers BY <1>2, <2>1, TrackedIs DEF Prefer, Trackers
    <2>. QED BY <1>0, <1>1, <1>2, <2>2 DEF Prefer, RelayTypeOK, Then, rest
  <1>3. CASE Legacy
    <2>1. doing' \in RelaySteps /\ after' \in RelaySteps BY <1>0, <1>1, <1>3, StepsAre DEF Legacy, Then, Done
    <2>. QED BY <1>3, <2>1, TrackedIs DEF Legacy, RelayTypeOK, rest
  <1>4. CASE Queue
    <2>1. doing' \in RelaySteps /\ after' \in RelaySteps
      BY <1>0, <1>1, <1>4, StepsAre DEF Queue, Then, Done, Both
    <2>. QED BY <1>4, <2>1, TrackedIs DEF Queue, RelayTypeOK, rest
  <1>5. CASE Moved
    <2>1. doing' \in RelaySteps /\ after' \in RelaySteps
      <3>. DEFINE audit == doing.audit \/ Tracked.last.kind # doing.snap.kind
      <3>1. Persist(doing.snap, audit) \in RelaySteps
        BY <1>0 DEF Persist, Op, RelaySteps, RelayOps, RowStatuses
      <3>2. (doing' = Persist(doing.snap, audit) /\ after' = after) \/ (doing' = after /\ after' = NoOp)
        BY <1>5 DEF Moved, Then, Done
      <3>. QED BY <1>0, <3>1, <3>2, StepsAre
    <2>2. left' \subseteq Snapshots \ {NoProgress}
      BY <1>5, TrackedIs, TrackersAre DEF Moved, RelayTypeOK, Leaves
    <2>3. tracker' \in Trackers
      BY <1>0, <1>5, TrackedIs, SnapFacts DEF Moved, Trackers
    <2>. QED BY <1>5, <2>1, <2>2, <2>3 DEF Moved, RelayTypeOK, rest
  <1>. QED BY <1>2, <1>3, <1>4, <1>5

LEMMA PersistTypes == ASSUME RelayTypeOK, Control, FlushPending \/ Load \/ WriteRow \/ Note PROVE RelayTypeOK'
  <1>0. doing \in RelaySteps /\ after \in RelaySteps /\ doing.snap \in Snapshots /\ doing.audit \in BOOLEAN
    BY StepsAre DEF RelayTypeOK
  <1>1. CASE FlushPending
    <2>1. doing' \in RelaySteps /\ after' \in RelaySteps
      <3>1. Persist(tracker.pending, doing.audit) \in RelaySteps /\ Persist(tracker.last, TRUE) \in RelaySteps
        BY <1>0, TrackersAre DEF RelayTypeOK, Persist, Op, RelaySteps, RelayOps, RowStatuses
      <3>. QED BY <1>0, <1>1, <3>1, StepsAre DEF FlushPending, Then, Done
    <2>2. tracker \in Trackers /\ [tracker EXCEPT !.pending = NoProgress] \in Trackers
      BY SnapFacts DEF RelayTypeOK, Trackers
    <2>3. tracker' \in Trackers BY <1>1, <2>2 DEF FlushPending
    <2>. QED BY <1>1, <2>1, <2>3 DEF FlushPending, RelayTypeOK, rest
  <1>2. CASE Load
    <2>1. Loaded(doing) \in RelaySteps BY <1>0, LoadedIs
    <2>2. doing' \in RelaySteps /\ after' \in RelaySteps BY <1>0, <1>2, <2>1, StepsAre DEF Load, Goes, Then, Done
    <2>. QED BY <1>2, <2>2, TrackedIs DEF Load, RelayTypeOK, rest
  <1>3. CASE WriteRow
    <2>1. doing' \in RelaySteps /\ after' \in RelaySteps
      BY <1>0, <1>3, StepsAre DEF WriteRow, Then, Done, RelayOps
    <2>2. doing.snap # NoProgress BY <1>3 DEF WriteRow, At1, Control, StepOK
    <2>. QED BY <1>0, <1>3, <2>1, <2>2, StoredTypes DEF WriteRow, RelayTypeOK, rest
  <1>4. CASE Note
    <2>1. Noted(doing) \in Trackers BY <1>0, NotedIs
    <2>. QED BY <1>0, <1>4, <2>1, StepsAre DEF Note, RelayTypeOK, Done, rest
  <1>. QED BY <1>1, <1>2, <1>3, <1>4

LEMMA EndTypes ==
    ASSUME RelayTypeOK, Control, Elapse \/ GiveUp \/ Close \/ Again \/ CancelRequest \/ EndProcess \/ StartProcess
    PROVE  RelayTypeOK'
  <1>1. CASE Elapse
    <2>1. tracker' \in Trackers BY <1>1 DEF Elapse, RelayTypeOK, Trackers
    <2>. QED BY <1>1, <2>1 DEF Elapse, RelayTypeOK, rest, ops
  <1>2. CASE GiveUp
    <2>1. record' \in [status : RowStatuses, attempt : Attempts, progress : Snapshots,
                       timing : {"none", "started", "monotonic"}]
      <3>. DEFINE Put(s) == [record EXCEPT !.status = s, !.progress = NoProgress]
      <3>1. \A s \in RowStatuses : Put(s) \in [status : RowStatuses, attempt : Attempts, progress : Snapshots,
                                                timing : {"none", "started", "monotonic"}]
        BY SnapFacts DEF RelayTypeOK
      <3>2. record' = Put("ended") \/ record' = Put("queued") BY <1>2 DEF GiveUp
      <3>. HIDE DEF Put
      <3>. QED BY <3>1, <3>2 DEF RowStatuses
    <2>2. trouble' \in 0 .. MaxTrouble BY <1>2, TroubleGrows DEF GiveUp, Calm, RelayTypeOK
    <2>. QED BY <1>2, <2>1, <2>2, StepsAre DEF GiveUp, RelayTypeOK, rest, Then
  <1>3. CASE Close
    <2>1. buffer' \in Seq(Messages) /\ Len(buffer') <= Room BY <1>3, BoundsAssumption DEF Close, Closed
    <2>. QED BY <1>3, <2>1, StepsAre DEF Close, Closed, Both, RelayTypeOK
  <1>4. CASE Again
    <2>1. record.attempt + 1 \in Attempts
      BY <1>4, BoundsAssumption DEF Again, Control, RelayTypeOK, Attempts
    <2>2. record' \in [status : RowStatuses, attempt : Attempts, progress : Snapshots,
                       timing : {"none", "started", "monotonic"}]
      BY <1>4, <2>1, SnapFacts DEF Again, RowStatuses
    <2>3. buffer' \in Seq(Messages) /\ Len(buffer') <= Room /\ position' \in 0 .. Len(Script)
      BY <1>4, ScriptIs, BoundsAssumption DEF Again
    <2>. QED BY <1>4, <2>2, <2>3, StepsAre DEF Again, Both, RelayTypeOK
  <1>5. CASE CancelRequest
    <2>1. record' \in [status : RowStatuses, attempt : Attempts, progress : Snapshots,
                       timing : {"none", "started", "monotonic"}]
      BY <1>5 DEF CancelRequest, RelayTypeOK, RowStatuses
    <2>. QED BY <1>5, <2>1, TroubleGrows DEF CancelRequest, RelayTypeOK, rest, ops
  <1>6. CASE EndProcess
    <2>1. buffer' \in Seq(Messages) /\ Len(buffer') <= Room BY <1>6, BoundsAssumption DEF EndProcess, Closed
    <2>. QED BY <1>6, <2>1, StepsAre, TroubleGrows DEF EndProcess, Closed, Both, RelayTypeOK
  <1>7. CASE StartProcess
    BY <1>7 DEF StartProcess, RelayTypeOK, rest, ops
  <1>. QED BY <1>1, <1>2, <1>3, <1>4, <1>5, <1>6, <1>7

LEMMA RefreshTypes == ASSUME RelayTypeOK, Control, Refreshing PROVE RelayTypeOK'
  <1>0. refresh \in RelaySteps /\ refresh.snap \in Snapshots /\ refresh.audit \in BOOLEAN
    BY StepsAre DEF RelayTypeOK
  <1>1. CASE Refresh
    <2>1. refresh' \in RelaySteps
      BY <1>1, SnapFacts DEF Refresh, RelayTypeOK, Op, RelaySteps, RelayOps, RowStatuses
    <2>. QED BY <1>1, <2>1, TroubleGrows DEF Refresh, RelayTypeOK, rest, ops
  <1>2. CASE RefreshLook
    <2>1. refresh' \in RelaySteps
      BY <1>0, <1>2, TrackedIs, TrackersAre DEF RefreshLook, RelaySteps, RelayOps
    <2>. QED BY <1>2, <2>1, TrackedIs DEF RefreshLook, RelayTypeOK, rest, ops
  <1>3. CASE RefreshLoad
    <2>1. Loaded(refresh) \in RelaySteps BY <1>0, LoadedIs
    <2>2. excuses' \subseteq {"refused", "late", "crash"} BY <1>3 DEF RefreshLoad, RelayTypeOK
    <2>. QED BY <1>3, <2>1, <2>2, TrackedIs DEF RefreshLoad, RelayTypeOK, rest, ops
  <1>4. CASE RefreshWrite
    <2>1. refresh' \in RelaySteps BY <1>0, <1>4, StepsAre DEF RefreshWrite, RelayOps
    <2>2. refresh.snap # NoProgress BY <1>4 DEF RefreshWrite, Control
    <2>. QED BY <1>0, <1>4, <2>1, <2>2, StoredTypes DEF RefreshWrite, RelayTypeOK, rest, ops
  <1>5. CASE RefreshNote
    <2>1. Noted(refresh) \in Trackers BY <1>0, NotedIs
    <2>. QED BY <1>5, <2>1, StepsAre DEF RefreshNote, RelayTypeOK, rest, ops
  <1>. QED BY <1>1, <1>2, <1>3, <1>4, <1>5 DEF Refreshing

-----------------------------------------------------------------------------
LEMMA StepFacts ==
    /\ NoOp.op = "none" /\ NoOp.snap = NoProgress /\ StepOK(NoOp)
    /\ Flush(TRUE).op = "flush" /\ Flush(FALSE).op = "flush" /\ Flush(TRUE).audit = TRUE
    /\ Flush(TRUE).snap = NoProgress /\ Flush(FALSE).snap = NoProgress
    /\ \A n \in {"saveStart", "history", "timing", "commit", "close"} :
          Op(n, NoProgress, FALSE).op = n /\ Op(n, NoProgress, FALSE).snap = NoProgress
    /\ \A s : /\ Op("moved", s, TRUE).op = "moved" /\ Op("moved", s, TRUE).snap = s
              /\ Persist(s, TRUE).op = "load" /\ Persist(s, TRUE).snap = s /\ Persist(s, TRUE).audit = TRUE
              /\ Persist(s, FALSE).op = "load" /\ Persist(s, FALSE).snap = s /\ Persist(s, FALSE).audit = FALSE
    /\ \A o \in RelaySteps, n \in RelayOps :
          [o EXCEPT !.op = n].op = n /\ [o EXCEPT !.op = n].snap = o.snap /\ [o EXCEPT !.op = n].audit = o.audit
    /\ StepOK(Flush(TRUE)) /\ StepOK(Flush(FALSE))
    /\ \A n \in {"saveStart", "history", "timing", "commit", "close"} : StepOK(Op(n, NoProgress, FALSE))
    /\ \A s : /\ s # NoProgress => StepOK(Op("moved", s, TRUE))
              /\ StepOK(Persist(s, TRUE)) /\ StepOK(Persist(s, FALSE))
    /\ \A o \in RelaySteps : StepOK(o) /\ o.snap # NoProgress =>
          /\ StepOK([o EXCEPT !.op = "snap"]) /\ StepOK([o EXCEPT !.op = "moved"])
          /\ StepOK([o EXCEPT !.op = "note"])
  <1>1. NoOp.op = "none" /\ NoOp.snap = NoProgress /\ StepOK(NoOp) BY DEF NoOp, Op, StepOK, Comings
  <1>2. /\ Flush(TRUE).op = "flush" /\ Flush(FALSE).op = "flush" /\ Flush(TRUE).audit = TRUE
        /\ Flush(TRUE).snap = NoProgress /\ Flush(FALSE).snap = NoProgress
    BY DEF Flush, Op
  <1>3. \A n \in {"saveStart", "history", "timing", "commit", "close"} :
          Op(n, NoProgress, FALSE).op = n /\ Op(n, NoProgress, FALSE).snap = NoProgress
    BY DEF Op
  <1>4. \A s : /\ Op("moved", s, TRUE).op = "moved" /\ Op("moved", s, TRUE).snap = s
               /\ Persist(s, TRUE).op = "load" /\ Persist(s, TRUE).snap = s /\ Persist(s, TRUE).audit = TRUE
               /\ Persist(s, FALSE).op = "load" /\ Persist(s, FALSE).snap = s /\ Persist(s, FALSE).audit = FALSE
    BY DEF Op, Persist
  <1>5. \A o \in RelaySteps, n \in RelayOps :
          [o EXCEPT !.op = n].op = n /\ [o EXCEPT !.op = n].snap = o.snap /\ [o EXCEPT !.op = n].audit = o.audit
    BY DEF RelaySteps
  <1>6. StepOK(Flush(TRUE)) /\ StepOK(Flush(FALSE)) BY DEF Flush, Op, StepOK, Comings
  <1>7. \A n \in {"saveStart", "history", "timing", "commit", "close"} : StepOK(Op(n, NoProgress, FALSE))
    BY DEF Op, StepOK, Comings
  <1>8. \A s : /\ s # NoProgress => StepOK(Op("moved", s, TRUE))
               /\ StepOK(Persist(s, TRUE)) /\ StepOK(Persist(s, FALSE))
    BY DEF Op, Persist, StepOK, Comings
  <1>9. \A o \in RelaySteps : StepOK(o) /\ o.snap # NoProgress =>
          /\ StepOK([o EXCEPT !.op = "snap"]) /\ StepOK([o EXCEPT !.op = "moved"])
          /\ StepOK([o EXCEPT !.op = "note"])
    BY <1>5 DEF StepOK, Comings, RelayOps
  <1>. QED BY <1>1, <1>2, <1>3, <1>4, <1>5, <1>6, <1>7, <1>8, <1>9

(* What the monitor has to do after the thing it is doing.                 *)
LEMMA AfterIs ==
    ASSUME Control
    PROVE  /\ doing.op \notin Persisting \cup {"saveStart", "timing"} => after = NoOp
           /\ doing.op \in Persisting => after = NoOp \/ after.op \in {"moved", "history"}
           /\ doing.op = "saveStart" => after = NoOp \/ after.op = "snap"
           /\ doing.op = "timing" => after = NoOp \/ after.op = "commit"
           /\ after.op \in {"moved", "history"} => doing.op \in Persisting
  BY DEF Control, Follows, StepOK, Persisting

LEMMA AskedFacts ==
    ASSUME RelayTypeOK, NEW e \in Messages
    PROVE  /\ Asked(e).op \in {"snap", "prefer", "legacy", "flush", "none"} /\ StepOK(Asked(e))
           /\ OfRow(Asked(e).snap)
           /\ e.kind = "execution_start" => Asked(e).op = "snap"
           /\ Asked(e).op \in Comings /\ Asked(e).snap.kind = "node" =>
                 /\ e.kind = KindOf(Asked(e).snap) /\ e.node = Asked(e).snap.node /\ e.value = Asked(e).snap.value
                 /\ Asked(e).op = IF Asked(e).snap.legacy THEN "legacy" ELSE "prefer"
  <1>. USE DEF StepOK, OfRow, Comings, KindOf
  <1>0. record.attempt \in Attempts BY DEF RelayTypeOK
  <1>1. CASE e.kind = "execution_start" BY <1>1, <1>0 DEF Asked, Op, Snapshot, NoProgress
  <1>2. CASE e.kind = "executing" BY <1>2, <1>0 DEF Asked, Op, Snapshot, NoProgress
  <1>3. CASE e.kind = "progress_state" BY <1>3, <1>0 DEF Asked, Op, Snapshot, NoProgress
  <1>4. CASE e.kind = "progress" BY <1>4, <1>0 DEF Asked, Op, Snapshot, NoProgress
  <1>5. CASE e.kind = "executed" BY <1>5, <1>0, StepFacts DEF Asked, Flush, Op
  <1>6. CASE e.kind \notin {"execution_start", "executing", "progress_state", "progress", "executed"}
    BY <1>6, StepFacts DEF Asked
  <1>. QED BY <1>1, <1>2, <1>3, <1>4, <1>5, <1>6

LEMMA ControlInit == RelayInit => Control /\ Tracking
  <1>. SUFFICES ASSUME RelayInit PROVE Control /\ Tracking OBVIOUS
  <1>1. doing.op = "load" /\ doing.snap = NoProgress /\ doing.audit = FALSE /\ after = NoOp
    BY StepFacts DEF RelayInit
  <1>2. refresh.op = "none" /\ refresh.audit = FALSE /\ refresh.attempt = 0 BY DEF RelayInit, NoOp, Op
  <1>3. StepOK(doing) /\ StepOK(after) /\ Follows(doing, after) BY <1>1, StepFacts DEF RelayInit, Follows
  <1>4. record.status = "running" /\ record.attempt = 1 /\ trouble = 0 /\ ~Over /\ monitor = "on"
    BY DEF RelayInit, Over
  <1>5. Control BY <1>1, <1>2, <1>3, <1>4 DEF Control
  <1>6. Tracking BY <1>1, StepFacts DEF RelayInit, Tracking, NoTracker
  <1>. QED BY <1>5, <1>6

(* What a thing that is done may leave to be done.                         *)
LEMMA MovedIs ==
    ASSUME RelayTypeOK, Control, Moved
    PROVE  /\ after = NoOp /\ doing.snap # NoProgress /\ doing.snap \in Snapshots
           /\ tracker' = [Tracked EXCEPT !.last = doing.snap, !.pending = tracker'.pending]
           /\ tracker'.last = doing.snap /\ tracker'.pending \in {NoProgress, doing.snap}
           /\ tracker'.there /\ tracker'.audited = Tracked.audited /\ tracker'.stateNodes = Tracked.stateNodes
           /\ after' = NoOp
           /\ \/ doing' = NoOp
              \/ /\ doing'.op = "load" /\ doing'.snap = doing.snap /\ StepOK(doing')
  <1>1. doing.op = "moved" /\ doing.snap \in Snapshots /\ doing.audit \in BOOLEAN
    BY StepsAre DEF Moved, At1, RelayTypeOK
  <1>2. after = NoOp /\ doing.snap # NoProgress BY <1>1, AfterIs DEF Persisting, Control, StepOK, Comings
  <1>3. Tracked \in Trackers /\ Tracked.there BY TrackedIs
  <1>4. \E p \in {NoProgress, doing.snap} : tracker' = [Tracked EXCEPT !.last = doing.snap, !.pending = p]
    BY DEF Moved
  <1>5. /\ tracker' = [Tracked EXCEPT !.last = doing.snap, !.pending = tracker'.pending]
        /\ tracker'.last = doing.snap /\ tracker'.pending \in {NoProgress, doing.snap}
        /\ tracker'.there /\ tracker'.audited = Tracked.audited /\ tracker'.stateNodes = Tracked.stateNodes
    BY <1>3, <1>4 DEF Trackers
  <1>6. \/ doing' = NoOp /\ after' = NoOp
        \/ \E b \in BOOLEAN : doing' = Persist(doing.snap, b) /\ after' = NoOp
    <2>. DEFINE audit == doing.audit \/ Tracked.last.kind # doing.snap.kind
    <2>1. (doing' = Persist(doing.snap, audit) /\ after' = after) \/ (doing' = after /\ after' = NoOp)
      BY DEF Moved, Then, Done
    <2>2. audit \in BOOLEAN OBVIOUS
    <2>. QED BY <1>2, <2>1, <2>2
  <1>7. \A b \in BOOLEAN : Persist(doing.snap, b).op = "load" /\ Persist(doing.snap, b).snap = doing.snap
          /\ StepOK(Persist(doing.snap, b))
    BY DEF Persist, Op, StepOK, Comings
  <1>. QED BY <1>1, <1>2, <1>5, <1>6, <1>7

LEMMA FlushIs ==
    ASSUME RelayTypeOK, Control, FlushPending
    PROVE  /\ doing.op = "flush"
           /\ \/ /\ tracker.there /\ tracker.pending # NoProgress /\ tracker' = [tracker EXCEPT !.pending = NoProgress]
                 /\ after' = after /\ doing'.op = "load" /\ doing'.snap = tracker.pending
                 /\ doing'.audit <=> doing.audit
                 /\ StepOK(doing')
              \/ /\ tracker' = tracker
                 /\ \/ /\ tracker.there /\ tracker.last # NoProgress /\ after' = after
                       /\ doing'.op = "load" /\ doing'.snap = tracker.last /\ doing'.audit /\ StepOK(doing')
                    \/ doing' = after /\ after' = NoOp
           /\ doing' = after /\ after' = NoOp /\ doing.audit /\ tracker.there =>
                 tracker.pending = NoProgress /\ (tracker.last = NoProgress \/ Same(tracker.audited, tracker.last))
  <1>1. doing.op = "flush" /\ doing.audit \in BOOLEAN BY StepsAre DEF FlushPending, At1, RelayTypeOK
  <1>2. CASE Overdue(doing.audit) /\ tracker' = [tracker EXCEPT !.pending = NoProgress]
             /\ Then(Persist(tracker.pending, doing.audit))
    <2>1. /\ Persist(tracker.pending, doing.audit).op = "load"
          /\ Persist(tracker.pending, doing.audit).snap = tracker.pending
          /\ Persist(tracker.pending, doing.audit).audit = doing.audit
          /\ StepOK(Persist(tracker.pending, doing.audit))
      BY DEF Persist, Op, StepOK, Comings
    <2>2. doing' = Persist(tracker.pending, doing.audit) /\ after' = after BY <1>2 DEF Then
    <2>3. doing' # after
      BY <1>1, <2>1, <2>2, AfterIs, StepFacts DEF Persisting
    <2>. QED BY <1>1, <1>2, <2>1, <2>2, <2>3 DEF Overdue
  <1>3. CASE ~Overdue(doing.audit) /\ tracker' = tracker /\ Unaudited(doing.audit) /\ Then(Persist(tracker.last, TRUE))
    <2>1. doing' = Persist(tracker.last, TRUE) /\ after' = after BY <1>3 DEF Then
    <2>2. doing'.op = "load" /\ doing'.snap = tracker.last /\ doing'.audit = TRUE /\ StepOK(doing')
      BY <2>1, StepFacts
    <2>3. doing' # after
      BY <1>1, <2>2, AfterIs, StepFacts DEF Persisting
    <2>. QED BY <1>1, <1>3, <2>1, <2>2, <2>3 DEF Unaudited
  <1>4. CASE ~Overdue(doing.audit) /\ tracker' = tracker /\ ~Unaudited(doing.audit) /\ Done
    BY <1>1, <1>4 DEF Overdue, Unaudited, Done
  <1>. QED BY <1>2, <1>3, <1>4 DEF FlushPending

LEMMA LoadIs ==
    ASSUME RelayTypeOK, Control, Load
    PROVE  /\ doing.op = "load" /\ tracker' = Tracked
           /\ \/ /\ Seen(doing) # NoProgress /\ after' = after
                 /\ doing'.op = "write" /\ doing'.snap = Seen(doing)
                 /\ doing'.audit <=> doing.audit /\ ~Same(Tracked.audited, Seen(doing))
                 /\ StepOK(doing')
              \/ Seen(doing) = NoProgress /\ doing' = after /\ after' = NoOp
  <1>1. doing.op = "load" /\ doing \in RelaySteps /\ monitor = "on" BY DEF Load, At1, RelayTypeOK
  <1>2. record.status # "ended" BY <1>1 DEF Control, Over
  <1>3. CASE Seen(doing) = NoProgress
    <2>1. Loaded(doing) = NoOp BY <1>1, <1>3, LoadedIs
    <2>. QED BY <1>1, <1>3, <2>1, StepFacts DEF Load, Goes, Done
  <1>4. CASE Seen(doing) # NoProgress
    <2>1. /\ Loaded(doing).op = "write" /\ Loaded(doing).snap = Seen(doing)
          /\ Loaded(doing).audit <=> doing.audit /\ ~Same(Tracked.audited, Seen(doing))
      BY <1>1, <1>2, <1>4, LoadedIs
    <2>2. StepOK(Loaded(doing)) BY <1>4, <2>1 DEF StepOK, Comings
    <2>3. doing' = Loaded(doing) /\ after' = after BY <2>1 DEF Load, Goes, Then
    <2>. QED BY <1>1, <1>4, <2>1, <2>2, <2>3 DEF Load
  <1>. QED BY <1>3, <1>4

LEMMA WriteIs ==
    ASSUME RelayTypeOK, Control, WriteRow
    PROVE  /\ doing.op = "write" /\ tracker' = tracker /\ doing.snap # NoProgress /\ doing.snap \in Snapshots
           /\ record'.status = record.status /\ record'.attempt = record.attempt
           /\ \/ /\ Current(doing) /\ record' = [record EXCEPT !.progress = doing.snap]
                 /\ log' = IF doing.audit THEN Append(log, doing.snap) ELSE log
                 /\ excuses' = excuses /\ after' = after
                 /\ doing'.op = "note" /\ doing'.snap = doing.snap /\ doing'.audit = doing.audit /\ StepOK(doing')
              \/ /\ ~Current(doing) /\ record' = record /\ log' = log /\ excuses' = excuses \cup {"refused"}
                 /\ doing' = after /\ after' = NoOp
  <1>1. doing.op = "write" /\ doing \in RelaySteps /\ doing.snap \in Snapshots BY StepsAre DEF WriteRow, At1, RelayTypeOK
  <1>2. StepOK(doing) /\ doing.snap # NoProgress BY <1>1 DEF Control, StepOK
  <1>3. [doing EXCEPT !.op = "note"].op = "note" /\ [doing EXCEPT !.op = "note"].snap = doing.snap
        /\ [doing EXCEPT !.op = "note"].audit = doing.audit
    BY <1>1, StepFacts DEF RelayOps
  <1>4. StepOK([doing EXCEPT !.op = "note"]) BY <1>1, <1>2, StepFacts
  <1>5. CASE Current(doing)
    <2>1. record' = [record EXCEPT !.progress = doing.snap] /\ doing' = [doing EXCEPT !.op = "note"] /\ after' = after
      BY <1>5 DEF WriteRow, Stored, Then
    <2>2. record'.status = record.status /\ record'.attempt = record.attempt BY <2>1 DEF RelayTypeOK
    <2>. QED BY <1>1, <1>2, <1>3, <1>4, <1>5, <2>1, <2>2 DEF WriteRow, Stored
  <1>6. CASE ~Current(doing)
    BY <1>1, <1>2, <1>6 DEF WriteRow, Stored, Done
  <1>. QED BY <1>5, <1>6

LEMMA NoteIs ==
    ASSUME RelayTypeOK, Control, Note
    PROVE  /\ doing.op = "note" /\ doing' = after /\ after' = NoOp
           /\ tracker'.there /\ tracker'.last = Tracked.last /\ tracker'.pending = Tracked.pending
           /\ tracker'.stateNodes = Tracked.stateNodes
           /\ tracker'.audited = IF doing.audit THEN doing.snap ELSE Tracked.audited
  <1>1. doing \in RelaySteps BY DEF RelayTypeOK
  <1>. QED BY <1>1, NotedIs DEF Note, At1, Done

(* The same of what is read of the events and queued.                      *)
LEMMA TakeIs ==
    ASSUME RelayTypeOK, Control, Take
    PROVE  /\ doing.op = "none" /\ Head(buffer) \in Messages
           /\ \/ /\ doing'.op = "saveStart" /\ StepOK(doing') /\ doing'.snap = NoProgress
                 /\ after' = Asked(Head(buffer)) /\ after'.op = "snap"
              \/ doing' = Asked(Head(buffer)) /\ after' = NoOp
           /\ StepOK(Asked(Head(buffer))) /\ Asked(Head(buffer)).op \in {"snap", "prefer", "legacy", "flush", "none"}
  <1>1. Head(buffer) \in Messages BY DEF Take, RelayTypeOK
  <1>2. \/ /\ doing' = Op("saveStart", NoProgress, FALSE) /\ after' = Asked(Head(buffer))
           /\ Head(buffer).kind = "execution_start"
        \/ doing' = Asked(Head(buffer)) /\ after' = NoOp
    BY DEF Take, Both
  <1>3. /\ Op("saveStart", NoProgress, FALSE).op = "saveStart" /\ StepOK(Op("saveStart", NoProgress, FALSE))
        /\ Op("saveStart", NoProgress, FALSE).snap = NoProgress
    BY StepFacts
  <1>4. /\ Asked(Head(buffer)).op \in {"snap", "prefer", "legacy", "flush", "none"} /\ StepOK(Asked(Head(buffer)))
        /\ (Head(buffer).kind = "execution_start" => Asked(Head(buffer)).op = "snap")
    BY <1>1, AskedFacts
  <1>5. doing.op = "none" BY DEF Take, At1
  <1>. QED BY <1>1, <1>2, <1>3, <1>4, <1>5

LEMMA PreferIs ==
    ASSUME RelayTypeOK, Control, Prefer
    PROVE  /\ doing.op = "prefer" /\ after = NoOp /\ after' = NoOp /\ doing.snap.kind = "node"
           /\ doing.snap \in Snapshots
           /\ doing'.op = "snap" /\ doing'.snap = doing.snap /\ doing'.audit = doing.audit /\ StepOK(doing')
           /\ tracker'.there /\ tracker'.last = Tracked.last /\ tracker'.pending = Tracked.pending
           /\ tracker'.audited = Tracked.audited
           /\ tracker'.stateNodes = Tracked.stateNodes \cup {doing.snap.node}
  <1>1. doing.op = "prefer" /\ doing \in RelaySteps /\ doing.snap \in Snapshots
    BY StepsAre DEF Prefer, At1, RelayTypeOK
  <1>2. StepOK(doing) /\ doing.snap # NoProgress /\ doing.snap.kind = "node" BY <1>1 DEF Control, StepOK, Comings
  <1>3. "snap" \in RelayOps BY DEF RelayOps
  <1>4. /\ [doing EXCEPT !.op = "snap"].op = "snap" /\ StepOK([doing EXCEPT !.op = "snap"])
        /\ [doing EXCEPT !.op = "snap"].snap = doing.snap /\ [doing EXCEPT !.op = "snap"].audit = doing.audit
    BY <1>1, <1>2, <1>3, StepFacts
  <1>5. after = NoOp BY <1>1, AfterIs DEF Persisting
  <1>6. doing' = [doing EXCEPT !.op = "snap"] /\ after' = after
        /\ tracker' = [Tracked EXCEPT !.stateNodes = @ \cup {doing.snap.node}]
    BY DEF Prefer, Then
  <1>7. /\ tracker'.there /\ tracker'.last = Tracked.last /\ tracker'.pending = Tracked.pending
        /\ tracker'.audited = Tracked.audited /\ tracker'.stateNodes = Tracked.stateNodes \cup {doing.snap.node}
    BY <1>6, TrackedIs DEF Trackers
  <1>. QED BY <1>1, <1>2, <1>4, <1>5, <1>6, <1>7

LEMMA LegacyIs ==
    ASSUME RelayTypeOK, Control, Legacy
    PROVE  /\ doing.op = "legacy" /\ after = NoOp /\ after' = NoOp /\ tracker' = Tracked
           /\ doing.snap.kind = "node" /\ doing.snap \in Snapshots
           /\ \/ doing' = NoOp
              \/ /\ doing.snap.node \notin Tracked.stateNodes
                 /\ doing'.op = "snap" /\ doing'.snap = doing.snap /\ StepOK(doing')
  <1>1. doing.op = "legacy" /\ doing \in RelaySteps /\ doing.snap \in Snapshots
    BY StepsAre DEF Legacy, At1, RelayTypeOK
  <1>2. StepOK(doing) /\ doing.snap # NoProgress /\ doing.snap.kind = "node" BY <1>1 DEF Control, StepOK, Comings
  <1>3. "snap" \in RelayOps BY DEF RelayOps
  <1>4. /\ [doing EXCEPT !.op = "snap"].op = "snap" /\ StepOK([doing EXCEPT !.op = "snap"])
        /\ [doing EXCEPT !.op = "snap"].snap = doing.snap
    BY <1>1, <1>2, <1>3, StepFacts
  <1>5. after = NoOp BY <1>1, AfterIs DEF Persisting
  <1>6. after' = NoOp /\ (doing' = NoOp \/ (doing.snap.node \notin Tracked.stateNodes /\ doing' = [doing EXCEPT !.op = "snap"]))
    BY <1>5 DEF Legacy, Then, Done
  <1>. QED BY <1>1, <1>2, <1>4, <1>5, <1>6 DEF Legacy

LEMMA QueueIs ==
    ASSUME RelayTypeOK, Control, Queue
    PROVE  /\ doing.op = "snap" /\ after = NoOp /\ tracker' = Tracked /\ doing.snap # NoProgress
           /\ doing.snap \in Snapshots
           /\ \/ doing' = NoOp /\ after' = NoOp
              \/ /\ after' = NoOp /\ ~Leaves(Tracked, doing.snap)
                 /\ doing'.op = "moved" /\ doing'.snap = doing.snap /\ StepOK(doing')
              \/ /\ Leaves(Tracked, doing.snap) /\ doing' = Flush(TRUE)
                 /\ after'.op = "moved" /\ after'.snap = doing.snap /\ StepOK(after')
  <1>1. doing.op = "snap" /\ doing \in RelaySteps /\ doing.snap \in Snapshots
    BY StepsAre DEF Queue, At1, RelayTypeOK
  <1>2. StepOK(doing) /\ doing.snap # NoProgress BY <1>1 DEF Control, StepOK, Comings
  <1>3. "moved" \in RelayOps BY DEF RelayOps
  <1>4. /\ [doing EXCEPT !.op = "moved"].op = "moved" /\ StepOK([doing EXCEPT !.op = "moved"])
        /\ [doing EXCEPT !.op = "moved"].snap = doing.snap
    BY <1>1, <1>2, <1>3, StepFacts
  <1>5. after = NoOp BY <1>1, AfterIs DEF Persisting
  <1>6. \/ after' = NoOp /\ doing' = NoOp
        \/ after' = NoOp /\ ~Leaves(Tracked, doing.snap) /\ doing' = [doing EXCEPT !.op = "moved"]
        \/ Leaves(Tracked, doing.snap) /\ doing' = Flush(TRUE) /\ after' = Op("moved", doing.snap, TRUE)
    BY <1>5 DEF Queue, Then, Done, Both
  <1>7. Op("moved", doing.snap, TRUE).op = "moved" /\ StepOK(Op("moved", doing.snap, TRUE))
        /\ Op("moved", doing.snap, TRUE).snap = doing.snap
    BY <1>2, StepFacts
  <1>. QED BY <1>1, <1>2, <1>4, <1>5, <1>6, <1>7 DEF Queue

(* The same of the refresh.                                                *)
LEMMA RefreshLookIs ==
    ASSUME RelayTypeOK, RefreshLook
    PROVE  /\ refresh.op = "look" /\ refresh'.op = "load" /\ refresh'.snap = Tracked.last /\ tracker' = Tracked
           /\ refresh'.attempt = refresh.attempt /\ refresh'.audit = refresh.audit
  BY DEF RefreshLook, RelayTypeOK, RelaySteps

LEMMA RefreshLoadIs ==
    ASSUME RelayTypeOK, Control, RefreshLoad
    PROVE  /\ refresh.op = "load" /\ tracker' = Tracked
           /\ record.status = "queued" \/ record.attempt # refresh.attempt => "late" \in excuses'
           /\ \/ refresh' = NoOp
              \/ /\ record.status # "ended" /\ Seen(refresh) # NoProgress
                 /\ refresh'.op = "write" /\ refresh'.snap = Seen(refresh) /\ ~refresh'.audit
                 /\ refresh'.status = record.status /\ refresh'.attempt = record.attempt
  <1>1. refresh \in RelaySteps /\ ~refresh.audit BY DEF Control, RelayTypeOK
  <1>2. refresh' = Loaded(refresh) BY DEF RefreshLoad
  <1>3. record.status = "queued" \/ record.attempt # refresh.attempt => "late" \in excuses' BY DEF RefreshLoad
  <1>. QED BY <1>1, <1>2, <1>3, LoadedIs DEF RefreshLoad

LEMMA RefreshWriteIs ==
    ASSUME RelayTypeOK, Control, RefreshWrite
    PROVE  /\ refresh.op = "write" /\ tracker' = tracker /\ refresh.snap # NoProgress /\ refresh.snap \in Snapshots
           /\ record'.status = record.status /\ record'.attempt = record.attempt /\ log' = log
           /\ \/ /\ Current(refresh) /\ record' = [record EXCEPT !.progress = refresh.snap]
                 /\ record'.progress = refresh.snap
                 /\ excuses' = excuses
                 /\ refresh'.op = "note" /\ refresh'.snap = refresh.snap /\ refresh'.audit = refresh.audit
                 /\ refresh'.attempt = refresh.attempt
              \/ /\ ~Current(refresh) /\ record' = record /\ excuses' = excuses \cup {"refused"}
                 /\ refresh' = NoOp
  <1>1. refresh.op = "write" /\ refresh \in RelaySteps /\ refresh.snap \in Snapshots
    BY StepsAre DEF RefreshWrite, RelayTypeOK
  <1>2. refresh.snap # NoProgress /\ ~refresh.audit BY <1>1 DEF Control
  <1>3. CASE Current(refresh)
    <2>1. record' = [record EXCEPT !.progress = refresh.snap] /\ refresh' = [refresh EXCEPT !.op = "note"]
          /\ log' = log /\ excuses' = excuses
      BY <1>2, <1>3 DEF RefreshWrite, Stored
    <2>2. record'.status = record.status /\ record'.attempt = record.attempt /\ record'.progress = refresh.snap
      BY <2>1 DEF RelayTypeOK
    <2>3. refresh'.op = "note" /\ refresh'.snap = refresh.snap /\ refresh'.audit = refresh.audit
          /\ refresh'.attempt = refresh.attempt
      BY <1>1, <2>1 DEF RelaySteps
    <2>. QED BY <1>1, <1>2, <1>3, <2>1, <2>2, <2>3 DEF RefreshWrite
  <1>4. CASE ~Current(refresh)
    BY <1>1, <1>2, <1>4 DEF RefreshWrite, Stored
  <1>. QED BY <1>3, <1>4

LEMMA RefreshNoteIs ==
    ASSUME RelayTypeOK, Control, RefreshNote
    PROVE  /\ refresh.op = "note" /\ refresh' = NoOp
           /\ tracker'.there /\ tracker'.last = Tracked.last /\ tracker'.pending = Tracked.pending
           /\ tracker'.stateNodes = Tracked.stateNodes /\ tracker'.audited = Tracked.audited
  <1>1. refresh \in RelaySteps /\ ~refresh.audit BY DEF RelayTypeOK, Control
  <1>. QED BY <1>1, NotedIs DEF RefreshNote

-----------------------------------------------------------------------------
(* The control is kept, first by what the monitor does before the end.     *)
Telling == Take \/ Turn \/ SaveStart \/ Prefer \/ Legacy \/ Queue \/ Moved \/ FlushPending
           \/ Load \/ WriteRow \/ Note \/ History \/ SaveTiming

LEMMA TellingIs ==
    ASSUME RelayTypeOK, Control, Telling
    PROVE  /\ monitor = "on" /\ monitor' = "on" /\ ~Over /\ refresh' = refresh /\ trouble' = trouble
           /\ record'.status = record.status /\ record'.attempt = record.attempt /\ excuses \subseteq excuses'
           /\ doing.op # "close" /\ left \subseteq left' /\ position' = position
  <1>1. monitor = "on" /\ doing.op # "close" /\ doing.op # "commit"
    BY DEF Telling, Take, Turn, SaveStart, Prefer, Legacy, Queue, Moved, FlushPending, Load, WriteRow, Note,
           History, SaveTiming, At1
  <1>2. ~Over BY <1>1 DEF Control
  <1>3. monitor' = monitor /\ refresh' = refresh /\ trouble' = trouble /\ position' = position /\ left \subseteq left'
    BY DEF Telling, Take, Turn, SaveStart, Prefer, Legacy, Queue, Moved, FlushPending, Load, WriteRow, Note,
           History, SaveTiming, rest
  <1>4. record'.status = record.status /\ record'.attempt = record.attempt
    <2>1. CASE WriteRow BY <2>1, WriteIs
    <2>2. CASE SaveStart BY <2>2 DEF SaveStart, RelayTypeOK
    <2>3. CASE SaveTiming BY <2>3 DEF SaveTiming, RelayTypeOK
    <2>4. CASE Take \/ Turn \/ Prefer \/ Legacy \/ Queue \/ Moved \/ FlushPending \/ Load \/ Note \/ History
      BY <2>4 DEF Take, Turn, Prefer, Legacy, Queue, Moved, FlushPending, Load, Note, History
    <2>. QED BY <2>1, <2>2, <2>3, <2>4 DEF Telling
  <1>5. excuses \subseteq excuses'
    <2>1. CASE WriteRow BY <2>1 DEF WriteRow, Stored
    <2>2. CASE ~WriteRow
      BY <2>2 DEF Telling, Take, Turn, SaveStart, Prefer, Legacy, Queue, Moved, FlushPending, Load, Note, History,
                  SaveTiming
    <2>. QED BY <2>1, <2>2
  <1>. QED BY <1>1, <1>2, <1>3, <1>4, <1>5

LEMMA StepsFollow ==
    ASSUME RelayTypeOK, Control, Telling
    PROVE  Follows(doing', after') /\ StepOK(doing') /\ StepOK(after') /\ doing'.op # "close"
  <1>. DEFINE Fine == Follows(doing', after') /\ StepOK(doing') /\ StepOK(after') /\ doing'.op # "close"
  <1>0. StepOK(NoOp) /\ NoOp.op = "none" BY StepFacts
  <1>1. /\ StepOK(doing) /\ StepOK(after) /\ Follows(doing, after)
        /\ after.op \in {"none", "moved", "history", "snap", "commit"}
    BY DEF Control, Follows
  <1>2. ASSUME doing' = after, after' = NoOp PROVE Fine BY <1>0, <1>1, <1>2 DEF Follows
  <1>3. ASSUME NEW n \in {"saveStart", "history", "timing", "commit", "close"}
        PROVE  Op(n, NoProgress, FALSE).op = n /\ StepOK(Op(n, NoProgress, FALSE))
    BY StepFacts
  <1>4. CASE Take BY <1>4, <1>0, TakeIs DEF Follows
  <1>5. CASE Turn
    <2>1. doing'.op = "flush" /\ StepOK(doing') BY <1>5, StepFacts DEF Turn, Both
    <2>2. after'.op = "history" /\ StepOK(after') BY <1>5, <1>3 DEF Turn, Both
    <2>. QED BY <2>1, <2>2 DEF Follows, Persisting
  <1>6. CASE SaveStart \/ SaveTiming BY <1>6, <1>2 DEF SaveStart, SaveTiming, Done
  <1>7. CASE Prefer BY <1>7, <1>0, PreferIs DEF Follows
  <1>8. CASE Legacy BY <1>8, <1>0, LegacyIs DEF Follows
  <1>9. CASE Queue
    <2>1. CASE doing' = Flush(TRUE) /\ after'.op = "moved" /\ StepOK(after')
      <3>1. doing'.op = "flush" /\ StepOK(doing') BY <2>1, StepFacts
      <3>. QED BY <2>1, <3>1 DEF Follows, Persisting
    <2>. QED BY <1>9, <1>0, <2>1, QueueIs DEF Follows
  <1>10. CASE Moved BY <1>10, <1>0, MovedIs DEF Follows
  <1>11. CASE FlushPending
    <2>1. doing.op = "flush" BY <1>11, FlushIs
    <2>2. CASE doing'.op = "load" /\ StepOK(doing') /\ after' = after
      BY <1>1, <2>1, <2>2 DEF Follows, Persisting
    <2>. QED BY <1>2, <1>11, <2>2, FlushIs
  <1>12. CASE Load
    <2>1. doing.op = "load" BY <1>12, LoadIs
    <2>2. CASE doing'.op = "write" /\ StepOK(doing') /\ after' = after
      BY <1>1, <2>1, <2>2 DEF Follows, Persisting
    <2>. QED BY <1>2, <1>12, <2>2, LoadIs
  <1>13. CASE WriteRow
    <2>1. doing.op = "write" BY <1>13, WriteIs
    <2>2. CASE doing'.op = "note" /\ StepOK(doing') /\ after' = after
      BY <1>1, <2>1, <2>2 DEF Follows, Persisting
    <2>. QED BY <1>2, <1>13, <2>2, WriteIs
  <1>14. CASE Note BY <1>14, <1>2, NoteIs
  <1>15. CASE History
    <2>1. CASE doing' = Op("timing", NoProgress, FALSE) /\ after' = Op("commit", NoProgress, FALSE)
      <3>1. doing'.op = "timing" /\ after'.op = "commit" /\ StepOK(doing') /\ StepOK(after') BY <2>1, <1>3
      <3>. QED BY <3>1 DEF Follows
    <2>. QED BY <1>2, <1>15, <2>1 DEF History, Both, Done
  <1>. QED BY <1>4, <1>5, <1>6, <1>7, <1>8, <1>9, <1>10, <1>11, <1>12, <1>13, <1>14, <1>15 DEF Telling

LEMMA TellingControl == ASSUME RelayTypeOK, Control, Telling PROVE Control'
  BY TellingIs, StepsFollow DEF Control, Over

(* And by all the rest.                                                    *)
LEMMA SocketControl ==
    ASSUME RelayTypeOK, Control, Send \/ Disconnect \/ Reconnect \/ Elapse PROVE Control'
  <1>1. /\ UNCHANGED <<record, ops, monitor, refresh, excuses>> /\ trouble' >= trouble /\ trouble' \in Nat
        /\ monitor = "down" => tracker' = tracker
    <2>1. trouble \in Nat BY BoundsAssumption DEF RelayTypeOK
    <2>2. CASE Disconnect BY <2>1, <2>2, TroubleGrows DEF Disconnect, ops
    <2>3. CASE Send \/ Reconnect BY <2>1, <2>3 DEF Send, Reconnect
    <2>4. CASE Elapse
      <3>1. monitor # "down" BY <2>4 DEF Elapse, Control, NoTracker
      <3>. QED BY <2>1, <2>4, <3>1 DEF Elapse
    <2>. QED BY <2>2, <2>3, <2>4
  <1>2. record.attempt \in Nat BY DEF RelayTypeOK, Attempts
  <1>3. trouble \in Nat BY BoundsAssumption DEF RelayTypeOK
  <1>. QED BY <1>1, <1>2, <1>3 DEF Control, Over, ops

LEMMA EndControl ==
    ASSUME RelayTypeOK, Control, GiveUp \/ Close \/ Again \/ EndProcess \/ StartProcess PROVE Control'
  <1>0. trouble \in Nat /\ record.attempt \in Nat /\ StepOK(NoOp) /\ NoOp.op = "none"
    BY BoundsAssumption, StepFacts DEF RelayTypeOK, Attempts
  <1>1. CASE GiveUp
    <2>1. monitor = "on" /\ doing.op = "commit" BY <1>1 DEF GiveUp, At1
    <2>2. after = NoOp BY <2>1, AfterIs DEF Persisting
    <2>3. doing'.op = "close" /\ StepOK(doing') /\ after' = NoOp
      BY <1>1, <2>2, StepFacts DEF GiveUp, Then
    <2>4. /\ record'.attempt = record.attempt /\ record'.status \in {"ended", "queued"} /\ record'.progress = NoProgress
          /\ trouble' \in Nat /\ trouble' >= trouble /\ (record'.status = "queued" => trouble' = trouble + 1)
      <3>1. CASE Calm /\ record' = [record EXCEPT !.status = "ended", !.progress = NoProgress]
        BY <1>0, <3>1 DEF Calm, RelayTypeOK
      <3>2. CASE Troubles /\ record' = [record EXCEPT !.status = "queued", !.progress = NoProgress]
        BY <1>0, <3>2, TroubleGrows DEF RelayTypeOK
      <3>. QED BY <1>1, <3>1, <3>2 DEF GiveUp
    <2>5. monitor' = monitor /\ refresh' = refresh /\ tracker' = tracker /\ excuses' = excuses
      BY <1>1 DEF GiveUp
    <2>. QED BY <1>0, <2>1, <2>3, <2>4, <2>5 DEF Control, Over, Follows
  <1>2. CASE Close
    <2>1. monitor = "on" /\ doing.op = "close" BY <1>2 DEF Close, At1
    <2>2. Over BY <2>1 DEF Control
    <2>. QED BY <1>0, <1>2, <2>1, <2>2 DEF Close, Closed, Both, Control, Over, Follows
  <1>3. CASE Again
    <2>1. doing'.op = "load" /\ StepOK(doing') /\ after' = NoOp BY <1>3, StepFacts DEF Again, Both
    <2>2. record'.status = "running" /\ record'.attempt = record.attempt + 1 BY <1>3 DEF Again
    <2>3. refresh.attempt \in Nat BY StepsAre DEF RelayTypeOK, Attempts
    <2>. QED BY <1>0, <1>3, <2>1, <2>2, <2>3 DEF Again, Control, Over, Follows
  <1>4. CASE EndProcess
    <2>1. ~refresh'.audit /\ refresh'.attempt = 0 /\ refresh'.op = "none" BY <1>4 DEF EndProcess, NoOp, Op
    <2>2. trouble' = trouble + 1 BY <1>4, TroubleGrows DEF EndProcess
    <2>3. doing' = NoOp /\ after' = NoOp /\ tracker' = NoTracker /\ monitor' = "down" /\ "crash" \in excuses'
          /\ record' = record
      BY <1>4 DEF EndProcess, Closed, Both
    <2>. QED BY <1>0, <2>1, <2>2, <2>3 DEF Control, Over, Follows
  <1>5. CASE StartProcess
    <2>1. doing.op = "none" BY <1>5 DEF StartProcess, Control
    <2>2. /\ UNCHANGED <<record, tracker, refresh, excuses, trouble>> /\ doing' = doing /\ after' = after
          /\ monitor' = IF record.status \in {"running", "cancel_requested"} THEN "on" ELSE "off"
      BY <1>5 DEF StartProcess, ops
    <2>3. record.status \in RowStatuses BY DEF RelayTypeOK
    <2>. QED BY <1>0, <2>1, <2>2, <2>3 DEF Control, Over, RowStatuses
  <1>. QED BY <1>1, <1>2, <1>3, <1>4, <1>5

LEMMA RefreshControl == ASSUME RelayTypeOK, Control, Refreshing \/ CancelRequest PROVE Control'
  <1>0. /\ trouble \in Nat /\ record.attempt \in Nat /\ StepOK(NoOp) /\ NoOp.op = "none" /\ ~NoOp.audit
        /\ NoOp.attempt = 0
    BY BoundsAssumption, StepFacts DEF RelayTypeOK, Attempts, NoOp, Op
  <1>1. CASE Refresh
    <2>1. refresh'.op = "look" /\ ~refresh'.audit /\ refresh'.attempt = record.attempt
      BY <1>1 DEF Refresh, Op
    <2>2. trouble' = trouble + 1 BY <1>1, TroubleGrows DEF Refresh
    <2>3. UNCHANGED <<record, tracker, doing, after, monitor, excuses>> /\ monitor # "down"
      BY <1>1 DEF Refresh, ops
    <2>. QED BY <1>0, <2>1, <2>2, <2>3 DEF Control, Over
  <1>2. CASE RefreshLook
    <2>1. monitor # "down" BY <1>2, RefreshLookIs DEF Control
    <2>. QED BY <1>2, <2>1, RefreshLookIs DEF RefreshLook, Control, Over, ops
  <1>3. CASE RefreshLoad
    <2>1. monitor # "down" BY <1>3, RefreshLoadIs DEF Control
    <2>2. excuses \subseteq excuses' BY <1>3 DEF RefreshLoad
    <2>. QED BY <1>0, <1>3, <2>1, <2>2, RefreshLoadIs DEF RefreshLoad, Control, Over, ops
  <1>4. CASE RefreshWrite
    <2>1. monitor # "down" BY <1>4, RefreshWriteIs DEF Control
    <2>2. record'.status = "ended" => record'.progress = NoProgress
      BY <1>4, RefreshWriteIs DEF Control, Current
    <2>3. /\ refresh'.op \in {"none", "note"} /\ ~refresh'.audit /\ refresh'.attempt <= record.attempt
          /\ refresh'.op = "note" => refresh'.snap # NoProgress
      <3>1. CASE refresh' = NoOp BY <1>0, <3>1
      <3>2. CASE /\ refresh'.op = "note" /\ refresh'.snap = refresh.snap /\ refresh'.audit = refresh.audit
                 /\ refresh'.attempt = refresh.attempt
        BY <1>4, <3>2, RefreshWriteIs DEF Control
      <3>. QED BY <1>4, <3>1, <3>2, RefreshWriteIs
    <2>4. record'.status = record.status /\ record'.attempt = record.attempt BY <1>4, RefreshWriteIs
    <2>5. UNCHANGED <<doing, after, monitor, tracker, trouble>> BY <1>4 DEF RefreshWrite, ops
    <2>. QED BY <2>1, <2>2, <2>3, <2>4, <2>5 DEF Control, Over
  <1>5. CASE RefreshNote
    <2>1. monitor # "down" BY <1>5, RefreshNoteIs DEF Control
    <2>. QED BY <1>0, <1>5, <2>1, RefreshNoteIs DEF RefreshNote, Control, Over, ops
  <1>6. CASE CancelRequest
    <2>1. record'.status = "cancel_requested" /\ record'.attempt = record.attempt
      BY <1>6 DEF CancelRequest, RelayTypeOK
    <2>2. trouble' = trouble + 1 BY <1>6, TroubleGrows DEF CancelRequest
    <2>. QED BY <1>0, <1>6, <2>1, <2>2 DEF CancelRequest, Control, Over, ops
  <1>. QED BY <1>1, <1>2, <1>3, <1>4, <1>5, <1>6 DEF Refreshing

-----------------------------------------------------------------------------
(* The tracker keeps its place.                                            *)
LEMMA TrackedKeeps ==
    ASSUME RelayTypeOK, Tracking
    PROVE  /\ Tracked.there /\ Tracked.pending \in {NoProgress, Tracked.last}
           /\ tracker.there => Tracked = tracker
  BY TrackedIs DEF Tracking

(* While nothing is done the tracker may be made, note what was written or *)
(* forget that it is fresh.                                                *)
LEMMA TrackingBeside ==
    ASSUME RelayTypeOK, Control, Tracking, doing' = doing, after' = after,
           \/ tracker' = tracker
           \/ /\ tracker'.there /\ tracker'.last = Tracked.last /\ tracker'.pending = Tracked.pending
           \/ /\ tracker.there /\ tracker'.there /\ tracker'.last = tracker.last
              /\ tracker'.pending = tracker.pending
    PROVE  Tracking'
  <1>1. CASE tracker' = tracker BY <1>1 DEF Tracking
  <1>2. CASE tracker'.there /\ tracker'.last = Tracked.last /\ tracker'.pending = Tracked.pending
    BY <1>2, TrackedKeeps DEF Tracking
  <1>3. CASE /\ tracker.there /\ tracker'.there /\ tracker'.last = tracker.last
             /\ tracker'.pending = tracker.pending
    BY <1>3 DEF Tracking
  <1>. QED BY <1>1, <1>2, <1>3

(* When the monitor goes on to something that is not about the tracker.    *)
LEMMA TrackingElse ==
    ASSUME RelayTypeOK, Control, Tracking,
           doing'.op \notin {"write", "note", "moved", "load"}, after'.op # "moved",
           tracker' = tracker \/ tracker' = Tracked \/
              (tracker'.there /\ tracker'.last = Tracked.last /\ tracker'.pending = Tracked.pending)
    PROVE  Tracking'
  BY TrackedKeeps DEF Tracking

LEMMA TellingTracking ==
    ASSUME RelayTypeOK, Control, Tracking, Telling
    PROVE  Tracking'
  <1>0. NoOp.op = "none" BY StepFacts
  <1>1. CASE Take
    <2>1. tracker' = tracker BY <1>1 DEF Take
    <2>. QED BY <1>0, <1>1, <2>1, TakeIs, TrackingElse
  <1>2. CASE Turn
    <2>1. doing'.op = "flush" /\ after'.op = "history" /\ tracker' = tracker BY <1>2, StepFacts DEF Turn, Both
    <2>. QED BY <2>1, TrackingElse
  <1>3. CASE SaveStart \/ SaveTiming
    <2>1. doing' = after /\ after' = NoOp /\ tracker' = tracker /\ after.op \in {"none", "snap", "commit"}
      BY <1>0, <1>3, AfterIs DEF SaveStart, SaveTiming, Done, At1
    <2>. QED BY <1>0, <2>1, TrackingElse
  <1>4. CASE Prefer BY <1>0, <1>4, PreferIs, TrackingElse
  <1>5. CASE Legacy BY <1>0, <1>5, LegacyIs, TrackingElse
  <1>6. CASE Queue
    <2>1. CASE doing' = NoOp /\ after' = NoOp BY <1>0, <1>6, <2>1, QueueIs, TrackingElse
    <2>2. CASE after' = NoOp /\ doing'.op = "moved"
      BY <1>0, <1>6, <2>2, QueueIs, TrackedKeeps DEF Tracking
    <2>3. CASE Leaves(Tracked, doing.snap) /\ doing' = Flush(TRUE) /\ after'.op = "moved"
      <3>1. doing'.op = "flush" /\ doing'.audit = TRUE BY <2>3, StepFacts
      <3>2. Tracked.last # NoProgress BY <2>3 DEF Leaves
      <3>3. tracker' = Tracked BY <1>6, QueueIs
      <3>. QED BY <3>1, <3>2, <3>3, TrackedKeeps DEF Tracking
    <2>. QED BY <1>6, <2>1, <2>2, <2>3, QueueIs
  <1>7. CASE Moved
    <2>1. /\ after' = NoOp /\ doing.snap # NoProgress /\ tracker'.there /\ tracker'.last = doing.snap
          /\ tracker'.pending \in {NoProgress, doing.snap}
          /\ \/ doing' = NoOp
             \/ doing'.op = "load" /\ doing'.snap = doing.snap
      BY <1>7, MovedIs
    <2>. QED BY <1>0, <2>1 DEF Tracking
  <1>8. CASE FlushPending
    <2>1. CASE /\ tracker.there /\ tracker.pending # NoProgress /\ tracker' = [tracker EXCEPT !.pending = NoProgress]
               /\ after' = after /\ doing'.op = "load" /\ doing'.snap = tracker.pending /\ (doing'.audit <=> doing.audit)
      <3>1. tracker'.there /\ tracker'.last = tracker.last /\ tracker'.pending = NoProgress
        BY <2>1 DEF RelayTypeOK, Trackers
      <3>2. doing.op = "flush" BY <1>8, FlushIs
      <3>. QED BY <2>1, <3>1, <3>2 DEF Tracking
    <2>2. CASE /\ tracker' = tracker /\ tracker.there /\ tracker.last # NoProgress /\ after' = after
               /\ doing'.op = "load" /\ doing'.snap = tracker.last /\ doing'.audit
      BY <2>2 DEF Tracking
    <2>3. CASE tracker' = tracker /\ doing' = after /\ after' = NoOp
      <3>1. after.op \in {"none", "moved", "history"} BY <1>0, <1>8, FlushIs, AfterIs DEF Persisting
      <3>. QED BY <1>0, <2>3, <3>1 DEF Tracking
    <2>. QED BY <1>8, <2>1, <2>2, <2>3, FlushIs
  <1>9. CASE Load
    <2>0. doing.op = "load" /\ tracker' = Tracked BY <1>9, LoadIs
    <2>1. CASE /\ Seen(doing) # NoProgress /\ after' = after /\ doing'.op = "write" /\ doing'.snap = Seen(doing)
               /\ (doing'.audit => doing.audit)
      BY <2>0, <2>1, TrackedKeeps DEF Tracking, Seen
    <2>2. CASE doing' = after /\ after' = NoOp
      <3>1. after.op \in {"none", "moved", "history"} BY <1>0, <2>0, AfterIs DEF Persisting
      <3>. QED BY <1>0, <2>0, <2>2, <3>1, TrackedKeeps DEF Tracking
    <2>. QED BY <1>9, <2>1, <2>2, LoadIs
  <1>10. CASE WriteRow
    <2>0. doing.op = "write" /\ tracker' = tracker BY <1>10, WriteIs
    <2>1. CASE doing'.op = "note" /\ doing'.snap = doing.snap /\ doing'.audit = doing.audit /\ after' = after
      BY <2>0, <2>1 DEF Tracking
    <2>2. CASE doing' = after /\ after' = NoOp
      <3>1. after.op \in {"none", "moved", "history"} BY <1>0, <2>0, AfterIs DEF Persisting
      <3>. QED BY <1>0, <2>0, <2>2, <3>1 DEF Tracking
    <2>. QED BY <1>10, <2>1, <2>2, WriteIs
  <1>11. CASE Note
    <2>1. after.op \in {"none", "moved", "history"} BY <1>0, <1>11, NoteIs, AfterIs DEF Persisting
    <2>. QED BY <1>0, <1>11, <2>1, NoteIs, TrackedKeeps DEF Tracking
  <1>12. CASE History
    <2>1. doing.op = "history" BY <1>12 DEF History, At1
    <2>2. after = NoOp BY <2>1, AfterIs DEF Persisting
    <2>3. doing'.op \in {"none", "timing"} /\ after'.op \in {"none", "commit"} /\ tracker' = tracker
      BY <1>0, <1>12, <2>2, StepFacts DEF History, Both, Done
    <2>. QED BY <2>3, TrackingElse
  <1>. QED BY <1>1, <1>2, <1>3, <1>4, <1>5, <1>6, <1>7, <1>8, <1>9, <1>10, <1>11, <1>12 DEF Telling

Others == Send \/ Disconnect \/ Reconnect \/ Elapse \/ Refreshing \/ CancelRequest
Ends   == GiveUp \/ Close \/ Again \/ EndProcess \/ StartProcess

LEMMA OthersTracking ==
    ASSUME RelayTypeOK, Control, Tracking, Others
    PROVE  Tracking'
  <1>1. CASE Send \/ Disconnect \/ Reconnect \/ Refresh \/ CancelRequest
    <2>1. doing' = doing /\ after' = after /\ tracker' = tracker
      BY <1>1 DEF Send, Disconnect, Reconnect, Refresh, CancelRequest, ops
    <2>. QED BY <2>1, TrackingBeside
  <1>2. CASE Elapse
    <2>1. tracker.there BY <1>2 DEF Elapse, Tracking, NoTracker
    <2>2. tracker'.there /\ tracker'.last = tracker.last /\ tracker'.pending = tracker.pending
      BY <1>2, <2>1 DEF Elapse, RelayTypeOK, Trackers
    <2>3. doing' = doing /\ after' = after BY <1>2 DEF Elapse, ops
    <2>. QED BY <2>1, <2>2, <2>3, TrackingBeside
  <1>3. CASE RefreshLook \/ RefreshLoad \/ RefreshWrite \/ RefreshNote
    <2>1. doing' = doing /\ after' = after
      BY <1>3 DEF RefreshLook, RefreshLoad, RefreshWrite, RefreshNote, ops
    <2>2. tracker' = tracker \/ tracker' = Tracked \/
            (tracker'.there /\ tracker'.last = Tracked.last /\ tracker'.pending = Tracked.pending)
      BY <1>3, RefreshLookIs, RefreshLoadIs, RefreshWriteIs, RefreshNoteIs
    <2>. QED BY <2>1, <2>2, TrackedIs, TrackingBeside
  <1>. QED BY <1>1, <1>2, <1>3 DEF Others, Refreshing

LEMMA EndsTracking ==
    ASSUME RelayTypeOK, Control, Tracking, Ends
    PROVE  Tracking'
  <1>0. NoOp.op = "none" BY StepFacts
  <1>1. CASE GiveUp
    <2>1. doing.op = "commit" BY <1>1 DEF GiveUp, At1
    <2>2. after = NoOp BY <2>1, AfterIs DEF Persisting
    <2>3. doing'.op = "close" /\ after' = after /\ tracker' = tracker BY <1>1, StepFacts DEF GiveUp, Then
    <2>. QED BY <1>0, <2>2, <2>3, TrackingElse
  <1>2. CASE Close \/ EndProcess
    <2>1. doing' = NoOp /\ after' = NoOp /\ tracker' = NoTracker BY <1>2 DEF Close, EndProcess, Closed, Both
    <2>. QED BY <1>0, <2>1 DEF Tracking, NoTracker
  <1>3. CASE Again
    <2>1. doing' = Persist(NoProgress, FALSE) /\ after' = NoOp /\ tracker' = tracker BY <1>3 DEF Again, Both
    <2>2. doing'.op = "load" /\ doing'.snap = NoProgress /\ doing'.audit = FALSE BY <2>1, StepFacts
    <2>. QED BY <1>0, <2>1, <2>2 DEF Tracking
  <1>4. CASE StartProcess
    <2>1. doing' = doing /\ after' = after /\ tracker' = tracker BY <1>4 DEF StartProcess, ops
    <2>. QED BY <2>1, TrackingBeside
  <1>. QED BY <1>1, <1>2, <1>3, <1>4 DEF Ends

-----------------------------------------------------------------------------
(* Everything stays of the attempt of the row.                             *)
LEMMA TrackedTimely ==
    ASSUME RelayTypeOK, Control, Tracking, Timely
    PROVE  /\ OfRow(Tracked.last) /\ OfRow(Tracked.audited) /\ OfRow(Tracked.pending)
           /\ monitor = "off" => Tracked.last = NoProgress /\ Tracked.audited = NoProgress /\ Tracked.stateNodes = {}
           /\ OfRow(NoProgress) /\ NoOp.snap = NoProgress /\ NoOp.op = "none"
           /\ ~Over => OfRow(Seen(doing))
  <1>1. OfRow(record.progress) BY DEF Timely, OfRow
  <1>2. OfRow(NoProgress) BY DEF OfRow
  <1>3. monitor = "off" => record.progress = NoProgress BY DEF Control, Timely
  <1>4. NoOp.snap = NoProgress /\ NoOp.op = "none" BY StepFacts
  <1>5. OfRow(Seen(doing)) BY <1>1 DEF Seen, Timely
  <1>. QED BY <1>1, <1>2, <1>3, <1>4, <1>5, TrackedIs, TrackedKeeps DEF Timely

LEMMA TellingTimely ==
    ASSUME RelayTypeOK, Control, Tracking, Timely, Telling
    PROVE  Timely'
  <1>. USE TrackedTimely
  <1>0. OfRow(doing.snap) /\ OfRow(after.snap) /\ OfRow(tracker.last) /\ OfRow(tracker.audited) BY DEF Timely
  <1>t. /\ monitor' = "on" /\ ~Over /\ refresh' = refresh /\ record'.status = record.status
        /\ record'.attempt = record.attempt
    BY TellingIs
  <1>. DEFINE Kept == OfRow(tracker'.last) /\ OfRow(tracker'.audited) /\ OfRow(doing'.snap) /\ OfRow(after'.snap)
  <1>1. Kept
    <2>1. CASE Take
      <3>1. OfRow(Asked(Head(buffer)).snap) BY <2>1, TakeIs, AskedFacts
      <3>2. tracker' = tracker BY <2>1 DEF Take
      <3>. QED BY <1>0, <2>1, <3>1, <3>2, TakeIs
    <2>2. CASE Turn
      <3>1. doing'.snap = NoProgress /\ after'.snap = NoProgress /\ tracker' = tracker
        BY <2>2, StepFacts DEF Turn, Both
      <3>. QED BY <1>0, <3>1
    <2>3. CASE SaveStart \/ SaveTiming BY <1>0, <2>3 DEF SaveStart, SaveTiming, Done
    <2>4. CASE Prefer BY <1>0, <2>4, PreferIs
    <2>5. CASE Legacy BY <1>0, <2>5, LegacyIs
    <2>6. CASE Queue
      <3>1. Flush(TRUE).snap = NoProgress BY StepFacts
      <3>. QED BY <1>0, <2>6, <3>1, QueueIs
    <2>7. CASE Moved BY <1>0, <2>7, MovedIs
    <2>8. CASE FlushPending
      <3>1. tracker'.last = tracker.last /\ tracker'.audited = tracker.audited
        BY <2>8 DEF FlushPending, RelayTypeOK, Trackers
      <3>2. OfRow(tracker.pending) BY <1>0 DEF Tracking
      <3>. QED BY <1>0, <2>8, <3>1, <3>2, FlushIs
    <2>9. CASE Load BY <1>0, <1>t, <2>9, LoadIs
    <2>10. CASE WriteRow BY <1>0, <2>10, WriteIs
    <2>11. CASE Note BY <1>0, <2>11, NoteIs
    <2>12. CASE History
      <3>1. /\ doing'.snap = NoProgress \/ doing' = after
            /\ after'.snap = NoProgress /\ tracker' = tracker
        BY <2>12, StepFacts DEF History, Both, Done
      <3>. QED BY <1>0, <3>1
    <2>. QED BY <2>1, <2>2, <2>3, <2>4, <2>5, <2>6, <2>7, <2>8, <2>9, <2>10, <2>11, <2>12 DEF Telling
  <1>2. record.progress.attempt = record.attempt /\ \A i \in DOMAIN log : log[i].attempt <= record.attempt
    BY <1>t DEF Timely
  <1>3. record'.progress.attempt = record.attempt /\ \A i \in DOMAIN log' : log'[i].attempt <= record.attempt
    <2>1. CASE WriteRow /\ Current(doing)
      <3>1. doing.snap.attempt = record.attempt BY <1>0, <2>1, WriteIs DEF OfRow
      <3>2. record'.progress = doing.snap BY <2>1, WriteIs DEF RelayTypeOK
      <3>3. log \in Seq(Snapshots) /\ doing.snap \in Snapshots /\ record.attempt \in Nat
        BY <2>1, WriteIs DEF RelayTypeOK, Attempts
      <3>4. \A i \in DOMAIN log' : log'[i].attempt <= record.attempt
        <4>1. CASE log' = log BY <1>2, <4>1
        <4>2. CASE log' = Append(log, doing.snap) BY <1>2, <3>1, <3>3, <4>2
        <4>. QED BY <2>1, <4>1, <4>2, WriteIs
      <3>. QED BY <3>1, <3>2, <3>4
    <2>2. CASE ~(WriteRow /\ Current(doing))
      <3>1. log' = log
        BY <2>2, WriteIs DEF Telling, Take, Turn, SaveStart, Prefer, Legacy, Queue, Moved, FlushPending, Load, Note,
                    History, SaveTiming
      <3>2. record'.progress = record.progress
        <4>1. CASE SaveStart \/ SaveTiming BY <4>1 DEF SaveStart, SaveTiming, RelayTypeOK
        <4>2. CASE ~(SaveStart \/ SaveTiming)
          BY <2>2, <4>2, WriteIs DEF Telling, Take, Turn, Prefer, Legacy, Queue, Moved, FlushPending, Load, Note,
                    History
        <4>. QED BY <4>1, <4>2
      <3>. QED BY <1>2, <3>1, <3>2
    <2>. QED BY <2>1, <2>2
  <1>4. ~Over' BY <1>t DEF Over
  <1>. QED BY <1>t, <1>1, <1>3, <1>4 DEF Timely, OfRow

LEMMA OthersTimely ==
    ASSUME RelayTypeOK, Control, Tracking, Timely, Others, "late" \notin excuses'
    PROVE  Timely'
  <1>. USE TrackedTimely
  <1>1. CASE Send \/ Disconnect \/ Reconnect
    <2>1. UNCHANGED <<record, tracker, doing, after, monitor, refresh, log>>
      BY <1>1 DEF Send, Disconnect, Reconnect, ops
    <2>. QED BY <2>1 DEF Timely, OfRow, Over
  <1>2. CASE Elapse
    <2>1. UNCHANGED <<record, doing, after, monitor, refresh, log>> /\ tracker'.last = tracker.last
          /\ tracker'.audited = tracker.audited /\ tracker'.stateNodes = tracker.stateNodes
      BY <1>2 DEF Elapse, RelayTypeOK, Trackers, ops
    <2>. QED BY <2>1 DEF Timely, OfRow, Over
  <1>3. CASE Refresh
    <2>1. refresh'.op = "look" BY <1>3 DEF Refresh, Op
    <2>2. UNCHANGED <<record, tracker, doing, after, monitor, log>> BY <1>3 DEF Refresh, ops
    <2>. QED BY <2>1, <2>2 DEF Timely, OfRow, Over
  <1>4. CASE RefreshLook
    <2>1. UNCHANGED <<record, doing, after, monitor, log>> BY <1>4 DEF RefreshLook, ops
    <2>. QED BY <1>4, <2>1, RefreshLookIs DEF Timely, OfRow, Over
  <1>5. CASE RefreshLoad
    <2>1. UNCHANGED <<record, doing, after, monitor, log>> BY <1>5 DEF RefreshLoad, ops
    <2>2. refresh.attempt = record.attempt /\ record.status # "queued" BY <1>5, RefreshLoadIs
    <2>3. OfRow(Seen(refresh)) BY <1>5, <2>2, RefreshLoadIs DEF Timely, OfRow, Seen
    <2>. QED BY <1>5, <2>1, <2>2, <2>3, RefreshLoadIs DEF Timely, OfRow, Over
  <1>6. CASE RefreshWrite
    <2>1. UNCHANGED <<tracker, doing, after, monitor, log>> BY <1>6, RefreshWriteIs DEF RefreshWrite, ops
    <2>2. record'.status = record.status /\ record'.attempt = record.attempt BY <1>6, RefreshWriteIs
    <2>3. CASE ~Current(refresh) BY <1>6, <2>1, <2>2, <2>3, RefreshWriteIs DEF Timely, OfRow, Over
    <2>4. CASE Current(refresh)
      <3>1. ~Over /\ refresh.attempt = record.attempt
        BY <1>6, <2>4, RefreshWriteIs DEF Current, Over, Timely, Control
      <3>2. refresh.snap.attempt = record.attempt BY <1>6, <3>1, RefreshWriteIs DEF Timely, OfRow
      <3>. QED BY <1>6, <2>1, <2>2, <2>4, <3>1, <3>2, RefreshWriteIs DEF Timely, OfRow, Over
    <2>. QED BY <2>3, <2>4
  <1>7. CASE RefreshNote
    <2>1. UNCHANGED <<record, doing, after, monitor, log>> BY <1>7 DEF RefreshNote, ops
    <2>. QED BY <1>7, <2>1, RefreshNoteIs DEF Timely, OfRow, Over
  <1>8. CASE CancelRequest
    <2>1. /\ record'.status = "cancel_requested" /\ record.status = "running" /\ record'.attempt = record.attempt
          /\ record'.progress = record.progress
      BY <1>8 DEF CancelRequest, RelayTypeOK
    <2>2. UNCHANGED <<tracker, doing, after, monitor, refresh, log>> BY <1>8 DEF CancelRequest, ops
    <2>. QED BY <2>1, <2>2 DEF Timely, OfRow, Over
  <1>. QED BY <1>1, <1>2, <1>3, <1>4, <1>5, <1>6, <1>7, <1>8 DEF Others, Refreshing

LEMMA EndsTimely ==
    ASSUME RelayTypeOK, Control, Tracking, Timely, Ends
    PROVE  Timely'
  <1>. USE TrackedTimely
  <1>1. CASE GiveUp
    <2>1. record'.attempt = record.attempt /\ record'.status \in {"ended", "queued"} /\ record'.progress = NoProgress
      BY <1>1 DEF GiveUp, RelayTypeOK
    <2>2. doing'.snap = NoProgress /\ after' = after /\ monitor' = "on" BY <1>1, StepFacts DEF GiveUp, Then, At1
    <2>3. UNCHANGED <<tracker, refresh, log>> BY <1>1 DEF GiveUp
    <2>. QED BY <2>1, <2>2, <2>3 DEF Timely, OfRow, Over
  <1>2. CASE Close \/ EndProcess
    <2>1. /\ doing'.snap = NoProgress /\ after'.snap = NoProgress /\ tracker'.last = NoProgress
          /\ tracker'.audited = NoProgress /\ tracker'.stateNodes = {} /\ record' = record /\ log' = log
          /\ (refresh' = refresh \/ refresh'.op = "none")
      BY <1>2 DEF Close, EndProcess, Closed, Both, NoTracker
    <2>. QED BY <2>1 DEF Timely, OfRow, Over
  <1>3. CASE Again
    <2>1. /\ record'.attempt = record.attempt + 1 /\ record'.status = "running"
          /\ record'.progress.attempt = record.attempt + 1 /\ monitor' = "on"
          /\ tracker' = tracker /\ refresh' = refresh /\ log' = log
      BY <1>3 DEF Again, StartOf
    <2>2. doing'.snap = NoProgress /\ after'.snap = NoProgress BY <1>3, StepFacts DEF Again, Both
    <2>3. tracker.last = NoProgress /\ tracker.audited = NoProgress BY <1>3 DEF Again, Timely
    <2>4. refresh.attempt <= record.attempt BY DEF Control
    <2>5. record.attempt \in Nat /\ refresh.attempt \in Nat BY StepsAre DEF RelayTypeOK, Attempts
    <2>6. \A i \in DOMAIN log : log[i].attempt <= record.attempt + 1
      <3>1. \A i \in DOMAIN log : log[i] \in Snapshots BY DEF RelayTypeOK
      <3>2. \A i \in DOMAIN log : log[i].attempt \in Nat BY <3>1, SnapFacts DEF Attempts
      <3>. QED BY <2>5, <3>2 DEF Timely
    <2>. QED BY <2>1, <2>2, <2>3, <2>4, <2>5, <2>6 DEF Timely, OfRow, Over
  <1>4. CASE StartProcess
    <2>1. /\ UNCHANGED <<record, tracker, doing, after, refresh, log>> /\ tracker = NoTracker
      BY <1>4 DEF StartProcess, ops, Control
    <2>2. tracker.last = NoProgress /\ tracker.audited = NoProgress /\ tracker.stateNodes = {}
      BY <2>1 DEF NoTracker
    <2>. QED BY <2>1, <2>2 DEF Timely, OfRow, Over
  <1>. QED BY <1>1, <1>2, <1>3, <1>4 DEF Ends

LEMMA TimelyInit == RelayInit => Timely
  <1>. SUFFICES ASSUME RelayInit PROVE Timely OBVIOUS
  <1>1. doing.snap = NoProgress /\ after.snap = NoProgress /\ refresh.op = "none" BY StepFacts DEF RelayInit
  <1>2. record.progress.attempt = 1 /\ record.attempt = 1 /\ record.status = "running" BY DEF RelayInit, StartOf
  <1>3. tracker.last = NoProgress /\ tracker.audited = NoProgress /\ monitor = "on" /\ log = << >>
    BY DEF RelayInit, NoTracker
  <1>. QED BY <1>1, <1>2, <1>3 DEF Timely, OfRow, Over

-----------------------------------------------------------------------------
(* What is left stays in the log.                                          *)
LEMMA LogKeeps ==
    ASSUME RelayTypeOK, NEW s, s \in Snapshots, log' = log \/ log' = Append(log, s)
    PROVE  /\ \A x : Logged(x) => \E i \in DOMAIN log' : Same(log'[i], x) /\ log'[i].attempt = x.attempt
           /\ log' = Append(log, s) => \E i \in DOMAIN log' : Same(log'[i], s) /\ log'[i].attempt = s.attempt
  <1>1. log \in Seq(Snapshots) BY DEF RelayTypeOK
  <1>2. CASE log' = log
    <2>1. log # Append(log, s) BY <1>1
    <2>. QED BY <1>2, <2>1 DEF Logged
  <1>3. CASE log' = Append(log, s)
    <2>1. /\ Len(log) + 1 \in DOMAIN log' /\ log'[Len(log) + 1] = s
          /\ \A i \in DOMAIN log : i \in DOMAIN log' /\ log'[i] = log[i]
      BY <1>1, <1>3
    <2>. QED BY <2>1 DEF Logged, Same
  <1>. QED BY <1>2, <1>3

LEMMA SameLogged ==
    ASSUME RelayTypeOK, Tracking, Timely, Counting, tracker.last # NoProgress, Same(tracker.audited, tracker.last)
    PROVE  Logged(tracker.last)
  <1>1. tracker.audited \in Snapshots /\ tracker.last \in Snapshots BY TrackersAre DEF RelayTypeOK
  <1>2. tracker.audited # NoProgress BY <1>1, SnapFacts DEF Same, NoProgress
  <1>3. tracker.audited.attempt = tracker.last.attempt BY <1>2 DEF Timely, OfRow
  <1>4. Logged(tracker.audited) BY <1>2 DEF Counting
  <1>. QED BY <1>3, <1>4 DEF Logged, Same

(* Of the tracker only what was audited counts, while nothing is done.     *)
LEMMA CountingBeside ==
    ASSUME RelayTypeOK, Tracking, Counting, log' = log, left' = left,
           tracker'.audited \in {tracker.audited, NoProgress}, tracker.there => tracker'.last = tracker.last,
           \/ doing' = doing /\ after' = after
           \/ doing'.op \notin {"note", "moved", "write"}
    PROVE  Counting'
  <1>1. CASE doing' = doing /\ after' = after BY <1>1 DEF Counting, Tracking, Logged, Leaves
  <1>2. CASE doing'.op \notin {"note", "moved", "write"} BY <1>2 DEF Counting, Logged
  <1>. QED BY <1>1, <1>2

LEMMA TrackedAudited ==
    ASSUME RelayTypeOK
    PROVE  /\ Tracked.audited \in {tracker.audited, NoProgress} /\ (tracker.there => Tracked.last = tracker.last)
           /\ tracker.there => Tracked.audited = tracker.audited
           /\ NoOp.op = "none"
  BY TrackedIs, StepFacts

LEMMA TellingCounting ==
    ASSUME RelayTypeOK, Control, Tracking, Timely, Counting, Telling, "refused" \notin excuses'
    PROVE  Counting'
  <1>. USE TrackedAudited
  <1>1. CASE Take \/ Turn \/ SaveStart \/ SaveTiming \/ History
    <2>1. tracker' = tracker /\ log' = log /\ left' = left
      BY <1>1 DEF Take, Turn, SaveStart, SaveTiming, History
    <2>2. doing'.op \notin {"note", "moved", "write"}
      <3>1. CASE Take BY <3>1, TakeIs
      <3>2. CASE Turn BY <3>2, StepFacts DEF Turn, Both
      <3>3. CASE SaveStart \/ SaveTiming BY <3>3, AfterIs DEF SaveStart, SaveTiming, Done, At1
      <3>4. CASE History
        <4>1. doing.op = "history" BY <3>4 DEF History, At1
        <4>2. after = NoOp BY <4>1, AfterIs DEF Persisting
        <4>. QED BY <3>4, <4>2, StepFacts DEF History, Both, Done
      <3>. QED BY <1>1, <3>1, <3>2, <3>3, <3>4
    <2>. QED BY <2>1, <2>2, CountingBeside
  <1>2. CASE Prefer
    <2>1. log' = log /\ left' = left BY <1>2 DEF Prefer
    <2>. QED BY <1>2, <2>1, PreferIs, CountingBeside
  <1>3. CASE Legacy
    <2>1. log' = log /\ left' = left BY <1>3 DEF Legacy
    <2>. QED BY <1>3, <2>1, LegacyIs, CountingBeside
  <1>4. CASE Queue
    <2>1. log' = log /\ left' = left /\ tracker' = Tracked BY <1>4 DEF Queue
    <2>2. CASE doing'.op \notin {"note", "moved", "write"} BY <2>1, <2>2, CountingBeside
    <2>3. CASE ~Leaves(Tracked, doing.snap) /\ doing'.op = "moved" /\ doing'.snap = doing.snap /\ after' = NoOp
      BY <2>1, <2>3 DEF Counting, Logged
    <2>4. Flush(TRUE).op = "flush" BY StepFacts
    <2>. QED BY <1>4, <2>2, <2>3, <2>4, QueueIs
  <1>5. CASE Moved
    <2>1. tracker.there /\ doing.op = "moved" /\ log' = log BY <1>5 DEF Moved, At1, Tracking
    <2>2. left' = IF Leaves(tracker, doing.snap) THEN left \cup {tracker.last} ELSE left
      BY <1>5, <2>1, TrackedIs DEF Moved
    <2>3. \A s \in left' : Logged(s) BY <2>1, <2>2 DEF Counting
    <2>4. doing'.op \in {"none", "load"} /\ tracker'.audited = tracker.audited BY <1>5, <2>1, MovedIs
    <2>. QED BY <2>1, <2>3, <2>4 DEF Counting, Logged
  <1>6. CASE FlushPending
    <2>1. log' = log /\ left' = left /\ tracker'.last = tracker.last /\ tracker'.audited = tracker.audited
      BY <1>6 DEF FlushPending, RelayTypeOK, Trackers
    <2>2. CASE doing'.op = "load" BY <2>1, <2>2, CountingBeside
    <2>3. CASE doing' = after /\ after' = NoOp
      <3>1. doing.op = "flush" /\ after.op \in {"none", "moved", "history"} BY <1>6, FlushIs, AfterIs DEF Persisting
      <3>2. CASE after.op = "moved"
        <4>1. tracker.last # NoProgress /\ tracker.there /\ doing.audit BY <3>1, <3>2 DEF Tracking
        <4>2. Same(tracker.audited, tracker.last) BY <1>6, <2>3, <4>1, FlushIs
        <4>3. Logged(tracker.last) BY <4>1, <4>2, SameLogged
        <4>. QED BY <2>1, <2>3, <3>2, <4>3 DEF Counting, Logged, Leaves
      <3>3. CASE after.op # "moved" BY <2>1, <2>3, <3>1, <3>3, CountingBeside
      <3>. QED BY <3>2, <3>3
    <2>. QED BY <1>6, <2>2, <2>3, FlushIs
  <1>7. CASE Load
    <2>1. log' = log /\ left' = left /\ tracker' = Tracked /\ doing.op = "load" BY <1>7, LoadIs DEF Load
    <2>2. CASE after.op = "moved"
      <3>1. /\ tracker.last # NoProgress /\ tracker.there /\ doing.audit /\ doing.snap = tracker.last
            /\ Seen(doing) = tracker.last /\ Tracked = tracker
        BY <2>1, <2>2, TrackedIs DEF Tracking, Seen
      <3>2. doing'.op = "write" /\ (doing'.audit <=> ~Same(tracker.audited, tracker.last))
        BY <1>7, <3>1, LoadIs
      <3>3. doing'.audit \/ Logged(tracker.last) BY <3>1, <3>2, SameLogged
      <3>. QED BY <2>1, <3>1, <3>2, <3>3 DEF Counting, Logged
    <2>3. CASE after.op # "moved"
      <3>1. doing'.op \in {"write", "none", "history"} /\ after'.op # "moved"
        BY <1>7, <2>1, <2>3, LoadIs, AfterIs DEF Persisting
      <3>. QED BY <2>1, <3>1 DEF Counting, Logged
    <2>. QED BY <2>2, <2>3
  <1>8. CASE WriteRow
    <2>1. /\ doing.op = "write" /\ tracker' = tracker /\ left' = left /\ doing'.op = "note" /\ after' = after
          /\ log' = (IF doing.audit THEN Append(log, doing.snap) ELSE log)
          /\ doing'.snap = doing.snap /\ doing'.audit = doing.audit /\ doing.snap \in Snapshots
      BY <1>8, WriteIs DEF WriteRow
    <2>2. log' = log \/ log' = Append(log, doing.snap) BY <2>1
    <2>3. \A x : Logged(x) => \E i \in DOMAIN log' : Same(log'[i], x) /\ log'[i].attempt = x.attempt
      BY <2>1, <2>2, LogKeeps
    <2>4. doing.audit => \E i \in DOMAIN log' : Same(log'[i], doing.snap) /\ log'[i].attempt = doing.snap.attempt
      BY <2>1, <2>2, LogKeeps
    <2>5. after.op = "moved" => doing.audit \/ Logged(tracker.last) BY <2>1 DEF Counting
    <2>6. after.op = "moved" /\ doing.audit => doing.snap = tracker.last BY <2>1 DEF Tracking
    <2>7. (\A s \in left : Logged(s)) /\ (tracker.audited # NoProgress => Logged(tracker.audited)) BY DEF Counting
    <2>8. /\ \A s \in left : \E i \in DOMAIN log' : Same(log'[i], s) /\ log'[i].attempt = s.attempt
          /\ tracker.audited # NoProgress =>
                \E i \in DOMAIN log' : Same(log'[i], tracker.audited) /\ log'[i].attempt = tracker.audited.attempt
          /\ after.op = "moved" =>
                \E i \in DOMAIN log' : Same(log'[i], tracker.last) /\ log'[i].attempt = tracker.last.attempt
      BY <2>3, <2>4, <2>5, <2>6, <2>7
    <2>. QED BY <2>1, <2>4, <2>8 DEF Counting, Logged, Same
  <1>9. CASE Note
    <2>1. log' = log /\ left' = left /\ doing.op = "note" /\ doing' = after /\ after' = NoOp BY <1>9, NoteIs DEF Note
    <2>2. tracker.there BY <2>1 DEF Tracking
    <2>3. tracker'.last = tracker.last /\ tracker'.audited \in {tracker.audited, doing.snap}
          /\ (tracker'.audited = doing.snap => tracker'.audited = tracker.audited \/ doing.audit)
      BY <1>9, <2>2, NoteIs
    <2>4. tracker'.audited # NoProgress => Logged(tracker'.audited) BY <2>1, <2>3 DEF Counting
    <2>5. after.op \in {"none", "moved", "history"} BY <2>1, AfterIs DEF Persisting
    <2>6. after.op = "moved" => Logged(tracker.last) BY <2>1 DEF Counting
    <2>7. \A s \in left : Logged(s) BY DEF Counting
    <2>. QED BY <2>1, <2>3, <2>4, <2>5, <2>6, <2>7 DEF Counting, Logged
  <1>. QED BY <1>1, <1>2, <1>3, <1>4, <1>5, <1>6, <1>7, <1>8, <1>9 DEF Telling

LEMMA OthersCounting ==
    ASSUME RelayTypeOK, Control, Tracking, Counting, Others
    PROVE  Counting'
  <1>. USE TrackedAudited
  <1>1. doing' = doing /\ after' = after /\ left' = left
    BY DEF Others, Refreshing, Send, Disconnect, Reconnect, Elapse, Refresh, RefreshLook, RefreshLoad, RefreshWrite,
           RefreshNote, CancelRequest, ops
  <1>2. log' = log
    <2>1. CASE RefreshWrite BY <2>1, RefreshWriteIs
    <2>. QED BY <2>1 DEF Others, Refreshing, Send, Disconnect, Reconnect, Elapse, Refresh, RefreshLook, RefreshLoad,
                         RefreshNote, CancelRequest
  <1>3. tracker'.audited \in {tracker.audited, NoProgress} /\ (tracker.there => tracker'.last = tracker.last)
    <2>1. CASE Elapse BY <2>1 DEF Elapse, RelayTypeOK, Trackers
    <2>2. CASE Send \/ Disconnect \/ Reconnect \/ Refresh \/ CancelRequest
      BY <2>2 DEF Send, Disconnect, Reconnect, Refresh, CancelRequest
    <2>3. CASE RefreshLook \/ RefreshLoad BY <2>3, RefreshLookIs, RefreshLoadIs
    <2>4. CASE RefreshWrite BY <2>4, RefreshWriteIs
    <2>5. CASE RefreshNote BY <2>5, RefreshNoteIs
    <2>. QED BY <2>1, <2>2, <2>3, <2>4, <2>5 DEF Others, Refreshing
  <1>. QED BY <1>1, <1>2, <1>3, CountingBeside

LEMMA EndsCounting ==
    ASSUME RelayTypeOK, Control, Tracking, Counting, Ends
    PROVE  Counting'
  <1>0. NoOp.op = "none" BY StepFacts
  <1>1. log' = log /\ left' = left BY DEF Ends, GiveUp, Close, Again, EndProcess, StartProcess
  <1>2. doing'.op \notin {"note", "moved", "write"} \/ (doing' = doing /\ after' = after)
    <2>1. CASE GiveUp BY <2>1, StepFacts DEF GiveUp, Then
    <2>2. CASE Close \/ EndProcess BY <1>0, <2>2 DEF Close, EndProcess, Closed, Both
    <2>3. CASE Again BY <2>3, StepFacts DEF Again, Both
    <2>4. CASE StartProcess BY <2>4 DEF StartProcess, ops
    <2>. QED BY <2>1, <2>2, <2>3, <2>4 DEF Ends
  <1>3. CASE Close \/ EndProcess
    <2>1. doing' = NoOp /\ tracker'.audited = NoProgress
      BY <1>3 DEF Close, EndProcess, Closed, Both, NoTracker
    <2>. QED BY <1>0, <1>1, <2>1 DEF Counting, Logged
  <1>4. CASE GiveUp \/ Again \/ StartProcess
    <2>1. tracker' = tracker BY <1>4 DEF GiveUp, Again, StartProcess
    <2>. QED BY <1>1, <1>2, <2>1, CountingBeside
  <1>. QED BY <1>3, <1>4 DEF Ends

LEMMA CountingInit == RelayInit => Counting
  <1>. SUFFICES ASSUME RelayInit PROVE Counting OBVIOUS
  <1>1. doing.op = "load" BY StepFacts DEF RelayInit
  <1>2. left = {} /\ tracker.audited = NoProgress BY DEF RelayInit, NoTracker
  <1>. QED BY <1>1, <1>2 DEF Counting

-----------------------------------------------------------------------------
(* The numbers the buffer holds and those still to be sent rise.           *)
LEMMA RisingKept ==
    ASSUME RelayTypeOK, Control, Rising, RelayNext
    PROVE  Rising'
  <1>0. /\ DOMAIN Script = 1 .. Len(Script) /\ Len(Script) \in Nat /\ buffer \in Seq(Messages)
        /\ \A i, j \in DOMAIN Script : i < j => Rises(Script[i], Script[j])
        /\ position \in 0 .. Len(Script)
    BY ScriptIs, ScriptAssumption DEF RelayTypeOK
  <1>1. CASE UNCHANGED <<buffer, position>> BY <1>1 DEF Rising
  <1>2. CASE buffer' = << >> BY <1>2 DEF Rising
  <1>3. CASE Send
    <2>1. position + 1 \in DOMAIN Script /\ position' = position + 1 BY <1>0, <1>3 DEF Send
    <2>2. CASE buffer' = buffer BY <1>0, <2>1, <2>2 DEF Rising
    <2>3. CASE buffer' = Append(buffer, Script[position + 1])
      <3>1. /\ Len(buffer') = Len(buffer) + 1 /\ DOMAIN buffer' = 1 .. Len(buffer) + 1
            /\ buffer'[Len(buffer) + 1] = Script[position + 1]
            /\ \A i \in 1 .. Len(buffer) : buffer'[i] = buffer[i]
            /\ DOMAIN buffer = 1 .. Len(buffer) /\ Len(buffer) \in Nat
        BY <1>0, <2>1, <2>3, ScriptIs
      <3>2. ASSUME NEW i \in DOMAIN buffer', NEW j \in DOMAIN buffer', i < j PROVE Rises(buffer'[i], buffer'[j])
        <4>1. i \in DOMAIN buffer BY <3>1, <3>2
        <4>2. CASE j = Len(buffer) + 1 BY <1>0, <2>1, <3>1, <4>1, <4>2 DEF Rising
        <4>3. CASE j # Len(buffer) + 1
          <5>1. j \in DOMAIN buffer BY <3>1, <4>3
          <5>. QED BY <3>1, <3>2, <4>1, <5>1 DEF Rising
        <4>. QED BY <4>2, <4>3
      <3>3. ASSUME NEW i \in DOMAIN buffer', NEW k \in position + 2 .. Len(Script)
            PROVE  Rises(buffer'[i], Script[k])
        <4>0. k \in DOMAIN Script /\ k \in position + 1 .. Len(Script) /\ position + 1 < k BY <1>0
        <4>1. CASE i = Len(buffer) + 1 BY <1>0, <2>1, <3>1, <4>0, <4>1
        <4>2. CASE i # Len(buffer) + 1
          <5>1. i \in DOMAIN buffer BY <3>1, <4>2
          <5>. QED BY <3>1, <4>0, <5>1 DEF Rising
        <4>. QED BY <4>1, <4>2
      <3>4. position' + 1 = position + 2 BY <1>0, <2>1
      <3>. QED BY <3>2, <3>3, <3>4 DEF Rising
    <2>. QED BY <1>3, <2>2, <2>3 DEF Send
  <1>4. CASE Reconnect
    <2>1. position' = position BY <1>4 DEF Reconnect, rest
    <2>2. CASE buffer' = buffer BY <2>1, <2>2 DEF Rising
    <2>3. CASE buffer' = Append(buffer, Script[1])
      <3>0. Script[1].kind = "execution_start" /\ Script[1] \in Messages BY ScriptAssumption, ScriptIs
      <3>1. \A e : Rises(Script[1], e) /\ Rises(e, Script[1]) BY <3>0 DEF Rises, Counters
      <3>2. /\ DOMAIN buffer' = 1 .. Len(buffer) + 1 /\ buffer'[Len(buffer) + 1] = Script[1]
            /\ \A i \in 1 .. Len(buffer) : buffer'[i] = buffer[i]
            /\ DOMAIN buffer = 1 .. Len(buffer) /\ Len(buffer) \in Nat
        BY <1>0, <2>3, <3>0
      <3>3. \A i \in DOMAIN buffer' : i \in DOMAIN buffer \/ i = Len(buffer) + 1 BY <3>2
      <3>4. \A i, j \in DOMAIN buffer' : i < j => Rises(buffer'[i], buffer'[j])
        BY <3>1, <3>2, <3>3 DEF Rising
      <3>5. \A i \in DOMAIN buffer', k \in position + 1 .. Len(Script) : Rises(buffer'[i], Script[k])
        BY <3>1, <3>2, <3>3 DEF Rising
      <3>. QED BY <2>1, <3>4, <3>5 DEF Rising
    <2>. QED BY <1>4, <2>2, <2>3 DEF Reconnect
  <1>5. CASE Take
    <2>1. buffer # << >> /\ buffer' = Tail(buffer) /\ position' = position BY <1>5 DEF Take
    <2>2. /\ DOMAIN buffer' = 1 .. Len(buffer) - 1
          /\ \A i \in DOMAIN buffer' : buffer'[i] = buffer[i + 1] /\ i + 1 \in DOMAIN buffer
      BY <1>0, <2>1
    <2>3. ASSUME NEW i \in DOMAIN buffer', NEW j \in DOMAIN buffer', i < j PROVE Rises(buffer'[i], buffer'[j])
      <3>1. i + 1 < j + 1 BY <2>2, <2>3
      <3>. QED BY <2>2, <3>1 DEF Rising
    <2>. QED BY <2>1, <2>2, <2>3 DEF Rising
  <1>6. CASE Again \/ Close \/ EndProcess BY <1>2, <1>6 DEF Again, Close, EndProcess, Closed
  <1>7. CASE Disconnect \/ (Telling /\ ~Take) \/ GiveUp \/ Elapse \/ Refreshing \/ CancelRequest \/ StartProcess
    BY <1>1, <1>7 DEF Disconnect, Telling, Turn, SaveStart, Prefer, Legacy, Queue, Moved, FlushPending, Load,
           WriteRow, Note, History, SaveTiming, GiveUp, Elapse, Refreshing, Refresh, RefreshLook, RefreshLoad,
           RefreshWrite, RefreshNote, CancelRequest, StartProcess, rest
  <1>. QED BY <1>3, <1>4, <1>5, <1>6, <1>7 DEF RelayNext, Monitoring, Telling

-----------------------------------------------------------------------------
(* What is told does not go back: first, of a tracker that grows and of    *)
(* events that become fewer.                                               *)
Grown(t, u) ==
    /\ t.there => u.there /\ u.last = t.last
    /\ ~t.there => u.last = t.last \/ u.last.kind # "node"
    /\ t.stateNodes \subseteq u.stateNodes
Fewer(coming, later) == later \subseteq coming \cup {Script[1]}

LEMMA AheadStays ==
    ASSUME NEW coming, NEW later, Fewer(coming, later), NEW x, Ahead(x, coming)
    PROVE  Ahead(x, later)
  <1>1. Script[1].kind # KindOf(x) BY ScriptAssumption DEF KindOf
  <1>. QED BY <1>1 DEF Ahead, Fewer

LEMMA LastStays ==
    ASSUME NEW t, NEW u, NEW told, NEW coming, NEW later, Grown(t, u), Fewer(coming, later),
           LastInTurn(t, told, coming)
    PROVE  LastInTurn(u, told, later)
  <1>1. u.last.kind = "node" => u.last = t.last BY DEF Grown
  <1>2. told # {} => u.there /\ u.last = t.last BY DEF Grown, LastInTurn
  <1>3. \A x : Ahead(x, coming) => Ahead(x, later) BY AheadStays
  <1>4. \A x : Preferred(x, t.stateNodes) => Preferred(x, u.stateNodes) BY DEF Preferred, Grown
  <1>. QED BY <1>1, <1>2, <1>3, <1>4 DEF LastInTurn

LEMMA TurnStays ==
    ASSUME NEW o, NEW p, NEW t, NEW u, NEW told, NEW coming, NEW later, Grown(t, u), Fewer(coming, later),
           InTurn(o, t, told, coming), p.snap = o.snap, u.stateNodes = t.stateNodes,
           p.op = o.op \/ (o.op = "snap" /\ p.op = "moved")
    PROVE  InTurn(p, u, told, later)
  <1>1. \A x : Ahead(x, coming) => Ahead(x, later) BY AheadStays
  <1>2. Before(t.last, o.snap) => Before(u.last, o.snap) BY DEF Before, Grown
  <1>3. p.op \in Comings => o.op \in Comings BY DEF Comings
  <1>. QED BY <1>1, <1>2, <1>3 DEF InTurn

LEMMA NoTurn == ASSUME NEW o, o.op \notin Comings, NEW t, NEW told, NEW coming PROVE InTurn(o, t, told, coming)
  BY DEF InTurn

LEMMA UpcomingFewer ==
    ASSUME RelayTypeOK, RelayNext, ~Again
    PROVE  Fewer(Upcoming, Upcoming')
  <1>0. DOMAIN Script = 1 .. Len(Script) /\ Len(Script) \in Nat /\ buffer \in Seq(Messages) /\ position \in 0 .. Len(Script)
    BY ScriptIs DEF RelayTypeOK
  <1>1. CASE UNCHANGED <<buffer, position>> BY <1>1 DEF Fewer, Upcoming
  <1>2. CASE Send
    <2>1. position' = position + 1 /\ position + 1 \in DOMAIN Script BY <1>0, <1>2 DEF Send
    <2>2. buffer' = buffer \/ buffer' = Append(buffer, Script[position + 1]) BY <1>2 DEF Send
    <2>3. \A i \in DOMAIN buffer' : (i \in DOMAIN buffer /\ buffer'[i] = buffer[i]) \/ buffer'[i] = Script[position + 1]
      BY <1>0, <2>1, <2>2, ScriptIs
    <2>4. \A k \in position' + 1 .. Len(Script) : k \in position + 1 .. Len(Script) BY <1>0, <2>1
    <2>5. position + 1 \in position + 1 .. Len(Script) BY <1>0, <2>1
    <2>. QED BY <2>3, <2>4, <2>5 DEF Fewer, Upcoming
  <1>3. CASE Reconnect
    <2>1. position' = position BY <1>3 DEF Reconnect, rest
    <2>2. Script[1] \in Messages BY ScriptIs, ScriptAssumption
    <2>3. \A i \in DOMAIN buffer' : (i \in DOMAIN buffer /\ buffer'[i] = buffer[i]) \/ buffer'[i] = Script[1]
      BY <1>0, <1>3, <2>2 DEF Reconnect
    <2>. QED BY <2>1, <2>3 DEF Fewer, Upcoming
  <1>4. CASE Take
    <2>1. buffer # << >> /\ buffer' = Tail(buffer) /\ position' = position BY <1>4 DEF Take
    <2>2. \A i \in DOMAIN buffer' : buffer'[i] = buffer[i + 1] /\ i + 1 \in DOMAIN buffer BY <1>0, <2>1
    <2>. QED BY <2>1, <2>2 DEF Fewer, Upcoming
  <1>5. CASE Close \/ EndProcess
    <2>1. buffer' = << >> /\ position' = position BY <1>5 DEF Close, EndProcess, Closed
    <2>. QED BY <2>1 DEF Fewer, Upcoming
  <1>6. CASE Disconnect \/ (Telling /\ ~Take) \/ GiveUp \/ Elapse \/ Refreshing \/ CancelRequest \/ StartProcess
    BY <1>1, <1>6 DEF Disconnect, Telling, Turn, SaveStart, Prefer, Legacy, Queue, Moved, FlushPending, Load,
           WriteRow, Note, History, SaveTiming, GiveUp, Elapse, Refreshing, Refresh, RefreshLook, RefreshLoad,
           RefreshWrite, RefreshNote, CancelRequest, StartProcess, rest
  <1>. QED BY <1>2, <1>3, <1>4, <1>5, <1>6 DEF RelayNext, Monitoring, Telling

LEMMA TrackedGrown ==
    ASSUME RelayTypeOK, Tracking, TellsAhead, monitor = "on"
    PROVE  Grown(tracker, Tracked) /\ Tracked.stateNodes = tracker.stateNodes
  <1>1. ~tracker.there => tracker.stateNodes = {} BY DEF Tracking, NoTracker
  <1>. QED BY <1>1, TrackedIs DEF Grown, TellsAhead

LEMMA ToldStays ==
    ASSUME log' = log, record'.attempt = record.attempt PROVE Told' = Told
  BY DEF Told

(* While the monitor is on the same things, or goes on to others of them.  *)
LEMMA TellsStays ==
    ASSUME RelayTypeOK, Control, Tracking, TellsAhead, RelayNext, ~Again, monitor = "on",
           log' = log, record'.attempt = record.attempt,
           Grown(tracker, tracker'), tracker'.stateNodes = tracker.stateNodes,
           tracker'.there \/ record'.progress.kind # "node",
           refresh'.op \in {"load", "write"} /\ refresh'.attempt = record.attempt => tracker'.there,
           \/ doing' = doing /\ after' = after
           \/ doing' = after /\ after'.op \notin Comings
           \/ doing'.op \notin Comings /\ (after'.op \notin Comings \/ after' = after)
    PROVE  TellsAhead'
  <1>1. Fewer(Upcoming, Upcoming') /\ Told' = Told BY UpcomingFewer, ToldStays
  <1>2. LastInTurn(tracker, Told, Upcoming) BY DEF TellsAhead
  <1>3. LastInTurn(tracker', Told', Upcoming') BY <1>1, <1>2, LastStays
  <1>4. ASSUME NEW o, InTurn(o, tracker, Told, Upcoming) PROVE InTurn(o, tracker', Told', Upcoming')
    BY <1>1, <1>4, TurnStays
  <1>5. InTurn(doing, tracker, Told, Upcoming) /\ InTurn(after, tracker, Told, Upcoming) BY DEF TellsAhead
  <1>6. InTurn(doing', tracker', Told', Upcoming') /\ InTurn(after', tracker', Told', Upcoming')
    BY <1>4, <1>5, NoTurn
  <1>. QED BY <1>3, <1>6 DEF TellsAhead

LEMMA NeverBackStays == ASSUME NeverBack, log' = log, excuses \subseteq excuses' PROVE NeverBack'
  BY DEF NeverBack

LEMMA GrownSame == ASSUME NEW t PROVE Grown(t, t)
  BY DEF Grown

(* What is taken of the buffer: later numbers are not behind it, and it is *)
(* not behind what was told.                                               *)
LEMMA TakeTells ==
    ASSUME RelayTypeOK, Control, Tracking, Rising, TellsAhead, Take
    PROVE  TellsAhead'
  <1>. DEFINE e == Head(buffer)  a == Asked(e)
  <1>0. /\ monitor = "on" /\ buffer # << >> /\ buffer' = Tail(buffer) /\ buffer \in Seq(Messages)
        /\ UNCHANGED <<position, record, tracker, monitor, refresh, log>>
    BY DEF Take, At1, RelayTypeOK
  <1>1. Fewer(Upcoming, Upcoming') /\ Told' = Told
    <2>1. RelayNext /\ ~Again
      <3>1. RelayNext BY DEF RelayNext, Monitoring
      <3>2. ~Again BY <1>0 DEF Again
      <3>. QED BY <3>1, <3>2
    <2>. QED BY <1>0, <2>1, UpcomingFewer, ToldStays
  <1>2. LastInTurn(tracker, Told, Upcoming) BY <1>0 DEF TellsAhead
  <1>3. LastInTurn(tracker', Told', Upcoming') BY <1>0, <1>1, <1>2, LastStays, GrownSame
  <1>4. e \in Upcoming
    <2>1. 1 \in DOMAIN buffer /\ e = buffer[1] BY <1>0
    <2>. QED BY <2>1 DEF Upcoming
  <1>5. ASSUME NEW f \in Upcoming' PROVE Rises(e, f)
    <2>1. /\ 1 \in DOMAIN buffer /\ e = buffer[1]
          /\ \A i \in DOMAIN buffer' : buffer'[i] = buffer[i + 1] /\ i + 1 \in DOMAIN buffer /\ 1 < i + 1
      BY <1>0
    <2>2. CASE f \in {buffer'[i] : i \in DOMAIN buffer'} BY <2>1, <2>2 DEF Rising
    <2>3. CASE f \in {Script[k] : k \in position + 1 .. Len(Script)} BY <2>1, <2>3 DEF Rising
    <2>. QED BY <1>0, <2>2, <2>3 DEF Upcoming
  <1>6. InTurn(a, tracker', Told', Upcoming')
    <2>. SUFFICES ASSUME a.op \in Comings, a.snap.kind = "node" PROVE InTurn(a, tracker', Told', Upcoming')
      BY DEF InTurn
    <2>1. /\ e.kind = KindOf(a.snap) /\ e.node = a.snap.node /\ e.value = a.snap.value
          /\ a.op = IF a.snap.legacy THEN "legacy" ELSE "prefer"
      BY TakeIs, AskedFacts
    <2>. HIDE DEF a, e
    <2>2. e.kind \in Counters BY <2>1 DEF KindOf, Counters
    <2>3. Ahead(a.snap, Upcoming') BY <1>5, <2>1, <2>2 DEF Ahead, Rises
    <2>4. ASSUME NEW x, Ahead(x, Upcoming) PROVE Before(x, a.snap)
      BY <1>4, <2>1, <2>4 DEF Ahead, Before, KindOf
    <2>5. Before(tracker.last, a.snap) BY <1>2, <2>4 DEF LastInTurn, Before
    <2>6. \A x \in Told : Before(x, a.snap) BY <1>2, <2>4 DEF LastInTurn, Before
    <2>. QED BY <1>0, <1>1, <2>1, <2>3, <2>5, <2>6 DEF InTurn
  <1>7. doing'.op \notin Comings \/ doing' = a
    BY TakeIs DEF Comings
  <1>8. after'.op \notin Comings \/ after' = a
    <2>1. NoOp.op = "none" BY StepFacts
    <2>. QED BY <2>1, TakeIs DEF Comings
  <1>9. InTurn(doing', tracker', Told', Upcoming') /\ InTurn(after', tracker', Told', Upcoming')
    BY <1>6, <1>7, <1>8, NoTurn
  <1>. QED BY <1>0, <1>3, <1>9 DEF TellsAhead

LEMMA QueueTells ==
    ASSUME RelayTypeOK, Control, Tracking, TellsAhead, Prefer \/ Legacy \/ Queue
    PROVE  TellsAhead'
  <1>0. monitor = "on" /\ monitor' = "on" /\ UNCHANGED <<record, refresh, log, position, buffer>>
    BY DEF Prefer, Legacy, Queue, At1, rest
  <1>1. RelayNext /\ ~Again
    <2>1. RelayNext BY DEF RelayNext, Monitoring
    <2>2. ~Again BY <1>0 DEF Again
    <2>. QED BY <2>1, <2>2
  <1>2. Fewer(Upcoming, Upcoming') /\ Told' = Told BY <1>0, <1>1, UpcomingFewer, ToldStays
  <1>3. Grown(tracker, Tracked) /\ Tracked.stateNodes = tracker.stateNodes /\ Tracked.there
    BY <1>0, TrackedGrown, TrackedIs
  <1>4. NoOp.op \notin Comings /\ Flush(TRUE).op \notin Comings BY StepFacts DEF Comings
  <1>5. InTurn(doing, tracker, Told, Upcoming) BY DEF TellsAhead
  <1>6. CASE Prefer
    <2>1. /\ doing.op = "prefer" /\ after' = NoOp /\ doing.snap.kind = "node"
          /\ doing'.op = "snap" /\ doing'.snap = doing.snap
          /\ tracker'.there /\ tracker'.last = Tracked.last
          /\ tracker'.stateNodes = Tracked.stateNodes \cup {doing.snap.node}
      BY <1>6, PreferIs
    <2>2. Grown(tracker, tracker') BY <1>3, <2>1 DEF Grown
    <2>3. LastInTurn(tracker', Told', Upcoming')
      <3>1. LastInTurn(tracker, Told, Upcoming) BY <1>0 DEF TellsAhead
      <3>. QED BY <1>2, <2>2, <3>1, LastStays
    <2>4. /\ Ahead(doing.snap, Upcoming) /\ Before(tracker.last, doing.snap) /\ (\A x \in Told : Before(x, doing.snap))
          /\ ~doing.snap.legacy
      BY <1>5, <2>1 DEF InTurn, Comings
    <2>5. Ahead(doing.snap, Upcoming') BY <1>2, <2>4, AheadStays
    <2>6. Before(tracker'.last, doing.snap) BY <2>2, <2>4 DEF Before, Grown
    <2>7. InTurn(doing', tracker', Told', Upcoming') BY <1>2, <2>1, <2>4, <2>5, <2>6 DEF InTurn
    <2>8. InTurn(after', tracker', Told', Upcoming') BY <1>4, <2>1, NoTurn
    <2>. QED BY <1>0, <2>1, <2>3, <2>7, <2>8 DEF TellsAhead
  <1>7. CASE Legacy \/ Queue
    <2>1. tracker' = Tracked BY <1>7, LegacyIs, QueueIs
    <2>2. LastInTurn(tracker', Told', Upcoming')
      <3>1. LastInTurn(tracker, Told, Upcoming) BY <1>0 DEF TellsAhead
      <3>. QED BY <1>2, <1>3, <2>1, <3>1, LastStays
    <2>3. InTurn(doing', tracker', Told', Upcoming') /\ InTurn(after', tracker', Told', Upcoming')
      <3>1. CASE Legacy
        <4>1. CASE doing' = NoOp /\ after' = NoOp BY <1>4, <4>1, NoTurn
        <4>2. CASE /\ doing.op = "legacy" /\ doing.snap.kind = "node" /\ after' = NoOp
                   /\ doing.snap.node \notin Tracked.stateNodes /\ doing'.op = "snap" /\ doing'.snap = doing.snap
          <5>1. /\ Ahead(doing.snap, Upcoming) /\ Before(tracker.last, doing.snap)
                /\ (\A x \in Told : Before(x, doing.snap)) /\ doing.snap.legacy
            BY <1>5, <4>2 DEF InTurn, Comings
          <5>2. Ahead(doing.snap, Upcoming') BY <1>2, <5>1, AheadStays
          <5>3. Before(tracker'.last, doing.snap) BY <1>3, <2>1, <5>1 DEF Before, Grown
          <5>. QED BY <1>2, <1>4, <2>1, <4>2, <5>1, <5>2, <5>3, NoTurn DEF InTurn
        <4>. QED BY <3>1, <4>1, <4>2, LegacyIs
      <3>2. CASE Queue
        <4>1. CASE doing' = NoOp /\ after' = NoOp BY <1>4, <4>1, NoTurn
        <4>2. CASE doing.op = "snap" /\ after' = NoOp /\ doing'.op = "moved" /\ doing'.snap = doing.snap
          <5>1. InTurn(doing', tracker', Told', Upcoming') BY <1>2, <1>3, <1>5, <2>1, <4>2, TurnStays
          <5>. QED BY <1>4, <4>2, <5>1, NoTurn
        <4>3. CASE doing.op = "snap" /\ doing' = Flush(TRUE) /\ after'.op = "moved" /\ after'.snap = doing.snap
          <5>1. InTurn(after', tracker', Told', Upcoming') BY <1>2, <1>3, <1>5, <2>1, <4>3, TurnStays
          <5>. QED BY <1>4, <4>3, <5>1, NoTurn
        <4>. QED BY <3>2, <4>1, <4>2, <4>3, QueueIs
      <3>. QED BY <1>7, <3>1, <3>2
    <2>. QED BY <1>0, <1>3, <2>1, <2>2, <2>3 DEF TellsAhead
  <1>. QED BY <1>6, <1>7

LEMMA MovedTells ==
    ASSUME RelayTypeOK, Control, Tracking, TellsAhead, Moved
    PROVE  TellsAhead'
  <1>. DEFINE s == doing.snap
  <1>0. /\ monitor = "on" /\ monitor' = "on" /\ doing.op = "moved"
        /\ UNCHANGED <<record, refresh, log, position, buffer>>
    BY DEF Moved, At1, rest
  <1>1. /\ s \in Snapshots /\ tracker'.last = s /\ tracker'.there /\ after' = NoOp /\ doing'.op \notin Comings
        /\ tracker'.stateNodes = tracker.stateNodes
    <2>1. tracker.there BY <1>0 DEF Tracking
    <2>2. NoOp.op = "none" BY StepFacts
    <2>. QED BY <2>1, <2>2, MovedIs, TrackedIs DEF Comings
  <1>2. Upcoming' = Upcoming /\ Told' = Told BY <1>0 DEF Upcoming, Told
  <1>3. InTurn(doing, tracker, Told, Upcoming) /\ LastInTurn(tracker, Told, Upcoming) BY <1>0 DEF TellsAhead
  <1>4. s.kind = "node" => /\ Ahead(s, Upcoming) /\ (\A x \in Told : Before(x, s))
                           /\ s.legacy <=> s.node \notin tracker.stateNodes
    BY <1>0, <1>3 DEF InTurn, Comings
  <1>5. s.kind # "node" => ~s.legacy BY <1>1, SnapFacts
  <1>6. ASSUME NEW x \in Told PROVE NotBack(x, s)
    <2>. SUFFICES ASSUME x.kind = "node", x.node = s.node
                  PROVE  (s.legacy = x.legacy /\ s.kind = "node" => s.value >= x.value) /\ (s.legacy => x.legacy)
      BY DEF NotBack
    <2>1. x \in Snapshots /\ x.value \in Nat /\ s.value \in Nat
      <3>1. x \in Snapshots BY DEF Told, RelayTypeOK
      <3>. QED BY <1>1, <3>1, SnapFacts
    <2>2. s.legacy = x.legacy /\ s.kind = "node" => s.value >= x.value BY <1>4, <2>1 DEF Before
    <2>3. s.legacy => x.legacy BY <1>3, <1>4, <1>5 DEF LastInTurn, Preferred
    <2>. QED BY <2>2, <2>3
  <1>. HIDE DEF s
  <1>7. LastInTurn(tracker', Told', Upcoming')
    BY <1>1, <1>2, <1>3, <1>4, <1>6 DEF LastInTurn, Preferred
  <1>8. NoOp.op \notin Comings BY StepFacts DEF Comings
  <1>9. InTurn(doing', tracker', Told', Upcoming') /\ InTurn(after', tracker', Told', Upcoming')
    BY <1>1, <1>8, NoTurn
  <1>. QED BY <1>0, <1>1, <1>7, <1>9 DEF TellsAhead

(* What is written with a durable event is what the tracker holds.         *)
LEMMA WriteTells ==
    ASSUME RelayTypeOK, Control, Tracking, Timely, TellsAhead, NeverBack, WriteRow, Current(doing),
           {"crash", "late"} \cap excuses' = {}
    PROVE  TellsAhead' /\ NeverBack'
  <1>. DEFINE s == doing.snap
  <1>0. /\ monitor = "on" /\ monitor' = "on" /\ doing.op = "write" /\ tracker.there /\ tracker' = tracker
        /\ UNCHANGED <<refresh, position, buffer>>
    BY DEF WriteRow, At1, rest, Tracking
  <1>1. /\ record'.attempt = record.attempt /\ excuses' = excuses /\ s \in Snapshots /\ s # NoProgress
        /\ log' = (IF doing.audit THEN Append(log, s) ELSE log) /\ after' = after /\ doing'.op = "note"
    BY WriteIs
  <1>2. Upcoming' = Upcoming BY <1>0 DEF Upcoming
  <1>3. /\ LastInTurn(tracker, Told, Upcoming) /\ InTurn(after, tracker, Told, Upcoming)
        /\ (refresh.op \in {"load", "write"} /\ refresh.attempt = record.attempt => tracker.there)
    BY <1>0 DEF TellsAhead
  <1>4. InTurn(doing', tracker', Told', Upcoming') BY <1>1, NoTurn DEF Comings
  <1>5. CASE ~doing.audit
    <2>1. log' = log BY <1>1, <1>5
    <2>2. Told' = Told BY <1>1, <2>1, ToldStays
    <2>3. NeverBack' BY <1>1, <2>1, NeverBackStays
    <2>. QED BY <1>0, <1>1, <1>2, <1>3, <1>4, <2>2, <2>3 DEF TellsAhead
  <1>6. CASE doing.audit
    <2>1. s = tracker.last BY <1>0, <1>6 DEF Tracking
    <2>2. s.attempt = record.attempt BY <1>1, <2>1 DEF Timely, OfRow
    <2>3. /\ log \in Seq(Snapshots) /\ DOMAIN log = 1 .. Len(log) /\ Len(log) \in Nat
          /\ DOMAIN log' = 1 .. Len(log) + 1 /\ log'[Len(log) + 1] = s
          /\ \A i \in DOMAIN log : log'[i] = log[i]
      BY <1>1, <1>6 DEF RelayTypeOK
    <2>4. Told' = Told \cup {s}
      <3>1. \A i \in DOMAIN log' : i \in DOMAIN log \/ i = Len(log) + 1 BY <2>3
      <3>2. Len(log) + 1 \in DOMAIN log' /\ \A i \in DOMAIN log : i \in DOMAIN log' BY <2>3
      <3>3. Told' = {log'[i] : i \in {j \in DOMAIN log' : log'[j].attempt = record.attempt}} BY <1>1 DEF Told
      <3>. QED BY <2>2, <2>3, <3>1, <3>2, <3>3 DEF Told
    <2>5. s.value \in Nat BY <1>1, SnapFacts
    <2>. HIDE DEF s
    <2>6. NotBack(s, s) BY <2>5 DEF NotBack
    <2>7. LastInTurn(tracker', Told', Upcoming')
      BY <1>0, <1>2, <1>3, <2>1, <2>4, <2>6 DEF LastInTurn
    <2>8. InTurn(after', tracker', Told', Upcoming') BY <1>0, <1>1, <1>2, <1>3, <2>1, <2>4 DEF InTurn
    <2>9. ASSUME NEW i \in DOMAIN log', NEW j \in DOMAIN log', i < j, log'[i].attempt = log'[j].attempt
          PROVE  NotBack(log'[i], log'[j])
      <3>1. i \in DOMAIN log BY <2>3, <2>9
      <3>2. CASE j = Len(log) + 1
        <4>1. log[i] \in Told BY <2>2, <2>3, <2>9, <3>1, <3>2 DEF Told
        <4>. QED BY <1>3, <2>1, <2>3, <3>1, <3>2, <4>1 DEF LastInTurn
      <3>3. CASE j # Len(log) + 1
        <4>1. j \in DOMAIN log BY <2>3, <3>3
        <4>. QED BY <1>1, <2>3, <2>9, <3>1, <4>1 DEF NeverBack
      <3>. QED BY <3>2, <3>3
    <2>10. NeverBack' BY <2>9 DEF NeverBack
    <2>. QED BY <1>0, <1>1, <1>3, <1>4, <2>7, <2>8, <2>10 DEF TellsAhead
  <1>. QED BY <1>5, <1>6, <1>1, WriteIs, StepsAre DEF RelayTypeOK

(* Whatever else the monitor does, and everyone else, tells nothing.       *)
LEMMA RestTells ==
    ASSUME RelayTypeOK, Control, Tracking, TellsAhead,
           \/ Turn \/ SaveStart \/ SaveTiming \/ FlushPending \/ Load \/ Note \/ History \/ GiveUp
           \/ WriteRow /\ ~Current(doing)
    PROVE  TellsAhead' /\ log' = log
  <1>0. monitor = "on" /\ monitor' = "on" /\ refresh' = refresh
    BY DEF Turn, SaveStart, SaveTiming, FlushPending, Load, WriteRow, Note, History, GiveUp, At1
  <1>1. RelayNext /\ ~Again
    <2>1. RelayNext BY DEF RelayNext, Monitoring
    <2>2. ~Again BY <1>0 DEF Again
    <2>. QED BY <2>1, <2>2
  <1>2. log' = log
    <2>1. CASE WriteRow /\ ~Current(doing) BY <2>1 DEF WriteRow, Stored
    <2>. QED BY <2>1 DEF Turn, SaveStart, SaveTiming, FlushPending, Load, Note, History, GiveUp
  <1>3. record'.attempt = record.attempt /\ record'.progress \in {record.progress, NoProgress}
    <2>1. CASE WriteRow /\ ~Current(doing) BY <2>1 DEF WriteRow, Stored
    <2>2. CASE SaveStart BY <2>2 DEF SaveStart, RelayTypeOK
    <2>3. CASE SaveTiming BY <2>3 DEF SaveTiming, RelayTypeOK
    <2>4. CASE GiveUp BY <2>4 DEF GiveUp, RelayTypeOK
    <2>. QED BY <2>1, <2>2, <2>3, <2>4 DEF Turn, FlushPending, Load, Note, History
  <1>4. Grown(tracker, Tracked) /\ Tracked.stateNodes = tracker.stateNodes /\ Tracked.there
    BY <1>0, TrackedGrown, TrackedIs
  <1>5. Grown(tracker, tracker') /\ tracker'.stateNodes = tracker.stateNodes
    <2>1. CASE FlushPending
      <3>1. tracker'.there = tracker.there /\ tracker'.last = tracker.last /\ tracker'.stateNodes = tracker.stateNodes
        BY <2>1 DEF FlushPending, RelayTypeOK, Trackers
      <3>. QED BY <3>1 DEF Grown
    <2>2. CASE Load BY <1>4, <2>2, LoadIs
    <2>3. CASE Note BY <1>4, <2>3, NoteIs DEF Grown
    <2>4. CASE tracker' = tracker BY <2>4, GrownSame
    <2>. QED BY <2>1, <2>2, <2>3, <2>4 DEF Turn, SaveStart, SaveTiming, WriteRow, History, GiveUp
  <1>6. ~tracker.there => record.progress.kind # "node" BY <1>0 DEF TellsAhead
  <1>7. tracker'.there \/ record'.progress.kind # "node"
    <2>1. tracker.there => tracker'.there BY <1>5 DEF Grown
    <2>. QED BY <1>3, <1>6, <2>1 DEF NoProgress
  <1>8. refresh'.op \in {"load", "write"} /\ refresh'.attempt = record.attempt => tracker'.there
    BY <1>0, <1>5 DEF TellsAhead, Grown
  <1>9. \/ doing' = after /\ after'.op \notin Comings
        \/ doing'.op \notin Comings /\ (after'.op \notin Comings \/ after' = after)
    <2>0. NoOp.op \notin Comings BY StepFacts DEF Comings
    <2>1. CASE Turn BY <2>1, StepFacts DEF Turn, Both, Comings
    <2>2. CASE SaveStart \/ SaveTiming BY <2>0, <2>2 DEF SaveStart, SaveTiming, Done
    <2>3. CASE FlushPending BY <2>0, <2>3, FlushIs DEF Comings
    <2>4. CASE Load BY <2>0, <2>4, LoadIs DEF Comings
    <2>5. CASE WriteRow BY <2>0, <2>5, WriteIs DEF Comings
    <2>6. CASE Note BY <2>0, <2>6, NoteIs
    <2>7. CASE History
      <3>1. \/ doing'.op = "timing" /\ after'.op = "commit"
            \/ doing' = after /\ after' = NoOp
        BY <2>7, StepFacts DEF History, Both, Done
      <3>. QED BY <2>0, <3>1 DEF Comings
    <2>8. CASE GiveUp BY <2>8, StepFacts DEF GiveUp, Then, Comings
    <2>. QED BY <2>1, <2>2, <2>3, <2>4, <2>5, <2>6, <2>7, <2>8
  <1>10. TellsAhead' BY <1>0, <1>1, <1>2, <1>3, <1>5, <1>7, <1>8, <1>9, TellsStays
  <1>. QED BY <1>2, <1>10

LEMMA OthersTell ==
    ASSUME RelayTypeOK, Control, Tracking, TellsAhead, Others, "crash" \notin excuses
    PROVE  TellsAhead' /\ log' = log
  <1>0. monitor' = monitor /\ doing' = doing /\ after' = after /\ (Reconnect => monitor = "on")
    BY DEF Others, Send, Disconnect, Reconnect, Elapse, Refreshing, Refresh, RefreshLook, RefreshLoad, RefreshWrite,
           RefreshNote, CancelRequest, ops
  <1>1. RelayNext /\ ~Again
    <2>1. RelayNext BY DEF Others, RelayNext
    <2>2. record'.attempt = record.attempt
      <3>1. CASE CancelRequest BY <3>1 DEF CancelRequest, RelayTypeOK
      <3>2. CASE RefreshWrite BY <3>2, RefreshWriteIs
      <3>. QED BY <3>1, <3>2 DEF Others, Send, Disconnect, Reconnect, Elapse, Refreshing, Refresh, RefreshLook,
                                 RefreshLoad, RefreshNote
    <2>3. Again => record'.attempt # record.attempt BY DEF Again, RelayTypeOK, Attempts
    <2>. QED BY <2>1, <2>2, <2>3
  <1>2. log' = log
    <2>1. CASE RefreshWrite BY <2>1, RefreshWriteIs
    <2>. QED BY <2>1 DEF Others, Send, Disconnect, Reconnect, Elapse, Refreshing, Refresh, RefreshLook, RefreshLoad,
                         RefreshNote, CancelRequest
  <1>3. CASE monitor # "on"
    <2>1. doing.op = "none" /\ after.op \notin Comings BY <1>3 DEF Control, Follows, Persisting, Comings
    <2>2. InTurn(doing', tracker', Told', Upcoming') /\ InTurn(after', tracker', Told', Upcoming')
      BY <1>0, <2>1, NoTurn DEF Comings
    <2>. QED BY <1>0, <1>2, <1>3, <2>2 DEF TellsAhead
  <1>4. CASE monitor = "on"
    <2>1. Grown(tracker, Tracked) /\ Tracked.stateNodes = tracker.stateNodes /\ Tracked.there
      BY <1>4, TrackedGrown, TrackedIs
    <2>2. (~tracker.there => record.progress.kind # "node") /\
          (refresh.op \in {"load", "write"} /\ refresh.attempt = record.attempt => tracker.there)
      BY <1>4 DEF TellsAhead
    <2>3. record'.attempt = record.attempt
      <3>1. CASE CancelRequest BY <3>1 DEF CancelRequest, RelayTypeOK
      <3>2. CASE RefreshWrite BY <3>2, RefreshWriteIs
      <3>. QED BY <3>1, <3>2 DEF Others, Send, Disconnect, Reconnect, Elapse, Refreshing, Refresh, RefreshLook,
                                 RefreshLoad, RefreshNote
    <2>. DEFINE Fine == /\ Grown(tracker, tracker') /\ tracker'.stateNodes = tracker.stateNodes
                        /\ tracker'.there \/ record'.progress.kind # "node"
                        /\ refresh'.op \in {"load", "write"} /\ refresh'.attempt = record.attempt => tracker'.there
    <2>4. CASE Send \/ Disconnect \/ Reconnect
      <3>1. UNCHANGED <<record, tracker, refresh>> BY <2>4 DEF Send, Disconnect, Reconnect
      <3>2. Fine BY <2>2, <3>1, GrownSame
      <3>. QED BY <1>0, <1>1, <1>2, <1>4, <2>3, <3>2, TellsStays
    <2>5. CASE Elapse
      <3>1. /\ tracker'.there = tracker.there /\ tracker'.last = tracker.last
            /\ tracker'.stateNodes = tracker.stateNodes /\ UNCHANGED <<record, refresh>>
        BY <2>5 DEF Elapse, RelayTypeOK, Trackers
      <3>2. Fine BY <2>2, <3>1 DEF Grown
      <3>. QED BY <1>0, <1>1, <1>2, <1>4, <2>3, <3>2, TellsStays
    <2>6. CASE Refresh
      <3>1. refresh'.op = "look" BY <2>6 DEF Refresh, Op
      <3>2. UNCHANGED <<record, tracker>> BY <2>6 DEF Refresh
      <3>3. Fine BY <2>2, <3>1, <3>2, GrownSame
      <3>. QED BY <1>0, <1>1, <1>2, <1>4, <2>3, <3>3, TellsStays
    <2>7. CASE RefreshLook \/ RefreshLoad \/ RefreshNote
      <3>1. /\ tracker'.there /\ tracker'.last = Tracked.last /\ tracker'.stateNodes = Tracked.stateNodes
        BY <2>1, <2>7, RefreshLookIs, RefreshLoadIs, RefreshNoteIs
      <3>2. Fine BY <2>1, <3>1 DEF Grown
      <3>. QED BY <1>0, <1>1, <1>2, <1>4, <2>3, <3>2, TellsStays
    <2>8. CASE RefreshWrite
      <3>0. NoOp.op = "none" BY StepFacts
      <3>1. tracker' = tracker /\ refresh'.op \notin {"load", "write"} BY <2>8, <3>0, RefreshWriteIs
      <3>2. tracker.there \/ record'.progress.kind # "node"
        <4>1. CASE Current(refresh) BY <2>2, <2>8, <4>1, RefreshWriteIs DEF Current
        <4>2. CASE ~Current(refresh) BY <2>2, <2>8, <4>2, RefreshWriteIs
        <4>. QED BY <4>1, <4>2
      <3>3. Fine BY <3>1, <3>2, GrownSame
      <3>. QED BY <1>0, <1>1, <1>2, <1>4, <2>3, <3>3, TellsStays
    <2>9. CASE CancelRequest
      <3>1. UNCHANGED <<tracker, refresh>> /\ record'.progress = record.progress
        BY <2>9 DEF CancelRequest, RelayTypeOK
      <3>2. Fine BY <2>2, <3>1, GrownSame
      <3>. QED BY <1>0, <1>1, <1>2, <1>4, <2>3, <3>2, TellsStays
    <2>. QED BY <1>2, <2>4, <2>5, <2>6, <2>7, <2>8, <2>9 DEF Others, Refreshing
  <1>. QED BY <1>0, <1>3, <1>4

LEMMA EndsTell ==
    ASSUME RelayTypeOK, Control, Tracking, Timely, TellsAhead, Ends, "crash" \notin excuses'
    PROVE  TellsAhead' /\ log' = log
  <1>0. NoOp.op \notin Comings BY StepFacts DEF Comings
  <1>1. CASE GiveUp BY <1>1, RestTells
  <1>2. CASE Close
    <2>1. monitor' = "off" /\ doing' = NoOp /\ after' = NoOp /\ log' = log BY <1>2 DEF Close, Closed, Both
    <2>. QED BY <1>0, <2>1, NoTurn DEF TellsAhead
  <1>3. CASE Again
    <2>1. /\ record'.attempt = record.attempt + 1 /\ record'.progress = StartOf(record.attempt + 1)
          /\ tracker' = tracker /\ refresh' = refresh /\ log' = log /\ after' = NoOp
      BY <1>3 DEF Again, Both
    <2>2. doing'.op = "load" BY <1>3, StepFacts DEF Again, Both
    <2>3. tracker.last = NoProgress BY <1>3 DEF Again, Timely
    <2>4. record'.progress.kind # "node" BY <2>1 DEF StartOf
    <2>5. refresh.attempt <= record.attempt /\ record.attempt \in Nat /\ refresh.attempt \in Nat
      BY StepsAre DEF Control, RelayTypeOK, Attempts
    <2>6. Told' = {}
      <3>1. \A i \in DOMAIN log : log[i] \in Snapshots BY DEF RelayTypeOK
      <3>2. \A i \in DOMAIN log : log[i].attempt \in Nat BY <3>1, SnapFacts DEF Attempts
      <3>3. \A i \in DOMAIN log : log[i].attempt # record.attempt + 1 BY <2>5, <3>2 DEF Timely
      <3>. QED BY <2>1, <3>3 DEF Told
    <2>7. LastInTurn(tracker', Told', Upcoming') BY <2>1, <2>3, <2>6 DEF LastInTurn, NoProgress
    <2>8. InTurn(doing', tracker', Told', Upcoming') /\ InTurn(after', tracker', Told', Upcoming')
      BY <1>0, <2>1, <2>2, NoTurn DEF Comings
    <2>9. ~(refresh'.attempt = record'.attempt) BY <2>1, <2>5
    <2>. QED BY <2>1, <2>4, <2>7, <2>8, <2>9 DEF TellsAhead
  <1>4. CASE EndProcess BY <1>4 DEF EndProcess
  <1>5. CASE StartProcess BY <1>5 DEF StartProcess, Control
  <1>. QED BY <1>1, <1>2, <1>3, <1>4, <1>5 DEF Ends

LEMMA TellsInit == RelayInit => Rising /\ TellsAhead /\ NeverBack
  <1>. SUFFICES ASSUME RelayInit PROVE Rising /\ TellsAhead /\ NeverBack OBVIOUS
  <1>1. doing.op = "load" /\ after.op = "none" /\ refresh.op = "none" BY StepFacts DEF RelayInit
  <1>2. /\ buffer = << >> /\ log = << >> /\ tracker.last.kind # "node" /\ record.progress.kind # "node"
    BY DEF RelayInit, NoTracker, NoProgress, StartOf
  <1>3. Told = {} BY <1>2 DEF Told
  <1>4. InTurn(doing, tracker, Told, Upcoming) /\ InTurn(after, tracker, Told, Upcoming)
    BY <1>1, NoTurn DEF Comings
  <1>5. LastInTurn(tracker, Told, Upcoming) BY <1>2, <1>3 DEF LastInTurn
  <1>6. Rising /\ NeverBack BY <1>2 DEF Rising, NeverBack
  <1>. QED BY <1>1, <1>2, <1>4, <1>5, <1>6 DEF TellsAhead

-----------------------------------------------------------------------------
(* All of it together.                                                     *)
LEMMA ExcusesStay == ASSUME RelayTypeOK, Control, RelayNext PROVE excuses \subseteq excuses'
  <1>1. CASE Telling BY <1>1, TellingIs
  <1>2. CASE RefreshWrite BY <1>2, RefreshWriteIs
  <1>3. CASE RefreshLoad BY <1>3 DEF RefreshLoad
  <1>4. CASE Send \/ Disconnect \/ Reconnect \/ Elapse \/ Ends \/ Refresh \/ RefreshLook \/ RefreshNote \/ CancelRequest
    BY <1>4 DEF Send, Disconnect, Reconnect, Elapse, Ends, GiveUp, Close, Again, EndProcess, StartProcess, Refresh,
           RefreshLook, RefreshNote, CancelRequest
  <1>. QED BY <1>1, <1>2, <1>3, <1>4 DEF RelayNext, Monitoring, Telling, Refreshing, Ends

LEMMA RelayTypesKept == ASSUME RelayTypeOK, Control, RelayNext PROVE RelayTypeOK'
  BY SocketTypes, TakeTypes, TurnTypes, TellTypes, PersistTypes, EndTypes, RefreshTypes
     DEF RelayNext, Monitoring, Refreshing

LEMMA ActionsAre == RelayNext => Telling \/ Others \/ Ends
  BY DEF RelayNext, Monitoring, Telling, Others, Ends

LEMMA RelayStep == ASSUME RelayInv, RelayNext PROVE RelayInv'
  <1>0. RelayTypeOK /\ Control /\ Tracking /\ Rising BY DEF RelayInv
  <1>1. excuses \subseteq excuses' BY <1>0, ExcusesStay
  <1>2. RelayTypeOK' BY <1>0, RelayTypesKept
  <1>3. Control'
    <2>1. CASE Telling BY <1>0, <2>1, TellingControl
    <2>2. CASE Others BY <1>0, <2>2, SocketControl, RefreshControl DEF Others
    <2>3. CASE Ends BY <1>0, <2>3, EndControl DEF Ends
    <2>. QED BY <2>1, <2>2, <2>3, ActionsAre
  <1>4. Tracking' BY <1>0, ActionsAre, TellingTracking, OthersTracking, EndsTracking
  <1>5. Rising' BY <1>0, RisingKept
  <1>6. ASSUME "late" \notin excuses' PROVE Timely'
    <2>1. Timely BY <1>1, <1>6 DEF RelayInv
    <2>. QED BY <1>0, <1>6, <2>1, ActionsAre, TellingTimely, OthersTimely, EndsTimely
  <1>7. ASSUME "late" \notin excuses', "refused" \notin excuses' PROVE Counting'
    <2>1. Timely /\ Counting BY <1>1, <1>7 DEF RelayInv
    <2>. QED BY <1>0, <1>7, <2>1, ActionsAre, TellingCounting, OthersCounting, EndsCounting
  <1>8. ASSUME "late" \notin excuses', "crash" \notin excuses' PROVE TellsAhead' /\ NeverBack'
    <2>1. Timely /\ TellsAhead /\ NeverBack /\ "crash" \notin excuses BY <1>1, <1>8 DEF RelayInv
    <2>2. {"crash", "late"} \cap excuses' = {} BY <1>8
    <2>3. CASE WriteRow /\ Current(doing) BY <1>0, <2>1, <2>2, <2>3, WriteTells
    <2>4. CASE Take
      <3>1. TellsAhead' BY <1>0, <2>1, <2>4, TakeTells
      <3>. QED BY <1>1, <2>1, <2>4, <3>1, NeverBackStays DEF Take
    <2>5. CASE Prefer \/ Legacy \/ Queue
      <3>1. TellsAhead' BY <1>0, <2>1, <2>5, QueueTells
      <3>. QED BY <1>1, <2>1, <2>5, <3>1, NeverBackStays DEF Prefer, Legacy, Queue
    <2>6. CASE Moved
      <3>1. TellsAhead' BY <1>0, <2>1, <2>6, MovedTells
      <3>. QED BY <1>1, <2>1, <2>6, <3>1, NeverBackStays DEF Moved
    <2>7. CASE \/ Turn \/ SaveStart \/ SaveTiming \/ FlushPending \/ Load \/ Note \/ History
               \/ WriteRow /\ ~Current(doing)
      BY <1>0, <1>1, <2>1, <2>7, RestTells, NeverBackStays
    <2>8. CASE Others BY <1>0, <1>1, <2>1, <2>8, OthersTell, NeverBackStays
    <2>9. CASE Ends BY <1>0, <1>1, <1>8, <2>1, <2>9, EndsTell, NeverBackStays
    <2>. QED BY <2>3, <2>4, <2>5, <2>6, <2>7, <2>8, <2>9, ActionsAre DEF Telling
  <1>. QED BY <1>2, <1>3, <1>4, <1>5, <1>6, <1>7, <1>8 DEF RelayInv

LEMMA RelayStutters == ASSUME RelayInv, UNCHANGED relayVars PROVE RelayInv'
  <1>1. UNCHANGED <<position, connected, buffer, record, tracker, observed, doing, after, monitor, refresh, log, left,
                    excuses, trouble>>
    BY DEF relayVars
  <1>2. RelayTypeOK' /\ Control' /\ Tracking' /\ Rising'
    BY <1>1 DEF RelayInv, RelayTypeOK, Control, Over, Tracking, Rising
  <1>3. Timely => Timely' BY <1>1 DEF Timely, OfRow, Over
  <1>4. Counting => Counting' BY <1>1 DEF Counting, Logged
  <1>5. Upcoming' = Upcoming /\ Told' = Told BY <1>1 DEF Upcoming, Told
  <1>6. TellsAhead => TellsAhead' BY <1>1, <1>5 DEF TellsAhead
  <1>7. NeverBack => NeverBack' BY <1>1 DEF NeverBack
  <1>. QED BY <1>1, <1>2, <1>3, <1>4, <1>6, <1>7 DEF RelayInv

(* For every script of events, every length of the buffer and every number *)
(* of disconnections, ends of the process, cancellations and refreshes,    *)
(* what the monitor holds of the progress of a generation and what is still*)
(* to come of it are in order, together with what it has written.          *)
THEOREM RelayInvariance == RelaySpec => []RelayInv
  <1>1. RelayInit => RelayInv
    BY InitTypes, ControlInit, TimelyInit, CountingInit, TellsInit DEF RelayInv
  <1>2. RelayInv /\ [RelayNext]_relayVars => RelayInv' BY RelayStep, RelayStutters
  <1>. QED BY <1>1, <1>2, PTL DEF RelaySpec

LEMMA RelayTells == RelayInv => ProgressTold
  <1>. SUFFICES ASSUME RelayInv PROVE ProgressTold OBVIOUS
  <1>1. OfThisAttempt BY DEF RelayInv, Control, Timely, Over, OfThisAttempt
  <1>2. CountersKept BY DEF RelayInv, Counting, CountersKept
  <1>3. NeverBack
    <2>1. CASE {"crash", "late"} \cap excuses = {} BY <2>1 DEF RelayInv
    <2>2. CASE {"crash", "late"} \cap excuses # {} BY <2>2 DEF NeverBack
    <2>. QED BY <2>1, <2>2
  <1>. QED BY <1>1, <1>2, <1>3 DEF RelayInv, ProgressTold

(* A generation shows the progress of its own attempt only; the last number*)
(* of a node the monitor has gone on from is in a durable event unless the *)
(* row changed while it was written; and what durable events tell of a node*)
(* never goes back while no process ends (_persist_progress_snapshot,      *)
(* _queue_progress_snapshot and _refresh_sibling_eta, whatever order their *)
(* steps come in).                                                         *)
THEOREM ProgressIsTold == RelaySpec => []ProgressTold
  BY RelayInvariance, RelayTells, PTL
=====
