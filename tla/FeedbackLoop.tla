------------------------------ MODULE FeedbackLoop -----------------------------
(***************************************************************************)
(* The feedback loop of CortexForge for one node: a collector drops        *)
(* telemetry records as files, the orchestrator's telemetry_scan moves     *)
(* them to processed/, feeds the recent ones to a fresh AnomalyDetector    *)
(* and, on a critical finding, gives the node a task and sets its          *)
(* state.toml to diagnosing (forge-core/src/telemetry.rs, orchestrator.rs).*)
(*                                                                         *)
(* state.toml has three writers: the main thread of the node, which saves  *)
(* the status of its machine in memory; its heartbeat thread, which loads  *)
(* the file, changes a time and saves it; and the orchestrator.  The       *)
(* records are of one stream; nodes and streams do not touch each other.   *)
(***************************************************************************)
EXTENDS Integers, Sequences, FiniteSets

CONSTANTS
  Interval,     \* scan_interval_sec
  Values,       \* what a record may hold
  Bad,          \* values that break a Range, Equals, Contains, Matches or NoError rule
  MaxGap,       \* max_gap_sec of the Heartbeat rule
  WindowSize,   \* anomaly_detection.window_samples
  Critical,     \* the rules of critical severity; none without auto_fix_enabled
  MaxTime,      \* bound: the clock
  MaxRecords,   \* bound: records
  MaxFaults     \* bound: kinds of faults in one behaviour

Rules == {"content", "monotonic", "heartbeat"}

\* A file not moved, a listing broken off, a task or a state.toml not written, and
\* the orchestrator killed.
Faults == {"move", "list", "task", "state", "crash"}

ASSUME FeedbackAssumption ==
  /\ Interval \in Nat \ {0} /\ WindowSize \in Nat \ {0} /\ MaxGap \in Nat
  /\ Values \subseteq Int /\ Bad \subseteq Values
  /\ Critical \subseteq Rules
  /\ MaxTime \in Nat /\ MaxRecords \in Nat /\ MaxFaults \in Nat

VARIABLES
  now,        \* Utc::now(), in seconds
  own,        \* the status of the node's machine in memory
  status,     \* .forge/state.toml
  loaded,     \* what the heartbeat thread has loaded, "none" between beats
  files,      \* records in .forge/telemetry
  processed,  \* records in .forge/telemetry/processed
  tasks,      \* .forge/inbox: the tasks of trigger_auto_fix, by record and rule
  pc,         \* where telemetry_scan is
  since,      \* the age limit of this scan
  listing,    \* files of this scan still to be looked at
  batch,      \* records to feed
  window,     \* AnomalyDetector::window
  \* history
  faults,     \* the kinds of faults there have been
  fed,        \* records the detector has seen
  lastLook,   \* when the last scan came to this node
  punctual,   \* scans have always come in time
  unwatched   \* files a scan found while the node was not monitoring

node    == <<own, status, loaded>>
disk    == <<files, processed, tasks>>
scan    == <<pc, since, listing, batch, window>>
looks   == <<lastLook, punctual, unwatched>>
vars    == <<now, node, disk, scan, faults, fed, looks>>

Record == [ts : Nat, val : Values]
\* All but two statuses are one to the scan.
Statuses == {"monitoring", "diagnosing", "other"}

Init ==
  /\ now = 0
  /\ own = "other" /\ status = "other" /\ loaded = "none"
  /\ files = {} /\ processed = {} /\ tasks = {}
  /\ pc = "wait" /\ since = 0 /\ listing = {} /\ batch = {} /\ window = <<>>
  /\ faults = {}
  /\ fed = {} /\ lastLook = 0 /\ punctual = TRUE /\ unwatched = {}

-------------------------------------------------------------------------------
\* The world and the node.

Tick ==
  /\ now < MaxTime
  /\ now' = now + 1
  /\ UNCHANGED <<node, disk, scan, faults, fed, looks>>

\* TelemetryRecord::save by the collector, a file per record.
Produce ==
  /\ Cardinality(files \union processed) < MaxRecords
  /\ \E v \in Values :
       LET r == [ts |-> now, val |-> v] IN
         /\ r \notin files \union processed
         /\ files' = files \union {r}
  /\ UNCHANGED <<now, node, processed, tasks, scan, faults, fed, looks>>

\* The main thread: start_monitoring from delivered, anomaly_detected, then
\* diagnosis_complete; die from monitoring, and initialize, when the node is started
\* again, lead to other statuses too.  It saves its own status over the file's.
Successors(s) ==
  CASE s = "other"      -> {"monitoring"}
    [] s = "monitoring" -> {"diagnosing", "other"}
    [] s = "diagnosing" -> {"other"}

NodeMoves ==
  /\ own' \in Successors(own)
  /\ status' = own'
  /\ UNCHANGED <<now, loaded, disk, scan, faults, fed, looks>>

\* start_heartbeat: load and save are two steps.
BeatLoad ==
  /\ loaded = "none"
  /\ loaded' = status
  /\ UNCHANGED <<now, own, status, disk, scan, faults, fed, looks>>

BeatSave ==
  /\ loaded # "none"
  /\ status' = loaded
  /\ loaded' = "none"
  /\ UNCHANGED <<now, own, disk, scan, faults, fed, looks>>

-------------------------------------------------------------------------------
\* telemetry_scan comes to the node.

Punctual == punctual /\ now - lastLook < 2 * Interval

SkipNode ==
  /\ pc = "wait" /\ status # "monitoring"
  /\ lastLook' = now /\ punctual' = Punctual
  /\ unwatched' = unwatched \union files
  /\ UNCHANGED <<now, node, disk, scan, faults, fed>>

\* Seeded fault: one interval instead of two.
SinceNarrow == now - Interval

Since == now - 2 * Interval

BeginScan ==
  /\ pc = "wait" /\ status = "monitoring"
  /\ since' = Since
  /\ listing' = files
  /\ pc' = "list"
  /\ lastLook' = now /\ punctual' = Punctual
  /\ UNCHANGED <<now, node, disk, batch, window, faults, fed, unwatched>>

\* scan_file_records: old records are moved like new ones, but not returned.
Taken(r) == IF r.ts > since THEN batch \union {r} ELSE batch

\* Seeded fault: the file is not moved.
MoveFileNot(r) ==
  /\ pc = "list" /\ r \in listing
  /\ listing' = listing \ {r}
  /\ batch' = Taken(r)
  /\ UNCHANGED <<now, node, disk, pc, since, window, faults, fed, looks>>

\* Seeded fault: the file is copied.
MoveFileCopied(r) ==
  /\ pc = "list" /\ r \in listing
  /\ listing' = listing \ {r}
  /\ processed' = processed \union {r}
  /\ batch' = Taken(r)
  /\ UNCHANGED <<now, node, files, tasks, pc, since, window, faults, fed, looks>>

MoveFile(r) ==
  /\ pc = "list" /\ r \in listing
  /\ listing' = listing \ {r}
  /\ files' = files \ {r}
  /\ processed' = processed \union {r}
  /\ batch' = Taken(r)
  /\ UNCHANGED <<now, node, tasks, pc, since, window, faults, fed, looks>>

\* What may go wrong; the bound is on kinds, not on how often.
Fault(k) ==
  /\ faults' = faults \union {k}
  /\ Cardinality(faults') <= MaxFaults

\* The error of rename is ignored: the record is returned and the file stays.
MoveFails(r) ==
  /\ pc = "list" /\ r \in listing
  /\ Fault("move")
  /\ listing' = listing \ {r}
  /\ batch' = Taken(r)
  /\ UNCHANGED <<now, node, disk, pc, since, window, fed, looks>>

\* An error of read_dir or create_dir_all is not: the records read are dropped,
\* though their files have moved.
ListFails ==
  /\ pc = "list" /\ listing # {}
  /\ Fault("list")
  /\ pc' = "wait" /\ since' = 0 /\ listing' = {} /\ batch' = {}
  /\ UNCHANGED <<now, node, disk, window, fed, looks>>

\* A new detector, with an empty window, for every scan.
EndList ==
  /\ pc = "list" /\ listing = {}
  /\ pc' = IF batch = {} THEN "wait" ELSE "feed"
  /\ since' = 0
  /\ UNCHANGED <<now, node, disk, listing, batch, window, faults, fed, looks>>

-------------------------------------------------------------------------------
\* AnomalyDetector::feed.

Last(s, n) == IF Len(s) <= n THEN s ELSE SubSeq(s, Len(s) - n + 1, Len(s))

Pushed(w, r) == Last(Append(w, r), WindowSize)

\* The rules that look back compare with the record before in the window.
Drops(p, q) == q.val < p.val
Gap(p, q) == q.ts - p.ts > MaxGap \/ p.ts - q.ts > MaxGap

Findings(w, r) ==
  LET previous == {w[i] : i \in DOMAIN w \intersect {Len(w) - 1}} IN
    {f \in Rules : \/ f = "content" /\ r.val \in Bad
                   \/ f = "monotonic" /\ \E p \in previous : Drops(p, r)
                   \/ f = "heartbeat" /\ \E p \in previous : Gap(p, r)}

Oldest(rs) == {r \in rs : \A q \in rs : r.ts <= q.ts}

\* feed, and per critical finding trigger_auto_fix: a task in the inbox, and
\* diagnosing over whatever state.toml says by then.  Errors of either are
\* ignored, but without a directory for the inbox the status is not written either.
Acted(r, findings, task, state) ==
  /\ tasks' = tasks \union (IF task THEN {[rec |-> r, rule |-> f] : f \in findings} ELSE {})
  /\ status' = IF findings # {} /\ state THEN "diagnosing" ELSE status

\* Seeded fault: a single record cannot break a rule.
CriticalPaired(w, r) == {f \in Findings(w, r) \intersect Critical : Len(w) >= 2}

Criticals(w, r) == Findings(w, r) \intersect Critical

FeedRecord(r) ==
  LET w == Pushed(window, r)
      cs == Criticals(w, r)
  IN
  /\ pc = "feed" /\ r \in Oldest(batch)
  /\ batch' = batch \ {r}
  /\ fed' = fed \union {r}
  /\ \/ Acted(r, cs, TRUE, TRUE) /\ UNCHANGED faults
     \/ /\ cs # {} /\ Fault("task")
        /\ \E state \in BOOLEAN : Acted(r, cs, FALSE, state)
     \/ cs # {} /\ Acted(r, cs, TRUE, FALSE) /\ Fault("state")
  /\ window' = IF batch' = {} THEN <<>> ELSE w
  /\ pc' = IF batch' = {} THEN "wait" ELSE "feed"
  /\ UNCHANGED <<now, own, loaded, files, processed, since, listing, looks>>

\* The orchestrator is killed and started again.
OrchestratorCrash ==
  /\ pc # "wait"
  /\ Fault("crash")
  /\ pc' = "wait" /\ since' = 0 /\ listing' = {} /\ batch' = {} /\ window' = <<>>
  /\ UNCHANGED <<now, node, disk, fed, looks>>

TelemetryScan ==
  \/ SkipNode \/ BeginScan
  \/ \E r \in listing : MoveFile(r) \/ MoveFails(r)
  \/ ListFails \/ EndList
  \/ \E r \in batch : FeedRecord(r)

Next ==
  \/ Tick \/ Produce \/ NodeMoves \/ BeatLoad \/ BeatSave
  \/ TelemetryScan \/ OrchestratorCrash

Spec == Init /\ [][Next]_vars

\* run() loops for ever.
FairSpec == Spec /\ WF_vars(TelemetryScan)

-------------------------------------------------------------------------------
\* Types.  Files are moved, not copied, unless a move has failed.
TypeOK ==
  /\ now \in Nat
  /\ own \in Statuses /\ status \in Statuses
  /\ loaded \in Statuses \union {"none"}
  /\ files \in SUBSET Record /\ processed \in SUBSET Record
  /\ files \intersect processed = {}
  /\ tasks \in SUBSET [rec : Record, rule : Rules]
  /\ pc \in {"wait", "list", "feed"}
  /\ since \in Int
  /\ listing \subseteq files
  /\ batch \in SUBSET Record
  /\ window \in Seq(Record) /\ Len(window) <= WindowSize
  /\ faults \subseteq Faults
  /\ fed \in SUBSET Record
  /\ lastLook \in Nat /\ lastLook <= now
  /\ punctual \in BOOLEAN
  /\ unwatched \in SUBSET Record

\* A record is evaluated once: what is about to be fed has not been fed before,
\* also after a restart, unless a file could not be moved.
EvaluatedOnce == "move" \notin faults => batch \intersect fed = {}

\* No record goes to processed/ unseen, as long as scans come within two intervals
\* of each other, neither a listing breaks off nor the orchestrator is killed, and
\* the node was monitoring when a scan first found the file.
Regular == punctual /\ faults \intersect {"list", "crash"} = {}

NothingLost == Regular => processed \subseteq fed \union batch \union unwatched

\* Under the same conditions a bad record that is there while the node monitors gets
\* its task, or the file stops saying monitoring.
FixOrdered(r) == \E t \in tasks : t.rec = r

BadRecordGetsFix ==
  "content" \in Critical =>
    \A r \in [ts : 0 .. MaxTime, val : Bad] :
      (r \in files \ unwatched /\ status = "monitoring")
        ~> (FixOrdered(r) \/ status # "monitoring" \/ ~Regular \/ "task" \in faults)
================================================================================
