----------------------------- MODULE FeedbackProofs ----------------------------
(***************************************************************************)
(* Proofs about FeedbackLoop, for every interval, window, rule and number  *)
(* of records, scans and faults: its types, EvaluatedOnce and NothingLost. *)
(***************************************************************************)
EXTENDS FeedbackLoop, SequenceTheorems, TLAPS

-------------------------------------------------------------------------------
\* The window keeps the last records, WindowSize of them at most.

LEMMA PushedType ==
  ASSUME NEW w \in Seq(Record), NEW r \in Record
  PROVE  Pushed(w, r) \in Seq(Record) /\ Len(Pushed(w, r)) <= WindowSize
<1> DEFINE s == Append(w, r)
<1>1. s \in Seq(Record) /\ Len(s) \in Nat
  BY AppendProperties
<1>2. WindowSize \in Nat \ {0}
  BY FeedbackAssumption
<1>3. CASE Len(s) <= WindowSize
  BY <1>1, <1>3 DEF Pushed, Last
<1>4. CASE ~(Len(s) <= WindowSize)
  <2> DEFINE m == Len(s) - WindowSize + 1
  <2>1. m \in Int /\ Len(s) \in Int /\ m <= Len(s) /\ Len(s) - m + 1 = WindowSize
    BY <1>1, <1>2, <1>4
  <2>2. \A i \in m .. Len(s) : s[i] \in Record
    BY <1>1, <1>2, <1>4, ElementOfSeq
  <2> HIDE DEF m, s
  <2>3. SubSeq(s, m, Len(s)) \in Seq(Record) /\ Len(SubSeq(s, m, Len(s))) = WindowSize
    BY <2>1, <2>2, SubSeqProperties
  <2> QED
    BY <1>2, <1>4, <2>3 DEF Pushed, Last, m, s
<1> QED
  BY <1>3, <1>4

\* What the steps of a scan do to the files and records, whatever rules there are.

LEMMA FedRecord ==
  ASSUME TypeOK, NEW r, FeedRecord(r)
  PROVE  /\ r \in batch /\ batch' = batch \ {r} /\ fed' = fed \union {r}
         /\ pc = "feed" /\ pc' \in {"wait", "feed"}
         /\ tasks' \in SUBSET [rec : Record, rule : Rules]
         /\ status' \in Statuses
         /\ window' \in Seq(Record) /\ Len(window') <= WindowSize
         /\ faults \subseteq faults' /\ faults' \subseteq Faults
         /\ UNCHANGED <<now, own, loaded, files, processed, since, listing, looks>>
<1>0. r \in batch /\ r \in Record
  BY DEF FeedRecord, Oldest, TypeOK
<1> DEFINE w == Pushed(window, r)
           cs == Criticals(w, r)
<1>1. w \in Seq(Record) /\ Len(w) <= WindowSize
  BY <1>0, PushedType DEF TypeOK
<1>2. cs \subseteq Rules
  BY DEF Criticals, Findings
<1>3. /\ pc = "feed" /\ batch' = batch \ {r} /\ fed' = fed \union {r}
      /\ \/ Acted(r, cs, TRUE, TRUE) /\ UNCHANGED faults
         \/ cs # {} /\ Fault("task") /\ \E state \in BOOLEAN : Acted(r, cs, FALSE, state)
         \/ cs # {} /\ Acted(r, cs, TRUE, FALSE) /\ Fault("state")
      /\ window' = (IF batch' = {} THEN <<>> ELSE w)
      /\ pc' = (IF batch' = {} THEN "wait" ELSE "feed")
      /\ UNCHANGED <<now, own, loaded, files, processed, since, listing, looks>>
  BY DEF FeedRecord
<1> HIDE DEF w, cs
<1>4. ASSUME NEW task \in BOOLEAN, NEW state \in BOOLEAN, Acted(r, cs, task, state)
      PROVE  tasks' \in SUBSET [rec : Record, rule : Rules] /\ status' \in Statuses
  BY <1>0, <1>2, <1>4 DEF Acted, TypeOK, Statuses
<1>5. tasks' \in SUBSET [rec : Record, rule : Rules] /\ status' \in Statuses
  BY <1>3, <1>4
<1>6. faults \subseteq faults' /\ faults' \subseteq Faults
  BY <1>3 DEF Fault, Faults, TypeOK
<1>7. window' \in Seq(Record) /\ Len(window') <= WindowSize
  <2>1. <<>> \in Seq(Record) /\ Len(<<>>) = 0 /\ WindowSize \in Nat
    BY FeedbackAssumption
  <2> QED
    BY <1>1, <1>3, <2>1
<1> QED
  BY <1>0, <1>3, <1>5, <1>6, <1>7

-------------------------------------------------------------------------------
\* Types.

LEMMA TypeInit == Init => TypeOK
<1> SUFFICES ASSUME Init PROVE TypeOK
  OBVIOUS
<1>1. <<>> \in Seq(Record) /\ Len(<<>>) = 0 /\ 0 <= WindowSize
  BY FeedbackAssumption
<1> QED
  BY <1>1 DEF Init, TypeOK, Statuses

LEMMA TypeWorld ==
  ASSUME TypeOK, Tick \/ Produce \/ NodeMoves \/ BeatLoad \/ BeatSave
  PROVE  TypeOK'
<1> USE DEF TypeOK, node, disk, scan, looks
<1>1. CASE Tick
  BY <1>1 DEF Tick
<1>2. CASE Produce
  <2>1. PICK v \in Values : LET r == [ts |-> now, val |-> v] IN
          /\ r \notin files \union processed
          /\ files' = files \union {r}
    BY <1>2 DEF Produce
  <2>2. [ts |-> now, val |-> v] \in Record
    BY DEF Record
  <2> QED
    BY <1>2, <2>1, <2>2 DEF Produce
<1>3. CASE NodeMoves
  BY <1>3 DEF NodeMoves, Successors, Statuses
<1>4. CASE BeatLoad
  BY <1>4 DEF BeatLoad
<1>5. CASE BeatSave
  BY <1>5 DEF BeatSave
<1> QED
  BY <1>1, <1>2, <1>3, <1>4, <1>5

LEMMA TypeScan ==
  ASSUME TypeOK, TelemetryScan \/ OrchestratorCrash
  PROVE  TypeOK'
<1> USE DEF TypeOK, node, disk, scan, looks
<1>0. <<>> \in Seq(Record) /\ Len(<<>>) = 0 /\ 0 <= WindowSize
  BY FeedbackAssumption
<1>1. CASE SkipNode
  BY <1>1 DEF SkipNode, Punctual
<1>2. CASE BeginScan
  <2>1. now - 2 * Interval \in Int
    BY FeedbackAssumption
  <2> QED
    BY <1>2, <2>1 DEF BeginScan, Since, Punctual
<1>3. ASSUME NEW r \in listing, MoveFile(r)
      PROVE  TypeOK'
  BY <1>3 DEF MoveFile, Taken
<1>4. ASSUME NEW r \in listing, MoveFails(r)
      PROVE  TypeOK'
  BY <1>4 DEF MoveFails, Taken, Fault, Faults
<1>5. CASE ListFails
  BY <1>5 DEF ListFails, Fault, Faults
<1>6. CASE EndList
  BY <1>6 DEF EndList
<1>7. ASSUME NEW r \in batch, FeedRecord(r)
      PROVE  TypeOK'
  <2>1. fed' \in SUBSET Record /\ batch' \in SUBSET Record
    BY <1>7, FedRecord
  <2> QED
    BY <1>7, <2>1, FedRecord
<1>8. CASE OrchestratorCrash
  BY <1>0, <1>8 DEF OrchestratorCrash, Fault, Faults
<1> QED
  BY <1>1, <1>2, <1>3, <1>4, <1>5, <1>6, <1>7, <1>8 DEF TelemetryScan

LEMMA TypeNext == TypeOK /\ [Next]_vars => TypeOK'
<1> SUFFICES ASSUME TypeOK, [Next]_vars PROVE TypeOK'
  OBVIOUS
<1>1. CASE Next
  BY <1>1, TypeWorld, TypeScan DEF Next
<1>2. CASE UNCHANGED vars
  BY <1>2 DEF vars, node, disk, scan, looks, TypeOK
<1> QED
  BY <1>1, <1>2

\* Records, files and what the node's three writers leave in state.toml stay
\* well-formed; a record is in telemetry/ or in processed/, not in both.
THEOREM FeedbackTypeCorrect == Spec => []TypeOK
  BY TypeInit, TypeNext, PTL DEF Spec

-------------------------------------------------------------------------------
\* EvaluatedOnce: while every file could be moved, what has been taken is in
\* processed/, so that no later scan finds it.

Once ==
  "move" \notin faults => batch \intersect fed = {} /\ batch \union fed \subseteq processed

LEMMA OnceNext ==
  ASSUME TypeOK, Once, [Next]_vars
  PROVE  Once'
<1> USE DEF Once, node, disk, scan, looks
<1>1. CASE Tick \/ Produce \/ NodeMoves \/ BeatLoad \/ BeatSave
  BY <1>1 DEF Tick, Produce, NodeMoves, BeatLoad, BeatSave
<1>2. CASE SkipNode \/ BeginScan \/ EndList
  BY <1>2 DEF SkipNode, BeginScan, EndList
<1>3. ASSUME NEW r \in listing, MoveFile(r)
      PROVE  Once'
  BY <1>3 DEF MoveFile, Taken, TypeOK
<1>4. ASSUME NEW r \in listing, MoveFails(r)
      PROVE  Once'
  BY <1>4 DEF MoveFails, Fault
<1>5. CASE ListFails \/ OrchestratorCrash
  BY <1>5 DEF ListFails, OrchestratorCrash, Fault
<1>6. ASSUME NEW r \in batch, FeedRecord(r)
      PROVE  Once'
  BY <1>6, FedRecord
<1>7. CASE UNCHANGED vars
  BY <1>7 DEF vars
<1> QED
  BY <1>1, <1>2, <1>3, <1>4, <1>5, <1>6, <1>7 DEF Next, TelemetryScan

\* No record is fed to a detector twice, also after the orchestrator was killed,
\* unless a file could not be moved.
THEOREM EvaluatedOnceHolds == Spec => []EvaluatedOnce
<1>1. Init => Once
  BY DEF Init, Once
<1>2. TypeOK /\ Once /\ [Next]_vars => Once'
  BY OnceNext
<1>3. Once => EvaluatedOnce
  BY DEF Once, EvaluatedOnce
<1> QED
  BY FeedbackTypeCorrect, <1>1, <1>2, <1>3, PTL DEF Spec

-------------------------------------------------------------------------------
\* NothingLost: a file the present scan has not come to is younger than the last
\* look at this node or is accounted for, and so the age limit, two intervals back,
\* passes over none that is not.

Accounted == fed \union batch \union unwatched

Kept ==
  Regular =>
    /\ processed \subseteq Accounted
    /\ \A r \in files : \/ r.ts >= lastLook \/ r \in Accounted
                        \/ pc = "list" /\ r \in listing
    /\ pc = "list" => \A r \in listing : r.ts > since \/ r \in Accounted

LEMMA KeptWorld ==
  ASSUME TypeOK, Kept, Tick \/ Produce \/ NodeMoves \/ BeatLoad \/ BeatSave
  PROVE  Kept'
<1> USE DEF Kept, Regular, Accounted, node, disk, scan, looks
<1>1. CASE Tick \/ NodeMoves \/ BeatLoad \/ BeatSave
  BY <1>1 DEF Tick, NodeMoves, BeatLoad, BeatSave
<1>2. CASE Produce
  <2>1. PICK v \in Values : files' = files \union {[ts |-> now, val |-> v]}
    BY <1>2 DEF Produce
  <2>2. [ts |-> now, val |-> v].ts >= lastLook
    BY DEF TypeOK
  <2> QED
    BY <1>2, <2>1, <2>2 DEF Produce
<1> QED
  BY <1>1, <1>2

LEMMA KeptBegin ==
  ASSUME TypeOK, Kept, BeginScan
  PROVE  Kept'
<1> SUFFICES ASSUME Regular' PROVE Kept'
  BY DEF Kept
<1>1. Regular /\ now - lastLook < 2 * Interval
  BY DEF BeginScan, Regular, Punctual
<1>2. /\ listing' = files /\ since' = now - 2 * Interval /\ pc' = "list" /\ pc = "wait"
      /\ UNCHANGED <<files, processed, fed, batch, unwatched>>
  BY DEF BeginScan, Since, disk
<1>3. ASSUME NEW r \in files
      PROVE  r.ts > since' \/ r \in Accounted
  <2>1. r.ts >= lastLook \/ r \in Accounted
    BY <1>1, <1>2 DEF Kept
  <2>2. r.ts \in Nat /\ lastLook \in Nat /\ now \in Nat /\ Interval \in Nat
    BY FeedbackAssumption DEF TypeOK, Record
  <2> QED
    BY <1>1, <1>2, <2>1, <2>2
<1>4. Accounted' = Accounted
  BY <1>2 DEF Accounted
<1> QED
  BY <1>1, <1>2, <1>3, <1>4 DEF Kept

LEMMA KeptNext ==
  ASSUME TypeOK, Kept, [Next]_vars
  PROVE  Kept'
<1> USE DEF node, disk, scan, looks
<1>1. CASE Tick \/ Produce \/ NodeMoves \/ BeatLoad \/ BeatSave
  BY <1>1, KeptWorld
<1>2. CASE BeginScan
  BY <1>2, KeptBegin
<1>3. CASE SkipNode
  BY <1>3 DEF SkipNode, Kept, Regular, Accounted, Punctual
<1>4. ASSUME NEW r \in listing, MoveFile(r)
      PROVE  Kept'
  BY <1>4 DEF MoveFile, Taken, Kept, Regular, Accounted
<1>5. ASSUME NEW r \in listing, MoveFails(r)
      PROVE  Kept'
  BY <1>5 DEF MoveFails, Taken, Fault, Kept, Regular, Accounted
<1>6. CASE ListFails \/ OrchestratorCrash
  BY <1>6 DEF ListFails, OrchestratorCrash, Fault, Kept, Regular
<1>7. CASE EndList
  BY <1>7 DEF EndList, Kept, Regular, Accounted
<1>8. ASSUME NEW r \in batch, FeedRecord(r)
      PROVE  Kept'
  <2>1. Accounted' = Accounted /\ (Regular' => Regular)
    BY <1>8, FedRecord DEF Accounted, Regular
  <2> QED
    BY <1>8, <2>1, FedRecord DEF Kept
<1>9. CASE UNCHANGED vars
  BY <1>9 DEF vars, Kept, Regular, Accounted
<1> QED
  BY <1>1, <1>2, <1>3, <1>4, <1>5, <1>6, <1>7, <1>8, <1>9 DEF Next, TelemetryScan

\* While scans come within two intervals of each other, no record is put away unseen
\* of a node that was monitoring when the scan found it.
THEOREM NothingLostHolds == Spec => []NothingLost
<1>1. Init => Kept
  BY DEF Init, Kept, Regular, Accounted
<1>2. TypeOK /\ Kept /\ [Next]_vars => Kept'
  BY KeptNext
<1>3. Kept => NothingLost
  BY DEF Kept, NothingLost, Accounted
<1> QED
  BY FeedbackTypeCorrect, <1>1, <1>2, <1>3, PTL DEF Spec
================================================================================
