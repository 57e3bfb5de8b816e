------------------------------- MODULE PartProofs ------------------------------
(***************************************************************************)
(* Proofs about five small parts that share no variable, for every value   *)
(* of their constants: the deliverables of a node (Deliverables), `forge   *)
(* init` (ProjectInit), the event log (EventLog), `forge status`           *)
(* (StatusTree) and the search for cycles in who needs whom (CycleSearch). *)
(***************************************************************************)
EXTENDS Deliverables, ProjectInit, EventLog, StatusTree, CycleSearch,
        FiniteSetTheorems, SequenceTheorems, TLAPS

-------------------------------------------------------------------------------
\* Deliverables.  Writes are numbered, so what a file holds never comes back; a
\* manifest has files of the agent only, and perhaps the temporary file of a build
\* that was killed, which the save of the manifest has replaced.

Listable == Artifacts \union {"artifacts.tmp"}

Hashes(f) == DOMAIN f \subseteq Listable /\ \A n \in DOMAIN f : f[n] \in 1 .. writes

DeliveryTyped ==
  /\ writes \in Nat
  /\ disk \in [Names -> 0 .. writes]
  /\ building \in {"none", "hashing", "saving"}
  /\ unhashed \subseteq Listable
  /\ Hashes(listing) /\ Hashes(manifest) /\ Hashes(against)

Fresh(f) == "artifacts.tmp" \in DOMAIN f => disk["artifacts.tmp"] # f["artifacts.tmp"]

\* The temporary file a manifest lists is not the one there is.
Replaced ==
  /\ building = "saving" => Fresh(listing)
  /\ Fresh(manifest) /\ Fresh(against)

\* What is being built agrees with the disk but for what the agent did meanwhile.
Agreed ==
  \A n \in DOMAIN listing : disk[n] = listing[n] \/ n \in whileBuilt \union {"artifacts.tmp"}

Examined ==
  /\ unchecked \subseteq DOMAIN against
  /\ checking \in {"reading", "intact"} =>
       /\ checking = "intact" => unchecked = {}
       /\ \A n \in DOMAIN against \ unchecked : disk[n] = against[n] \/ n \in sinceLoaded

DeliveryInv ==
  /\ DeliveryTyped /\ Replaced /\ Agreed /\ Examined
  /\ OnlyAgentOutdates /\ IntegrityTells

LEMMA DeliveryInitially == DeliveryInit => DeliveryInv
  BY DEF DeliveryInit, DeliveryInv, DeliveryTyped, Hashes, Replaced, Fresh, Agreed, Examined,
     OnlyAgentOutdates, IntegrityTells, NoEntries

LEMMA DeliveryTypedNext ==
  ASSUME DeliveryTyped, [DeliveryNext]_deliveryVars
  PROVE  DeliveryTyped'
<1> USE DEF DeliveryTyped, Hashes, Names, Listable, buildVars, checkVars, changed
<1>1. ASSUME NEW n \in Artifacts, AgentChanges(n)
      PROVE  DeliveryTyped'
  BY <1>1 DEF AgentChanges, Written
<1>2. CASE WriteChangelog
  BY <1>2 DEF WriteChangelog, Written
<1>3. CASE ListFiles
  BY <1>3 DEF ListFiles, NoEntries
<1>4. CASE HashFile
  BY <1>4 DEF HashFile, NoEntries
<1>5. CASE SaveManifestTmp
  BY <1>5 DEF SaveManifestTmp, Written
<1>6. CASE SaveManifest
  BY <1>6 DEF SaveManifest, NoEntries
<1>7. CASE BuildStops
  BY <1>7 DEF BuildStops, NoEntries
<1>8. CASE LoadManifest \/ CheckFile \/ AllChecked
  BY <1>8 DEF LoadManifest, CheckFile, AllChecked, Answer
<1>9. CASE UNCHANGED deliveryVars
  BY <1>9 DEF deliveryVars
<1> QED
  BY <1>1, <1>2, <1>3, <1>4, <1>5, <1>6, <1>7, <1>8, <1>9 DEF DeliveryNext

LEMMA DeliveryInvNext ==
  ASSUME DeliveryInv, [DeliveryNext]_deliveryVars
  PROVE  DeliveryInv'
<1>0. DeliveryTyped'
  BY DeliveryTypedNext DEF DeliveryInv
<1> SUFFICES Replaced' /\ Agreed' /\ Examined' /\ OnlyAgentOutdates' /\ IntegrityTells'
  BY <1>0 DEF DeliveryInv
<1> USE DeliverablesAssumption
    DEF DeliveryInv, DeliveryTyped, Hashes, Fresh, Names, Listable, Replaced, Agreed, Examined,
        OnlyAgentOutdates, IntegrityTells, buildVars, checkVars, changed
<1>1. ASSUME NEW n \in Artifacts, AgentChanges(n)
      PROVE  Replaced' /\ Agreed' /\ Examined' /\ OnlyAgentOutdates' /\ IntegrityTells'
  BY <1>1 DEF AgentChanges, Written
<1>2. CASE WriteChangelog
  BY <1>2 DEF WriteChangelog, Written
<1>3. CASE ListFiles
  BY <1>3 DEF ListFiles, NoEntries
<1>4. CASE HashFile
  BY <1>4 DEF HashFile, NoEntries
<1>5. CASE SaveManifestTmp
  <2>1. \A n \in Names \ {"artifacts.tmp"} : disk'[n] = disk[n]
    BY <1>5 DEF SaveManifestTmp, Written
  <2>2. disk'["artifacts.tmp"] = writes + 1 /\ writes + 1 \notin 1 .. writes
    BY <1>5 DEF SaveManifestTmp, Written
  <2>3. Replaced'
    BY <1>5, <2>2 DEF SaveManifestTmp
  <2>4. Agreed' /\ OnlyAgentOutdates'
    BY <1>5, <2>1 DEF SaveManifestTmp
  <2>5. Examined'
    BY <1>5, <2>1 DEF SaveManifestTmp
  <2>6. IntegrityTells'
    BY <1>5, <2>1, <2>2 DEF SaveManifestTmp
  <2> QED
    BY <2>3, <2>4, <2>5, <2>6
<1>6. CASE SaveManifest
  BY <1>6 DEF SaveManifest, NoEntries
<1>7. CASE BuildStops
  BY <1>7 DEF BuildStops, NoEntries
<1>8. CASE LoadManifest
  BY <1>8 DEF LoadManifest
<1>9. CASE CheckFile
  <2>1. PICK n \in unchecked :
          \/ disk[n] = 0 /\ (Answer("altered") \/ Answer("error"))
          \/ disk[n] \notin {0, against[n]} /\ Answer("altered")
          \/ disk[n] = against[n] /\ unchecked' = unchecked \ {n} /\ UNCHANGED checking
    BY <1>9 DEF CheckFile
  <2>2. UNCHANGED <<disk, writes, building, listing, manifest, against, changed>>
    BY <1>9 DEF CheckFile
  <2>3. Replaced' /\ Agreed' /\ OnlyAgentOutdates'
    BY <2>2
  <2>4. unchecked \subseteq DOMAIN against /\ checking = "reading"
    BY <1>9 DEF CheckFile
  <2>5. Examined'
    BY <2>1, <2>2, <2>4 DEF Answer
  <2>6. IntegrityTells'
    BY <2>1, <2>2, <2>4 DEF Answer
  <2> QED
    BY <2>3, <2>5, <2>6
<1>10. CASE AllChecked
  BY <1>10 DEF AllChecked, Answer
<1>11. CASE UNCHANGED deliveryVars
  BY <1>11 DEF deliveryVars
<1> QED
  BY <1>1, <1>2, <1>3, <1>4, <1>5, <1>6, <1>7, <1>8, <1>9, <1>10, <1>11 DEF DeliveryNext

LEMMA DeliveryHolds == DeliverySpec => []DeliveryInv
<1>1. DeliveryInv /\ [DeliveryNext]_deliveryVars => DeliveryInv'
  BY DeliveryInvNext
<1> QED
  BY <1>1, DeliveryInitially, PTL DEF DeliverySpec

\* Building, saving and the changelog never make a manifest wrong, but for the
\* temporary file of a killed build.
THEOREM OnlyAgentOutdatesHolds == DeliverySpec => []OnlyAgentOutdates
<1>1. DeliveryInv => OnlyAgentOutdates
  BY DEF DeliveryInv
<1> QED
  BY <1>1, DeliveryHolds, PTL

\* verify_integrity answers what is the case, up to what the agent does meanwhile.
THEOREM IntegrityTellsHolds == DeliverySpec => []IntegrityTells
<1>1. DeliveryInv => IntegrityTells
  BY DEF DeliveryInv
<1> QED
  BY <1>1, DeliveryHolds, PTL

-------------------------------------------------------------------------------
\* `forge init`.

\* The key it has found is the one of a forge.toml that nobody has edited since.
KeyFound ==
  asking \in {"description", "channels", "conf"} /\ ~edited /\ conf.parses /\ conf.key # NoKey
    => wizardKey = conf.key

LEMMA KeyFoundNext ==
  ASSUME KeyFound, [ProjectNext]_projectVars
  PROVE  KeyFound' /\ (conf.parses /\ conf.key # NoKey /\ ~edited' => conf'.key = conf.key)
<1> USE DEF KeyFound, project, wizard
<1>1. CASE FindKey
  BY <1>1 DEF FindKey, ResolveKey
<1>2. CASE Describe \/ SelectChannels
  BY <1>2 DEF Describe, SelectChannels
<1>3. CASE WriteConf
  BY <1>3 DEF WriteConf
<1>4. CASE WriteSkeleton \/ CutIgnore \/ WriteIgnore
  BY <1>4 DEF WriteSkeleton, CutIgnore, WriteIgnore
<1>5. CASE AskDesign \/ CutSection \/ WriteSection
  BY <1>5 DEF AskDesign, CutSection, WriteSection
<1>6. CASE WizardStops \/ InputEnds
  BY <1>6 DEF WizardStops, InputEnds
<1>7. CASE UserEdits
  BY <1>7 DEF UserEdits
<1>8. CASE UNCHANGED projectVars
  BY <1>8 DEF projectVars
<1> QED
  BY <1>1, <1>2, <1>3, <1>4, <1>5, <1>6, <1>7, <1>8 DEF ProjectNext

\* The key of a usable forge.toml outlives every run of `forge init`.
THEOREM KeyIsKeptHolds == ProjectSpec => KeyIsKept
<1>1. ProjectInit0 => KeyFound
  BY DEF ProjectInit0, KeyFound
<1>2. KeyFound /\ [ProjectNext]_projectVars
        => KeyFound' /\ (conf.parses /\ conf.key # NoKey /\ ~edited' => conf'.key = conf.key)
  BY KeyFoundNext
<1> QED
  BY <1>1, <1>2, PTL DEF ProjectSpec, KeyIsKept

\* What the wizard has read of .gitignore before it cuts it.
IgnoreRead ==
  /\ ignore.ours \in {0, 1}
  /\ asking = "ignoreCut" =>
       readIgnore.ours = 0 /\ (~stopped => readIgnore.user = hadIgnore)
  /\ ~stopped /\ asking # "ignoreCut" => ignore.user = hadIgnore

LEMMA IgnoreReadNext ==
  ASSUME IgnoreRead, [ProjectNext]_projectVars
  PROVE  IgnoreRead'
<1> USE DEF IgnoreRead, project, wizard
<1>1. CASE FindKey
  BY <1>1 DEF FindKey
<1>2. CASE Describe \/ SelectChannels \/ WriteConf \/ WriteSkeleton
  BY <1>2 DEF Describe, SelectChannels, WriteConf, WriteSkeleton
<1>3. CASE CutIgnore
  BY <1>3 DEF CutIgnore
<1>4. CASE WriteIgnore
  BY <1>4 DEF WriteIgnore
<1>5. CASE AskDesign \/ CutSection \/ WriteSection
  BY <1>5 DEF AskDesign, CutSection, WriteSection
<1>6. CASE WizardStops \/ InputEnds \/ UserEdits
  BY <1>6 DEF WizardStops, InputEnds, UserEdits
<1>7. CASE UNCHANGED projectVars
  BY <1>7 DEF projectVars
<1> QED
  BY <1>1, <1>2, <1>3, <1>4, <1>5, <1>6, <1>7 DEF ProjectNext

\* The wizard's lines are in .gitignore once and the user's lines stay, unless a
\* wizard was killed between truncating and writing.
THEOREM IgnoreKeptHolds == ProjectSpec => []IgnoreKept
<1>1. ProjectInit0 => IgnoreRead
  BY DEF ProjectInit0, IgnoreRead
<1>2. IgnoreRead /\ [ProjectNext]_projectVars => IgnoreRead'
  BY IgnoreReadNext
<1>3. IgnoreRead => IgnoreKept
  BY DEF IgnoreRead, IgnoreKept
<1> QED
  BY <1>1, <1>2, <1>3, PTL DEF ProjectSpec

-------------------------------------------------------------------------------
\* The event log, with one orchestrator.

LastLine == lines[Len(lines)]

LogTyped ==
  /\ entries \in Nat
  /\ lines \in Seq(Seq(1 .. entries)) /\ Len(lines) >= 1
  /\ inAppend \in [Orchestrators -> 0 .. entries]
  /\ appended \subseteq 1 .. entries /\ shown \subseteq 1 .. entries

\* An entry being appended is in no ended line, and if it is shown already, it stands
\* alone in the last one.  An entry whose append has succeeded is not alone in the
\* last line, and if it is shown, it is alone in one that is ended.
Settled ==
  /\ \A o \in Orchestrators : inAppend[o] # 0 =>
       /\ \A i \in 1 .. Len(lines) - 1 : lines[i] # <<inAppend[o]>>
       /\ inAppend[o] \in shown => LastLine = <<inAppend[o]>>
  /\ \A e \in appended : LastLine # <<e>>
  /\ \A e \in shown \intersect appended : \E i \in 1 .. Len(lines) - 1 : lines[i] = <<e>>

LEMMA ReadLine ==
  ASSUME LogTyped, NEW e
  PROVE  e \in ReadAll <=> \E i \in 1 .. Len(lines) : lines[i] = <<e>>
<1>1. ASSUME NEW i \in 1 .. Len(lines)
      PROVE  (Len(lines[i]) = 1 /\ lines[i][1] = e) <=> lines[i] = <<e>>
  <2>1. lines[i] \in Seq(1 .. entries)
    BY DEF LogTyped
  <2>2. ASSUME Len(lines[i]) = 1, lines[i][1] = e
        PROVE  lines[i] = <<e>>
    <3>0. 1 \in 1 .. Len(lines[i])
      BY <2>2
    <3>1. e \in 1 .. entries
      BY <2>1, <2>2, <3>0, ElementOfSeq
    <3>2. <<e>> \in Seq(1 .. entries) /\ Len(<<e>>) = 1 /\ <<e>>[1] = e
      BY <3>1
    <3> QED
      BY <2>1, <2>2, <3>2, SeqEqual
  <2>3. lines[i] = <<e>> => Len(lines[i]) = 1 /\ lines[i][1] = e
    OBVIOUS
  <2> QED
    BY <2>2, <2>3
<1>2. DOMAIN lines = 1 .. Len(lines)
  BY DEF LogTyped
<1>3. e \in ReadAll <=> \E i \in 1 .. Len(lines) : Len(lines[i]) = 1 /\ lines[i][1] = e
  BY <1>2 DEF ReadAll
<1> QED
  BY <1>1, <1>3

LEMMA LogTypedNext ==
  ASSUME LogTyped, [LogNext]_logVars
  PROVE  LogTyped'
<1> USE DEF LogTyped
<1>1. ASSUME NEW o \in Orchestrators, WriteLine(o)
      PROVE  LogTyped'
  <2>1. \A i \in 1 .. Len(lines) : lines[i] \in Seq(1 .. entries + 1)
    OBVIOUS
  <2>2. lines' \in Seq(Seq(1 .. entries + 1)) /\ Len(lines') = Len(lines)
    BY <1>1, <2>1 DEF WriteLine
  <2> QED
    BY <1>1, <2>2 DEF WriteLine
<1>2. ASSUME NEW o \in Orchestrators, EndLine(o)
      PROVE  LogTyped'
  <2>1. <<>> \in Seq(1 .. entries)
    OBVIOUS
  <2>2. lines' \in Seq(Seq(1 .. entries)) /\ Len(lines') = Len(lines) + 1
    BY <1>2, <2>1 DEF EndLine
  <2>3. inAppend[o] \in 1 .. entries
    BY <1>2 DEF EndLine
  <2>4. inAppend' \in [Orchestrators -> 0 .. entries]
    BY <1>2 DEF EndLine
  <2>5. Len(lines') >= 1 /\ entries' = entries /\ shown' = shown
    BY <1>2, <2>2 DEF EndLine
  <2> QED
    BY <1>2, <2>2, <2>3, <2>4, <2>5 DEF EndLine
<1>3. ASSUME NEW o \in Orchestrators, LineCut(o)
      PROVE  LogTyped'
  BY <1>3 DEF LineCut
<1>4. CASE Show
  <2>1. ReadAll \subseteq 1 .. entries
    <3>1. ASSUME NEW i \in 1 .. Len(lines), Len(lines[i]) = 1
          PROVE  lines[i][1] \in 1 .. entries
      BY <3>1
    <3> QED
      BY <3>1 DEF ReadAll
  <2> QED
    BY <1>4, <2>1 DEF Show
<1>5. CASE UNCHANGED logVars
  BY <1>5 DEF logVars
<1> QED
  BY <1>1, <1>2, <1>3, <1>4, <1>5 DEF LogNext

LEMMA SettledNext ==
  ASSUME LogTyped, Settled, NEW o, Orchestrators = {o}, [LogNext]_logVars
  PROVE  Settled'
<1>1. CASE WriteLine(o)
  <2> DEFINE L == Len(lines)
             e == entries + 1
  <2>1. L \in Nat /\ L >= 1 /\ Len(lines') = L /\ inAppend'[o] = e
    BY <1>1 DEF WriteLine, LogTyped
  <2>2. \A i \in 1 .. L - 1 : lines'[i] = lines[i]
    BY <1>1 DEF WriteLine, LogTyped
  <2>3. LastLine' = Append(LastLine, e)
    BY <1>1 DEF WriteLine, LogTyped, LastLine
  <2>4. \A i \in 1 .. L : lines[i] \in Seq(1 .. entries)
    BY DEF LogTyped
  <2>5. ASSUME NEW i \in 1 .. L - 1, lines[i] = <<e>>
        PROVE  FALSE
    <3>1. i \in 1 .. L
      BY <2>1
    <3>2. lines[i] \in Seq(1 .. entries)
      BY <2>4, <3>1
    <3>3. <<e>> \in Seq(1 .. entries)
      BY <2>5, <3>2, Zenon
    <3>4. Len(<<e>>) = 1 /\ <<e>>[1] = e
      OBVIOUS
    <3>5. e \in 1 .. entries
      BY <3>3, <3>4, ElementOfSeq
    <3> QED
      BY <3>5 DEF LogTyped
  <2>6. \A d \in appended : LastLine' # <<d>>
    <3>1. LastLine \in Seq(1 .. entries)
      BY <2>1, <2>4 DEF LastLine
    <3>2. ASSUME NEW d, Append(LastLine, e) = <<d>>
          PROVE  d = e
      <4>1. Len(LastLine) \in Nat /\ Len(Append(LastLine, e)) = Len(LastLine) + 1
        BY <3>1
      <4>2. Append(LastLine, e)[Len(LastLine) + 1] = e
        BY <3>1
      <4>3. Len(<<d>>) = 1 /\ <<d>>[1] = d
        OBVIOUS
      <4> QED
        BY <3>2, <4>1, <4>2, <4>3
    <3> QED
      BY <2>3, <3>2 DEF LogTyped
  <2>7. e \notin shown /\ appended' = appended /\ shown' = shown
    BY <1>1 DEF WriteLine, LogTyped
  <2> QED
    BY <2>1, <2>2, <2>5, <2>6, <2>7 DEF Settled
<1>2. CASE EndLine(o)
  <2> DEFINE L == Len(lines)
             e == inAppend[o]
  <2>1. L \in Nat /\ L >= 1 /\ Len(lines') = L + 1 /\ inAppend'[o] = 0 /\ e # 0
    BY <1>2 DEF EndLine, LogTyped
  <2>2. \A i \in 1 .. L : lines'[i] = lines[i]
    BY <1>2 DEF EndLine, LogTyped
  <2>3. LastLine' = <<>>
    BY <1>2 DEF EndLine, LogTyped, LastLine
  <2>4. e \in shown => lines[L] = <<e>>
    BY <2>1 DEF Settled, LastLine
  <2>5. appended' = appended \union {e} /\ shown' = shown
    BY <1>2 DEF EndLine
  <2>6. ASSUME NEW d \in shown \intersect (appended \union {e})
        PROVE  \E i \in 1 .. L : lines[i] = <<d>>
    <3>1. CASE d = e
      BY <2>1, <2>4, <3>1
    <3>2. CASE d \in appended
      <4>1. PICK i \in 1 .. Len(lines) - 1 : lines[i] = <<d>>
        BY <3>2 DEF Settled
      <4>2. i \in 1 .. L
        BY <2>1, <4>1
      <4> QED
        BY <4>1, <4>2
    <3> QED
      BY <3>1, <3>2
  <2> HIDE DEF e, L
  <2>7. \A d : LastLine' # <<d>>
    BY <2>3
  <2>8. \A d \in shown' \intersect appended' :
          \E i \in 1 .. Len(lines') - 1 : lines'[i] = <<d>>
    BY <2>1, <2>2, <2>5, <2>6
  <2>9. \A q \in Orchestrators : inAppend'[q] = 0
    BY <2>1
  <2> QED
    BY <2>7, <2>8, <2>9 DEF Settled
<1>3. CASE LineCut(o)
  BY <1>3 DEF LineCut, Settled, LastLine, LogTyped
<1>4. CASE Show
  <2>0. Len(lines) \in Nat
    BY DEF LogTyped
  <2>1. ASSUME NEW e \in ReadAll, e \in appended
        PROVE  \E i \in 1 .. Len(lines) - 1 : lines[i] = <<e>>
    <3>1. PICK i \in 1 .. Len(lines) : lines[i] = <<e>>
      BY ReadLine
    <3>2. i # Len(lines)
      BY <2>1, <3>1 DEF Settled, LastLine
    <3> QED
      BY <2>0, <3>1, <3>2
  <2>2. ASSUME inAppend[o] # 0, inAppend[o] \in ReadAll
        PROVE  LastLine = <<inAppend[o]>>
    <3>1. PICK i \in 1 .. Len(lines) : lines[i] = <<inAppend[o]>>
      BY <2>2, ReadLine
    <3>2. i \notin 1 .. Len(lines) - 1
      BY <2>2, <3>1 DEF Settled
    <3> QED
      BY <2>0, <3>1, <3>2 DEF LastLine
  <2> QED
    BY <1>4, <2>1, <2>2 DEF Show, Settled, LastLine
<1>5. CASE UNCHANGED logVars
  BY <1>5 DEF logVars, Settled, LastLine
<1> QED
  BY <1>1, <1>2, <1>3, <1>4, <1>5 DEF LogNext

\* With one orchestrator, what a reader has shown of an event whose append has
\* succeeded stays, also after kills in the middle of an append.
THEOREM ShownIsKeptHolds == LogSpec => []ShownIsKept
<1>1. LogInit => LogTyped
  BY DEF LogInit, LogTyped
<1>2. LogTyped /\ [LogNext]_logVars => LogTyped'
  BY LogTypedNext
<1>3. CASE Cardinality(Orchestrators) = 1
  <2>1. PICK o : Orchestrators = {o}
    BY <1>3, EventLogAssumption, FS_Singleton
  <2>2. LogInit => Settled
    BY DEF LogInit, Settled
  <2>3. LogTyped /\ Settled /\ [LogNext]_logVars => Settled'
    BY <2>1, SettledNext
  <2>4. LogTyped /\ Settled => ShownIsKept
    <3> SUFFICES ASSUME LogTyped, Settled, NEW e \in shown \intersect appended
                 PROVE  e \in ReadAll
      BY DEF ShownIsKept
    <3>1. PICK i \in 1 .. Len(lines) - 1 : lines[i] = <<e>>
      BY DEF Settled
    <3>2. i \in 1 .. Len(lines)
      BY <3>1 DEF LogTyped
    <3> QED
      BY <3>1, <3>2, ReadLine
  <2> QED
    BY <1>1, <1>2, <2>2, <2>3, <2>4, PTL DEF LogSpec
<1>4. CASE Cardinality(Orchestrators) # 1
  <2>1. ShownIsKept
    BY <1>4 DEF ShownIsKept
  <2> QED
    BY <2>1, PTL
<1> QED
  BY <1>3, <1>4

-------------------------------------------------------------------------------
\* The losses.  Every event that is lost has a kill of its own, and so has the text
\* that a killed append has left in the last line, on which the next event will be
\* lost: that kill is still owed a loss.

Lost == appended \ ReadAll

\* The last line holds nothing but the entry that is being appended, if there is one.
CleanEnd(o) == LastLine = IF inAppend[o] = 0 THEN <<>> ELSE <<inAppend[o]>>

Owed(o) == IF CleanEnd(o) THEN 0 ELSE 1

Paid(o) == kills \in Nat /\ Cardinality(Lost) + Owed(o) <= kills

LEMMA LostFinite ==
  ASSUME LogTyped
  PROVE  IsFiniteSet(Lost) /\ Cardinality(Lost) \in Nat
<1>1. IsFiniteSet(1 .. entries)
  BY FS_Interval DEF LogTyped
<1>2. Lost \subseteq 1 .. entries
  BY DEF LogTyped, Lost
<1> QED
  BY <1>1, <1>2, FS_Subset, FS_CardinalityType

LEMMA ReadLines == LogTyped => \A x : x \in ReadAll <=> \E i \in 1 .. Len(lines) : lines[i] = <<x>>
  BY ReadLine

LEMMA ReadLinesNext ==
  LogTyped' => \A x : x \in ReadAll' <=> \E i \in 1 .. Len(lines') : lines'[i] = <<x>>
<1>1. LogTyped' => (\A x : x \in ReadAll <=> \E i \in 1 .. Len(lines) : lines[i] = <<x>>)'
  BY ReadLines, PTL
<1> QED
  BY <1>1

LEMMA AppendIsSingle ==
  ASSUME NEW T, NEW s \in Seq(T), NEW e \in T, NEW d, Append(s, e) = <<d>>
  PROVE  d = e /\ s = <<>>
<1>0. Len(s) \in Nat
  BY LenProperties
<1>1. Len(Append(s, e)) = Len(s) + 1 /\ Append(s, e)[Len(s) + 1] = e
  BY AppendProperties
<1>2. Len(<<d>>) = 1 /\ <<d>>[1] = d
  OBVIOUS
<1>3. Len(s) + 1 = 1
  BY <1>1, <1>2
<1>4. Len(s) = 0
  BY <1>0, <1>3
<1>5. d = e
  BY <1>1, <1>2, <1>3
<1> QED
  BY <1>4, <1>5, EmptySeq

\* The text of the next event does not touch the lines of those that are appended.
LEMMA WriteLineLosesNothing ==
  ASSUME LogTyped, LogTyped', Settled, NEW o \in Orchestrators, WriteLine(o)
  PROVE  /\ Lost' = Lost
         /\ CleanEnd(o)' <=> CleanEnd(o)
<1> DEFINE L == Len(lines)
           e == entries + 1
<1>1. /\ L \in Nat /\ L >= 1 /\ Len(lines') = L
      /\ inAppend[o] = 0 /\ inAppend'[o] = e /\ e # 0
      /\ \A i \in 1 .. L - 1 : lines'[i] = lines[i]
      /\ lines'[L] = Append(lines[L], e)
      /\ appended' = appended
  BY DEF WriteLine, LogTyped
<1>2. lines[L] \in Seq(1 .. entries)
  BY <1>1 DEF LogTyped
<1>5. ASSUME NEW d, Append(lines[L], e) = <<d>>
      PROVE  d = e /\ lines[L] = <<>>
  <2>1. lines[L] \in Seq(1 .. e) /\ e \in 1 .. e
    BY <1>2 DEF LogTyped
  <2> QED
    BY <1>5, <2>1, AppendIsSingle
<1>6. ASSUME NEW d \in appended
      PROVE  (\E i \in 1 .. L : lines'[i] = <<d>>) <=> (\E i \in 1 .. L : lines[i] = <<d>>)
  <2>1. lines[L] # <<d>>
    BY DEF Settled, LastLine
  <2>2. d # e
    BY DEF LogTyped
  <2>3. lines'[L] # <<d>>
    BY <1>1, <1>5, <2>2
  <2>4. \A i \in 1 .. L : i = L \/ i \in 1 .. L - 1
    BY <1>1
  <2> QED
    BY <1>1, <2>1, <2>3, <2>4
<1>7. \A d \in appended : d \in ReadAll' <=> d \in ReadAll
  <2> SUFFICES ASSUME NEW d \in appended
               PROVE  d \in ReadAll' <=> d \in ReadAll
    OBVIOUS
  <2>1. d \in ReadAll <=> \E i \in 1 .. L : lines[i] = <<d>>
    BY ReadLine
  <2>2. d \in ReadAll' <=> \E i \in 1 .. Len(lines') : lines'[i] = <<d>>
    BY ReadLinesNext
  <2> QED
    BY <1>1, <1>6, <2>1, <2>2
<1>8. CleanEnd(o)' <=> CleanEnd(o)
  <2>1. CleanEnd(o) <=> lines[L] = <<>>
    BY <1>1 DEF CleanEnd, LastLine
  <2>2. CleanEnd(o)' <=> Append(lines[L], e) = <<e>>
    BY <1>1 DEF CleanEnd, LastLine
  <2>3. lines[L] = <<>> => Append(lines[L], e) = <<e>>
    OBVIOUS
  <2> QED
    BY <1>5, <2>1, <2>2, <2>3
<1> QED
  BY <1>1, <1>7, <1>8 DEF Lost

LEMMA PaidNext ==
  ASSUME LogTyped, LogTyped', Settled, NEW o, Orchestrators = {o}, Paid(o), [LogNext]_logVars
  PROVE  Paid(o)'
<1>0. /\ IsFiniteSet(Lost) /\ Cardinality(Lost) \in Nat
      /\ Owed(o) \in {0, 1} /\ kills \in Nat /\ Cardinality(Lost) + Owed(o) <= kills
  BY LostFinite DEF Paid, Owed
<1>1. CASE WriteLine(o)
  <2>1. Lost' = Lost /\ Owed(o)' = Owed(o)
    BY <1>1, WriteLineLosesNothing DEF Owed
  <2>2. kills' = kills
    BY <1>1 DEF WriteLine
  <2> QED
    BY <2>1, <2>2 DEF Paid
<1>2. CASE EndLine(o)
  <2> DEFINE e == inAppend[o]
  <2>1. /\ e # 0 /\ inAppend'[o] = 0 /\ kills' = kills
        /\ appended' = appended \union {e} /\ lines' = Append(lines, <<>>)
    BY <1>2 DEF EndLine, LogTyped
  <2>2. /\ Len(lines) \in Nat /\ Len(lines') = Len(lines) + 1 /\ LastLine' = <<>>
        /\ \A i \in 1 .. Len(lines) : lines'[i] = lines[i]
    BY <2>1 DEF LogTyped, LastLine
  <2>3. ReadAll \subseteq ReadAll'
    <3> SUFFICES ASSUME NEW i \in DOMAIN lines, Len(lines[i]) = 1
                 PROVE  lines[i][1] \in ReadAll'
      BY DEF ReadAll
    <3>1. i \in 1 .. Len(lines) /\ i \in DOMAIN lines'
      BY <2>2 DEF LogTyped
    <3> QED
      BY <2>2, <3>1 DEF ReadAll
  <2>4. Owed(o)' = 0
    BY <2>1, <2>2 DEF Owed, CleanEnd
  <2>5. CASE CleanEnd(o)
    <3>1. lines[Len(lines)] = <<e>> /\ Len(lines) \in 1 .. Len(lines)
      BY <2>1, <2>5 DEF CleanEnd, LastLine, LogTyped
    <3>2. e \in ReadAll
      BY <3>1, ReadLine
    <3>3. Lost' \subseteq Lost
      BY <2>1, <2>3, <3>2 DEF Lost
    <3>4. Cardinality(Lost') <= Cardinality(Lost) /\ Cardinality(Lost') \in Nat
      BY <1>0, <3>3, FS_Subset, FS_CardinalityType
    <3> QED
      BY <1>0, <2>1, <2>4, <3>4 DEF Paid
  <2>6. CASE ~CleanEnd(o)
    <3> HIDE DEF e
    <3>0. /\ IsFiniteSet(Lost \union {e})
          /\ Cardinality(Lost \union {e}) = IF e \in Lost THEN Cardinality(Lost) ELSE Cardinality(Lost) + 1
      BY <1>0, FS_AddElement
    <3>1. IsFiniteSet(Lost \union {e}) /\ Cardinality(Lost \union {e}) <= Cardinality(Lost) + 1
          /\ Cardinality(Lost \union {e}) \in Nat
      BY <1>0, <3>0
    <3>2. Lost' \subseteq Lost \union {e}
      BY <2>1, <2>3 DEF Lost
    <3>3. Cardinality(Lost') <= Cardinality(Lost \union {e}) /\ Cardinality(Lost') \in Nat
      BY <3>1, <3>2, FS_Subset, FS_CardinalityType
    <3>4. Owed(o) = 1
      BY <2>6 DEF Owed
    <3> QED
      BY <1>0, <2>1, <2>4, <3>1, <3>3, <3>4 DEF Paid
  <2> QED
    BY <2>5, <2>6
<1>3. CASE LineCut(o)
  <2>1. Lost' = Lost /\ kills' = kills + 1 /\ Owed(o)' \in {0, 1}
    BY <1>3 DEF LineCut, Lost, ReadAll, Owed
  <2> QED
    BY <1>0, <2>1 DEF Paid
<1>4. CASE Show \/ UNCHANGED logVars
  <2>1. Lost' = Lost /\ kills' = kills /\ Owed(o)' = Owed(o)
    BY <1>4 DEF Show, logVars, Lost, ReadAll, Owed, CleanEnd, LastLine
  <2> QED
    BY <2>1 DEF Paid
<1> QED
  BY <1>1, <1>2, <1>3, <1>4 DEF LogNext

\* With one orchestrator a kill costs at most one event besides the one it cuts,
\* however many kills and events there are.
THEOREM LossPerKillHolds == LogSpec => []LossPerKill
<1>1. LogInit => LogTyped
  BY DEF LogInit, LogTyped
<1>2. LogTyped /\ [LogNext]_logVars => LogTyped'
  BY LogTypedNext
<1>3. CASE Cardinality(Orchestrators) = 1
  <2>1. PICK o : Orchestrators = {o}
    BY <1>3, EventLogAssumption, FS_Singleton
  <2>2. LogInit => Settled
    BY DEF LogInit, Settled
  <2>3. LogInit => Paid(o)
    <3> SUFFICES ASSUME LogInit PROVE Paid(o)
      OBVIOUS
    <3>1. Lost = {} /\ kills = 0 /\ Owed(o) = 0
      BY <2>1 DEF LogInit, Lost, Owed, CleanEnd, LastLine
    <3> QED
      BY <3>1, FS_EmptySet DEF Paid
  <2>4. LogTyped /\ Settled /\ [LogNext]_logVars => Settled'
    BY <2>1, SettledNext
  <2>5. LogTyped /\ LogTyped' /\ Settled /\ Paid(o) /\ [LogNext]_logVars => Paid(o)'
    BY <2>1, PaidNext
  <2>6. LogTyped /\ Paid(o) => LossPerKill
    BY LostFinite DEF Paid, Owed, Lost, LossPerKill
  <2> QED
    BY <1>1, <1>2, <2>2, <2>3, <2>4, <2>5, <2>6, PTL DEF LogSpec
<1>4. CASE Cardinality(Orchestrators) # 1
  <2>1. LossPerKill
    BY <1>4 DEF LossPerKill
  <2> QED
    BY <2>1, PTL
<1> QED
  BY <1>3, <1>4

-------------------------------------------------------------------------------
\* `forge status`, where no name is used twice.

TreeTyped ==
  /\ IsFiniteSet(DOMAIN found) /\ \A i \in DOMAIN found : found[i] \in NodeFiles
  /\ todo \in [NodeNames -> Nat] /\ printed \in [NodeNames -> Nat]

\* A node is printed or to be printed as often as its parent has been printed; a root
\* once, a name without a file never.
Accounted ==
  /\ \A n \in NodeNames : printed[n] <= 1
  /\ \A n \in NodeNames \ FoundNames : printed[n] = 0 /\ todo[n] = 0
  /\ \A i \in DOMAIN found :
       printed[found[i].name] + todo[found[i].name] =
         IF found[i].parent \in RootParents THEN 1 ELSE printed[found[i].parent]

ParentsClosed(S) == \A i \in DOMAIN found : found[i].name \in S => found[i].parent \in S

\* print_tree never gets into a set of nodes with their parents.
CyclesUntouched ==
  \A S \in SUBSET FoundNames :
    ParentsClosed(S) => \A n \in S : printed[n] = 0 /\ todo[n] = 0

LEMMA FoundTyped ==
  ASSUME TreeTyped, NEW i \in DOMAIN found
  PROVE  /\ found[i].name \in NodeNames /\ found[i].name \in FoundNames
         /\ found[i].parent \in NodeNames \union {NoParent}
         /\ found[i].parent \notin RootParents => found[i].parent \in FoundNames
         /\ FoundNames \subseteq NodeNames
BY DEF TreeTyped, NodeFiles, FoundNames, RootParents

\* With unique names a count of files is 0 or 1.
LEMMA CountOfOne ==
  ASSUME NEW D, NEW T, T \subseteq D, \A i, j \in T : i = j
  PROVE  Cardinality(T) = IF T = {} THEN 0 ELSE 1
<1>1. CASE T = {}
  BY <1>1, FS_EmptySet
<1>2. CASE T # {}
  <2>1. PICK i : T = {i}
    BY <1>2
  <2> QED
    BY <1>2, <2>1, FS_Singleton
<1> QED
  BY <1>1, <1>2

LEMMA ChildrenCounted ==
  ASSUME TreeTyped, UniqueNames, NEW p
  PROVE  /\ \A i \in DOMAIN found :
              ChildrenOf(p)[found[i].name] = IF found[i].parent = p THEN 1 ELSE 0
         /\ \A n \in NodeNames \ FoundNames : ChildrenOf(p)[n] = 0
<1> DEFINE files(n) == {i \in DOMAIN found : found[i] = [name |-> n, parent |-> p]}
<1>1. ASSUME NEW n \in NodeNames
      PROVE  ChildrenOf(p)[n] = IF files(n) = {} THEN 0 ELSE 1
  <2>1. \A i, j \in files(n) : i = j
    BY DEF UniqueNames
  <2>2. Cardinality(files(n)) = IF files(n) = {} THEN 0 ELSE 1
    BY <2>1, CountOfOne
  <2> QED
    BY <2>2 DEF ChildrenOf
<1>2. ASSUME NEW i \in DOMAIN found
      PROVE  files(found[i].name) = {} <=> found[i].parent # p
  <2>1. found[i] = [name |-> found[i].name, parent |-> found[i].parent]
    BY DEF TreeTyped, NodeFiles
  <2>2. \A j \in files(found[i].name) : j = i /\ found[j].parent = p
    BY DEF UniqueNames
  <2> QED
    BY <2>1, <2>2
<1>3. \A n \in NodeNames \ FoundNames : files(n) = {}
  BY DEF FoundNames
<1> QED
  BY <1>1, <1>2, <1>3, FoundTyped

LEMMA TreeInit ==
  ASSUME StatusInit, UniqueNames
  PROVE  TreeTyped /\ Accounted /\ CyclesUntouched
<1> DEFINE roots(n) == {i \in DOMAIN found : found[i].name = n /\ found[i].parent \in RootParents}
<1>1. PICK k \in 0 .. MaxFound : found \in [1 .. k -> NodeFiles]
  BY DEF StatusInit
<1>2. IsFiniteSet(DOMAIN found) /\ \A i \in DOMAIN found : found[i] \in NodeFiles
  BY <1>1, StatusAssumption, FS_Interval
<1>3. ASSUME NEW n \in NodeNames
      PROVE  todo[n] = IF roots(n) = {} THEN 0 ELSE 1
  <2>1. \A i, j \in roots(n) : i = j
    BY DEF UniqueNames
  <2>2. Cardinality(roots(n)) = IF roots(n) = {} THEN 0 ELSE 1
    BY <2>1, CountOfOne
  <2> QED
    BY <2>2 DEF StatusInit
<1>4. TreeTyped
  <2>1. todo = [n \in NodeNames |-> todo[n]]
    BY DEF StatusInit
  <2>2. todo \in [NodeNames -> Nat]
    BY <1>3, <2>1
  <2> QED
    BY <1>2, <2>2 DEF TreeTyped, StatusInit
<1>5. ASSUME NEW i \in DOMAIN found
      PROVE  roots(found[i].name) = {} <=> found[i].parent \notin RootParents
  BY DEF UniqueNames
<1>6. \A n \in NodeNames : printed[n] = 0
  BY DEF StatusInit
<1>7. Accounted
  <2>1. \A n \in NodeNames \ FoundNames : roots(n) = {}
    BY DEF FoundNames
  <2> QED
    BY <1>3, <1>4, <1>5, <1>6, <2>1, FoundTyped DEF Accounted
<1>8. CyclesUntouched
  <2> SUFFICES ASSUME NEW S \in SUBSET FoundNames, ParentsClosed(S), NEW n \in S
               PROVE  todo[n] = 0
    BY <1>4, <1>6, FoundTyped DEF CyclesUntouched, FoundNames
  <2>1. PICK i \in DOMAIN found : found[i].name = n
    BY DEF FoundNames
  <2>2. found[i].parent \in FoundNames
    BY <2>1 DEF ParentsClosed
  <2> QED
    BY <1>3, <1>4, <1>5, <2>1, <2>2, FoundTyped DEF RootParents
<1> QED
  BY <1>4, <1>7, <1>8

LEMMA FileOf ==
  ASSUME NEW n \in FoundNames
  PROVE  \E i \in DOMAIN found : found[i].name = n
BY DEF FoundNames

\* What is due to a name found is at most one line.
LEMMA AtMostOnce ==
  ASSUME TreeTyped, Accounted
  PROVE  \A n \in NodeNames : printed[n] + todo[n] <= 1
<1> SUFFICES ASSUME NEW n \in NodeNames
             PROVE  printed[n] + todo[n] <= 1
  OBVIOUS
<1>1. CASE n \notin FoundNames
  BY <1>1 DEF Accounted
<1>2. CASE n \in FoundNames
  <2>1. PICK i \in DOMAIN found : found[i].name = n
    BY <1>2, FileOf
  <2>2. \/ found[i].parent \in RootParents
        \/ found[i].parent \in NodeNames /\ printed[found[i].parent] <= 1
    BY FoundTyped DEF Accounted
  <2> QED
    BY <2>1, <2>2 DEF Accounted, TreeTyped
<1> QED
  BY <1>1, <1>2

LEMMA TreeNext ==
  ASSUME TreeTyped, UniqueNames, Accounted, CyclesUntouched, [PrintTree]_statusVars
  PROVE  TreeTyped' /\ UniqueNames' /\ Accounted' /\ CyclesUntouched'
<1>1. CASE UNCHANGED statusVars
  BY <1>1 DEF statusVars, TreeTyped, UniqueNames, Accounted, CyclesUntouched, ParentsClosed,
     FoundNames, RootParents
<1>2. CASE PrintTree
  <2>1. PICK n \in NodeNames :
          /\ todo[n] > 0
          /\ printed' = [printed EXCEPT ![n] = @ + 1]
          /\ todo' = [m \in NodeNames |->
                        todo[m] + ChildrenOf(n)[m] - (IF m = n THEN 1 ELSE 0)]
    BY <1>2 DEF PrintTree
  <2>2. found' = found
    BY <1>2 DEF PrintTree
  <2>3. /\ FoundNames' = FoundNames /\ RootParents' = RootParents
        /\ UniqueNames'
    BY <2>2 DEF FoundNames, RootParents, UniqueNames
  <2>4. n \in FoundNames
    BY <2>1 DEF Accounted
  <2>5. printed[n] = 0 /\ todo[n] = 1
    BY <2>1, AtMostOnce DEF TreeTyped
  <2>6. \A m \in NodeNames : ChildrenOf(n)[m] \in {0, 1}
    <3>1. \A m \in FoundNames : ChildrenOf(n)[m] \in {0, 1}
      BY ChildrenCounted DEF FoundNames
    <3> QED
      BY <3>1, ChildrenCounted
  <2>7. \A m \in NodeNames :
           /\ printed'[m] = printed[m] + (IF m = n THEN 1 ELSE 0)
           /\ todo'[m] = todo[m] + ChildrenOf(n)[m] - (IF m = n THEN 1 ELSE 0)
    BY <2>1, <2>5 DEF TreeTyped
  <2>8. TreeTyped'
    <3>1. todo' \in [NodeNames -> Nat]
      BY <2>1, <2>5, <2>6 DEF TreeTyped
    <3>2. printed' \in [NodeNames -> Nat]
      BY <2>1 DEF TreeTyped
    <3> QED
      BY <2>2, <3>1, <3>2 DEF TreeTyped
  <2>9. Accounted'
    <3>1. \A m \in NodeNames : printed'[m] <= 1
      BY <2>5, <2>7 DEF Accounted, TreeTyped
    <3>2. \A m \in NodeNames \ FoundNames : printed'[m] = 0 /\ todo'[m] = 0
      BY <2>4, <2>7, ChildrenCounted DEF Accounted
    <3>3. ASSUME NEW i \in DOMAIN found
          PROVE  printed'[found[i].name] + todo'[found[i].name] =
                   IF found[i].parent \in RootParents THEN 1 ELSE printed'[found[i].parent]
      <4> DEFINE m == found[i].name
                 p == found[i].parent
      <4>1. m \in NodeNames /\ (p \notin RootParents => p \in NodeNames)
        BY FoundTyped
      <4>2. /\ printed[m] \in Nat /\ todo[m] \in Nat
            /\ p \notin RootParents => printed[p] \in Nat
        BY <4>1 DEF TreeTyped
      <4>3. ChildrenOf(n)[m] = IF p = n THEN 1 ELSE 0
        BY ChildrenCounted
      <4>4. printed'[m] + todo'[m] = printed[m] + todo[m] + (IF p = n THEN 1 ELSE 0)
        <5> HIDE DEF m, p
        <5> QED
          BY <2>7, <4>1, <4>2, <4>3
      <4>5. printed[m] + todo[m] = IF p \in RootParents THEN 1 ELSE printed[p]
        BY DEF Accounted
      <4>6. n \notin RootParents
        BY <2>4 DEF RootParents
      <4> HIDE DEF m, p
      <4>7. CASE p \in RootParents
        BY <4>2, <4>4, <4>5, <4>6, <4>7 DEF m, p
      <4>8. CASE p \notin RootParents
        <5>1. printed'[p] = printed[p] + (IF p = n THEN 1 ELSE 0)
          BY <2>7, <4>1, <4>8
        <5> QED
          BY <4>2, <4>4, <4>5, <4>8, <5>1 DEF m, p
      <4> QED
        BY <4>7, <4>8
    <3> QED
      BY <2>2, <2>3, <3>1, <3>2, <3>3 DEF Accounted
  <2>10. CyclesUntouched'
    <3>1. ASSUME NEW S \in SUBSET FoundNames, ParentsClosed(S), NEW m \in S
          PROVE  printed'[m] = 0 /\ todo'[m] = 0
      <4>1. n \notin S
        BY <2>5, <3>1 DEF CyclesUntouched
      <4>2. PICK i \in DOMAIN found : found[i].name = m
        BY <3>1, FileOf
      <4>3. found[i].parent # n
        BY <3>1, <4>1, <4>2 DEF ParentsClosed
      <4>4. ChildrenOf(n)[m] = 0
        BY <4>2, <4>3, ChildrenCounted
      <4>5. m \in NodeNames /\ printed[m] = 0 /\ todo[m] = 0
        BY <3>1, <4>2, FoundTyped DEF CyclesUntouched
      <4> QED
        BY <2>7, <4>1, <4>4, <4>5
    <3> QED
      BY <2>2, <2>3, <3>1 DEF CyclesUntouched, ParentsClosed
  <2> QED
    BY <2>3, <2>8, <2>9, <2>10
<1> QED
  BY <1>1, <1>2

\* When nothing is left to print, the names without a line are closed under parents.
LEMMA TreePrinted ==
  ASSUME TreeTyped, Accounted, CyclesUntouched, \A n \in NodeNames : todo[n] = 0
  PROVE  \A n \in FoundNames : printed[n] = 0 <=> InCycle(n)
<1>1. ASSUME NEW n \in FoundNames, InCycle(n)
      PROVE  printed[n] = 0
  BY <1>1 DEF InCycle, CyclesUntouched, ParentsClosed
<1>2. ASSUME NEW n \in FoundNames, printed[n] = 0
      PROVE  InCycle(n)
  <2> DEFINE S == {m \in FoundNames : printed[m] = 0}
  <2>1. ASSUME NEW i \in DOMAIN found, found[i].name \in S
        PROVE  found[i].parent \in S
    <3>1. printed[found[i].name] + todo[found[i].name] = 0
      BY <2>1, FoundTyped
    <3> QED
      BY <3>1, FoundTyped DEF Accounted
  <2>2. n \in S /\ S \in SUBSET FoundNames
    BY <1>2
  <2> QED
    BY <2>1, <2>2 DEF InCycle
<1> QED
  BY <1>1, <1>2

\* `forge status` over any node.toml files of different names: no node is printed
\* twice, and when print_tree is done the nodes without a line are exactly those whose
\* chain of parents closes on itself.
THEOREM EachNodeOnceHolds == StatusSpec => []EachNodeOnce
<1> DEFINE Inv == UniqueNames => TreeTyped /\ Accounted /\ CyclesUntouched
<1>1. StatusInit => Inv
  BY TreeInit
<1>2. Inv /\ [PrintTree]_statusVars => Inv'
  <2>1. ASSUME [PrintTree]_statusVars, UniqueNames'
        PROVE  UniqueNames
    BY <2>1 DEF PrintTree, statusVars, UniqueNames
  <2> QED
    BY <2>1, TreeNext
<1>3. Inv => EachNodeOnce
  BY AtMostOnce, TreePrinted DEF EachNodeOnce
<1> QED
  BY <1>1, <1>2, <1>3, PTL DEF StatusSpec
-------------------------------------------------------------------------------
\* The search for cycles, over any graph.

SearchTyped ==
  /\ adj \in [Vertices -> SUBSET Vertices]
  /\ visited \subseteq Vertices /\ inStack \subseteq visited
  /\ calls \in Seq(Vertices)
  /\ rest \in [Vertices -> SUBSET Vertices]
  /\ cycleNode \in Vertices \union {NoVertex}

\* The set and the calls agree; no node has two.
StackIsCalls ==
  /\ inStack = {calls[i] : i \in 1 .. Len(calls)}
  /\ \A i, j \in 1 .. Len(calls) : calls[i] = calls[j] => i = j

HoldsNeighbours(S) == \A m \in S : adj[m] \subseteq S

\* Each call leads to all later ones.
CallsLead ==
  \A S \in SUBSET Vertices : HoldsNeighbours(S) =>
    \A i, j \in 1 .. Len(calls) : i < j /\ adj[calls[i]] \subseteq S => calls[j] \in S

Finished == visited \ inStack

\* A neighbour is still to be looked at, finished, or what the next call is about.
LookedAt ==
  \A i \in 1 .. Len(calls) :
    /\ rest[calls[i]] \subseteq adj[calls[i]]
    /\ \A v \in adj[calls[i]] :
         \/ v \in rest[calls[i]] \/ v \in Finished
         \/ i < Len(calls) /\ v = calls[i + 1]

\* From finished nodes the search sees finished nodes only, and no cycle.
FinishedAlone ==
  /\ \A v \in Finished : adj[v] \subseteq Finished
  /\ \A S \in (SUBSET Finished) \ {{}} : \E v \in S : adj[v] \intersect S = {}

SearchInv ==
  SearchTyped /\ StackIsCalls /\ CallsLead /\ LookedAt /\ FinishedAlone /\ FoundIsOnCycle

LEMMA CallerIsLast ==
  ASSUME SearchTyped, StackIsCalls, calls # <<>>
  PROVE  /\ Len(calls) \in 1 .. Len(calls) /\ Len(calls) \in Nat
         /\ Caller \in Vertices /\ Caller \in inStack
         /\ \A i \in 1 .. Len(calls) : i # Len(calls) => calls[i] # Caller
<1>1. Len(calls) \in Nat /\ Len(calls) # 0
  BY EmptySeq, LenProperties DEF SearchTyped
<1>2. Len(calls) \in 1 .. Len(calls)
  BY <1>1
<1>3. Caller \in inStack
  BY <1>2 DEF Caller, StackIsCalls
<1>4. Caller \in Vertices
  BY <1>3 DEF SearchTyped
<1> QED
  BY <1>1, <1>2, <1>3, <1>4 DEF Caller, StackIsCalls

LEMMA Called ==
  ASSUME SearchTyped, NEW v \in Vertices, calls' = Append(calls, v)
  PROVE  /\ calls' \in Seq(Vertices)
         /\ Len(calls) \in Nat /\ Len(calls') = Len(calls) + 1
         /\ \A i \in 1 .. Len(calls) : calls'[i] = calls[i]
         /\ calls'[Len(calls) + 1] = v
<1>1. calls \in Seq(Vertices)
  BY DEF SearchTyped
<1>2. Len(calls) \in Nat
  BY <1>1, LenProperties
<1> QED
  BY <1>1, <1>2, AppendProperties

LEMMA Returned ==
  ASSUME SearchTyped, calls # <<>>, calls' = SubSeq(calls, 1, Len(calls) - 1)
  PROVE  /\ calls' \in Seq(Vertices)
         /\ Len(calls) \in Nat /\ Len(calls) > 0 /\ Len(calls') = Len(calls) - 1
         /\ \A i \in 1 .. Len(calls) - 1 : calls'[i] = calls[i]
<1>1. calls \in Seq(Vertices)
  BY DEF SearchTyped
<1>2. Len(calls) \in Nat /\ Len(calls) > 0
  BY <1>1, EmptySeq, LenProperties
<1> DEFINE n == Len(calls) - 1
<1>3. /\ 1 \in Int /\ n \in Nat /\ (IF 1 <= n THEN n - 1 + 1 ELSE 0) = n
      /\ 1 .. n - 1 + 1 = 1 .. n
      /\ \A i \in 1 .. n : i \in 1 .. Len(calls) /\ 1 + i - 1 = i
  <2>1. \A k \in Nat : /\ k > 0 => k - 1 \in Nat
                       /\ (IF 1 <= k THEN k - 1 + 1 ELSE 0) = k
                       /\ k - 1 + 1 = k
                       /\ \A i \in 1 .. k : 1 + i - 1 = i
    OBVIOUS
  <2>2. \A i \in 1 .. n : i \in 1 .. Len(calls)
    BY <1>2
  <2>3. n \in Nat
    BY <1>2
  <2> HIDE DEF n
  <2> QED
    BY <2>1, <2>2, <2>3
<1>4. \A i \in 1 .. n : calls[i] \in Vertices
  BY <1>1, <1>3, ElementOfSeq
<1> HIDE DEF n
<1>5. /\ calls' = SubSeq(calls, 1, n)
      /\ SubSeq(calls, 1, n) \in Seq(Vertices)
      /\ Len(SubSeq(calls, 1, n)) = n
      /\ \A i \in 1 .. n : SubSeq(calls, 1, n)[i] = calls[i]
  BY <1>1, <1>3, <1>4, SubSeqProperties DEF n
<1> QED
  BY <1>2, <1>5 DEF n

\* Entering a node, from the loop or from a call.
LEMMA SearchEnters ==
  ASSUME SearchInv, NEW v \in Vertices, v \notin visited, Enter(v), UNCHANGED <<adj, cycleNode>>,
         Searching,
         \/ calls = <<>> /\ rest' = [rest EXCEPT ![v] = adj[v]]
         \/ /\ calls # <<>> /\ v \in rest[Caller]
            /\ rest' = [rest EXCEPT ![Caller] = @ \ {v}, ![v] = adj[v]]
  PROVE  SearchInv'
<1> USE DEF SearchInv
<1> DEFINE n == Len(calls)
<1>1. /\ calls' \in Seq(Vertices)
      /\ n \in Nat /\ Len(calls') = n + 1
      /\ \A i \in 1 .. n : calls'[i] = calls[i]
      /\ calls'[n + 1] = v
  BY Called DEF Enter
<1>2. \A i \in 1 .. n : calls[i] \in inStack /\ calls[i] # v /\ calls[i] \in Vertices
  BY DEF StackIsCalls, SearchTyped
<1>3. /\ visited' = visited \union {v} /\ inStack' = inStack \union {v}
      /\ v \notin inStack /\ Finished' = Finished
  BY DEF Enter, SearchTyped, Finished
<1>4. calls # <<>> => n > 0 /\ Caller \in Vertices /\ Caller # v /\ Caller = calls[n]
                      /\ \A i \in 1 .. n : i # n => calls[i] # Caller
  BY <1>1, <1>2, CallerIsLast DEF Caller
<1>5. calls = <<>> => n = 0
  BY EmptySeq DEF SearchTyped
<1>6. SearchTyped'
  <2>1. rest' \in [Vertices -> SUBSET Vertices]
    BY DEF SearchTyped
  <2> QED
    BY <1>1, <1>3, <2>1 DEF SearchTyped
<1> HIDE DEF n
<1>7. StackIsCalls'
  <2>1. 1 .. Len(calls') = (1 .. n) \union {n + 1}
    BY <1>1
  <2>2. inStack' = {calls'[i] : i \in 1 .. Len(calls')}
    BY <1>1, <1>3, <2>1 DEF StackIsCalls, n
  <2>3. \A i, j \in 1 .. Len(calls') : calls'[i] = calls'[j] => i = j
    BY <1>1, <1>2, <2>1 DEF StackIsCalls, n
  <2> QED
    BY <2>2, <2>3 DEF StackIsCalls
<1>8. rest'[v] = adj[v] /\ adj' = adj
  BY <1>4 DEF SearchTyped
<1>9. \A i \in 1 .. n :
        \/ i = n /\ rest'[calls[i]] = rest[calls[i]] \ {v} /\ v \in rest[calls[i]]
        \/ i # n /\ rest'[calls[i]] = rest[calls[i]]
  BY <1>1, <1>2, <1>4, <1>5 DEF SearchTyped
<1>10. LookedAt'
  <2>1. ASSUME NEW i \in 1 .. n
        PROVE  /\ rest'[calls'[i]] \subseteq adj[calls'[i]]
               /\ \A w \in adj[calls'[i]] :
                    \/ w \in rest'[calls'[i]] \/ w \in Finished
                    \/ i < n + 1 /\ w = calls'[i + 1]
    <3>1. /\ rest[calls[i]] \subseteq adj[calls[i]]
          /\ \A w \in adj[calls[i]] :
               \/ w \in rest[calls[i]] \/ w \in Finished
               \/ i < n /\ w = calls[i + 1]
      BY DEF LookedAt, n
    <3>2. CASE i = n
      <4>1. /\ calls'[i] = calls[i] /\ rest'[calls[i]] = rest[calls[i]] \ {v} /\ ~ i < n
        BY <1>1, <1>9, <3>2
      <4>2. i < n + 1 /\ v = calls'[i + 1]
        BY <1>1, <3>2
      <4> QED
        BY <3>1, <4>1, <4>2
    <3>3. CASE i # n
      <4>1. i < n /\ i + 1 \in 1 .. n
        BY <1>1, <3>3
      <4> QED
        BY <1>1, <1>9, <3>1, <3>3, <4>1
    <3> QED
      BY <3>2, <3>3
  <2>2. \A i \in 1 .. Len(calls') : i \in 1 .. n \/ i = n + 1
    BY <1>1
  <2> QED
    BY <1>1, <1>3, <1>8, <2>1, <2>2 DEF LookedAt
<1>11. CallsLead'
  <2>1. ASSUME NEW S \in SUBSET Vertices, HoldsNeighbours(S),
               NEW i \in 1 .. n + 1, NEW j \in 1 .. n + 1, i < j, adj[calls'[i]] \subseteq S
        PROVE  calls'[j] \in S
    <3>1. i \in 1 .. n /\ calls'[i] = calls[i]
      BY <1>1, <2>1
    <3>2. CASE j \in 1 .. n
      BY <1>1, <2>1, <3>1, <3>2 DEF CallsLead, n
    <3>3. CASE j = n + 1
      <4>1. n \in 1 .. n /\ v \in adj[calls[n]]
        BY <1>1, <1>9, <3>1 DEF LookedAt, n
      <4>2. adj[calls[n]] \subseteq S
        BY <1>1, <2>1, <3>1, <4>1 DEF CallsLead, HoldsNeighbours, n
      <4> QED
        BY <1>1, <3>3, <4>1, <4>2
    <3> QED
      BY <1>1, <3>2, <3>3
  <2> QED
    BY <1>1, <1>8, <2>1 DEF CallsLead, HoldsNeighbours
<1>12. FinishedAlone' /\ FoundIsOnCycle'
  BY <1>3, <1>8 DEF FinishedAlone, FoundIsOnCycle, Searching
<1> QED
  BY <1>6, <1>7, <1>10, <1>11, <1>12

LEMMA SearchPasses ==
  ASSUME SearchInv, NEW v \in Vertices, PassOver(v)
  PROVE  SearchInv'
<1> USE DEF SearchInv
<1>1. /\ Searching /\ calls # <<>> /\ v \in Finished
      /\ rest' = [rest EXCEPT ![Caller] = @ \ {v}]
      /\ UNCHANGED <<adj, visited, inStack, calls, cycleNode>>
  BY DEF PassOver, Finished
<1>2. SearchTyped'
  BY <1>1 DEF SearchTyped
<1>3. LookedAt'
  <2>1. \A i \in 1 .. Len(calls) : calls[i] \in Vertices
    BY DEF StackIsCalls, SearchTyped
  <2>2. \A i \in 1 .. Len(calls) :
           rest'[calls[i]] = rest[calls[i]] \/ rest'[calls[i]] = rest[calls[i]] \ {v}
    BY <1>1, <2>1 DEF SearchTyped
  <2>3. Finished' = Finished
    BY <1>1 DEF Finished
  <2> QED
    BY <1>1, <2>2, <2>3 DEF LookedAt
<1> QED
  BY <1>1, <1>2, <1>3
     DEF StackIsCalls, CallsLead, HoldsNeighbours, FinishedAlone, Finished, FoundIsOnCycle, Searching

\* The node found: what its call leads to leads back to it.
LEMMA SearchFinds ==
  ASSUME SearchInv, NEW v \in Vertices, BackEdge(v)
  PROVE  SearchInv'
<1> USE DEF SearchInv
<1>1. /\ calls # <<>> /\ v \in rest[Caller] /\ v \in inStack /\ cycleNode' = v
      /\ UNCHANGED <<adj, visited, inStack, calls, rest>>
  BY DEF BackEdge
<1>2. PICK i \in 1 .. Len(calls) : calls[i] = v
  BY <1>1 DEF StackIsCalls
<1>3. Len(calls) \in 1 .. Len(calls) /\ Len(calls) \in Nat /\ v \in adj[Caller]
  BY <1>1, CallerIsLast DEF LookedAt, Caller
<1>4. ASSUME NEW S \in SUBSET Vertices, adj[v] \subseteq S, HoldsNeighbours(S)
      PROVE  v \in S
  <2>1. CASE i = Len(calls)
    BY <1>2, <1>3, <1>4, <2>1 DEF Caller
  <2>2. CASE i < Len(calls)
    <3>1. Caller \in S
      BY <1>2, <1>3, <1>4, <2>2 DEF CallsLead, Caller
    <3> QED
      BY <1>3, <1>4, <3>1 DEF HoldsNeighbours
  <2> QED
    BY <1>3, <2>1, <2>2
<1>5. LeadsBack(v)
  BY <1>4 DEF LeadsBack, HoldsNeighbours
<1>6. FoundIsOnCycle'
  BY <1>1, <1>5 DEF FoundIsOnCycle, LeadsBack
<1>7. SearchTyped'
  BY <1>1 DEF SearchTyped
<1>8. StackIsCalls' /\ CallsLead' /\ LookedAt' /\ FinishedAlone'
  BY <1>1 DEF StackIsCalls, CallsLead, HoldsNeighbours, LookedAt, FinishedAlone, Finished
<1> QED
  BY <1>6, <1>7, <1>8

\* A call that returns adds a node to the finished ones that sees only those: no cycle.
LEMMA SearchReturns ==
  ASSUME SearchInv, ReturnFalse
  PROVE  SearchInv'
<1> USE DEF SearchInv
<1> DEFINE n == Len(calls)
           c == Caller
<1>1. /\ Searching /\ calls # <<>> /\ rest[c] = {}
      /\ inStack' = inStack \ {c}
      /\ calls' = SubSeq(calls, 1, n - 1)
      /\ UNCHANGED <<adj, visited, rest, cycleNode>>
  BY DEF ReturnFalse
<1>2. /\ calls' \in Seq(Vertices)
      /\ n \in Nat /\ n > 0 /\ Len(calls') = n - 1
      /\ \A i \in 1 .. n - 1 : calls'[i] = calls[i]
  BY <1>1, Returned
<1>3. /\ n \in 1 .. n /\ c \in Vertices /\ c \in inStack /\ c = calls[n]
      /\ \A i \in 1 .. n : i # n => calls[i] # c
  BY <1>1, CallerIsLast DEF Caller
<1>4. Finished' = Finished \union {c} /\ c \notin Finished
  BY <1>1, <1>3 DEF Finished, SearchTyped
<1>5. adj[c] \subseteq Finished
  BY <1>1, <1>2, <1>3 DEF LookedAt
<1> HIDE DEF n, c
<1>6. SearchTyped'
  BY <1>1, <1>2 DEF SearchTyped
<1>7. StackIsCalls'
  <2>1. 1 .. n = (1 .. n - 1) \union {n} /\ n \notin 1 .. n - 1
    BY <1>2
  <2>2. inStack' = {calls'[i] : i \in 1 .. n - 1}
    BY <1>1, <1>2, <1>3, <2>1 DEF StackIsCalls, n
  <2>3. \A i, j \in 1 .. n - 1 : calls'[i] = calls'[j] => i = j
    BY <1>2, <2>1 DEF StackIsCalls, n
  <2> QED
    BY <1>2, <2>2, <2>3 DEF StackIsCalls
<1>8. CallsLead'
  <2>1. \A i \in 1 .. n - 1 : i \in 1 .. n
    BY <1>2
  <2> QED
    BY <1>1, <1>2, <2>1 DEF CallsLead, HoldsNeighbours, n
<1>9. LookedAt'
  <2> SUFFICES ASSUME NEW i \in 1 .. n - 1
               PROVE  /\ rest[calls'[i]] \subseteq adj[calls'[i]]
                      /\ \A w \in adj[calls'[i]] :
                           \/ w \in rest[calls'[i]] \/ w \in Finished'
                           \/ i < n - 1 /\ w = calls'[i + 1]
    BY <1>1, <1>2 DEF LookedAt
  <2>1. i \in 1 .. n /\ i < n /\ calls'[i] = calls[i]
    BY <1>2
  <2>2. /\ rest[calls[i]] \subseteq adj[calls[i]]
        /\ \A w \in adj[calls[i]] : w \in rest[calls[i]] \/ w \in Finished \/ w = calls[i + 1]
    BY <2>1 DEF LookedAt, n
  <2>3. CASE i + 1 = n
    BY <1>3, <1>4, <2>1, <2>2, <2>3
  <2>4. CASE i + 1 # n
    <3>1. i + 1 \in 1 .. n - 1 /\ i < n - 1
      BY <1>2, <2>1, <2>4
    <3> QED
      BY <1>2, <1>4, <2>1, <2>2, <3>1
  <2> QED
    BY <2>3, <2>4
<1>10. FinishedAlone'
  <2>1. \A v \in Finished' : adj[v] \subseteq Finished'
    BY <1>4, <1>5 DEF FinishedAlone
  <2>2. ASSUME NEW S \in (SUBSET Finished') \ {{}}
        PROVE  \E v \in S : adj[v] \intersect S = {}
    <3>1. CASE S = {c}
      BY <1>4, <1>5, <3>1
    <3>2. CASE S # {c}
      <4>1. S \ {c} \in (SUBSET Finished) \ {{}}
        BY <1>4, <3>2
      <4>2. PICK v \in S \ {c} : adj[v] \intersect (S \ {c}) = {}
        BY <4>1 DEF FinishedAlone
      <4>3. adj[v] \subseteq Finished
        BY <4>1, <4>2 DEF FinishedAlone
      <4> QED
        BY <1>4, <4>2, <4>3
    <3> QED
      BY <3>1, <3>2
  <2> QED
    BY <1>1, <2>1, <2>2 DEF FinishedAlone
<1>11. FoundIsOnCycle'
  BY <1>1 DEF FoundIsOnCycle, Searching
<1> QED
  BY <1>6, <1>7, <1>8, <1>9, <1>10, <1>11

LEMMA SearchStarts == SearchInit => SearchInv
<1> SUFFICES ASSUME SearchInit PROVE SearchInv
  OBVIOUS
<1>1. calls = <<>> /\ Len(calls) = 0 /\ calls \in Seq(Vertices) /\ 1 .. Len(calls) = {}
  BY EmptySeq DEF SearchInit
<1>2. Finished = {}
  BY DEF SearchInit, Finished
<1> QED
  BY <1>1, <1>2 DEF SearchInit, SearchInv, SearchTyped, StackIsCalls, CallsLead, LookedAt,
     FinishedAlone, FoundIsOnCycle, Searching

LEMMA SearchSteps == SearchInv /\ [SearchNext]_searchVars => SearchInv'
<1> SUFFICES ASSUME SearchInv, [SearchNext]_searchVars PROVE SearchInv'
  OBVIOUS
<1>1. ASSUME NEW v \in Vertices, SearchFrom(v) \/ Descend(v)
      PROVE  SearchInv'
  BY <1>1, SearchEnters DEF SearchFrom, Descend
<1>2. CASE UNCHANGED searchVars
  BY <1>2 DEF searchVars, SearchInv, SearchTyped, StackIsCalls, CallsLead, HoldsNeighbours, LookedAt,
     FinishedAlone, Finished, FoundIsOnCycle, Searching, LeadsBack
<1> QED
  BY <1>1, <1>2, SearchFinds, SearchPasses, SearchReturns DEF SearchNext

LEMMA SearchInvariant == SearchSpec => []SearchInv
BY SearchStarts, SearchSteps, PTL DEF SearchSpec

\* In any graph, whatever the order of nodes and edges, the node found is on a cycle,
\* and a search that finds nothing has missed no cycle.
THEOREM SearchFindsCyclesHolds == SearchSpec => []SearchFindsCycles
<1>1. SearchInv => FoundIsOnCycle
  BY DEF SearchInv
<1>2. SearchInv => NoCycleMissed
  <2> SUFFICES ASSUME SearchInv, NothingFound, NEW S \in (SUBSET Vertices) \ {{}},
                      \A v \in S : adj[v] \intersect S # {}
               PROVE  FALSE
    BY DEF NoCycleMissed
  <2>1. inStack = {}
    BY EmptySeq DEF SearchInv, StackIsCalls, NothingFound
  <2>2. S \in (SUBSET Finished) \ {{}}
    BY <2>1 DEF NothingFound, Finished
  <2> QED
    BY <2>2 DEF SearchInv, FinishedAlone
<1>3. SearchInv => SearchFindsCycles
  BY <1>1, <1>2 DEF SearchFindsCycles
<1> QED
  BY <1>3, SearchInvariant, PTL
================================================================================
