------------------------------ MODULE Deliverables -----------------------------
(***************************************************************************)
(* One directory deliverables/vX.Y.Z of a node (forge-core/src/            *)
(* deliverables.rs): the node lists and hashes its files and saves the     *)
(* list as artifacts.toml; another party loads that file and checks the    *)
(* files against it.  Both go file by file while an agent may go on        *)
(* changing the files.                                                     *)
(*                                                                         *)
(* What a file holds is the number of the write that put it there, 0 when  *)
(* there is no file: two hashes are equal when the numbers are.  Sizes,    *)
(* versions and the text of the changelog are left out.                    *)
(***************************************************************************)
EXTENDS Integers

CONSTANTS
  Artifacts,   \* the files an agent puts there
  MaxWrites,   \* bound: writes of one behaviour
  MaxStops     \* bound: builds killed on the way

ASSUME DeliverablesAssumption ==
  /\ Artifacts \intersect {"artifacts.toml", "artifacts.tmp", "CHANGELOG.md"} = {}
  /\ MaxWrites \in Nat /\ MaxStops \in Nat

VARIABLES
  disk,      \* what each name of the directory holds
  writes,    \* writes so far
  building,  \* the build: "none", "hashing", "saving"
  unhashed,  \* names listed and not hashed yet
  listing,   \* the manifest being built: the hash of each name
  manifest,  \* the manifest artifacts.toml holds
  checking,  \* verify_integrity: "none", "reading" or its answer
  unchecked, \* entries it has not looked at
  against,   \* the manifest it checks against
  stops,
  \* history: names the agent has changed
  whileBuilt,  \* since the build in progress began
  sinceBuilt,  \* since the build that artifacts.toml is from began
  sinceLoaded  \* since the check loaded it

buildVars    == <<building, unhashed, listing>>
checkVars    == <<checking, unchecked, against>>
changed      == <<whileBuilt, sinceBuilt, sinceLoaded>>
deliveryVars == <<disk, writes, buildVars, manifest, checkVars, stops, changed>>

Names == Artifacts \union {"artifacts.toml", "artifacts.tmp", "CHANGELOG.md"}
NoEntries == [n \in {} |-> 0]

DeliveryInit ==
  /\ disk = [n \in Names |-> 0] /\ writes = 0
  /\ building = "none" /\ unhashed = {} /\ listing = NoEntries
  /\ manifest = NoEntries
  /\ checking = "none" /\ unchecked = {} /\ against = NoEntries
  /\ stops = 0
  /\ whileBuilt = {} /\ sinceBuilt = {} /\ sinceLoaded = {}

Written(n) ==
  /\ writes < MaxWrites /\ writes' = writes + 1
  /\ disk' = [disk EXCEPT ![n] = writes']

-------------------------------------------------------------------------------
\* The agent writes or removes a file.
AgentChanges(n) ==
  /\ \/ Written(n)
     \/ disk[n] # 0 /\ disk' = [disk EXCEPT ![n] = 0] /\ UNCHANGED writes
  /\ whileBuilt' = whileBuilt \union {n}
  /\ sinceBuilt' = sinceBuilt \union {n}
  /\ sinceLoaded' = sinceLoaded \union {n}
  /\ UNCHANGED <<buildVars, manifest, checkVars, stops>>

WriteChangelog ==
  /\ Written("CHANGELOG.md")
  /\ UNCHANGED <<buildVars, manifest, checkVars, stops, changed>>

\* Seeded fault: every file of the directory is listed.
ListFilesAll ==
  /\ building = "none"
  /\ building' = "hashing" /\ unhashed' = {n \in Names : disk[n] # 0}
  /\ listing' = NoEntries /\ whileBuilt' = {}
  /\ UNCHANGED <<disk, writes, manifest, checkVars, stops, sinceBuilt, sinceLoaded>>

\* from_dir: walk_dir lists all names before the first file is read.
ListFiles ==
  /\ building = "none"
  /\ building' = "hashing"
  /\ unhashed' = {n \in Names \ {"artifacts.toml", "CHANGELOG.md"} : disk[n] # 0}
  /\ listing' = NoEntries /\ whileBuilt' = {}
  /\ UNCHANGED <<disk, writes, manifest, checkVars, stops, sinceBuilt, sinceLoaded>>

\* A listed file that is gone is an error, and nothing is saved.
HashFile ==
  /\ building = "hashing"
  /\ \E n \in unhashed :
       IF disk[n] = 0
       THEN building' = "none" /\ unhashed' = {} /\ listing' = NoEntries
       ELSE /\ unhashed' = unhashed \ {n}
            /\ listing' = [m \in DOMAIN listing \union {n} |->
                             IF m = n THEN disk[n] ELSE listing[m]]
            /\ UNCHANGED building
  /\ UNCHANGED <<disk, writes, manifest, checkVars, stops, changed>>

\* save(): atomic_write, with its temporary file in the same directory.
SaveManifestTmp ==
  /\ building = "hashing" /\ unhashed = {}
  /\ Written("artifacts.tmp")
  /\ building' = "saving"
  /\ UNCHANGED <<unhashed, listing, manifest, checkVars, stops, changed>>

SaveManifest ==
  /\ building = "saving"
  /\ disk' = [disk EXCEPT !["artifacts.toml"] = disk["artifacts.tmp"], !["artifacts.tmp"] = 0]
  /\ manifest' = listing /\ sinceBuilt' = whileBuilt
  /\ building' = "none" /\ listing' = NoEntries
  /\ UNCHANGED <<writes, unhashed, checkVars, stops, whileBuilt, sinceLoaded>>

\* The process that builds is killed: a temporary file it has written stays.
BuildStops ==
  /\ building # "none" /\ stops < MaxStops
  /\ stops' = stops + 1
  /\ building' = "none" /\ unhashed' = {} /\ listing' = NoEntries
  /\ UNCHANGED <<disk, writes, manifest, checkVars, changed>>

-------------------------------------------------------------------------------
\* load, and verify_integrity.

LoadManifest ==
  /\ checking # "reading" /\ disk["artifacts.toml"] # 0
  /\ checking' = "reading" /\ unchecked' = DOMAIN manifest /\ against' = manifest
  /\ sinceLoaded' = {}
  /\ UNCHANGED <<disk, writes, buildVars, manifest, stops, whileBuilt, sinceBuilt>>

Answer(a) == checking' = a /\ unchecked' = {}

\* Seeded fault: a file that is gone is passed over.
CheckFileLenient ==
  /\ checking = "reading"
  /\ \E n \in unchecked :
       IF disk[n] \notin {0, against[n]} THEN Answer("altered")
       ELSE unchecked' = unchecked \ {n} /\ UNCHANGED checking
  /\ UNCHANGED <<disk, writes, buildVars, manifest, against, stops, changed>>

\* A file that goes between exists() and read() is an error, not an answer.
CheckFile ==
  /\ checking = "reading"
  /\ \E n \in unchecked :
       \/ disk[n] = 0 /\ (Answer("altered") \/ Answer("error"))
       \/ disk[n] \notin {0, against[n]} /\ Answer("altered")
       \/ disk[n] = against[n] /\ unchecked' = unchecked \ {n} /\ UNCHANGED checking
  /\ UNCHANGED <<disk, writes, buildVars, manifest, against, stops, changed>>

AllChecked ==
  /\ checking = "reading" /\ unchecked = {}
  /\ Answer("intact")
  /\ UNCHANGED <<disk, writes, buildVars, manifest, against, stops, changed>>

-------------------------------------------------------------------------------
DeliveryNext ==
  \/ \E n \in Artifacts : AgentChanges(n)
  \/ WriteChangelog
  \/ ListFiles \/ HashFile \/ SaveManifestTmp \/ SaveManifest \/ BuildStops
  \/ LoadManifest \/ CheckFile \/ AllChecked

DeliverySpec == DeliveryInit /\ [][DeliveryNext]_deliveryVars

-------------------------------------------------------------------------------
\* A manifest is out of date only by what the agent did: building, saving and the
\* changelog do not touch what they list.  The exception is the temporary file that
\* a killed build left behind, which the next build lists and then renames away.
OnlyAgentOutdates ==
  \A n \in DOMAIN manifest : disk[n] = manifest[n] \/ n \in sinceBuilt \union {"artifacts.tmp"}

\* verify_integrity ("all files in the manifest still exist and have matching
\* hashes") answers true only when every listed file that was not changed under its
\* eyes matches, and false only when one that does not match was changed by the agent
\* after it was listed, or is a temporary file.
IntegrityTells ==
  /\ checking = "intact" =>
       \A n \in DOMAIN against : disk[n] = against[n] \/ n \in sinceLoaded
  /\ checking \in {"altered", "error"} =>
       \E n \in DOMAIN against : disk[n] # against[n]
===============================================================================
