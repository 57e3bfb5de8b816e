------------------------------- MODULE ProjectInit -----------------------------
(***************************************************************************)
(* `forge init` (forge-cli/src/main.rs): the wizard that asks for a key, a *)
(* description, a target and feedback channels, writes forge.toml, the     *)
(* root module's node.toml and .gitignore, and has a language model design *)
(* the modules.  It is run again on a project that exists (its own closing *)
(* words ask for that), it may be killed, and the user edits forge.toml    *)
(* while it waits for an answer.                                           *)
(*                                                                         *)
(* Of forge.toml the model keeps the key and whether the text parses as a  *)
(* ForgeConfig; of .gitignore, whether the user's lines are there and how  *)
(* often the lines of the wizard are; of a node.toml, which of its         *)
(* versions it is.  Wording, target and toolchain are left out.            *)
(***************************************************************************)
EXTENDS Integers

CONSTANTS
  Modules,     \* modules a design may name
  RootModule,  \* modules/firmware, the skeleton
  LlmKeys,     \* keys a user may have
  NoKey,       \* no key
  MaxInits,    \* bound: runs of the wizard
  MaxEdits     \* bound: edits of forge.toml by the user

ASSUME ProjectAssumption ==
  /\ RootModule \in Modules /\ NoKey \notin LlmKeys
  /\ MaxInits \in Nat /\ MaxEdits \in Nat

VARIABLES
  conf,       \* forge.toml: [there, parses, key]
  defs,       \* each module's node.toml: "absent", "skeleton", "designed", "cut"
  ignore,     \* .gitignore: [user, ours]
  asking,     \* where the wizard is, "off" when none runs
  wizardKey,  \* the key it goes by
  ended,      \* is its standard input at its end?
  plain,      \* has every answer so far been one that forge.toml can hold?
  readIgnore, \* the .gitignore it has read
  sections,   \* sections of the design not written yet
  inits, edits,
  \* history
  hadIgnore,  \* did the user's .gitignore have lines?
  edited,     \* has the user edited forge.toml since the wizard looked for a key?
  stopped     \* has a wizard been killed?

wizard  == <<asking, wizardKey, ended, plain, readIgnore, sections>>
project == <<conf, defs, ignore>>
projectVars == <<project, wizard, inits, edits, hadIgnore, edited, stopped>>

NoConf == [there |-> FALSE, parses |-> FALSE, key |-> NoKey]

ProjectInit0 ==
  /\ conf = NoConf /\ defs = [m \in Modules |-> "absent"]
  /\ hadIgnore \in BOOLEAN /\ ignore = [user |-> hadIgnore, ours |-> 0]
  /\ asking = "off" /\ wizardKey = NoKey /\ ended = FALSE /\ plain = TRUE
  /\ readIgnore = [user |-> FALSE, ours |-> 0] /\ sections = {}
  /\ inits = 0 /\ edits = 0
  /\ edited = FALSE /\ stopped = FALSE

-------------------------------------------------------------------------------
\* Seeded fault: the environment's key comes first.
ResolveKeyEnvFirst(env) ==
  IF env # NoKey THEN env ELSE IF conf.parses THEN conf.key ELSE NoKey

\* resolve_deepseek_key, env being DEEPSEEK_API_KEY: a forge.toml that does not parse
\* has no key.
ResolveKey(env) == IF conf.parses /\ conf.key # NoKey THEN conf.key ELSE env

\* Only where none is found is one asked for; blank, or no input, is none.
FindKey ==
  /\ asking = "off" /\ inits < MaxInits
  /\ inits' = inits + 1
  /\ \E env \in LlmKeys \union {NoKey} :
       wizardKey' \in IF ResolveKey(env) # NoKey THEN {ResolveKey(env)}
                     ELSE IF ended THEN {NoKey} ELSE LlmKeys \union {NoKey}
  /\ asking' = "description" /\ plain' = TRUE /\ edited' = FALSE
  /\ UNCHANGED <<project, ended, readIgnore, sections, edits, hadIgnore, stopped>>

\* collect_product_description waits for a line: at the end of the input it reads
\* empty ones for ever.  A description may hold the quotes that end it.
Describe ==
  /\ asking = "description" /\ ~ended
  /\ plain' \in BOOLEAN
  /\ asking' = "channels"
  /\ UNCHANGED <<project, wizardKey, ended, readIgnore, sections, inits, edits,
                 hadIgnore, edited, stopped>>

\* run_clarifying_questions, select_option and select_feedback_channels.  No answer
\* is UART, one that names no channel is none; the name of a channel is written as
\* its type, in capitals, which ChannelType does not know.
SelectChannels ==
  /\ asking = "channels"
  /\ plain' \in IF ended THEN {FALSE} ELSE {FALSE, plain}
  /\ asking' = "conf"
  /\ UNCHANGED <<project, wizardKey, ended, readIgnore, sections, inits, edits,
                 hadIgnore, edited, stopped>>

\* build_forge_toml; the file is replaced whole.
WriteConf ==
  /\ asking = "conf"
  /\ conf' = [there |-> TRUE, parses |-> plain, key |-> wizardKey]
  /\ asking' = "skeleton"
  /\ UNCHANGED <<defs, ignore, wizardKey, ended, plain, readIgnore, sections, inits,
                 edits, hadIgnore, edited, stopped>>

WriteSkeleton ==
  /\ asking = "skeleton"
  /\ defs' = [defs EXCEPT ![RootModule] = "skeleton"]
  /\ asking' = "ignore"
  /\ UNCHANGED <<conf, ignore, wizardKey, ended, plain, readIgnore, sections, inits,
                 edits, hadIgnore, edited, stopped>>

\* Seeded fault: the lines are added whether they are there or not.
CutIgnoreAlways ==
  /\ asking = "ignore"
  /\ readIgnore' = ignore
  /\ ignore' = [user |-> FALSE, ours |-> 0] /\ asking' = "ignoreCut"
  /\ UNCHANGED <<conf, defs, wizardKey, ended, plain, sections, inits, edits,
                 hadIgnore, edited, stopped>>

\* Read, and if the lines are missing truncated to be written anew.
CutIgnore ==
  /\ asking = "ignore"
  /\ readIgnore' = ignore
  /\ IF ignore.ours > 0 THEN asking' = "design" /\ UNCHANGED ignore
     ELSE ignore' = [user |-> FALSE, ours |-> 0] /\ asking' = "ignoreCut"
  /\ UNCHANGED <<conf, defs, wizardKey, ended, plain, sections, inits, edits,
                 hadIgnore, edited, stopped>>

WriteIgnore ==
  /\ asking = "ignoreCut"
  /\ ignore' = [readIgnore EXCEPT !.ours = @ + 1]
  /\ asking' = "design"
  /\ UNCHANGED <<conf, defs, wizardKey, ended, plain, readIgnore, sections, inits,
                 edits, hadIgnore, edited, stopped>>

\* call_deepseek_flesh_out, with a key only; a call that fails ends the wizard well.
AskDesign ==
  /\ asking = "design"
  /\ \E design \in IF wizardKey = NoKey THEN {{}} ELSE SUBSET Modules :
       /\ sections' = design
       /\ asking' = IF design = {} THEN "off" ELSE "apply"
  /\ UNCHANGED <<project, wizardKey, ended, plain, readIgnore, inits, edits,
                 hadIgnore, edited, stopped>>

\* apply_flesh_out_response: one plain fs::write for each section, truncated first.
CutSection ==
  /\ asking = "apply"
  /\ \E m \in sections :
       /\ \A n \in Modules : defs[n] = "cut" => n \notin sections
       /\ defs' = [defs EXCEPT ![m] = "cut"]
  /\ UNCHANGED <<conf, ignore, wizard, inits, edits, hadIgnore, edited, stopped>>

WriteSection ==
  /\ asking = "apply"
  /\ \E m \in sections :
       /\ defs[m] = "cut"
       /\ defs' = [defs EXCEPT ![m] = "designed"]
       /\ sections' = sections \ {m}
       /\ asking' = IF sections = {m} THEN "off" ELSE "apply"
  /\ UNCHANGED <<conf, ignore, wizardKey, ended, plain, readIgnore, inits, edits,
                 hadIgnore, edited, stopped>>

\* Killed (Ctrl-C at a question), wherever it is.
WizardStops ==
  /\ asking # "off"
  /\ asking' = "off" /\ sections' = {} /\ stopped' = TRUE
  /\ UNCHANGED <<project, wizardKey, ended, plain, readIgnore, inits, edits,
                 hadIgnore, edited>>

-------------------------------------------------------------------------------
\* The user puts a key into forge.toml, or takes it out, and mends or breaks it.
UserEdits ==
  /\ conf.there /\ edits < MaxEdits
  /\ edits' = edits + 1 /\ edited' = TRUE
  /\ \E k \in LlmKeys \union {NoKey}, ok \in BOOLEAN :
       conf' = [there |-> TRUE, parses |-> ok, key |-> k]
  /\ UNCHANGED <<defs, ignore, wizard, inits, hadIgnore, stopped>>

InputEnds ==
  /\ ~ended /\ ended' = TRUE
  /\ UNCHANGED <<project, asking, wizardKey, plain, readIgnore, sections, inits,
                 edits, hadIgnore, edited, stopped>>

ProjectNext ==
  \/ FindKey \/ Describe \/ SelectChannels
  \/ WriteConf \/ WriteSkeleton \/ CutIgnore \/ WriteIgnore
  \/ AskDesign \/ CutSection \/ WriteSection
  \/ WizardStops \/ UserEdits \/ InputEnds

ProjectSpec == ProjectInit0 /\ [][ProjectNext]_projectVars

-------------------------------------------------------------------------------
\* The key of a forge.toml that parses outlives `forge init`, whatever is answered,
\* whatever the environment holds and wherever the wizard is killed; but for an edit
\* that the user makes after the wizard has looked for a key.
KeyIsKept ==
  [][conf.parses /\ conf.key # NoKey /\ ~edited' => conf'.key = conf.key]_projectVars

\* The wizard's lines come into .gitignore once, however often it runs, and the
\* user's lines stay, unless a wizard was killed between truncating and writing.
IgnoreKept ==
  /\ ignore.ours <= 1
  /\ ~stopped /\ asking # "ignoreCut" => ignore.user = hadIgnore
================================================================================
