-------------------------------- MODULE EventLog -------------------------------
(***************************************************************************)
(* eventbus.log (forge-core/src/eventbus.rs) and its readers, `forge log`. *)
(* append() is one writeln! on an unbuffered file: the text of the line    *)
(* and its end are two writes, each of which lands at the end of the file. *)
(* A reader takes every line that parses and skips the others; the last    *)
(* line need not be ended.                                                 *)
(*                                                                         *)
(* An entry is its number; a line is the entries whose text stands in it.  *)
(***************************************************************************)
EXTENDS Integers, Sequences, FiniteSets

CONSTANTS
  Orchestrators,   \* processes of `forge run`: nothing keeps a second one out
  MaxEntries,      \* bound: events
  MaxKills         \* bound: orchestrators killed

ASSUME EventLogAssumption ==
  IsFiniteSet(Orchestrators) /\ MaxEntries \in Nat /\ MaxKills \in Nat

VARIABLES
  lines,      \* the file; the last line is the one not ended
  inAppend,   \* of each orchestrator: the entry whose line it has not ended, 0 if none
  entries,    \* events so far
  kills,
  \* history
  appended,   \* entries whose append has returned Ok
  shown       \* entries a reader has returned

logVars == <<lines, inAppend, entries, kills, appended, shown>>

LogInit ==
  /\ lines = << <<>> >>
  /\ inAppend = [o \in Orchestrators |-> 0]
  /\ entries = 0 /\ kills = 0
  /\ appended = {} /\ shown = {}

\* Seeded fault: a new file for every append instead of O_APPEND.
WriteLineOver(o) ==
  /\ inAppend[o] = 0 /\ entries < MaxEntries
  /\ entries' = entries + 1
  /\ lines' = << <<entries'>> >>
  /\ inAppend' = [inAppend EXCEPT ![o] = entries']
  /\ UNCHANGED <<kills, appended, shown>>

WriteLine(o) ==
  /\ inAppend[o] = 0 /\ entries < MaxEntries
  /\ entries' = entries + 1
  /\ lines' = [lines EXCEPT ![Len(lines)] = Append(@, entries')]
  /\ inAppend' = [inAppend EXCEPT ![o] = entries']
  /\ UNCHANGED <<kills, appended, shown>>

\* Seeded fault: write! for writeln!.
EndLineNot(o) ==
  /\ inAppend[o] # 0
  /\ appended' = appended \union {inAppend[o]}
  /\ inAppend' = [inAppend EXCEPT ![o] = 0]
  /\ UNCHANGED <<lines, entries, kills, shown>>

EndLine(o) ==
  /\ inAppend[o] # 0
  /\ lines' = Append(lines, <<>>)
  /\ appended' = appended \union {inAppend[o]}
  /\ inAppend' = [inAppend EXCEPT ![o] = 0]
  /\ UNCHANGED <<entries, kills, shown>>

\* Killed in the middle of an append, or the disk is full for the second write.
LineCut(o) ==
  /\ inAppend[o] # 0 /\ kills < MaxKills
  /\ kills' = kills + 1
  /\ inAppend' = [inAppend EXCEPT ![o] = 0]
  /\ UNCHANGED <<lines, entries, appended, shown>>

\* read_all: the text of two entries in one line does not parse.
ReadAll == {lines[i][1] : i \in {j \in DOMAIN lines : Len(lines[j]) = 1}}

Show ==
  /\ shown' = shown \union ReadAll
  /\ UNCHANGED <<lines, inAppend, entries, kills, appended>>

LogNext ==
  \/ \E o \in Orchestrators : WriteLine(o) \/ EndLine(o) \/ LineCut(o)
  \/ Show

LogSpec == LogInit /\ [][LogNext]_logVars

-------------------------------------------------------------------------------
\* A kill costs at most one event besides the one it cuts: the next append goes to
\* the line that was not ended, and both are skipped from then on.  With one
\* orchestrator nothing else is lost.
LossPerKill ==
  Cardinality(Orchestrators) = 1 => Cardinality(appended \ ReadAll) <= kills

\* With one orchestrator, an event that a reader has shown and whose append has
\* succeeded is shown by every later reader.
ShownIsKept == Cardinality(Orchestrators) = 1 => shown \intersect appended \subseteq ReadAll
===============================================================================
