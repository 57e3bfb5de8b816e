------------------------------ MODULE CycleSearch ------------------------------
(***************************************************************************)
(* detect_cycles and dfs_cycle of forge-core/src/deps.rs, call by call:    *)
(* the depth-first search behind Passes 3 and 5, over any graph of who     *)
(* needs whom.  The order of nodes is that of a HashMap, the order of a    *)
(* node's neighbours that of the edges: both are a choice.  Parallel edges *)
(* are one: to look at a neighbour twice changes nothing.                  *)
(***************************************************************************)
EXTENDS Integers, Sequences, FiniteSets

CONSTANTS
  Vertices,  \* nodes of the snapshot
  NoVertex   \* none of them

ASSUME SearchAssumption == NoVertex \notin Vertices

VARIABLES
  adj,       \* the adjacency list; a node without an entry has no neighbours
  visited,   \* nodes that were entered
  inStack,   \* nodes whose calls of dfs_cycle have not returned ...
  calls,     \* ... and these calls, the outermost first
  rest,      \* the neighbours such a call has not looked at
  cycleNode  \* what cycle_nodes holds

searchVars == <<adj, visited, inStack, calls, rest, cycleNode>>

SearchInit ==
  /\ adj \in [Vertices -> SUBSET Vertices]
  /\ visited = {} /\ inStack = {} /\ calls = <<>>
  /\ rest = [v \in Vertices |-> {}]
  /\ cycleNode = NoVertex

Searching == cycleNode = NoVertex
Caller == calls[Len(calls)]

\* The beginning of dfs_cycle.
Enter(v) ==
  /\ visited' = visited \union {v}
  /\ inStack' = inStack \union {v}
  /\ calls' = Append(calls, v)

\* The loop of detect_cycles.
SearchFrom(v) ==
  /\ Searching /\ calls = <<>>
  /\ adj[v] # {} /\ v \notin visited
  /\ Enter(v)
  /\ rest' = [rest EXCEPT ![v] = adj[v]]
  /\ UNCHANGED <<adj, cycleNode>>

\* A neighbour on the stack: all calls return true.
BackEdge(v) ==
  /\ Searching /\ calls # <<>>
  /\ v \in rest[Caller] /\ v \in inStack
  /\ cycleNode' = v
  /\ UNCHANGED <<adj, visited, inStack, calls, rest>>

\* A neighbour not visited: the search goes on from there.
Descend(v) ==
  /\ Searching /\ calls # <<>>
  /\ v \in rest[Caller] /\ v \notin inStack /\ v \notin visited
  /\ Enter(v)
  /\ rest' = [rest EXCEPT ![Caller] = @ \ {v}, ![v] = adj[v]]
  /\ UNCHANGED <<adj, cycleNode>>

\* Seeded fault: visited is asked before the stack.
PassOverFirst(v) ==
  /\ Searching /\ calls # <<>>
  /\ v \in rest[Caller] /\ v \in visited
  /\ rest' = [rest EXCEPT ![Caller] = @ \ {v}]
  /\ UNCHANGED <<adj, visited, inStack, calls, cycleNode>>

\* A neighbour visited before, whose call has returned.
PassOver(v) ==
  /\ Searching /\ calls # <<>>
  /\ v \in rest[Caller] /\ v \notin inStack /\ v \in visited
  /\ rest' = [rest EXCEPT ![Caller] = @ \ {v}]
  /\ UNCHANGED <<adj, visited, inStack, calls, cycleNode>>

\* The end of dfs_cycle.
ReturnFalse ==
  /\ Searching /\ calls # <<>>
  /\ rest[Caller] = {}
  /\ inStack' = inStack \ {Caller}
  /\ calls' = SubSeq(calls, 1, Len(calls) - 1)
  /\ UNCHANGED <<adj, visited, rest, cycleNode>>

SearchNext ==
  \/ \E v \in Vertices : SearchFrom(v) \/ BackEdge(v) \/ Descend(v) \/ PassOver(v)
  \/ ReturnFalse

SearchSpec == SearchInit /\ [][SearchNext]_searchVars

-------------------------------------------------------------------------------
\* detect_cycles answers with an empty list.
NothingFound ==
  /\ Searching /\ calls = <<>>
  /\ \A v \in Vertices : adj[v] # {} => v \in visited

\* A walk of at least one edge leads from v back to v: v is in every set that holds the
\* neighbours of v and of its own members.  (OnCycle of DepResolution.)
LeadsBack(v) ==
  \A S \in SUBSET Vertices :
    (adj[v] \subseteq S /\ \A m \in S : adj[m] \subseteq S) => v \in S

\* The node the search answers with is on a cycle, not merely before one, in whatever
\* order nodes and edges come: Passes 3 and 5 mark it dead.
FoundIsOnCycle == ~Searching => LeadsBack(cycleNode)

\* A search that finds nothing has seen every cycle: there are no nodes each of which
\* needs another one of them, of any number.
NoCycleMissed ==
  NothingFound =>
    \A S \in (SUBSET Vertices) \ {{}} : \E v \in S : adj[v] \intersect S = {}

\* detect_cycles finds a cycle exactly where there is one.
SearchFindsCycles == FoundIsOnCycle /\ NoCycleMissed
================================================================================
