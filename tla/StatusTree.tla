------------------------------- MODULE StatusTree ------------------------------
(***************************************************************************)
(* `forge status` (forge-cli/src/main.rs): the node.toml files found under *)
(* the project's root are put under their parents by name, and the tree is *)
(* printed from its roots.  Nothing keeps two files from having one name,  *)
(* nor a chain of parents from closing.  The order of lines, and what they *)
(* say of a node, are left out.                                            *)
(***************************************************************************)
EXTENDS Integers, Sequences, FiniteSets

CONSTANTS
  NodeNames,   \* names in node.toml files
  NoParent,    \* the empty name
  MaxFound,    \* bound: node.toml files
  MaxLines     \* bound: lines printed for one name

ASSUME StatusAssumption ==
  /\ NoParent \notin NodeNames
  /\ MaxFound \in Nat /\ MaxLines \in Nat

VARIABLES
  found,   \* the node.toml files that load: name and parent of each
  todo,    \* calls of print_tree not made yet, counted by name
  printed  \* lines printed, by name

statusVars == <<found, todo, printed>>

NodeFiles == [name : NodeNames, parent : NodeNames \union {NoParent}]
FoundNames == {found[i].name : i \in DOMAIN found}

\* children_map: how often each name is listed under p.
ChildrenOf(p) ==
  [n \in NodeNames |-> Cardinality({i \in DOMAIN found : found[i] = [name |-> n, parent |-> p]})]

\* Seeded fault: only a node without a parent is a root.
RootParentsEmpty == {NoParent}

\* A parent that is not among the nodes found makes its children roots.
RootParents == {p \in NodeNames \union {NoParent} : p \notin FoundNames}

\* collect_node_defs, then the roots.
StatusInit ==
  /\ found \in UNION {[1 .. k -> NodeFiles] : k \in 0 .. MaxFound}
  /\ todo = [n \in NodeNames |-> Cardinality(
               {i \in DOMAIN found : found[i].name = n /\ found[i].parent \in RootParents})]
  /\ printed = [n \in NodeNames |-> 0]

\* print_tree: a line for the node, then its children.
PrintTree ==
  /\ \E n \in NodeNames :
       /\ todo[n] > 0 /\ printed[n] < MaxLines
       /\ printed' = [printed EXCEPT ![n] = @ + 1]
       /\ todo' = [m \in NodeNames |->
                     todo[m] + ChildrenOf(n)[m] - (IF m = n THEN 1 ELSE 0)]
  /\ UNCHANGED found

StatusSpec == StatusInit /\ [][PrintTree]_statusVars

-------------------------------------------------------------------------------
UniqueNames == \A i, j \in DOMAIN found : found[i].name = found[j].name => i = j

\* Among the ancestors of n there is a cycle: a set closed under "parent of".
InCycle(n) ==
  \E S \in SUBSET FoundNames :
    /\ n \in S
    /\ \A i \in DOMAIN found : found[i].name \in S => found[i].parent \in S

\* Where no name is used twice, `forge status` ends, prints no node twice, and leaves
\* out exactly the nodes whose chain of parents closes on itself.
EachNodeOnce ==
  UniqueNames =>
    /\ \A n \in NodeNames : printed[n] + todo[n] <= 1
    /\ (\A n \in NodeNames : todo[n] = 0) =>
         \A n \in FoundNames : printed[n] = 0 <=> InCycle(n)
================================================================================
