----------------------------- MODULE DepResolution ----------------------------
(***************************************************************************)
(* The pull-based dependency resolution of CortexForge: nodes that declare *)
(* needs, block and poll, and an orchestrator that reads their files into  *)
(* a snapshot (Pass 1) and then works from the snapshot (Passes 2 to 9 of  *)
(* forge-core/src/deps.rs, in the order of Orchestrator::one_cycle).  The  *)
(* orchestrator's steps interleave with the nodes' at every file access    *)
(* the two sides can race on.                                              *)
(*                                                                         *)
(* A node is a process of its own (an agent, told what to do by the prompt *)
(* of spawn.rs and helped by forge-sdk).  A key stands for its interface   *)
(* and a sequence number for its value; 0 is "no value yet".  Events and   *)
(* descriptions are left out.  "working" stands for idle, assigned,        *)
(* planning, implementing, verifying, monitoring and diagnosing.           *)
(***************************************************************************)
EXTENDS Integers, FiniteSets

CONSTANTS
  Nodes,        \* the declared nodes: directories with a node.toml
  Keys,         \* interface keys
  Declared,     \* node.toml provides.declared of each node
  MayNeed,      \* the keys the agent of each node may ask for
  None,         \* no node
  MaxSeq,       \* bound: times a value of each key is published
  MaxRounds,    \* bound: times a node declares needs
  MaxCrashes    \* bound: kills and failed cycles of the orchestrator, exits of nodes

ASSUME DepAssumption ==
  /\ IsFiniteSet(Nodes) /\ None \notin Nodes
  /\ Declared \in [Nodes -> SUBSET Keys]
  /\ MayNeed \in [Nodes -> SUBSET Keys]
  /\ MaxSeq \in [Keys -> Nat] /\ MaxRounds \in Nat /\ MaxCrashes \in Nat

VARIABLES
  \* files, one per node
  status,     \* .forge/state.toml, its current status; "none": no file yet
  needs,      \* shared/needs.toml
  provides,   \* shared/provides.toml: the sequence number of each key
  resolved,   \* shared/resolved.toml: provider and sequence number of each key
  tasks,      \* shared/tasks.toml: pairs of a key and a "from"
  inbox,      \* .forge/inbox: the value_changed messages, of all nodes
  \* a file of the forge
  escalated,  \* .forge/escalated.toml
  \* processes
  proc,       \* "gone", "child" of this orchestrator, "orphan" of an earlier
              \* one, "zombie": exited, not reaped yet
  step,       \* what the agent of each node is doing
  rounds,     \* declarations so far, per node
  crashes,    \* crashes and exits so far
  \* memory of the orchestrator
  pass,       \* the pass it runs next
  todo,       \* Pass 1: the nodes not read yet
  peek,       \* Pass 1: the status just read, before the other files
  snap,       \* Pass 1: the snapshot of each node that takes part
  route,      \* find_provider: a provider of each key, among the snapshots
  newEdges,   \* Pass 4: edges to write tasks for
  notify      \* Pass 8: messages to write

files     == <<status, needs, provides, resolved, tasks, inbox, escalated>>
processes == <<proc, step, rounds, crashes>>
memory    == <<pass, todo, peek, snap, route, newEdges, notify>>
vars      == <<files, processes, memory>>

Statuses == {"none", "working", "blocked", "delivered", "dead"}

Absent == [from |-> None, seq |-> 0]
NoSnap == [status |-> "none"]
NoPeek == [node |-> None, status |-> "none"]

\* A zombie still answers kill(pid, 0).
Probe(n) == proc[n] # "gone"
Running(n) == proc[n] \in {"child", "orphan"}

Seen == {n \in Nodes : snap[n] # NoSnap}

Forget ==
  /\ todo' = Nodes
  /\ peek' = NoPeek
  /\ snap' = [n \in Nodes |-> NoSnap]
  /\ route' = [k \in Keys |-> None]
  /\ newEdges' = {}
  /\ notify' = {}

Init ==
  /\ status = [n \in Nodes |-> "none"]
  /\ needs = [n \in Nodes |-> {}]
  /\ provides = [n \in Nodes |-> [k \in Keys |-> 0]]
  /\ resolved = [n \in Nodes |-> [k \in Keys |-> Absent]]
  /\ tasks = [n \in Nodes |-> {}]
  /\ inbox = {}
  /\ escalated = {}
  /\ proc = [n \in Nodes |-> "gone"]
  /\ step = [n \in Nodes |-> "working"]
  /\ rounds = [n \in Nodes |-> 0]
  /\ crashes = 0
  /\ pass = "start"
  /\ todo = Nodes
  /\ peek = NoPeek
  /\ snap = [n \in Nodes |-> NoSnap]
  /\ route = [k \in Keys |-> None]
  /\ newEdges = {}
  /\ notify = {}

-------------------------------------------------------------------------------
\* The agents.  They know nothing of what the orchestrator writes into their
\* state.toml: they overwrite it.

DeclareNeeds(n) ==
  /\ Running(n) /\ step[n] = "working" /\ rounds[n] < MaxRounds
  /\ \E ks \in (SUBSET MayNeed[n]) \ {{}} : needs' = [needs EXCEPT ![n] = ks]
  /\ step' = [step EXCEPT ![n] = "declared"]
  /\ rounds' = [rounds EXCEPT ![n] = @ + 1]
  /\ UNCHANGED <<status, provides, resolved, tasks, inbox, escalated,
                 proc, crashes, memory>>

\* Seeded fault: the agent blocks without having written its needs.
BecomeBlockedFirst(n) ==
  /\ Running(n) /\ step[n] \in {"working", "declared"}
  /\ status' = [status EXCEPT ![n] = "blocked"]
  /\ step' = [step EXCEPT ![n] = "polling"]
  /\ UNCHANGED <<needs, provides, resolved, tasks, inbox, escalated,
                 proc, rounds, crashes, memory>>

BecomeBlocked(n) ==
  /\ Running(n) /\ step[n] = "declared"
  /\ status' = [status EXCEPT ![n] = "blocked"]
  /\ step' = [step EXCEPT ![n] = "polling"]
  /\ UNCHANGED <<needs, provides, resolved, tasks, inbox, escalated,
                 proc, rounds, crashes, memory>>

\* ResolvedValues::has_all on the keys it declared.
Resume(n) ==
  /\ Running(n) /\ step[n] = "polling"
  /\ \A k \in needs[n] : resolved[n][k].seq > 0
  /\ status' = [status EXCEPT ![n] = "working"]
  /\ step' = [step EXCEPT ![n] = "working"]
  /\ UNCHANGED <<needs, provides, resolved, tasks, inbox, escalated,
                 proc, rounds, crashes, memory>>

Publish(n) ==
  /\ Running(n) /\ step[n] = "working"
  /\ \E k \in Declared[n] :
       /\ provides[n][k] < MaxSeq[k]
       /\ provides' = [provides EXCEPT ![n][k] = @ + 1]
  /\ UNCHANGED <<status, needs, resolved, tasks, inbox, escalated,
                 processes, memory>>

Deliver(n) ==
  /\ Running(n) /\ step[n] = "working"
  /\ status' = [status EXCEPT ![n] = "delivered"]
  /\ step' = [step EXCEPT ![n] = "done"]
  /\ UNCHANGED <<needs, provides, resolved, tasks, inbox, escalated,
                 proc, rounds, crashes, memory>>

\* The process ends: of itself, killed by a heartbeat scan, or crashed.  The
\* exit of an orphan is collected by init, of a child by the next reap_dead.
Exit(n) ==
  /\ Running(n) /\ crashes < MaxCrashes
  /\ proc' = [proc EXCEPT ![n] = IF @ = "child" THEN "zombie" ELSE "gone"]
  /\ crashes' = crashes + 1
  /\ UNCHANGED <<files, step, rounds, memory>>

NodeStep(n) ==
  \/ DeclareNeeds(n) \/ BecomeBlocked(n) \/ Resume(n)
  \/ Publish(n) \/ Deliver(n) \/ Exit(n)

-------------------------------------------------------------------------------
\* The orchestrator: one cycle.

\* reap_dead, and a new DepGraph.
StartCycle ==
  /\ pass = "start"
  /\ proc' = [n \in Nodes |-> IF proc[n] = "zombie" THEN "gone" ELSE proc[n]]
  /\ pass' = "1 status"
  /\ Forget
  /\ UNCHANGED <<files, step, rounds, crashes>>

\* Pass 1, populate: for one node the pid and the status ...
CollectStatus ==
  /\ pass = "1 status"
  /\ \E n \in todo :
       IF Probe(n) /\ status[n] \notin {"none", "dead"}
       THEN /\ peek' = [node |-> n, status |-> status[n]]
            /\ pass' = "1 files"
            /\ UNCHANGED todo
       ELSE /\ todo' = todo \ {n}
            /\ UNCHANGED <<peek, pass>>
  /\ UNCHANGED <<files, processes, snap, route, newEdges, notify>>

\* ... then its protocol files.
CollectFiles ==
  /\ pass = "1 files"
  /\ LET n == peek.node IN
       /\ snap' = [snap EXCEPT ![n] =
                    [status |-> peek.status, needs |-> needs[n],
                     provides |-> provides[n], resolved |-> resolved[n],
                     tasks |-> tasks[n]]]
       /\ todo' = todo \ {n}
  /\ peek' = NoPeek
  /\ pass' = "1 status"
  /\ UNCHANGED <<files, processes, route, newEdges, notify>>

\* After Pass 1: declared nodes that do not take part, and whose state.toml
\* (read here) is neither delivered nor dead, are spawned, if the pre-checks
\* and the launch allow.  The process initializes itself: a new state.toml,
\* the old shared files.  A process that still runs there is not looked for: of
\* the two the model follows the older, and of the newer keeps the state.toml.
Spawnable == {n \in Nodes \ Seen : status[n] \notin {"delivered", "dead"}}

AutoSpawn ==
  /\ pass = "1 status" /\ todo = {}
  /\ \E S \in SUBSET Spawnable :
       /\ proc' = [n \in Nodes |-> IF n \in S THEN "child" ELSE proc[n]]
       /\ status' = [n \in Nodes |-> IF n \in S THEN "working" ELSE status[n]]
       /\ step' = [n \in Nodes |-> IF n \in S /\ ~Running(n) THEN "working" ELSE step[n]]
  /\ pass' = "2"
  /\ UNCHANGED <<needs, provides, resolved, tasks, inbox, escalated,
                 rounds, crashes, todo, peek, snap, route, newEdges, notify>>

\* Seeded fault: providers are looked for among all declared nodes.
DeclarersAnywhere(k) == {n \in Nodes : k \in Declared[n]}

\* Among the snapshots: who declares a key, who asks for what and lacks it.
Declarers(k) == {n \in Seen : k \in Declared[n]}
Requesters == {n \in Seen : snap[n].status = "blocked"}
Has(n, k) == snap[n].resolved[k].seq > 0

\* Seeded fault: needs that are met are not skipped.
UnresolvedAll(n) == snap[n].needs

Unresolved(n) == {k \in snap[n].needs : ~Has(n, k)}

Edge == [requester : Nodes, provider : Nodes, key : Keys]

\* Pass 2, build_graph: an edge to every declarer, of every need of every
\* snapshot, blocked or not.
ExistingEdges ==
  {e \in Edge : /\ e.requester \in Seen
                /\ e.key \in Unresolved(e.requester)
                /\ e.provider \in Declarers(e.key) \ {e.requester}}

\* Seeded fault: only pairs of nodes that need each other count as cycles.
OnCyclePairs(edges) ==
  {d.requester : d \in {e \in edges :
     \E f \in edges : f.requester = e.provider /\ f.provider = e.requester}}

\* The nodes a walk of at least one edge leads back to.
OnCycle(edges) ==
  LET next == [n \in Nodes |-> {e.provider : e \in {d \in edges : d.requester = n}}]
      closed == {S \in SUBSET Nodes : \A m \in S : next[m] \subseteq S}
  IN {n \in Nodes : \A S \in closed : next[n] \subseteq S => n \in S}

\* detect_cycles: the depth-first search stops at its first back edge and
\* returns the node that edge points to; which one, the order of a HashMap says.
Detected(edges) ==
  IF OnCycle(edges) = {} THEN {{}} ELSE {{n} : n \in OnCycle(edges)}

\* mark_cycle_dead, and the end of Pass 7b: load, change the status, save.
Marked(dead) == [n \in Nodes |-> IF n \in dead THEN "dead" ELSE status[n]]

\* Passes 2 and 3.  find_provider walks the same HashMap all cycle long: its
\* answers are fixed here.
FirstCycleCheck ==
  /\ pass = "2"
  /\ route' \in {f \in [Keys -> Nodes \union {None}] :
                   \A k \in Keys : IF Declarers(k) = {} THEN f[k] = None
                                   ELSE f[k] \in Declarers(k)}
  /\ \E found \in Detected(ExistingEdges) : status' = Marked(found)
  /\ pass' = "4"
  /\ UNCHANGED <<needs, provides, resolved, tasks, inbox, escalated,
                 processes, todo, peek, snap, newEdges, notify>>

\* What escalate_to_parent may add to the table.
NewEntries == [key : Keys, requester : Requesters, provider : {None}, status : {"pending"}]
HasPending(k, n) == \E e \in escalated : e.key = k /\ e.requester = n

\* Pass 4: a new edge for each need that has a provider, unless the task is
\* there (looked for in the requester's own list, under its own name); the
\* others are escalated.
MatchNewEdges ==
  /\ pass = "4"
  /\ newEdges' = {e \in Edge : /\ e.requester \in Requesters
                               /\ e.key \in Unresolved(e.requester)
                               /\ e.provider = route[e.key]
                               /\ <<e.key, e.requester>> \notin snap[e.requester].tasks}
  /\ escalated' = escalated \union
       {e \in NewEntries : /\ e.key \in Unresolved(e.requester)
                           /\ route[e.key] = None
                           /\ ~HasPending(e.key, e.requester)}
  /\ pass' = "5"
  /\ UNCHANGED <<status, needs, provides, resolved, tasks, inbox,
                 processes, todo, peek, snap, route, notify>>

\* Pass 5: the same search, again in an order of its own, on all the edges.
SecondCycleCheck ==
  /\ pass = "5"
  /\ \E found \in Detected(ExistingEdges \union newEdges) :
       /\ newEdges' = {e \in newEdges : e.requester \notin found}
       /\ status' = Marked(found)
  /\ pass' = "6"
  /\ UNCHANGED <<needs, provides, resolved, tasks, inbox, escalated,
                 processes, todo, peek, snap, route, notify>>

\* Pass 6: a task for the provider, "from" the provider itself.
WriteTasks ==
  /\ pass = "6"
  /\ tasks' = [n \in Nodes |->
                 LET new == {<<e.key, n>> : e \in {d \in newEdges : d.provider = n}}
                 IN IF new = {} THEN tasks[n] ELSE snap[n].tasks \union new]
  /\ pass' = "7"
  /\ UNCHANGED <<status, needs, provides, resolved, inbox, escalated,
                 processes, todo, peek, snap, route, newEdges, notify>>

\* Seeded fault: the copy is numbered anew.
OfferedRenumbered(k) ==
  IF route[k] # None /\ snap[route[k]].provides[k] > 0
  THEN [from |-> route[k], seq |-> snap[route[k]].provides[k] + 1]
  ELSE Absent

\* Seeded fault: only delivered providers hand out their values.
OfferedOnDelivery(k) ==
  IF route[k] # None /\ snap[route[k]].provides[k] > 0 /\ snap[route[k]].status = "delivered"
  THEN [from |-> route[k], seq |-> snap[route[k]].provides[k]]
  ELSE Absent

\* The value of a key in the snapshot of its provider, Absent if there is none.
Offered(k) ==
  IF route[k] # None /\ snap[route[k]].provides[k] > 0
  THEN [from |-> route[k], seq |-> snap[route[k]].provides[k]]
  ELSE Absent

\* Pass 7: resolved.toml of every blocked node gets the values it lacks.  The
\* snapshot is not brought up to date.
TransferResolved ==
  /\ pass = "7"
  /\ resolved' =
       [n \in Nodes |->
          LET got == IF n \in Requesters THEN {k \in Unresolved(n) : Offered(k) # Absent} ELSE {}
          IN IF got = {} THEN resolved[n]
             ELSE [k \in Keys |-> IF k \in got THEN Offered(k) ELSE snap[n].resolved[k]]]
  /\ pass' = "7b"
  /\ UNCHANGED <<status, needs, provides, tasks, inbox, escalated,
                 processes, todo, peek, snap, route, newEdges, notify>>

\* Pass 7b: can the need still be met, as far as the snapshot and a fresh
\* probe of the provider tell?
Hopeful(n, k) ==
  IF route[k] # None
  THEN Probe(route[k]) \/ snap[route[k]].provides[k] > 0
  ELSE HasPending(k, n)

DependencyChain ==
  /\ pass = "7b"
  /\ status' = Marked({n \in Requesters : /\ snap[n].needs # {}
                                          /\ \A k \in Unresolved(n) : ~Hopeful(n, k)})
  /\ pass' = "8"
  /\ UNCHANGED <<needs, provides, resolved, tasks, inbox, escalated,
                 processes, todo, peek, snap, route, newEdges, notify>>

\* Seeded fault: >= for >.
RaisedOrEqual(n) == {k \in Keys : Has(n, k) /\ Offered(k).seq >= snap[n].resolved[k].seq}

Raised(n) == {k \in Keys : Has(n, k) /\ Offered(k).seq > snap[n].resolved[k].seq}

\* Seeded fault: the raised values stay in memory, resolved.toml is not saved.
ValueChangeUnsaved ==
  /\ pass = "8"
  /\ snap' = [n \in Nodes |->
       IF n \in Seen /\ Raised(n) # {}
       THEN [snap[n] EXCEPT !.resolved =
               [k \in Keys |-> IF k \in Raised(n) THEN Offered(k) ELSE snap[n].resolved[k]]]
       ELSE snap[n]]
  /\ notify' = UNION {{[to |-> n, key |-> k, old |-> snap[n].resolved[k].seq,
                        new |-> Offered(k).seq] : k \in Raised(n)} : n \in Seen}
  /\ pass' = "8 inbox"
  /\ UNCHANGED <<status, needs, provides, resolved, tasks, inbox, escalated,
                 processes, todo, peek, route, newEdges>>

\* Pass 8, first half: the raised values, into resolved.toml and the snapshot.
ValueChange ==
  /\ pass = "8"
  /\ LET changed == {n \in Seen : Raised(n) # {}}
         raisedOf(n) == [k \in Keys |-> IF k \in Raised(n) THEN Offered(k)
                                        ELSE snap[n].resolved[k]]
     IN /\ resolved' = [n \in Nodes |-> IF n \in changed THEN raisedOf(n) ELSE resolved[n]]
        /\ snap' = [n \in Nodes |-> IF n \in changed
                                    THEN [snap[n] EXCEPT !.resolved = raisedOf(n)]
                                    ELSE snap[n]]
        /\ notify' = UNION {{[to |-> n, key |-> k, old |-> snap[n].resolved[k].seq,
                              new |-> Offered(k).seq] : k \in Raised(n)} : n \in changed}
  /\ pass' = "8 inbox"
  /\ UNCHANGED <<status, needs, provides, tasks, inbox, escalated,
                 processes, todo, peek, route, newEdges>>

\* Pass 8, second half: one message per raised value.
NotifyInbox ==
  /\ pass = "8 inbox"
  /\ inbox' = inbox \union notify
  /\ notify' = {}
  /\ pass' = "9"
  /\ UNCHANGED <<status, needs, provides, resolved, tasks, escalated,
                 processes, todo, peek, snap, route, newEdges>>

\* Pass 9.  A pending entry is matched with any declared node that declares
\* the key, alive or not.  A matched one is done when its provider is in the
\* snapshot as delivered, with the value, and has exited since.  populate
\* leaves dead nodes out of the snapshot, so the code that counts the attempts
\* on a dead provider is not reached, and no entry ever fails.
Settled(e) ==
  /\ e.status = "matched"
  /\ e.provider \in Seen
  /\ snap[e.provider].status = "delivered"
  /\ ~Probe(e.provider)
  /\ snap[e.provider].provides[e.key] > 0

Global(k) == {n \in Nodes : k \in Declared[n]}

CrossLayer ==
  /\ pass = "9"
  /\ LET open == {e \in escalated : e.status = "pending"}
         done == {e \in escalated : Settled(e)}
         doneFor(n) == {e \in done : e.requester = n /\ n \in Seen}
     IN \E found \in [open -> Nodes \union {None}], last \in [Nodes -> done \union {None}] :
          /\ \A e \in open : IF Global(e.key) = {} THEN found[e] = None
                             ELSE found[e] \in Global(e.key)
          \* Each entry is saved over the snapshot: of several, the last stays.
          /\ \A n \in Nodes : IF doneFor(n) = {} THEN last[n] = None
                              ELSE last[n] \in doneFor(n)
          /\ tasks' = [n \in Nodes |->
               tasks[n] \union {<<e.key, e.requester>> : e \in {d \in open : found[d] = n}}]
          /\ escalated' = {IF e \in open /\ found[e] # None
                           THEN [e EXCEPT !.provider = found[e], !.status = "matched"]
                           ELSE e : e \in escalated \ done}
          /\ resolved' = [n \in Nodes |->
               IF last[n] = None THEN resolved[n]
               ELSE [snap[n].resolved EXCEPT ![last[n].key] =
                       [from |-> last[n].provider,
                        seq |-> snap[last[n].provider].provides[last[n].key]]]]
  /\ pass' = "start"
  /\ Forget
  /\ UNCHANGED <<status, needs, provides, inbox, processes>>

\* The orchestrator is killed and started again: its memory is gone, the files
\* stay.  rebuild_pids_table finds the nodes that still run; they are no
\* children of the new process.
OrchestratorCrash ==
  /\ crashes < MaxCrashes /\ pass # "start"
  /\ crashes' = crashes + 1
  /\ proc' = [n \in Nodes |-> CASE proc[n] = "child" -> "orphan"
                                [] proc[n] = "zombie" -> "gone"
                                [] OTHER -> proc[n]]
  /\ pass' = "start"
  /\ Forget
  /\ UNCHANGED <<files, step, rounds>>

\* one_cycle returns an error (a file cannot be saved, the event log cannot be
\* appended to): run() logs it and goes on with the next cycle.
CycleFails ==
  /\ crashes < MaxCrashes /\ pass \notin {"start", "1 status", "1 files"}
  /\ crashes' = crashes + 1
  /\ pass' = "start"
  /\ Forget
  /\ UNCHANGED <<files, proc, step, rounds>>

Cycle ==
  \/ StartCycle \/ CollectStatus \/ CollectFiles \/ AutoSpawn
  \/ FirstCycleCheck \/ MatchNewEdges \/ SecondCycleCheck \/ WriteTasks
  \/ TransferResolved \/ DependencyChain \/ ValueChange \/ NotifyInbox
  \/ CrossLayer

-------------------------------------------------------------------------------
Next == Cycle \/ CycleFails \/ OrchestratorCrash \/ \E n \in Nodes : NodeStep(n)

\* run() starts a cycle every scan interval; an agent polls as its prompt says.
Fairness ==
  /\ WF_vars(Cycle)
  /\ \A n \in Nodes : WF_vars(BecomeBlocked(n)) /\ WF_vars(Resume(n))

Spec == Init /\ [][Next]_vars
FairSpec == Spec /\ Fairness

-------------------------------------------------------------------------------
Values == [from : Nodes \union {None}, seq : Nat]
Passes == {"start", "1 status", "1 files", "2", "4", "5", "6", "7", "7b", "8",
           "8 inbox", "9"}
Snaps == [status : Statuses, needs : SUBSET Keys, provides : [Keys -> Nat],
          resolved : [Keys -> Values], tasks : SUBSET (Keys \X Nodes)]

FilesOK ==
  /\ status \in [Nodes -> Statuses]
  /\ needs \in [Nodes -> SUBSET Keys]
  /\ provides \in [Nodes -> [Keys -> Nat]]
  /\ resolved \in [Nodes -> [Keys -> Values]]
  /\ tasks \in [Nodes -> SUBSET (Keys \X Nodes)]
  /\ inbox \subseteq [to : Nodes, key : Keys, old : Nat, new : Nat]
  /\ escalated \subseteq [key : Keys, requester : Nodes, provider : Nodes \union {None},
                          status : {"pending", "matched"}]

ProcessesOK ==
  /\ proc \in [Nodes -> {"gone", "child", "orphan", "zombie"}]
  /\ step \in [Nodes -> {"working", "declared", "polling", "done"}]
  /\ rounds \in [Nodes -> Nat] /\ crashes \in Nat

MemoryOK ==
  /\ pass \in Passes
  /\ todo \subseteq Nodes
  /\ pass = "1 files" => peek \in [node : todo, status : Statuses]
  /\ snap \in [Nodes -> Snaps \union {NoSnap}]
  /\ route \in [Keys -> Seen \union {None}]
  /\ newEdges \subseteq [requester : Seen, provider : Seen, key : Keys]
  /\ notify \subseteq [to : Nodes, key : Keys, old : Nat, new : Nat]

\* Type invariant: the files, the processes and the orchestrator's memory; the
\* memory speaks of nodes in the snapshot only.
TypeOK == FilesOK /\ ProcessesOK /\ MemoryOK

\* A node the orchestrator takes for blocked has its needs in the snapshot,
\* though status and needs are two reads: the agent writes needs.toml first
\* (the dependency protocol of the prompt), populate reads state.toml first.
BlockedHasNeeds == \A n \in Requesters : snap[n].needs # {}

\* Every resolved value was published, under that number, by a node that
\* declares the key; nobody is handed a value it was not given.
ResolvedProvenance ==
  \A n \in Nodes, k \in Keys :
    resolved[n][k].seq > 0 =>
      /\ k \in Declared[resolved[n][k].from]
      /\ resolved[n][k].seq <= provides[resolved[n][k].from][k]

\* With several providers of a key Pass 9 may put a lower number of one over a
\* higher one of another.
SoleProvider(k) == \A p, q \in Global(k) : p = q

\* A value_changed message never announces more than resolved.toml holds: a
\* node that reads the message and then the file finds that value or a newer
\* one, whatever passes and crashes came between.  (So it is of any ValueFeed.)
InboxNotAhead ==
  \A m \in inbox :
    SoleProvider(m.key) => resolved[m.to][m.key].seq >= m.new

\* A change of value is announced once: what Pass 8 is about to write has not
\* been written before.
NotifiedOnce == \A m \in notify \intersect inbox : ~SoleProvider(m.key)

\* The snapshot is read node by node while the nodes go on, yet no wait of a
\* node it takes for blocked is a phantom: until values are handed out, such a
\* node still waits for the keys it lacks in the snapshot.
StillWaits(e) ==
  /\ step[e.requester] \in {"declared", "polling"}
  /\ e.key \in needs[e.requester]
  /\ resolved[e.requester][e.key].seq = 0

NoPhantomWait ==
  pass \in {"2", "4", "5", "6", "7"} =>
    \A e \in ExistingEdges \union newEdges : e.requester \in Requesters => StillWaits(e)

\* Nodes each of which leads to all of them, along edges among them.
Circle(C, edges) ==
  /\ C # {}
  /\ \A T \in (SUBSET C) \ {{}} :
       \E e \in edges : /\ e.requester \in T /\ e.provider \in C
                        /\ T = C \/ e.provider \notin T

\* The edges of the cycle checks, without those from a blocked node that no longer waits.
LastingEdges ==
  {e \in ExistingEdges \union newEdges : e.requester \in Requesters => StillWaits(e)}

\* Only a node on a circle of needs is marked dead by a cycle check, not one that
\* merely leads to a circle; and all edges of that circle that start at a blocked
\* node are waits that still last, though they were read one node at a time.
OnlyCirclesDie ==
  [][(pass \in {"2", "5"}) =>
       \A n \in Nodes :
         status[n] # "dead" /\ status'[n] = "dead" =>
           \E C \in SUBSET Seen : n \in C /\ Circle(C, LastingEdges)]_vars

\* Nodes of the snapshot each of which needs another one of them.
NeedEachOther ==
  \E S \in (SUBSET Seen) \ {{}} :
    \A n \in S : \E e \in ExistingEdges \union newEdges : e.requester = n /\ e.provider \in S

\* When nodes of the snapshot need each other, however long the circle, the cycle check
\* that sees it marks one node dead, and no other.
CirclesBreak ==
  [][NeedEachOther /\ pass \in {"2", "5"} /\ pass' \in {"4", "6"} =>
       \E n \in Seen : status' = [status EXCEPT ![n] = "dead"]]_vars

\* Of a key that one node declares, the values come to every node as ValueFeed
\* says, whatever is read from stale snapshots, saved over or lost in a crash: the
\* numbers rise, the change of a value is announced once and after it was saved,
\* and what goes missing was never announced.
SoleKeys == {k \in Keys : \E p \in Nodes : Global(k) = {p}}
Source == [k \in SoleKeys |-> CHOOSE p \in Nodes : Global(k) = {p}]
Messages(n, k) == {m \in inbox : m.to = n /\ m.key = k}

Feed == INSTANCE ValueFeed
          WITH Consumers <- Nodes, Topics <- SoleKeys,
               published <- [k \in SoleKeys |-> provides[Source[k]][k]],
               held <- [n \in Nodes |-> [k \in SoleKeys |-> resolved[n][k].seq]],
               told <- [n \in Nodes |-> [k \in SoleKeys |-> {m.new : m \in Messages(n, k)}]]

ImplementsFeed == Feed!FeedSpec

\* What the comments on ResolvedValues::save and on Pass 7 promise: resolved
\* keys are not lost, and their values do not get older.
ResolvedKeysNeverLost ==
  [][\A n \in Nodes, k \in Keys : resolved'[n][k].seq >= resolved[n][k].seq]_resolved

\* What the comment on pass7b_dependency_chain says: it marks a requester dead
\* when all its providers are dead.
OnlyOrphansDie ==
  [][pass = "7b" =>
       \A n \in Nodes :
         status[n] # "dead" /\ status'[n] = "dead" =>
           \A k \in snap[n].needs : \A p \in Declarers(k) : ~Probe(p)]_vars

-------------------------------------------------------------------------------
Waiting(n, k) ==
  /\ Running(n) /\ status[n] = "blocked" /\ step[n] = "polling"
  /\ k \in needs[n] /\ resolved[n][k] = Absent

Live(n) == Running(n) /\ status[n] \notin {"none", "dead"}

\* A blocked node gets every value a live provider has published.
ValuesArrive ==
  \A n \in Nodes, p \in Nodes, k \in Keys :
    (Waiting(n, k) /\ Live(p) /\ k \in Declared[p] /\ provides[p][k] > 0)
      ~> (~Waiting(n, k) \/ ~Live(p))

WaitsFor(n, p) ==
  /\ n # p /\ Live(p)
  /\ \E k \in Declared[p] : Waiting(n, k)

Deadlocked == \E S \in (SUBSET Nodes) \ {{}} : \A n \in S : \E p \in S : WaitsFor(n, p)

\* Nodes that wait for each other do not wait forever: the cycle checks of
\* Passes 3 and 5 see the deadlock and break it.
DeadlockBroken == Deadlocked ~> ~Deadlocked
===============================================================================
