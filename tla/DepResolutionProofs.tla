-------------------------- MODULE DepResolutionProofs --------------------------
(***************************************************************************)
(* Theorems about DepResolution, for every set of nodes and keys.          *)
(***************************************************************************)
EXTENDS DepResolution, TLAPS

\* A snapshot is told from the absence of one by its fields.
LEMMA SnapIsThere ==
  ASSUME NEW s \in Snaps
  PROVE  s # NoSnap
<1>1. "needs" \in DOMAIN s
  BY DEF Snaps
<1>2. "needs" \notin DOMAIN NoSnap
  BY DEF NoSnap
<1> QED BY <1>1, <1>2

LEMMA SeenType ==
  ASSUME TypeOK, NEW n \in Seen
  PROVE  n \in Nodes /\ snap[n] \in Snaps
BY DEF TypeOK, FilesOK, ProcessesOK, MemoryOK, Seen

\* What find_provider offers is a value, of a node in the snapshot.
LEMMA OfferedType ==
  ASSUME TypeOK, NEW k \in Keys
  PROVE  Offered(k) \in Values
<1>1. CASE route[k] # None /\ snap[route[k]].provides[k] > 0
  <2>1. route[k] \in Seen
    BY <1>1 DEF TypeOK, FilesOK, ProcessesOK, MemoryOK
  <2>2. route[k] \in Nodes /\ snap[route[k]] \in Snaps
    BY <2>1, SeenType
  <2>3. snap[route[k]].provides[k] \in Nat
    BY <2>2 DEF Snaps
  <2> QED BY <1>1, <2>2, <2>3 DEF Offered, Values
<1>2. CASE ~(route[k] # None /\ snap[route[k]].provides[k] > 0)
  BY <1>2 DEF Offered, Absent, Values
<1> QED BY <1>1, <1>2

LEMMA MarkedType ==
  ASSUME TypeOK, NEW dead
  PROVE  Marked(dead) \in [Nodes -> Statuses]
BY DEF TypeOK, FilesOK, ProcessesOK, MemoryOK, Marked, Statuses

\* What a resolved.toml holds after some keys of a snapshot were replaced.
LEMMA ReplacedType ==
  ASSUME TypeOK, NEW n \in Seen, NEW ks
  PROVE  [k \in Keys |-> IF k \in ks THEN Offered(k) ELSE snap[n].resolved[k]]
           \in [Keys -> Values]
<1>1. snap[n].resolved \in [Keys -> Values]
  BY SeenType DEF Snaps
<1> QED BY <1>1, OfferedType

\* A new cycle starts from nothing.
LEMMA ForgetType ==
  ASSUME Forget
  PROVE  /\ todo' \subseteq Nodes
         /\ snap' \in [Nodes -> Snaps \union {NoSnap}]
         /\ route' \in [Keys -> Seen' \union {None}]
         /\ newEdges' = {} /\ notify' = {}
BY DEF Forget

-------------------------------------------------------------------------------
LEMMA TypeInit == Init => TypeOK
BY DepAssumption DEF Init, TypeOK, FilesOK, ProcessesOK, MemoryOK, Seen, Statuses, Values, Absent, Passes

LEMMA MemoryKept ==
  ASSUME MemoryOK, UNCHANGED memory
  PROVE  MemoryOK'
BY DEF MemoryOK, memory, Seen

LEMMA MemoryPassed ==
  ASSUME MemoryOK, UNCHANGED <<todo, peek, snap, route, newEdges, notify>>,
         pass' \in Passes \ {"1 files"}
  PROVE  MemoryOK'
BY DEF MemoryOK, Seen

LEMMA TypeNode ==
  ASSUME TypeOK, NEW n \in Nodes, NodeStep(n)
  PROVE  TypeOK'
<1>1. MemoryOK'
  BY MemoryKept DEF TypeOK, NodeStep, DeclareNeeds, BecomeBlocked, Resume, Publish, Deliver, Exit
<1>2. CASE DeclareNeeds(n)
  <2>1. PICK ks \in SUBSET MayNeed[n] : needs' = [needs EXCEPT ![n] = ks]
    BY <1>2 DEF DeclareNeeds
  <2>2. ks \in SUBSET Keys
    BY DepAssumption
  <2>3. FilesOK' /\ ProcessesOK'
    BY <1>2, <2>1, <2>2 DEF DeclareNeeds, TypeOK, FilesOK, ProcessesOK
  <2> QED BY <1>1, <2>3 DEF TypeOK
<1>3. CASE BecomeBlocked(n)
  BY <1>1, <1>3 DEF BecomeBlocked, TypeOK, FilesOK, ProcessesOK, Statuses
<1>4. CASE Resume(n)
  BY <1>1, <1>4 DEF Resume, TypeOK, FilesOK, ProcessesOK, Statuses
<1>5. CASE Publish(n)
  <2>1. PICK k \in Declared[n] : provides' = [provides EXCEPT ![n][k] = @ + 1]
    BY <1>5 DEF Publish
  <2>2. k \in Keys /\ provides[n] \in [Keys -> Nat]
    BY DepAssumption DEF TypeOK, FilesOK
  <2>3. [provides[n] EXCEPT ![k] = @ + 1] \in [Keys -> Nat]
    BY <2>2
  <2>4. provides' \in [Nodes -> [Keys -> Nat]]
    BY <2>1, <2>3 DEF TypeOK, FilesOK
  <2> QED BY <1>1, <1>5, <2>4 DEF Publish, TypeOK, FilesOK, ProcessesOK, processes
<1>6. CASE Deliver(n)
  BY <1>1, <1>6 DEF Deliver, TypeOK, FilesOK, ProcessesOK, Statuses
<1>7. CASE Exit(n)
  <2>1. proc' \in [Nodes -> {"gone", "child", "orphan", "zombie"}]
    BY <1>7 DEF Exit, TypeOK, ProcessesOK
  <2> QED BY <1>1, <1>7, <2>1 DEF Exit, TypeOK, FilesOK, ProcessesOK, files
<1> QED BY <1>2, <1>3, <1>4, <1>5, <1>6, <1>7 DEF NodeStep

LEMMA TypeCollect ==
  ASSUME TypeOK, StartCycle \/ CollectStatus \/ CollectFiles \/ AutoSpawn
  PROVE  TypeOK'
<1>1. CASE StartCycle
  <2>1. proc' \in [Nodes -> {"gone", "child", "orphan", "zombie"}]
    BY <1>1 DEF StartCycle, TypeOK, FilesOK, ProcessesOK, MemoryOK
  <2>2. Forget /\ pass' = "1 status" /\ UNCHANGED <<files, step, rounds, crashes>>
    BY <1>1 DEF StartCycle
  <2> QED BY <2>1, <2>2, ForgetType DEF TypeOK, FilesOK, ProcessesOK, MemoryOK, files, Passes
<1>2. CASE CollectStatus
  <2>1. PICK n \in todo :
          IF Probe(n) /\ status[n] \notin {"none", "dead"}
          THEN /\ peek' = [node |-> n, status |-> status[n]]
               /\ pass' = "1 files"
               /\ UNCHANGED todo
          ELSE /\ todo' = todo \ {n}
               /\ UNCHANGED <<peek, pass>>
    BY <1>2 DEF CollectStatus
  <2>2. pass = "1 status" /\ n \in Nodes /\ status[n] \in Statuses
    BY <1>2 DEF CollectStatus, TypeOK, FilesOK, MemoryOK
  <2>3. /\ todo' \subseteq Nodes
        /\ pass' \in Passes
        /\ pass' = "1 files" => peek' \in [node : todo', status : Statuses]
    <3>1. CASE Probe(n) /\ status[n] \notin {"none", "dead"}
      <4>1. todo' = todo /\ pass' = "1 files" /\ peek' = [node |-> n, status |-> status[n]]
        BY <2>1, <3>1
      <4>2. peek' \in [node : todo', status : Statuses]
        BY <2>2, <4>1
      <4>3. todo' \subseteq Nodes /\ pass' \in Passes
        BY <4>1 DEF TypeOK, MemoryOK, Passes
      <4> QED BY <4>2, <4>3
    <3>2. CASE ~(Probe(n) /\ status[n] \notin {"none", "dead"})
      BY <2>1, <2>2, <3>2 DEF TypeOK, MemoryOK, Passes
    <3> QED BY <3>1, <3>2
  <2> QED BY <1>2, <2>3 DEF CollectStatus, TypeOK, FilesOK, ProcessesOK, MemoryOK, files, processes, Seen
<1>3. CASE CollectFiles
  <2> DEFINE n == peek.node
             s == [status |-> peek.status, needs |-> needs[n], provides |-> provides[n],
                   resolved |-> resolved[n], tasks |-> tasks[n]]
  <2>1. n \in Nodes /\ peek.status \in Statuses
    BY <1>3 DEF CollectFiles, TypeOK, FilesOK, ProcessesOK, MemoryOK
  <2>2. s \in Snaps
    BY <2>1 DEF TypeOK, FilesOK, ProcessesOK, MemoryOK, Snaps
  <2>3. snap' = [snap EXCEPT ![n] = s]
    BY <1>3 DEF CollectFiles
  <2>4. snap' \in [Nodes -> Snaps \union {NoSnap}]
    BY <2>1, <2>2, <2>3 DEF TypeOK, FilesOK, ProcessesOK, MemoryOK
  <2> HIDE DEF s
  <2>5. Seen \subseteq Seen'
    BY <2>1, <2>2, <2>3, SnapIsThere DEF Seen, TypeOK, FilesOK, ProcessesOK, MemoryOK
  <2>6. /\ route' \in [Keys -> Seen' \union {None}]
        /\ newEdges' \subseteq [requester : Seen', provider : Seen', key : Keys]
    BY <1>3, <2>5 DEF CollectFiles, TypeOK, FilesOK, ProcessesOK, MemoryOK
  <2>7. todo' \subseteq Nodes /\ pass' = "1 status"
    BY <1>3 DEF CollectFiles, TypeOK, FilesOK, ProcessesOK, MemoryOK
  <2> QED BY <1>3, <2>4, <2>6, <2>7 DEF CollectFiles, TypeOK, FilesOK, ProcessesOK, MemoryOK, files, processes, Passes
<1>4. CASE AutoSpawn
  <2>1. PICK S \in SUBSET Spawnable :
          /\ proc' = [n \in Nodes |-> IF n \in S THEN "child" ELSE proc[n]]
          /\ status' = [n \in Nodes |-> IF n \in S THEN "working" ELSE status[n]]
          /\ step' = [n \in Nodes |-> IF n \in S /\ ~Running(n) THEN "working" ELSE step[n]]
    BY <1>4 DEF AutoSpawn
  <2>2. /\ proc' \in [Nodes -> {"gone", "child", "orphan", "zombie"}]
        /\ status' \in [Nodes -> Statuses]
        /\ step' \in [Nodes -> {"working", "declared", "polling", "done"}]
    BY <2>1 DEF TypeOK, FilesOK, ProcessesOK, MemoryOK, Statuses
  <2>3. MemoryOK'
    BY <1>4, MemoryPassed DEF AutoSpawn, TypeOK, Passes
  <2> QED BY <1>4, <2>2, <2>3 DEF AutoSpawn, TypeOK, FilesOK, ProcessesOK
<1> QED BY <1>1, <1>2, <1>3, <1>4

LEMMA TypeEdges ==
  ASSUME TypeOK,
         FirstCycleCheck \/ MatchNewEdges \/ SecondCycleCheck \/ WriteTasks
  PROVE  TypeOK'
<1>1. CASE FirstCycleCheck
  <2>1. status' \in [Nodes -> Statuses]
    BY <1>1, MarkedType DEF FirstCycleCheck
  <2>2. route' \in [Keys -> Seen \union {None}]
    <3>1. /\ route' \in [Keys -> Nodes \union {None}]
          /\ \A k \in Keys : IF Declarers(k) = {} THEN route'[k] = None
                             ELSE route'[k] \in Declarers(k)
      BY <1>1 DEF FirstCycleCheck
    <3>2. \A k \in Keys : route'[k] \in Seen \union {None}
      BY <3>1 DEF Declarers
    <3> QED BY <3>1, <3>2
  <2> QED BY <1>1, <2>1, <2>2 DEF FirstCycleCheck, TypeOK, FilesOK, ProcessesOK, MemoryOK, processes, Passes, Seen
<1>2. CASE MatchNewEdges
  <2>1. newEdges' \subseteq [requester : Seen, provider : Seen, key : Keys]
    <3> SUFFICES ASSUME NEW e \in newEdges'
                 PROVE  e \in [requester : Seen, provider : Seen, key : Keys]
      OBVIOUS
    <3>1. e \in Edge /\ e.requester \in Requesters /\ e.provider = route[e.key]
      BY <1>2 DEF MatchNewEdges
    <3>2. e.provider \in Nodes /\ e.key \in Keys
      BY <3>1 DEF Edge
    <3>3. e.provider \in Seen
      BY <3>1, <3>2, DepAssumption DEF TypeOK, FilesOK, ProcessesOK, MemoryOK
    <3> QED BY <3>1, <3>2, <3>3 DEF Edge, Requesters
  <2>2. escalated' \subseteq [key : Keys, requester : Nodes, provider : Nodes \union {None},
                              status : {"pending", "matched"}]
    BY <1>2 DEF MatchNewEdges, TypeOK, FilesOK, ProcessesOK, MemoryOK, NewEntries, Requesters, Seen
  <2> QED BY <1>2, <2>1, <2>2 DEF MatchNewEdges, TypeOK, FilesOK, ProcessesOK, MemoryOK, processes, Passes, Seen
<1>3. CASE SecondCycleCheck
  <2>1. status' \in [Nodes -> Statuses] /\ newEdges' \subseteq newEdges
    BY <1>3, MarkedType DEF SecondCycleCheck
  <2> QED BY <1>3, <2>1 DEF SecondCycleCheck, TypeOK, FilesOK, ProcessesOK, MemoryOK, processes, Passes, Seen
<1>4. CASE WriteTasks
  <2>1. tasks' \in [Nodes -> SUBSET (Keys \X Nodes)]
    <3> DEFINE new(n) == {<<e.key, n>> : e \in {d \in newEdges : d.provider = n}}
    <3>1. tasks' = [n \in Nodes |-> IF new(n) = {} THEN tasks[n] ELSE snap[n].tasks \union new(n)]
      BY <1>4 DEF WriteTasks
    <3>2. ASSUME NEW n \in Nodes
          PROVE  (IF new(n) = {} THEN tasks[n] ELSE snap[n].tasks \union new(n))
                   \in SUBSET (Keys \X Nodes)
      <4>0. \A t \in new(n) : \E e \in newEdges : e.provider = n /\ t = <<e.key, n>>
        OBVIOUS
      <4>1. new(n) \subseteq Keys \X Nodes
        <5> SUFFICES ASSUME NEW t \in new(n) PROVE t \in Keys \X Nodes
          OBVIOUS
        <5>1. PICK e \in newEdges : t = <<e.key, n>>
          BY <4>0
        <5>2. e.key \in Keys
          BY DEF TypeOK, MemoryOK
        <5> QED BY <5>1, <5>2
      <4>2. CASE new(n) # {}
        <5>0. PICK e \in newEdges : e.provider = n
          BY <4>0, <4>2
        <5>1. n \in Seen
          BY <5>0 DEF TypeOK, MemoryOK
        <5>2. snap[n].tasks \subseteq Keys \X Nodes
          BY <5>1, SeenType DEF Snaps
        <5> QED BY <4>1, <4>2, <5>2
      <4>3. CASE new(n) = {}
        BY <4>3 DEF TypeOK, FilesOK, ProcessesOK, MemoryOK
      <4> QED BY <4>2, <4>3
    <3> HIDE DEF new
    <3> QED BY <3>1, <3>2
  <2> QED BY <1>4, <2>1 DEF WriteTasks, TypeOK, FilesOK, ProcessesOK, MemoryOK, processes, Passes, Seen
<1> QED BY <1>1, <1>2, <1>3, <1>4

LEMMA TypeValues ==
  ASSUME TypeOK,
         TransferResolved \/ DependencyChain \/ ValueChange \/ NotifyInbox
  PROVE  TypeOK'
<1>1. CASE TransferResolved
  <2>1. resolved' \in [Nodes -> [Keys -> Values]]
    <3> DEFINE got(n) == IF n \in Requesters THEN {k \in Unresolved(n) : Offered(k) # Absent} ELSE {}
               written(n) == [k \in Keys |-> IF k \in got(n) THEN Offered(k) ELSE snap[n].resolved[k]]
    <3>1. resolved' = [n \in Nodes |-> IF got(n) = {} THEN resolved[n] ELSE written(n)]
      BY <1>1 DEF TransferResolved
    <3>2. ASSUME NEW n \in Nodes
          PROVE  (IF got(n) = {} THEN resolved[n] ELSE written(n)) \in [Keys -> Values]
      <4>1. CASE got(n) = {}
        BY <4>1 DEF TypeOK, FilesOK, ProcessesOK, MemoryOK
      <4>2. CASE got(n) # {}
        <5>1. n \in Seen
          BY <4>2 DEF Requesters
        <5> HIDE DEF got
        <5> QED BY <4>2, <5>1, ReplacedType
      <4> QED BY <4>1, <4>2
    <3> HIDE DEF got, written
    <3> QED BY <3>1, <3>2
  <2> QED BY <1>1, <2>1 DEF TransferResolved, TypeOK, FilesOK, ProcessesOK, MemoryOK, processes, Passes, Seen
<1>2. CASE DependencyChain
  <2>1. status' \in [Nodes -> Statuses]
    BY <1>2, MarkedType DEF DependencyChain
  <2> QED BY <1>2, <2>1 DEF DependencyChain, TypeOK, FilesOK, ProcessesOK, MemoryOK, processes, Passes, Seen
<1>3. CASE ValueChange
  <2> DEFINE changed == {n \in Seen : Raised(n) # {}}
             raisedOf(n) == [k \in Keys |-> IF k \in Raised(n) THEN Offered(k)
                                            ELSE snap[n].resolved[k]]
             new(n) == [snap[n] EXCEPT !.resolved = raisedOf(n)]
             told(n) == {[to |-> n, key |-> k, old |-> snap[n].resolved[k].seq,
                          new |-> Offered(k).seq] : k \in Raised(n)}
  <2>1. /\ resolved' = [n \in Nodes |-> IF n \in changed THEN raisedOf(n) ELSE resolved[n]]
        /\ snap' = [n \in Nodes |-> IF n \in changed THEN new(n) ELSE snap[n]]
        /\ notify' = UNION {told(n) : n \in changed}
    BY <1>3 DEF ValueChange
  <2>2. ASSUME NEW n \in Seen
        PROVE  raisedOf(n) \in [Keys -> Values]
    BY ReplacedType
  <2>3. ASSUME NEW n \in Seen
        PROVE  new(n) \in Snaps
    BY <2>2, SeenType DEF Snaps
  <2>4. ASSUME NEW n \in Seen
        PROVE  told(n) \subseteq [to : Nodes, key : Keys, old : Nat, new : Nat]
    <3>1. n \in Nodes /\ snap[n].resolved \in [Keys -> Values]
      BY SeenType DEF Snaps
    <3> QED BY <3>1, OfferedType DEF Raised, Values
  <2>5. changed \subseteq Seen
    OBVIOUS
  <2> HIDE DEF changed, raisedOf, new, told
  <2>6. resolved' \in [Nodes -> [Keys -> Values]]
    BY <2>1, <2>2, <2>5 DEF TypeOK, FilesOK, ProcessesOK, MemoryOK
  <2>7. snap' \in [Nodes -> Snaps \union {NoSnap}]
    BY <2>1, <2>3, <2>5 DEF TypeOK, FilesOK, ProcessesOK, MemoryOK
  <2>8. Seen' = Seen
    BY <2>1, <2>3, <2>5, SnapIsThere DEF Seen
  <2>9. notify' \subseteq [to : Nodes, key : Keys, old : Nat, new : Nat]
    BY <2>1, <2>4, <2>5
  <2> QED BY <1>3, <2>6, <2>7, <2>8, <2>9 DEF ValueChange, TypeOK, FilesOK, ProcessesOK, MemoryOK, processes, Passes
<1>4. CASE NotifyInbox
  BY <1>4 DEF NotifyInbox, TypeOK, FilesOK, ProcessesOK, MemoryOK, processes, Passes, Seen
<1> QED BY <1>1, <1>2, <1>3, <1>4

LEMMA TypeEscalated ==
  ASSUME TypeOK, CrossLayer
  PROVE  TypeOK'
<1> DEFINE open == {e \in escalated : e.status = "pending"}
           done == {e \in escalated : Settled(e)}
           doneFor(n) == {e \in done : e.requester = n /\ n \in Seen}
           matched(e, p) == [e EXCEPT !.provider = p, !.status = "matched"]
           handed(n, e) == [snap[n].resolved EXCEPT ![e.key] =
                              [from |-> e.provider, seq |-> snap[e.provider].provides[e.key]]]
<1>1. PICK found \in [open -> Nodes \union {None}], last \in [Nodes -> done \union {None}] :
        /\ \A n \in Nodes : IF doneFor(n) = {} THEN last[n] = None ELSE last[n] \in doneFor(n)
        /\ tasks' = [n \in Nodes |->
             tasks[n] \union {<<e.key, e.requester>> : e \in {d \in open : found[d] = n}}]
        /\ escalated' = {IF e \in open /\ found[e] # None THEN matched(e, found[e]) ELSE e :
                           e \in escalated \ done}
        /\ resolved' = [n \in Nodes |-> IF last[n] = None THEN resolved[n] ELSE handed(n, last[n])]
  BY DEF CrossLayer
<1>2. ASSUME NEW e \in escalated
      PROVE  e \in [key : Keys, requester : Nodes, provider : Nodes \union {None},
                    status : {"pending", "matched"}]
  BY DEF TypeOK, FilesOK
<1>3. tasks' \in [Nodes -> SUBSET (Keys \X Nodes)]
  <2> DEFINE new(n) == {<<e.key, e.requester>> : e \in {d \in open : found[d] = n}}
  <2>1. ASSUME NEW n \in Nodes
        PROVE  tasks[n] \union new(n) \in SUBSET (Keys \X Nodes)
    <3>1. new(n) \subseteq Keys \X Nodes
      BY <1>2
    <3> QED BY <3>1 DEF TypeOK, FilesOK
  <2>2. tasks' = [n \in Nodes |-> tasks[n] \union new(n)]
    BY <1>1
  <2> HIDE DEF new
  <2> QED BY <2>1, <2>2
<1>4. escalated' \subseteq [key : Keys, requester : Nodes, provider : Nodes \union {None},
                            status : {"pending", "matched"}]
  <2>1. ASSUME NEW e \in escalated, e \in open, found[e] # None
        PROVE  matched(e, found[e]) \in [key : Keys, requester : Nodes,
                                         provider : Nodes \union {None},
                                         status : {"pending", "matched"}]
    BY <1>2, <2>1
  <2> HIDE DEF matched, open, done
  <2> SUFFICES ASSUME NEW d \in escalated'
               PROVE  d \in [key : Keys, requester : Nodes, provider : Nodes \union {None},
                             status : {"pending", "matched"}]
    OBVIOUS
  <2>2. PICK e \in escalated \ done :
          d = IF e \in open /\ found[e] # None THEN matched(e, found[e]) ELSE e
    BY <1>1
  <2>3. CASE e \in open /\ found[e] # None
    BY <2>1, <2>2, <2>3
  <2>4. CASE ~(e \in open /\ found[e] # None)
    BY <1>2, <2>2, <2>4
  <2> QED BY <2>3, <2>4
<1>5. resolved' \in [Nodes -> [Keys -> Values]]
  <2>1. ASSUME NEW n \in Nodes, last[n] # None
        PROVE  handed(n, last[n]) \in [Keys -> Values]
    <3>1. last[n] \in doneFor(n)
      BY <1>1, <2>1
    <3>2. n \in Seen /\ last[n] \in escalated /\ Settled(last[n])
      BY <3>1
    <3>3. last[n].key \in Keys /\ last[n].provider \in Seen
      BY <1>2, <3>2 DEF Settled
    <3>4. snap[n].resolved \in [Keys -> Values]
      BY <3>2, SeenType DEF Snaps
    <3>5. last[n].provider \in Nodes /\ snap[last[n].provider].provides[last[n].key] \in Nat
      BY <3>3, SeenType DEF Snaps
    <3> QED BY <3>3, <3>4, <3>5 DEF Values
  <2> HIDE DEF handed, done, doneFor
  <2> QED BY <1>1, <2>1 DEF TypeOK, FilesOK
<1>6. Forget /\ pass' = "start" /\ UNCHANGED <<status, needs, provides, inbox, processes>>
  BY DEF CrossLayer
<1>7. MemoryOK'
  BY <1>6, ForgetType DEF MemoryOK, Passes
<1> QED BY <1>3, <1>4, <1>5, <1>6, <1>7 DEF TypeOK, FilesOK, ProcessesOK, processes

LEMMA TypeFailure ==
  ASSUME TypeOK, OrchestratorCrash \/ CycleFails
  PROVE  TypeOK'
<1>1. MemoryOK'
  BY ForgetType DEF OrchestratorCrash, CycleFails, MemoryOK, Passes
<1>2. CASE OrchestratorCrash
  <2>1. proc' \in [Nodes -> {"gone", "child", "orphan", "zombie"}]
    BY <1>2 DEF OrchestratorCrash, TypeOK, ProcessesOK
  <2> QED BY <1>1, <1>2, <2>1 DEF OrchestratorCrash, TypeOK, FilesOK, ProcessesOK, files
<1>3. CASE CycleFails
  <2>1. FilesOK'
    BY <1>3 DEF CycleFails, TypeOK, FilesOK, files
  <2>2. crashes' = crashes + 1 /\ proc' = proc /\ step' = step /\ rounds' = rounds
    BY <1>3 DEF CycleFails
  <2>3. crashes' \in Nat
    BY <2>2 DEF TypeOK, ProcessesOK
  <2>4. ProcessesOK'
    BY <2>2, <2>3 DEF TypeOK, ProcessesOK
  <2> QED BY <1>1, <2>1, <2>4 DEF TypeOK
<1> QED BY <1>2, <1>3

LEMMA TypeStep ==
  ASSUME TypeOK, [Next]_vars
  PROVE  TypeOK'
<1>1. CASE Cycle
  BY <1>1, TypeCollect, TypeEdges, TypeValues, TypeEscalated DEF Cycle
<1>2. CASE CycleFails \/ OrchestratorCrash
  BY <1>2, TypeFailure
<1>3. CASE \E n \in Nodes : NodeStep(n)
  BY <1>3, TypeNode
<1>4. CASE UNCHANGED vars
  <2>1. MemoryOK'
    BY <1>4, MemoryKept DEF vars, TypeOK
  <2> QED BY <1>4, <2>1 DEF vars, files, processes, TypeOK, FilesOK, ProcessesOK
<1> QED BY <1>1, <1>2, <1>3, <1>4 DEF Next

\* Type correctness of the files, the processes and the orchestrator's memory,
\* for every set of nodes and keys, whoever crashes.
THEOREM DepTypeCorrect == Spec => []TypeOK
BY TypeInit, TypeStep, PTL DEF Spec
===============================================================================
