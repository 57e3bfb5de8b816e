--------------------------- MODULE DepSafetyProofs ---------------------------
(***************************************************************************)
(* The safety properties of DepResolution, for every set of nodes and      *)
(* keys, with their inductive invariants.                                  *)
(***************************************************************************)
EXTENDS DepResolutionProofs, FiniteSetTheorems

-------------------------------------------------------------------------------
\* The inductive invariant behind what resolved.toml and the inbox hold.

\* The values of a key that may be handed out: published by a declarer, and no
\* newer than its snapshot, if there is one.
Earned(k) ==
  {v \in Values : v.seq > 0 => /\ v.from \in Global(k)
                               /\ v.seq <= provides[v.from][k]
                               /\ v.from \in Seen => v.seq <= snap[v.from].provides[k]}

ValuesEarned ==
  \A n \in Nodes, k \in Keys :
    /\ resolved[n][k] \in Earned(k)
    /\ n \in Seen => snap[n].resolved[k] \in Earned(k)

SnapBehind == \A n \in Seen, k \in Keys : snap[n].provides[k] <= provides[n][k]

RouteDeclares == \A k \in Keys : route[k] # None => route[k] \in Global(k)

MatchDeclares == \A e \in escalated : e.status = "matched" => e.provider \in Global(e.key)

\* Both copies of a resolved value, the file and the snapshot Pass 8 and Pass 9
\* save over it, are at least what was announced or is about to be.
AnnouncedKept ==
  \A m \in inbox \union notify :
    SoleProvider(m.key) => /\ resolved[m.to][m.key].seq >= m.new
                           /\ m.to \in Seen => snap[m.to].resolved[m.key].seq >= m.new

\* What is about to be announced is newer than all that was.
NotifyNewer ==
  \A m \in notify, i \in inbox :
    SoleProvider(m.key) /\ i.to = m.to /\ i.key = m.key => i.new < m.new

ValueInv == ValuesEarned /\ SnapBehind /\ RouteDeclares /\ MatchDeclares
            /\ AnnouncedKept /\ NotifyNewer

\* The inductive invariant behind BlockedHasNeeds: needs are written before the
\* status, and never taken back.
Asked ==
  /\ \A n \in Nodes : status[n] = "blocked" \/ step[n] \in {"declared", "polling"}
                        => needs[n] # {}
  /\ pass = "1 files" /\ peek.status = "blocked" => needs[peek.node] # {}
  /\ BlockedHasNeeds

-------------------------------------------------------------------------------
\* Values once earned stay earned: published numbers only rise, and a node is
\* read after the values handed out in its name were published.
LEMMA EarnedStays ==
  ASSUME TypeOK, TypeOK', NEW k \in Keys,
         \A n \in Nodes : provides[n][k] <= provides'[n][k],
         \A n \in Seen' : \/ snap'[n].provides[k] = provides[n][k]
                          \/ n \in Seen /\ snap'[n].provides[k] = snap[n].provides[k]
  PROVE  Earned(k) \subseteq Earned(k)'
<1> SUFFICES ASSUME NEW v \in Earned(k), v.seq > 0
             PROVE  /\ v.from \in Global(k)
                    /\ v.seq <= provides'[v.from][k]
                    /\ v.from \in Seen' => v.seq <= snap'[v.from].provides[k]
  BY DEF Earned, Global
<1>1. /\ v \in Values
      /\ v.from \in Global(k)
      /\ v.seq <= provides[v.from][k]
      /\ v.from \in Seen => v.seq <= snap[v.from].provides[k]
  BY DEF Earned
<1>2. v.from \in Nodes /\ v.seq \in Nat
  BY <1>1 DEF Global, Values
<1>3. provides[v.from][k] \in Nat /\ provides'[v.from][k] \in Nat
  BY <1>2 DEF TypeOK, FilesOK
<1>4. v.seq <= provides'[v.from][k]
  BY <1>1, <1>2, <1>3
<1>5. ASSUME v.from \in Seen'
      PROVE  v.seq <= snap'[v.from].provides[k]
  BY <1>1, <1>5
<1> QED BY <1>1, <1>4, <1>5

LEMMA ValueInit == Init => ValueInv
<1> SUFFICES ASSUME Init PROVE ValueInv
  OBVIOUS
<1>1. Seen = {}
  BY DEF Init, Seen
<1>2. \A k \in Keys : Absent \in Earned(k)
  BY DEF Absent, Earned, Values
<1>3. ValuesEarned
  BY <1>1, <1>2 DEF Init, ValuesEarned
<1> QED BY <1>1, <1>3 DEF Init, ValueInv, SnapBehind, RouteDeclares, MatchDeclares, AnnouncedKept, NotifyNewer

\* Steps that leave the values and the orchestrator's copies of them alone.
LEMMA ValueQuiet ==
  ASSUME TypeOK, TypeOK', ValueInv,
         UNCHANGED <<resolved, inbox, escalated, snap, route, notify>>,
         \A n \in Nodes, k \in Keys : provides[n][k] <= provides'[n][k]
  PROVE  ValueInv'
<1>1. Seen' = Seen
  BY DEF Seen
<1>2. ASSUME NEW k \in Keys
      PROVE  Earned(k) \subseteq Earned(k)'
  BY <1>1, EarnedStays
<1>3. ValuesEarned'
  BY <1>1, <1>2 DEF ValueInv, ValuesEarned
<1>4. SnapBehind'
  <2> SUFFICES ASSUME NEW n \in Seen, NEW k \in Keys
               PROVE  snap[n].provides[k] <= provides'[n][k]
    BY <1>1 DEF SnapBehind
  <2>1. n \in Nodes /\ snap[n].provides[k] \in Nat
    BY SeenType DEF Snaps
  <2>2. provides[n][k] \in Nat /\ provides'[n][k] \in Nat
    BY <2>1 DEF TypeOK, FilesOK
  <2>3. snap[n].provides[k] <= provides[n][k] /\ provides[n][k] <= provides'[n][k]
    BY <2>1 DEF ValueInv, SnapBehind
  <2> QED BY <2>1, <2>2, <2>3
<1> QED BY <1>1, <1>3, <1>4 DEF ValueInv, RouteDeclares, MatchDeclares, AnnouncedKept, NotifyNewer, Global, SoleProvider

\* A new cycle starts from the files.
LEMMA ValueForgotten ==
  ASSUME TypeOK, TypeOK', ValueInv, Forget,
         UNCHANGED <<resolved, provides, inbox, escalated>>
  PROVE  ValueInv'
<1>1. Seen' = {} /\ notify' = {}
  BY DEF Seen, Forget
<1>2. ASSUME NEW k \in Keys
      PROVE  Earned(k) \subseteq Earned(k)'
  <2>1. \A n \in Nodes : provides[n][k] <= provides'[n][k]
    BY DEF TypeOK, FilesOK
  <2> QED BY <1>1, <2>1, EarnedStays
<1>3. ValuesEarned'
  BY <1>1, <1>2 DEF ValueInv, ValuesEarned
<1>4. RouteDeclares'
  BY DEF Forget, RouteDeclares
<1> QED BY <1>1, <1>3, <1>4 DEF ValueInv, SnapBehind, MatchDeclares, AnnouncedKept, NotifyNewer, Global, SoleProvider

LEMMA ValueNode ==
  ASSUME TypeOK, TypeOK', ValueInv, NEW n \in Nodes, NodeStep(n)
  PROVE  ValueInv'
<1>1. UNCHANGED <<resolved, inbox, escalated, snap, route, notify>>
  BY DEF NodeStep, DeclareNeeds, BecomeBlocked, Resume, Publish, Deliver, Exit, memory, files
<1>2. ASSUME NEW m \in Nodes, NEW k \in Keys
      PROVE  provides[m][k] <= provides'[m][k]
  <2>1. provides[m][k] \in Nat
    BY DEF TypeOK, FilesOK
  <2>2. CASE UNCHANGED provides
    BY <2>1, <2>2
  <2>3. CASE Publish(n)
    <3>1. PICK j \in Declared[n] : provides' = [provides EXCEPT ![n][j] = @ + 1]
      BY <2>3 DEF Publish
    <3>2. provides'[m][k] = provides[m][k] \/ provides'[m][k] = provides[m][k] + 1
      BY <3>1 DEF TypeOK, FilesOK
    <3> QED BY <2>1, <3>2
  <2> QED
    BY <2>2, <2>3 DEF NodeStep, DeclareNeeds, BecomeBlocked, Resume, Deliver, Exit, files
<1> QED BY <1>1, <1>2, ValueQuiet

\* Pass 1 takes copies: of values that are earned, of numbers that are published.
LEMMA ValueCollect ==
  ASSUME TypeOK, TypeOK', ValueInv, CollectFiles
  PROVE  ValueInv'
<1> DEFINE n == peek.node
           s == [status |-> peek.status, needs |-> needs[n], provides |-> provides[n],
                 resolved |-> resolved[n], tasks |-> tasks[n]]
<1>1. /\ snap' = [snap EXCEPT ![n] = s]
      /\ UNCHANGED <<provides, resolved, inbox, escalated, route, notify>>
  BY DEF CollectFiles, files
<1>2. n \in Nodes
  BY DEF CollectFiles, TypeOK, MemoryOK
<1>3. /\ snap'[n].provides = provides[n] /\ snap'[n].resolved = resolved[n]
      /\ \A m \in Nodes \ {n} : snap'[m] = snap[m]
  BY <1>1, <1>2 DEF TypeOK, MemoryOK
<1> HIDE DEF n
<1>4. \A m \in Seen' : m = n \/ (m \in Seen /\ snap'[m] = snap[m])
  BY <1>3 DEF Seen
<1>5. ASSUME NEW k \in Keys
      PROVE  Earned(k) \subseteq Earned(k)'
  <2>1. \A m \in Nodes : provides[m][k] <= provides'[m][k]
    BY <1>1 DEF TypeOK, FilesOK
  <2>2. \A m \in Seen' : \/ snap'[m].provides[k] = provides[m][k]
                         \/ m \in Seen /\ snap'[m].provides[k] = snap[m].provides[k]
    BY <1>3, <1>4
  <2> QED BY <2>1, <2>2, EarnedStays
<1>6. ValuesEarned'
  BY <1>1, <1>3, <1>4, <1>5 DEF ValueInv, ValuesEarned
<1>7. SnapBehind'
  <2> SUFFICES ASSUME NEW m \in Seen', NEW k \in Keys
               PROVE  snap'[m].provides[k] <= provides[m][k]
    BY <1>1 DEF SnapBehind
  <2>1. CASE m = n
    BY <1>2, <1>3, <2>1 DEF TypeOK, FilesOK
  <2>2. CASE m # n
    BY <1>3, <1>4, <2>2 DEF ValueInv, SnapBehind
  <2> QED BY <2>1, <2>2
<1>8. AnnouncedKept'
  BY <1>1, <1>3, <1>4 DEF ValueInv, AnnouncedKept, SoleProvider, Global
<1> QED BY <1>1, <1>6, <1>7, <1>8 DEF ValueInv, RouteDeclares, MatchDeclares, NotifyNewer, Global, SoleProvider

LEMMA ValueRoute ==
  ASSUME TypeOK, TypeOK', ValueInv, FirstCycleCheck
  PROVE  ValueInv'
<1>1. UNCHANGED <<resolved, provides, inbox, escalated, snap, notify>>
  BY DEF FirstCycleCheck
<1>2. Seen' = Seen
  BY <1>1 DEF Seen
<1>3. RouteDeclares'
  <2>1. \A k \in Keys : IF Declarers(k) = {} THEN route'[k] = None ELSE route'[k] \in Declarers(k)
    BY DEF FirstCycleCheck
  <2> QED BY <2>1 DEF RouteDeclares, Declarers, Global, Seen
<1> QED BY <1>1, <1>2, <1>3 DEF ValueInv, ValuesEarned, Earned, SnapBehind, MatchDeclares, AnnouncedKept, NotifyNewer, Global, SoleProvider

LEMMA ValueMatch ==
  ASSUME TypeOK, TypeOK', ValueInv, MatchNewEdges
  PROVE  ValueInv'
<1>1. UNCHANGED <<resolved, provides, inbox, snap, route, notify>>
  BY DEF MatchNewEdges, processes
<1>2. Seen' = Seen
  BY <1>1 DEF Seen
<1>3. MatchDeclares'
  <2>1. \A e \in escalated' : e \in escalated \/ e.status = "pending"
    BY DEF MatchNewEdges, NewEntries
  <2> QED BY <2>1 DEF ValueInv, MatchDeclares, Global
<1> QED BY <1>1, <1>2, <1>3 DEF ValueInv, ValuesEarned, Earned, SnapBehind, RouteDeclares, AnnouncedKept, NotifyNewer, Global, SoleProvider

\* What find_provider offers is earned: its provider declares the key.
LEMMA OfferedEarned ==
  ASSUME TypeOK, ValueInv, NEW k \in Keys
  PROVE  Offered(k) \in Earned(k)
<1>1. CASE route[k] # None /\ snap[route[k]].provides[k] > 0
  <2>1. route[k] \in Seen /\ route[k] \in Global(k)
    BY <1>1 DEF TypeOK, MemoryOK, ValueInv, RouteDeclares
  <2>2. snap[route[k]].provides[k] \in Nat
    BY <2>1, SeenType DEF Snaps
  <2>3. snap[route[k]].provides[k] <= provides[route[k]][k]
    BY <2>1 DEF ValueInv, SnapBehind
  <2> QED BY <1>1, <2>1, <2>2, <2>3, OfferedType DEF Offered, Earned
<1>2. CASE ~(route[k] # None /\ snap[route[k]].provides[k] > 0)
  BY <1>2, OfferedType DEF Offered, Absent, Earned
<1> QED BY <1>1, <1>2

\* Pass 7 saves the snapshot's values with what was missing: a key that is
\* missing in the snapshot was never announced with a value.
LEMMA ValueTransfer ==
  ASSUME TypeOK, TypeOK', ValueInv, TransferResolved
  PROVE  ValueInv'
<1> DEFINE got(n) == IF n \in Requesters THEN {k \in Unresolved(n) : Offered(k) # Absent} ELSE {}
           written(n) == [k \in Keys |-> IF k \in got(n) THEN Offered(k) ELSE snap[n].resolved[k]]
<1>1. /\ resolved' = [n \in Nodes |-> IF got(n) = {} THEN resolved[n] ELSE written(n)]
      /\ UNCHANGED <<provides, inbox, escalated, snap, route, notify>>
  BY DEF TransferResolved, processes
<1>2. Seen' = Seen
  BY <1>1 DEF Seen
<1>3. \A n \in Nodes : got(n) # {} => n \in Seen
  BY DEF Requesters
<1>4. ASSUME NEW n \in Nodes, NEW k \in Keys, k \in got(n)
      PROVE  snap[n].resolved[k].seq = 0
  <2>1. n \in Seen /\ ~(snap[n].resolved[k].seq > 0)
    BY <1>4 DEF Requesters, Unresolved, Has
  <2>2. snap[n].resolved[k].seq \in Nat
    BY <2>1, SeenType DEF Snaps, Values
  <2> QED BY <2>1, <2>2
<1> HIDE DEF got
<1>5. ASSUME NEW n \in Nodes, NEW k \in Keys
      PROVE  resolved'[n][k] \in Earned(k)
  BY <1>1, <1>3, OfferedEarned DEF ValueInv, ValuesEarned
<1>6. ValuesEarned'
  BY <1>1, <1>2, <1>5 DEF ValueInv, ValuesEarned, Earned, Global
<1>7. AnnouncedKept'
  <2> SUFFICES ASSUME NEW m \in inbox \union notify, SoleProvider(m.key)
               PROVE  resolved'[m.to][m.key].seq >= m.new
    BY <1>1, <1>2 DEF ValueInv, AnnouncedKept, SoleProvider, Global
  <2>1. m.to \in Nodes /\ m.key \in Keys /\ m.new \in Nat
    BY DEF TypeOK, FilesOK, MemoryOK
  <2>2. CASE got(m.to) = {}
    BY <1>1, <2>1, <2>2 DEF ValueInv, AnnouncedKept
  <2>3. CASE got(m.to) # {}
    <3>1. m.to \in Seen /\ snap[m.to].resolved[m.key].seq >= m.new
      BY <1>3, <2>1, <2>3 DEF ValueInv, AnnouncedKept
    <3>2. CASE m.key \in got(m.to)
      <4>1. m.new = 0
        BY <1>4, <2>1, <3>1, <3>2
      <4>2. resolved'[m.to][m.key].seq \in Nat
        BY <2>1 DEF TypeOK, FilesOK, Values
      <4> QED BY <4>1, <4>2
    <3>3. CASE m.key \notin got(m.to)
      BY <1>1, <2>1, <2>3, <3>1, <3>3
    <3> QED BY <3>2, <3>3
  <2> QED BY <2>2, <2>3
<1> QED BY <1>1, <1>2, <1>6, <1>7 DEF ValueInv, SnapBehind, RouteDeclares, MatchDeclares, NotifyNewer, Global, SoleProvider

\* Pass 8 announces what it has raised: in the file, in the snapshot, above
\* all that was announced before.
LEMMA ValueRaise ==
  ASSUME TypeOK, TypeOK', ValueInv, ValueChange
  PROVE  ValueInv'
<1> DEFINE changed == {n \in Seen : Raised(n) # {}}
           raisedOf(n) == [k \in Keys |-> IF k \in Raised(n) THEN Offered(k)
                                          ELSE snap[n].resolved[k]]
           new(n) == [snap[n] EXCEPT !.resolved = raisedOf(n)]
           told(n) == {[to |-> n, key |-> k, old |-> snap[n].resolved[k].seq,
                        new |-> Offered(k).seq] : k \in Raised(n)}
<1>1. /\ resolved' = [n \in Nodes |-> IF n \in changed THEN raisedOf(n) ELSE resolved[n]]
      /\ snap' = [n \in Nodes |-> IF n \in changed THEN new(n) ELSE snap[n]]
      /\ notify' = UNION {told(n) : n \in changed}
      /\ UNCHANGED <<provides, inbox, escalated, route>>
  BY DEF ValueChange, processes
<1>2. ASSUME NEW n \in changed
      PROVE  /\ n \in Seen /\ n \in Nodes /\ new(n) \in Snaps
             /\ new(n).resolved = raisedOf(n) /\ new(n).provides = snap[n].provides
  <2>1. n \in Nodes /\ snap[n] \in Snaps
    BY SeenType
  <2>2. raisedOf(n) \in [Keys -> Values]
    BY ReplacedType
  <2> HIDE DEF raisedOf
  <2> QED BY <2>1, <2>2 DEF Snaps
<1>3. ASSUME NEW n \in changed, NEW k \in Keys
      PROVE  /\ raisedOf(n)[k] \in Earned(k)
             /\ k \in Raised(n) => raisedOf(n)[k].seq > snap[n].resolved[k].seq
             /\ raisedOf(n)[k].seq >= snap[n].resolved[k].seq
  <2>1. snap[n].resolved[k] \in Earned(k) /\ snap[n].resolved[k].seq \in Nat
    BY <1>2 DEF ValueInv, ValuesEarned, Earned, Values
  <2>2. Offered(k) \in Earned(k) /\ Offered(k).seq \in Nat
    BY OfferedEarned DEF Earned, Values
  <2>3. k \in Raised(n) => Offered(k).seq > snap[n].resolved[k].seq
    BY DEF Raised
  <2> QED BY <2>1, <2>2, <2>3
<1>4. ASSUME NEW m \in notify'
      PROVE  /\ m.to \in changed /\ m.key \in Keys /\ m.key \in Raised(m.to)
             /\ m.new = raisedOf(m.to)[m.key].seq
  <2>1. PICK n \in changed : m \in told(n)
    BY <1>1
  <2>2. PICK k \in Raised(n) :
          m = [to |-> n, key |-> k, old |-> snap[n].resolved[k].seq, new |-> Offered(k).seq]
    BY <2>1
  <2> QED BY <2>1, <2>2 DEF Raised
<1> HIDE DEF changed, raisedOf, new, told
<1>5. /\ \A n \in Nodes : n \in changed => resolved'[n] = raisedOf(n) /\ snap'[n].resolved = raisedOf(n)
      /\ \A n \in Nodes : n \notin changed => resolved'[n] = resolved[n] /\ snap'[n] = snap[n]
      /\ \A n \in Nodes : snap'[n] # NoSnap => n \in Seen /\ snap'[n].provides = snap[n].provides
  BY <1>1, <1>2 DEF Seen
<1>6. Seen' = Seen
  BY <1>1, <1>2, <1>5, SnapIsThere DEF Seen
<1>7. ASSUME NEW k \in Keys
      PROVE  Earned(k) \subseteq Earned(k)'
  <2>1. \A n \in Nodes : provides[n][k] <= provides'[n][k]
    BY <1>1 DEF TypeOK, FilesOK
  <2>2. \A n \in Seen' : n \in Seen /\ snap'[n].provides[k] = snap[n].provides[k]
    BY <1>5 DEF Seen
  <2> QED BY <2>1, <2>2, EarnedStays
<1>8. ValuesEarned'
  BY <1>3, <1>5, <1>6, <1>7 DEF ValueInv, ValuesEarned
<1>9. SnapBehind'
  BY <1>1, <1>5, <1>6 DEF ValueInv, SnapBehind, Seen
<1>10. AnnouncedKept'
  <2> SUFFICES ASSUME NEW m \in inbox \union notify', SoleProvider(m.key)
               PROVE  /\ resolved'[m.to][m.key].seq >= m.new
                      /\ m.to \in Seen => snap'[m.to].resolved[m.key].seq >= m.new
    BY <1>1, <1>6 DEF AnnouncedKept, SoleProvider, Global
  <2>1. CASE m \in notify'
    <3>1. m.to \in Nodes /\ m.new \in Nat
      BY <2>1 DEF TypeOK, MemoryOK
    <3> QED BY <1>4, <1>5, <2>1, <3>1
  <2>2. CASE m \in inbox
    <3>1. /\ m.to \in Nodes /\ m.key \in Keys /\ m.new \in Nat
          /\ resolved[m.to][m.key].seq >= m.new
          /\ m.to \in Seen => snap[m.to].resolved[m.key].seq >= m.new
      BY <2>2 DEF TypeOK, FilesOK, ValueInv, AnnouncedKept
    <3>2. CASE m.to \in changed
      <4>1. m.to \in Seen /\ snap[m.to].resolved[m.key].seq \in Nat
        BY <1>2, <3>1, <3>2, SeenType DEF Snaps, Values
      <4>2. resolved'[m.to][m.key].seq \in Nat
        BY <3>1 DEF TypeOK, FilesOK, Values
      <4> QED BY <1>3, <1>5, <3>1, <3>2, <4>1, <4>2
    <3>3. CASE m.to \notin changed
      BY <1>5, <3>1, <3>3
    <3> QED BY <3>2, <3>3
  <2> QED BY <2>1, <2>2
<1>11. NotifyNewer'
  <2> SUFFICES ASSUME NEW m \in notify', NEW i \in inbox,
                      SoleProvider(m.key), i.to = m.to, i.key = m.key
               PROVE  i.new < m.new
    BY <1>1 DEF NotifyNewer, SoleProvider, Global
  <2>1. m.to \in Seen /\ m.to \in Nodes /\ m.key \in Keys
        /\ m.new > snap[m.to].resolved[m.key].seq
    BY <1>2, <1>3, <1>4
  <2>2. snap[m.to].resolved[m.key].seq >= i.new
    BY <2>1 DEF ValueInv, AnnouncedKept
  <2>3. m.new \in Nat /\ i.new \in Nat /\ snap[m.to].resolved[m.key].seq \in Nat
    BY <2>1, SeenType DEF TypeOK, FilesOK, MemoryOK, Snaps, Values
  <2> QED BY <2>1, <2>2, <2>3
<1> QED BY <1>1, <1>8, <1>9, <1>10, <1>11 DEF ValueInv, RouteDeclares, MatchDeclares, Global

LEMMA ValueAnnounce ==
  ASSUME TypeOK, TypeOK', ValueInv, NotifyInbox
  PROVE  ValueInv'
<1>1. /\ inbox' = inbox \union notify /\ notify' = {}
      /\ UNCHANGED <<resolved, provides, escalated, snap, route>>
  BY DEF NotifyInbox, processes
<1>2. Seen' = Seen
  BY <1>1 DEF Seen
<1> QED BY <1>1, <1>2 DEF ValueInv, ValuesEarned, Earned, SnapBehind, RouteDeclares, MatchDeclares, AnnouncedKept, NotifyNewer, Global, SoleProvider

\* Pass 9 hands out what a delivered provider has in the snapshot.  When the
\* provider is the only one, that is at least what was announced.
LEMMA ValueCrossLayer ==
  ASSUME TypeOK, TypeOK', ValueInv, CrossLayer
  PROVE  ValueInv'
<1> DEFINE open == {e \in escalated : e.status = "pending"}
           done == {e \in escalated : Settled(e)}
           doneFor(n) == {e \in done : e.requester = n /\ n \in Seen}
           matched(e, p) == [e EXCEPT !.provider = p, !.status = "matched"]
           value(e) == [from |-> e.provider, seq |-> snap[e.provider].provides[e.key]]
           handed(n, e) == [snap[n].resolved EXCEPT ![e.key] = value(e)]
<1>1. PICK found \in [open -> Nodes \union {None}], last \in [Nodes -> done \union {None}] :
        /\ \A e \in open : IF Global(e.key) = {} THEN found[e] = None
                           ELSE found[e] \in Global(e.key)
        /\ \A n \in Nodes : IF doneFor(n) = {} THEN last[n] = None ELSE last[n] \in doneFor(n)
        /\ escalated' = {IF e \in open /\ found[e] # None THEN matched(e, found[e]) ELSE e :
                           e \in escalated \ done}
        /\ resolved' = [n \in Nodes |-> IF last[n] = None THEN resolved[n] ELSE handed(n, last[n])]
  BY DEF CrossLayer
<1>2. UNCHANGED <<provides, inbox>> /\ notify' = {} /\ Seen' = {} /\ RouteDeclares'
  BY DEF CrossLayer, Forget, Seen, RouteDeclares
<1>3. ASSUME NEW e \in escalated
      PROVE  /\ e \in [key : Keys, requester : Nodes, provider : Nodes \union {None},
                       status : {"pending", "matched"}]
             /\ e.status = "matched" => e.provider \in Global(e.key)
  BY DEF TypeOK, FilesOK, ValueInv, MatchDeclares
<1>4. ASSUME NEW n \in Nodes, last[n] # None
      PROVE  /\ n \in Seen /\ last[n] \in escalated /\ last[n].key \in Keys
             /\ last[n].provider \in Seen \intersect Global(last[n].key)
  <2>1. last[n] \in doneFor(n)
    BY <1>1, <1>4
  <2>2. n \in Seen /\ last[n] \in escalated /\ Settled(last[n])
    BY <2>1
  <2> QED BY <1>3, <2>2 DEF Settled
<1>5. ASSUME NEW n \in Nodes, last[n] # None
      PROVE  value(last[n]) \in Earned(last[n].key)
  <2> DEFINE e == last[n]
  <2>1. e.provider \in Seen /\ e.provider \in Global(e.key) /\ e.key \in Keys
    BY <1>4, <1>5
  <2>2. e.provider \in Nodes /\ snap[e.provider].provides[e.key] \in Nat
    BY <2>1, SeenType DEF Snaps
  <2>3. snap[e.provider].provides[e.key] <= provides[e.provider][e.key]
    BY <2>1 DEF ValueInv, SnapBehind
  <2> QED BY <2>1, <2>2, <2>3 DEF Earned, Values
<1>6. ASSUME NEW n \in Nodes, last[n] # None
      PROVE  /\ handed(n, last[n])[last[n].key] = value(last[n])
             /\ \A k \in Keys \ {last[n].key} : handed(n, last[n])[k] = snap[n].resolved[k]
  BY <1>4, <1>6, SeenType DEF Snaps
<1> HIDE DEF done, doneFor, value, handed
<1>7. ASSUME NEW n \in Nodes, NEW k \in Keys
      PROVE  resolved'[n][k] \in Earned(k)
  <2>1. CASE last[n] = None
    BY <1>1, <2>1 DEF ValueInv, ValuesEarned
  <2>2. CASE last[n] # None /\ last[n].key = k
    BY <1>1, <1>5, <1>6, <2>2
  <2>3. CASE last[n] # None /\ last[n].key # k
    BY <1>1, <1>4, <1>6, <2>3 DEF ValueInv, ValuesEarned
  <2> QED BY <2>1, <2>2, <2>3
<1>8. ValuesEarned'
  <2>1. ASSUME NEW k \in Keys
        PROVE  Earned(k) \subseteq Earned(k)'
    <3>1. \A n \in Nodes : provides[n][k] <= provides'[n][k]
      BY <1>2 DEF TypeOK, FilesOK
    <3> QED BY <1>2, <3>1, EarnedStays
  <2> QED BY <1>2, <1>7, <2>1 DEF ValuesEarned
<1>9. MatchDeclares'
  <2> SUFFICES ASSUME NEW d \in escalated', d.status = "matched"
               PROVE  d.provider \in Global(d.key)
    BY DEF MatchDeclares, Global
  <2>1. PICK e \in escalated \ done :
          d = IF e \in open /\ found[e] # None THEN matched(e, found[e]) ELSE e
    BY <1>1
  <2>2. CASE e \in open /\ found[e] # None
    <3>1. found[e] \in Global(e.key)
      BY <1>1, <2>2
    <3>2. d.provider = found[e] /\ d.key = e.key
      BY <1>3, <2>1, <2>2
    <3> QED BY <3>1, <3>2
  <2>3. CASE ~(e \in open /\ found[e] # None)
    BY <1>3, <2>1, <2>3
  <2> QED BY <2>2, <2>3
<1>10. AnnouncedKept'
  <2> SUFFICES ASSUME NEW m \in inbox, SoleProvider(m.key)
               PROVE  resolved'[m.to][m.key].seq >= m.new
    BY <1>2 DEF AnnouncedKept, SoleProvider, Global
  <2>1. /\ m.to \in Nodes /\ m.key \in Keys /\ m.new \in Nat
        /\ resolved[m.to][m.key].seq >= m.new
        /\ m.to \in Seen => snap[m.to].resolved[m.key].seq >= m.new
    BY DEF TypeOK, FilesOK, ValueInv, AnnouncedKept
  <2>2. CASE last[m.to] = None
    BY <1>1, <2>1, <2>2
  <2>3. CASE last[m.to] # None /\ last[m.to].key # m.key
    BY <1>1, <1>4, <1>6, <2>1, <2>3
  <2>4. CASE last[m.to] # None /\ last[m.to].key = m.key
    <3> DEFINE p == last[m.to].provider
               old == snap[m.to].resolved[m.key]
    <3>1. p \in Seen /\ p \in Global(m.key) /\ m.to \in Seen
      BY <1>4, <2>1, <2>4
    <3>2. resolved'[m.to][m.key].seq = snap[p].provides[m.key]
      <4>1. resolved'[m.to] = handed(m.to, last[m.to])
        BY <1>1, <2>1, <2>4
      <4>2. handed(m.to, last[m.to])[m.key] = value(last[m.to])
        BY <1>6, <2>1, <2>4
      <4>3. value(last[m.to]).seq = snap[p].provides[m.key]
        BY <2>4 DEF value
      <4> QED BY <4>1, <4>2, <4>3
    <3>3. old.seq \in Nat /\ old \in Earned(m.key) /\ snap[p].provides[m.key] \in Nat
      BY <2>1, <3>1, SeenType DEF Snaps, Values, ValueInv, ValuesEarned
    <3>4. old.seq > 0 => old.from = p
      BY <3>1, <3>3 DEF Earned, SoleProvider
    <3>5. old.seq > 0 => old.seq <= snap[p].provides[m.key]
      BY <3>1, <3>3, <3>4 DEF Earned
    <3> QED BY <2>1, <3>1, <3>2, <3>3, <3>5
  <2> QED BY <2>2, <2>3, <2>4
<1>11. SnapBehind' /\ NotifyNewer'
  BY <1>2 DEF SnapBehind, NotifyNewer
<1> QED BY <1>2, <1>8, <1>9, <1>10, <1>11 DEF ValueInv

LEMMA ValueStep ==
  ASSUME TypeOK, TypeOK', ValueInv, [Next]_vars
  PROVE  ValueInv'
<1>1. CASE \E n \in Nodes : NodeStep(n)
  BY <1>1, ValueNode
<1>2. CASE StartCycle \/ CycleFails \/ OrchestratorCrash
  BY <1>2, ValueForgotten DEF StartCycle, CycleFails, OrchestratorCrash, files
<1>3. CASE \/ CollectStatus \/ AutoSpawn \/ SecondCycleCheck \/ WriteTasks \/ DependencyChain
           \/ UNCHANGED vars
  <2>1. UNCHANGED <<resolved, provides, inbox, escalated, snap, route, notify>>
    BY <1>3 DEF CollectStatus, AutoSpawn, SecondCycleCheck, WriteTasks, DependencyChain,
                vars, files, memory, processes
  <2>2. \A n \in Nodes, k \in Keys : provides[n][k] <= provides'[n][k]
    BY <2>1 DEF TypeOK, FilesOK
  <2> QED BY <2>1, <2>2, ValueQuiet
<1> QED
  BY <1>1, <1>2, <1>3, ValueCollect, ValueRoute, ValueMatch, ValueTransfer, ValueRaise,
     ValueAnnounce, ValueCrossLayer DEF Next, Cycle

LEMMA ValueInvariant == Spec => [](TypeOK /\ ValueInv)
<1>1. Init => TypeOK /\ ValueInv
  BY TypeInit, ValueInit
<1>2. TypeOK /\ ValueInv /\ [Next]_vars => (TypeOK /\ ValueInv)'
  BY TypeStep, ValueStep
<1> QED BY <1>1, <1>2, PTL DEF Spec

-------------------------------------------------------------------------------
\* Every resolved value was published, under that number, by a node that
\* declares the key, for any number of providers and crashes.
THEOREM ProvenanceHolds == Spec => []ResolvedProvenance
<1>1. TypeOK /\ ValueInv => ResolvedProvenance
  BY DEF ValueInv, ValuesEarned, Earned, Global, ResolvedProvenance
<1> QED BY <1>1, ValueInvariant, PTL

\* A value_changed message never announces more than resolved.toml holds,
\* whatever Passes 7, 8 and 9 save over each other.
THEOREM InboxIsNotAhead == Spec => []InboxNotAhead
<1>1. TypeOK /\ ValueInv => InboxNotAhead
  BY DEF ValueInv, AnnouncedKept, InboxNotAhead
<1> QED BY <1>1, ValueInvariant, PTL

\* No change of value is announced twice, whenever the orchestrator is killed.
THEOREM AnnouncedOnce == Spec => []NotifiedOnce
<1>1. TypeOK /\ ValueInv => NotifiedOnce
  <2> SUFFICES ASSUME TypeOK, ValueInv, NEW m \in notify \intersect inbox, SoleProvider(m.key)
               PROVE  FALSE
    BY DEF NotifiedOnce
  <2>1. m.new < m.new /\ m.new \in Nat
    BY DEF ValueInv, NotifyNewer, TypeOK, MemoryOK
  <2> QED BY <2>1
<1> QED BY <1>1, ValueInvariant, PTL

-------------------------------------------------------------------------------
LEMMA AskedInit == Init => Asked
BY DEF Init, Asked, BlockedHasNeeds, Requesters, Seen

\* What the agents and Pass 1 do to needs, statuses and their copies.
LEMMA AskedNode ==
  ASSUME TypeOK, Asked, NEW n \in Nodes, NodeStep(n)
  PROVE  Asked'
<1>1. UNCHANGED <<pass, peek, snap>> /\ BlockedHasNeeds'
  BY DEF NodeStep, DeclareNeeds, BecomeBlocked, Resume, Publish, Deliver, Exit, memory,
         Asked, BlockedHasNeeds, Requesters, Seen
<1>2. CASE DeclareNeeds(n)
  <2>1. PICK ks \in (SUBSET MayNeed[n]) \ {{}} : needs' = [needs EXCEPT ![n] = ks]
    BY <1>2 DEF DeclareNeeds
  <2>2. needs'[n] # {} /\ \A m \in Nodes : m # n => needs'[m] = needs[m]
    <3>1. needs'[n] = ks /\ \A m \in Nodes : m # n => needs'[m] = needs[m]
      BY <2>1 DEF TypeOK, FilesOK
    <3> QED BY <3>1
  <2>3. \A m \in Nodes : m # n => step'[m] = step[m]
    BY <1>2 DEF DeclareNeeds, TypeOK, ProcessesOK
  <2>4. status' = status
    BY <1>2 DEF DeclareNeeds
  <2>5. pass = "1 files" => peek.node \in Nodes
    BY DEF TypeOK, MemoryOK
  <2> QED BY <1>1, <2>2, <2>3, <2>4, <2>5 DEF Asked
<1>3. CASE BecomeBlocked(n)
  BY <1>1, <1>3 DEF BecomeBlocked, Asked, TypeOK, FilesOK, ProcessesOK
<1>4. CASE Resume(n)
  BY <1>1, <1>4 DEF Resume, Asked, TypeOK, FilesOK, ProcessesOK
<1>5. CASE Publish(n)
  BY <1>1, <1>5 DEF Publish, Asked, processes
<1>6. CASE Deliver(n)
  BY <1>1, <1>6 DEF Deliver, Asked, TypeOK, FilesOK, ProcessesOK
<1>7. CASE Exit(n)
  BY <1>1, <1>7 DEF Exit, Asked, files
<1> QED BY <1>2, <1>3, <1>4, <1>5, <1>6, <1>7 DEF NodeStep

\* A step that blocks nobody and copies nothing.
LEMMA AskedQuiet ==
  ASSUME Asked, needs' = needs, pass' # "1 files",
         \A n \in Nodes : /\ status'[n] = "blocked" => status[n] = "blocked"
                          /\ step'[n] \in {"declared", "polling"} => step[n] \in {"declared", "polling"}
                          /\ snap'[n] = NoSnap
                             \/ /\ snap[n] # NoSnap
                                /\ snap'[n].status = snap[n].status /\ snap'[n].needs = snap[n].needs
  PROVE  Asked'
BY DEF Asked, BlockedHasNeeds, Requesters, Seen

LEMMA AskedCollect ==
  ASSUME TypeOK, Asked, CollectStatus \/ CollectFiles
  PROVE  Asked'
<1>1. CASE CollectStatus
  <2>1. UNCHANGED <<status, needs, step, snap>> /\ pass = "1 status"
    BY <1>1 DEF CollectStatus, files, processes
  <2>2. pass' = "1 files" /\ peek'.status = "blocked" => needs[peek'.node] # {}
    <3>1. PICK n \in todo :
            \/ peek' = [node |-> n, status |-> status[n]]
            \/ UNCHANGED <<peek, pass>>
      BY <1>1 DEF CollectStatus
    <3>2. n \in Nodes
      BY DEF TypeOK, MemoryOK
    <3>3. CASE peek' = [node |-> n, status |-> status[n]]
      <4>1. peek'.node = n /\ peek'.status = status[n]
        BY <3>3
      <4> QED BY <3>2, <4>1 DEF Asked
    <3>4. CASE UNCHANGED <<peek, pass>>
      BY <2>1, <3>4
    <3> QED BY <3>1, <3>3, <3>4
  <2> QED BY <2>1, <2>2 DEF Asked, BlockedHasNeeds, Requesters, Seen
<1>2. CASE CollectFiles
  <2> DEFINE n == peek.node
             s == [status |-> peek.status, needs |-> needs[n], provides |-> provides[n],
                   resolved |-> resolved[n], tasks |-> tasks[n]]
  <2>1. /\ pass = "1 files" /\ pass' = "1 status" /\ snap' = [snap EXCEPT ![n] = s]
        /\ UNCHANGED <<status, needs, step>>
    BY <1>2 DEF CollectFiles, files, processes
  <2>2. n \in Nodes
    BY <2>1 DEF TypeOK, MemoryOK
  <2>3. snap'[n].status = peek.status /\ snap'[n].needs = needs[n]
    BY <2>1, <2>2 DEF TypeOK, MemoryOK
  <2>4. \A m \in Nodes \ {n} : snap'[m] = snap[m]
    BY <2>1, <2>2 DEF TypeOK, MemoryOK
  <2> HIDE DEF n
  <2>5. BlockedHasNeeds'
    <3> SUFFICES ASSUME NEW m \in Nodes, snap'[m] # NoSnap, snap'[m].status = "blocked"
                 PROVE  snap'[m].needs # {}
      BY DEF BlockedHasNeeds, Requesters, Seen
    <3>1. CASE m = n
      BY <2>1, <2>3, <3>1 DEF Asked, n
    <3>2. CASE m # n
      BY <2>4, <3>2 DEF Asked, BlockedHasNeeds, Requesters, Seen
    <3> QED BY <3>1, <3>2
  <2> QED BY <2>1, <2>5 DEF Asked
<1> QED BY <1>1, <1>2

LEMMA AskedStep ==
  ASSUME TypeOK, TypeOK', Asked, [Next]_vars
  PROVE  Asked'
<1>1. CASE \E n \in Nodes : NodeStep(n)
  BY <1>1, AskedNode
<1>2. CASE CollectStatus \/ CollectFiles
  BY <1>2, AskedCollect
<1>3. CASE StartCycle \/ CycleFails \/ OrchestratorCrash \/ CrossLayer
  BY <1>3, AskedQuiet DEF StartCycle, CycleFails, OrchestratorCrash, CrossLayer, Forget, files, processes
<1>4. CASE AutoSpawn
  <2>1. \A n \in Nodes : /\ status'[n] = "blocked" => status[n] = "blocked"
                         /\ step'[n] \in {"declared", "polling"} => step[n] \in {"declared", "polling"}
    BY <1>4 DEF AutoSpawn
  <2> QED BY <1>4, <2>1, AskedQuiet DEF AutoSpawn
<1>5. CASE FirstCycleCheck \/ SecondCycleCheck \/ DependencyChain
  <2>1. \E dead : status' = Marked(dead)
    BY <1>5 DEF FirstCycleCheck, SecondCycleCheck, DependencyChain
  <2>2. \A n \in Nodes : status'[n] = "blocked" => status[n] = "blocked"
    BY <2>1 DEF Marked
  <2> QED BY <1>5, <2>2, AskedQuiet DEF FirstCycleCheck, SecondCycleCheck, DependencyChain, processes
<1>6. CASE MatchNewEdges \/ WriteTasks \/ TransferResolved \/ NotifyInbox
  BY <1>6, AskedQuiet DEF MatchNewEdges, WriteTasks, TransferResolved, NotifyInbox, processes
<1>7. CASE ValueChange
  <2>1. \A n \in Nodes : snap'[n] = snap[n] \/ (n \in Seen /\ \E r : snap'[n] = [snap[n] EXCEPT !.resolved = r])
    BY <1>7 DEF ValueChange
  <2>2. ASSUME NEW n \in Nodes
        PROVE  snap'[n] = NoSnap
               \/ /\ snap[n] # NoSnap
                  /\ snap'[n].status = snap[n].status /\ snap'[n].needs = snap[n].needs
    <3>1. CASE snap'[n] = snap[n]
      BY <3>1
    <3>2. CASE n \in Seen /\ \E r : snap'[n] = [snap[n] EXCEPT !.resolved = r]
      <4>1. snap[n] \in Snaps
        BY <3>2, SeenType
      <4> QED BY <3>2, <4>1 DEF Seen, Snaps
    <3> QED BY <2>1, <3>1, <3>2
  <2> QED BY <1>7, <2>2, AskedQuiet DEF ValueChange, processes
<1>8. CASE UNCHANGED vars
  BY <1>8 DEF vars, files, processes, memory, Asked, BlockedHasNeeds, Requesters, Seen
<1> QED BY <1>1, <1>2, <1>3, <1>4, <1>5, <1>6, <1>7, <1>8 DEF Next, Cycle

\* A node the orchestrator takes for blocked has its needs in the snapshot,
\* though populate reads state.toml and needs.toml at two moments.
THEOREM BlockedNodesHaveNeeds == Spec => []BlockedHasNeeds
<1>1. Init => TypeOK /\ Asked
  BY TypeInit, AskedInit
<1>2. TypeOK /\ Asked /\ [Next]_vars => (TypeOK /\ Asked)'
  BY TypeStep, AskedStep
<1>3. TypeOK /\ Asked => BlockedHasNeeds
  BY DEF Asked
<1> QED BY <1>1, <1>2, <1>3, PTL DEF Spec

-------------------------------------------------------------------------------
\* The inductive invariant behind NoPhantomWait.

Asking(n) == step[n] \in {"declared", "polling"}
Waits(n, k) == Asking(n) /\ k \in needs[n] /\ resolved[n][k].seq = 0

BeforeMatching == {"1 status", "1 files", "2", "4"}
BeforeValues == BeforeMatching \union {"5", "6", "7"}

BlockedPolls == \A n \in Nodes : status[n] = "blocked" => step[n] = "polling"

\* A node whose status was read as blocked may have resumed since, with all it
\* asked for; then nothing of it is unresolved.
PeekedWaits ==
  pass = "1 files" /\ peek.status = "blocked" =>
    \/ Asking(peek.node)
    \/ \A k \in needs[peek.node] : resolved[peek.node][k].seq > 0

SnapWaits ==
  pass \in BeforeValues => \A n \in Requesters : \A k \in Unresolved(n) : Waits(n, k)

EdgesUnresolved ==
  /\ pass \in BeforeMatching => newEdges = {}
  /\ pass \in BeforeValues => \A e \in newEdges : e.key \in Unresolved(e.requester)

WaitInv == BlockedPolls /\ PeekedWaits /\ SnapWaits /\ EdgesUnresolved

LEMMA WaitInit == Init => WaitInv
BY DEF Init, WaitInv, BlockedPolls, PeekedWaits, SnapWaits, EdgesUnresolved, Requesters, Seen,
       BeforeMatching, BeforeValues

\* No step of a node ends a wait, or begins one in needs already met.
LEMMA WaitNode ==
  ASSUME TypeOK, WaitInv, NEW m \in Nodes, NodeStep(m)
  PROVE  WaitInv'
<1>1. /\ UNCHANGED <<pass, peek, snap, newEdges, resolved>>
      /\ Seen' = Seen /\ Requesters' = Requesters
      /\ \A n : Unresolved(n)' = Unresolved(n)
  BY DEF NodeStep, DeclareNeeds, BecomeBlocked, Resume, Publish, Deliver, Exit, memory, files,
         Requesters, Seen, Unresolved, Has
<1>2. /\ \A n \in Nodes : n # m => needs'[n] = needs[n] /\ step'[n] = step[n] /\ status'[n] = status[n]
      /\ status'[m] = "blocked" => step'[m] = "polling"
  BY DEF NodeStep, DeclareNeeds, BecomeBlocked, Resume, Publish, Deliver, Exit, memory, files,
         processes, TypeOK, FilesOK, ProcessesOK, WaitInv, BlockedPolls
<1>3. \/ Asking(m)'
      \/ needs'[m] = needs[m] /\ (\A k \in needs[m] : resolved[m][k].seq > 0)
      \/ needs'[m] = needs[m] /\ ~Asking(m)
  BY DEF NodeStep, DeclareNeeds, BecomeBlocked, Resume, Publish, Deliver, Exit, memory, files,
         processes, TypeOK, FilesOK, ProcessesOK, Asking
<1>4. Asking(m) => needs'[m] = needs[m]
  BY DEF NodeStep, DeclareNeeds, BecomeBlocked, Resume, Publish, Deliver, Exit, memory, files,
         processes, Asking
<1>5. ASSUME NEW n \in Nodes, NEW k \in Keys, Waits(n, k)
      PROVE  Waits(n, k)'
  <2>1. CASE n = m
    BY <1>1, <1>3, <1>4, <1>5, <2>1 DEF Waits
  <2>2. CASE n # m
    BY <1>1, <1>2, <1>5, <2>2 DEF Waits, Asking
  <2> QED BY <2>1, <2>2
<1>6. BlockedPolls'
  BY <1>2 DEF WaitInv, BlockedPolls
<1>7. PeekedWaits'
  <2>1. ASSUME NEW n \in Nodes,
               Asking(n) \/ \A k \in needs[n] : resolved[n][k].seq > 0
        PROVE  \/ step'[n] \in {"declared", "polling"}
               \/ \A k \in needs'[n] : resolved'[n][k].seq > 0
    <3>1. CASE n = m
      BY <1>1, <1>3, <2>1, <3>1 DEF Asking
    <3>2. CASE n # m
      BY <1>1, <1>2, <2>1, <3>2 DEF Asking
    <3> QED BY <3>1, <3>2
  <2>2. pass = "1 files" => peek.node \in Nodes
    BY DEF TypeOK, MemoryOK
  <2> QED BY <1>1, <2>1, <2>2 DEF WaitInv, PeekedWaits, Asking
<1>8. SnapWaits'
  <2> SUFFICES ASSUME pass \in BeforeValues, NEW n \in Requesters, NEW k \in Unresolved(n)
               PROVE  Waits(n, k)'
    BY <1>1 DEF SnapWaits
  <2>1. n \in Nodes /\ k \in Keys
    BY SeenType DEF Requesters, Unresolved, Snaps
  <2> QED BY <1>5, <2>1 DEF WaitInv, SnapWaits
<1>9. EdgesUnresolved'
  BY <1>1 DEF WaitInv, EdgesUnresolved
<1> QED BY <1>6, <1>7, <1>8, <1>9 DEF WaitInv

\* A step of the orchestrator that begins no wait and reads no file.
LEMMA WaitQuiet ==
  ASSUME WaitInv, UNCHANGED <<needs, resolved, peek, snap>>,
         \A n \in Nodes : status'[n] = "blocked" => status[n] = "blocked" /\ step'[n] = step[n],
         \A n \in Seen : step'[n] = step[n],
         pass' # "1 files",
         pass' \in BeforeValues => pass \in BeforeValues /\ newEdges' \subseteq newEdges,
         pass' \in BeforeMatching => pass \in BeforeMatching
  PROVE  WaitInv'
<1>1. Seen' = Seen /\ Requesters' = Requesters /\ \A n : Unresolved(n)' = Unresolved(n)
  BY DEF Seen, Requesters, Unresolved, Has
<1>2. BlockedPolls' /\ PeekedWaits'
  BY DEF WaitInv, BlockedPolls, PeekedWaits
<1>3. SnapWaits'
  BY <1>1 DEF WaitInv, SnapWaits, Waits, Asking, Requesters
<1>4. EdgesUnresolved'
  BY <1>1 DEF WaitInv, EdgesUnresolved, BeforeValues
<1> QED BY <1>2, <1>3, <1>4 DEF WaitInv

LEMMA WaitForgotten ==
  ASSUME WaitInv, Forget, UNCHANGED <<status, step>>, pass' # "1 files"
  PROVE  WaitInv'
<1>1. Requesters' = {} /\ newEdges' = {}
  BY DEF Forget, Requesters, Seen
<1> QED BY <1>1 DEF WaitInv, BlockedPolls, PeekedWaits, SnapWaits, EdgesUnresolved

LEMMA WaitCollect ==
  ASSUME TypeOK, WaitInv, CollectStatus \/ CollectFiles
  PROVE  WaitInv'
<1>1. CASE CollectStatus
  <2>1. /\ pass = "1 status" /\ pass' \in {"1 status", "1 files"}
        /\ UNCHANGED <<status, needs, resolved, step, snap, newEdges>>
    BY <1>1 DEF CollectStatus, files, processes
  <2>2. PeekedWaits'
    <3>1. PICK n \in todo : peek' = [node |-> n, status |-> status[n]] \/ pass' = pass
      BY <1>1 DEF CollectStatus
    <3>2. n \in Nodes
      BY DEF TypeOK, MemoryOK
    <3>3. CASE peek' = [node |-> n, status |-> status[n]]
      <4>1. peek'.node = n /\ peek'.status = status[n]
        BY <3>3
      <4> QED BY <2>1, <3>2, <4>1 DEF WaitInv, BlockedPolls, PeekedWaits, Asking
    <3>4. CASE pass' = pass
      BY <2>1, <3>4 DEF PeekedWaits
    <3> QED BY <3>1, <3>3, <3>4
  <2>3. Seen' = Seen /\ Requesters' = Requesters /\ \A n : Unresolved(n)' = Unresolved(n)
    BY <2>1 DEF Seen, Requesters, Unresolved, Has
  <2> QED BY <2>1, <2>2, <2>3 DEF WaitInv, BlockedPolls, SnapWaits, EdgesUnresolved, Waits, Asking,
             BeforeMatching, BeforeValues
<1>2. CASE CollectFiles
  <2> DEFINE n == peek.node
             s == [status |-> peek.status, needs |-> needs[n], provides |-> provides[n],
                   resolved |-> resolved[n], tasks |-> tasks[n]]
  <2>1. /\ pass = "1 files" /\ pass' = "1 status" /\ snap' = [snap EXCEPT ![n] = s]
        /\ UNCHANGED <<status, needs, resolved, step, newEdges>>
    BY <1>2 DEF CollectFiles, files, processes
  <2>2. n \in Nodes
    BY <2>1 DEF TypeOK, MemoryOK
  <2>3. /\ snap'[n].status = peek.status /\ snap'[n].needs = needs[n]
        /\ snap'[n].resolved = resolved[n]
    BY <2>1, <2>2 DEF TypeOK, MemoryOK
  <2>4. \A m \in Nodes \ {n} : snap'[m] = snap[m]
    BY <2>1, <2>2 DEF TypeOK, MemoryOK
  <2>5. peek.status = "blocked" =>
          Asking(n) \/ \A k \in needs[n] : resolved[n][k].seq > 0
    BY <2>1 DEF WaitInv, PeekedWaits
  <2>6. newEdges = {}
    BY <2>1 DEF WaitInv, EdgesUnresolved, BeforeMatching
  <2> HIDE DEF n, s
  <2>7. SnapWaits'
    <3> SUFFICES ASSUME NEW m \in Nodes, snap'[m] # NoSnap, snap'[m].status = "blocked",
                        NEW k \in snap'[m].needs, ~(snap'[m].resolved[k].seq > 0)
                 PROVE  /\ step[m] \in {"declared", "polling"}
                        /\ k \in needs[m] /\ resolved[m][k].seq = 0
      BY <2>1 DEF SnapWaits, Waits, Asking, Requesters, Seen, Unresolved, Has
    <3>1. CASE m = n
      <4>1. k \in needs[n] /\ ~(resolved[n][k].seq > 0) /\ Asking(n)
        BY <2>3, <2>5, <3>1
      <4>2. k \in Keys /\ resolved[n][k].seq \in Nat
        BY <2>2, <4>1 DEF TypeOK, FilesOK, Values
      <4> QED BY <3>1, <4>1, <4>2 DEF Asking
    <3>2. CASE m # n
      <4>1. m \in Requesters /\ k \in Unresolved(m)
        BY <2>4, <3>2 DEF Requesters, Seen, Unresolved, Has
      <4> QED BY <2>1, <4>1 DEF WaitInv, SnapWaits, BeforeValues, BeforeMatching, Waits, Asking
    <3> QED BY <3>1, <3>2
  <2> QED BY <2>1, <2>6, <2>7 DEF WaitInv, BlockedPolls, PeekedWaits, EdgesUnresolved
<1> QED BY <1>1, <1>2

LEMMA WaitMatch ==
  ASSUME WaitInv, MatchNewEdges
  PROVE  WaitInv'
<1>1. /\ pass = "4" /\ pass' = "5"
      /\ UNCHANGED <<status, needs, resolved, step, peek, snap>>
  BY DEF MatchNewEdges, processes
<1>2. Requesters' = Requesters /\ \A n : Unresolved(n)' = Unresolved(n)
  BY <1>1 DEF Seen, Requesters, Unresolved, Has
<1>3. \A e \in newEdges' : e.key \in Unresolved(e.requester)
  BY DEF MatchNewEdges
<1> QED BY <1>1, <1>2, <1>3 DEF WaitInv, BlockedPolls, PeekedWaits, SnapWaits, EdgesUnresolved,
           Waits, Asking, BeforeMatching, BeforeValues

LEMMA WaitStep ==
  ASSUME TypeOK, WaitInv, [Next]_vars
  PROVE  WaitInv'
<1>1. CASE \E n \in Nodes : NodeStep(n)
  BY <1>1, WaitNode
<1>2. CASE CollectStatus \/ CollectFiles
  BY <1>2, WaitCollect
<1>3. CASE StartCycle \/ CycleFails \/ OrchestratorCrash \/ CrossLayer
  BY <1>3, WaitForgotten DEF StartCycle, CycleFails, OrchestratorCrash, CrossLayer, files, processes
<1>4. CASE AutoSpawn
  <2>1. PICK S \in SUBSET Spawnable :
          /\ status' = [n \in Nodes |-> IF n \in S THEN "working" ELSE status[n]]
          /\ step' = [n \in Nodes |-> IF n \in S /\ ~Running(n) THEN "working" ELSE step[n]]
    BY <1>4 DEF AutoSpawn
  <2>2. /\ \A n \in Nodes : status'[n] = "blocked" => status[n] = "blocked" /\ step'[n] = step[n]
        /\ \A n \in Seen : step'[n] = step[n]
    BY <2>1 DEF Spawnable, Seen
  <2> QED BY <1>4, <2>2, WaitQuiet DEF AutoSpawn, BeforeValues, BeforeMatching
<1>5. CASE FirstCycleCheck \/ SecondCycleCheck \/ DependencyChain
  <2>1. \E dead : status' = Marked(dead)
    BY <1>5 DEF FirstCycleCheck, SecondCycleCheck, DependencyChain
  <2>2. \A n \in Nodes : status'[n] = "blocked" => status[n] = "blocked"
    BY <2>1 DEF Marked
  <2>3. step' = step
    BY <1>5 DEF FirstCycleCheck, SecondCycleCheck, DependencyChain, processes
  <2> QED BY <1>5, <2>2, <2>3, WaitQuiet DEF FirstCycleCheck, SecondCycleCheck, DependencyChain,
             BeforeValues, BeforeMatching
<1>6. CASE MatchNewEdges
  BY <1>6, WaitMatch
<1>7. CASE WriteTasks
  BY <1>7, WaitQuiet DEF WriteTasks, processes, BeforeValues, BeforeMatching
<1>8. CASE TransferResolved \/ ValueChange \/ NotifyInbox
  <2>1. pass' \notin BeforeValues /\ pass' # "1 files" /\ UNCHANGED <<status, step>>
    BY <1>8 DEF TransferResolved, ValueChange, NotifyInbox, processes, BeforeValues, BeforeMatching
  <2> QED BY <2>1 DEF WaitInv, BlockedPolls, PeekedWaits, SnapWaits, EdgesUnresolved, BeforeValues
<1>9. CASE UNCHANGED vars
  BY <1>9 DEF vars, files, processes, memory, WaitInv, BlockedPolls, PeekedWaits, SnapWaits,
              EdgesUnresolved, Waits, Asking, Requesters, Seen, Unresolved, Has
<1> QED BY <1>1, <1>2, <1>3, <1>4, <1>5, <1>6, <1>7, <1>8, <1>9 DEF Next, Cycle

LEMMA WaitInvariant == Spec => [](TypeOK /\ WaitInv)
<1>1. Init => TypeOK /\ WaitInv
  BY TypeInit, WaitInit
<1>2. TypeOK /\ WaitInv /\ [Next]_vars => (TypeOK /\ WaitInv)'
  BY TypeStep, WaitStep
<1> QED BY <1>1, <1>2, PTL DEF Spec

\* Until values are handed out, a node the snapshot takes for blocked still
\* waits for the keys it lacks there: the edges of both cycle checks that start
\* at such a node are waits.
THEOREM WaitsAreReal == Spec => []NoPhantomWait
<1>1. WaitInv => NoPhantomWait
  BY DEF WaitInv, SnapWaits, EdgesUnresolved, NoPhantomWait, StillWaits, ExistingEdges,
         BeforeValues, BeforeMatching, Waits, Asking
<1> QED BY <1>1, WaitInvariant, PTL
-------------------------------------------------------------------------------
\* The inductive invariant that makes the values of a key a ValueFeed.

\* Only Pass 7 writes what the snapshot does not have.
CopyKept ==
  \A n \in Seen, k \in Keys :
    snap[n].resolved[k] = resolved[n][k] \/ snap[n].resolved[k].seq = 0

\* What is about to be announced has just been saved.
AnnouncesHeld ==
  /\ notify # {} => pass = "8 inbox"
  /\ \A m \in notify : m.new = resolved[m.to][m.key].seq
  /\ \A m \in inbox \union notify : m.new > 0

FeedInv == CopyKept /\ AnnouncesHeld

LEMMA FeedQuiet ==
  ASSUME FeedInv, UNCHANGED <<resolved, snap, inbox, notify>>, UNCHANGED pass \/ notify = {}
  PROVE  FeedInv'
<1>1. Seen' = Seen
  BY DEF Seen
<1> QED BY <1>1 DEF FeedInv, CopyKept, AnnouncesHeld

LEMMA FeedForgotten ==
  ASSUME FeedInv, snap' = [n \in Nodes |-> NoSnap], notify' = {}, UNCHANGED inbox
  PROVE  FeedInv'
<1>1. Seen' = {}
  BY DEF Seen
<1> QED BY <1>1 DEF FeedInv, CopyKept, AnnouncesHeld

LEMMA FeedCollect ==
  ASSUME TypeOK, FeedInv, CollectFiles
  PROVE  FeedInv'
<1> DEFINE n == peek.node
           s == [status |-> peek.status, needs |-> needs[n], provides |-> provides[n],
                 resolved |-> resolved[n], tasks |-> tasks[n]]
<1>1. /\ snap' = [snap EXCEPT ![n] = s] /\ pass = "1 files"
      /\ UNCHANGED <<resolved, inbox, notify>>
  BY DEF CollectFiles, files
<1>2. n \in Nodes
  BY DEF CollectFiles, TypeOK, MemoryOK
<1>3. /\ snap'[n].resolved = resolved[n]
      /\ \A m \in Nodes \ {n} : snap'[m] = snap[m]
  BY <1>1, <1>2 DEF TypeOK, MemoryOK
<1> HIDE DEF n
<1>4. CopyKept'
  BY <1>1, <1>3 DEF FeedInv, CopyKept, Seen
<1> QED BY <1>1, <1>4 DEF FeedInv, AnnouncesHeld

LEMMA FeedTransfer ==
  ASSUME TypeOK, FeedInv, TransferResolved
  PROVE  FeedInv'
<1> DEFINE got(n) == IF n \in Requesters THEN {k \in Unresolved(n) : Offered(k) # Absent} ELSE {}
<1>1. /\ pass = "7"
      /\ resolved' = [n \in Nodes |-> IF got(n) = {} THEN resolved[n]
                        ELSE [k \in Keys |-> IF k \in got(n) THEN Offered(k) ELSE snap[n].resolved[k]]]
      /\ UNCHANGED <<inbox, snap, notify>>
  BY DEF TransferResolved, processes
<1>2. Seen' = Seen /\ notify = {}
  BY <1>1 DEF Seen, FeedInv, AnnouncesHeld
<1>3. ASSUME NEW n \in Seen, NEW k \in got(n)
      PROVE  snap[n].resolved[k].seq = 0
  <2>1. k \in snap[n].needs /\ ~(snap[n].resolved[k].seq > 0)
    BY <1>3 DEF Unresolved, Has
  <2>2. k \in Keys /\ snap[n].resolved[k].seq \in Nat
    BY <2>1, SeenType DEF Snaps, Values
  <2> QED BY <2>1, <2>2
<1> HIDE DEF got
<1>4. CopyKept'
  <2> SUFFICES ASSUME NEW n \in Seen, NEW k \in Keys
               PROVE  snap[n].resolved[k] = resolved'[n][k] \/ snap[n].resolved[k].seq = 0
    BY <1>1, <1>2 DEF CopyKept
  <2>1. n \in Nodes
    BY DEF Seen
  <2> QED BY <1>1, <1>3, <2>1 DEF FeedInv, CopyKept
<1> QED BY <1>1, <1>2, <1>4 DEF FeedInv, AnnouncesHeld

LEMMA FeedRaise ==
  ASSUME TypeOK, FeedInv, ValueChange
  PROVE  FeedInv'
<1> DEFINE changed == {n \in Seen : Raised(n) # {}}
           raisedOf(n) == [k \in Keys |-> IF k \in Raised(n) THEN Offered(k)
                                          ELSE snap[n].resolved[k]]
           told(n) == {[to |-> n, key |-> k, old |-> snap[n].resolved[k].seq,
                        new |-> Offered(k).seq] : k \in Raised(n)}
<1>1. /\ resolved' = [n \in Nodes |-> IF n \in changed THEN raisedOf(n) ELSE resolved[n]]
      /\ snap' = [n \in Nodes |-> IF n \in changed
                                  THEN [snap[n] EXCEPT !.resolved = raisedOf(n)] ELSE snap[n]]
      /\ notify' = UNION {told(n) : n \in changed}
      /\ pass' = "8 inbox" /\ UNCHANGED inbox
  BY DEF ValueChange, processes
<1>2. ASSUME NEW n \in changed
      PROVE  /\ n \in Nodes /\ resolved'[n] = raisedOf(n) /\ snap'[n].resolved = raisedOf(n)
  <2>1. n \in Nodes /\ snap[n] \in Snaps
    BY SeenType
  <2> HIDE DEF raisedOf, changed
  <2> QED BY <1>1, <2>1 DEF Snaps
<1>3. ASSUME NEW m \in notify'
      PROVE  m.new > 0 /\ m.new = resolved'[m.to][m.key].seq
  <2>1. PICK n \in changed : m \in told(n)
    BY <1>1
  <2>2. PICK k \in Raised(n) :
          m = [to |-> n, key |-> k, old |-> snap[n].resolved[k].seq, new |-> Offered(k).seq]
    BY <2>1
  <2>3. k \in Keys /\ Offered(k).seq > snap[n].resolved[k].seq
    BY <2>2 DEF Raised
  <2>4. Offered(k).seq \in Nat /\ snap[n].resolved[k].seq \in Nat
    BY <2>3, OfferedType, SeenType DEF Snaps, Values
  <2>5. resolved'[n][k] = Offered(k)
    BY <1>2, <2>2, <2>3
  <2> QED BY <2>2, <2>3, <2>4, <2>5
<1>4. CopyKept'
  <2> SUFFICES ASSUME NEW n \in Nodes, snap'[n] # NoSnap, NEW k \in Keys
               PROVE  snap'[n].resolved[k] = resolved'[n][k] \/ snap'[n].resolved[k].seq = 0
    BY DEF CopyKept, Seen
  <2>1. CASE n \in changed
    BY <1>2, <2>1
  <2>2. CASE n \notin changed
    <3> HIDE DEF changed
    <3>1. snap'[n] = snap[n] /\ resolved'[n] = resolved[n]
      BY <1>1, <2>2
    <3> QED BY <3>1 DEF FeedInv, CopyKept, Seen
  <2> QED BY <2>1, <2>2
<1>5. \A m \in inbox : m.new > 0
  BY DEF FeedInv, AnnouncesHeld
<1> QED BY <1>1, <1>3, <1>4, <1>5 DEF FeedInv, AnnouncesHeld

LEMMA FeedAnnounce ==
  ASSUME FeedInv, NotifyInbox
  PROVE  FeedInv'
<1>1. /\ inbox' = inbox \union notify /\ notify' = {}
      /\ UNCHANGED <<resolved, snap>>
  BY DEF NotifyInbox, processes
<1>2. Seen' = Seen
  BY <1>1 DEF Seen
<1> QED BY <1>1, <1>2 DEF FeedInv, CopyKept, AnnouncesHeld

LEMMA FeedStep ==
  ASSUME TypeOK, FeedInv, [Next]_vars
  PROVE  FeedInv'
<1>1. CASE UNCHANGED vars \/ \E n \in Nodes : NodeStep(n)
  <2>1. UNCHANGED <<resolved, snap, inbox, notify, pass>>
    BY <1>1 DEF vars, files, memory, NodeStep, DeclareNeeds, BecomeBlocked, Resume, Publish,
                Deliver, Exit
  <2> QED BY <2>1, FeedQuiet
<1>2. CASE StartCycle \/ CycleFails \/ OrchestratorCrash \/ CrossLayer
  <2>1. Forget /\ UNCHANGED inbox
    BY <1>2 DEF StartCycle, CycleFails, OrchestratorCrash, CrossLayer, files
  <2> QED BY <2>1, FeedForgotten DEF Forget
<1>3. CASE \/ CollectStatus \/ AutoSpawn \/ FirstCycleCheck \/ MatchNewEdges \/ SecondCycleCheck
           \/ WriteTasks \/ DependencyChain
  <2>1. UNCHANGED <<resolved, snap, inbox, notify>>
    BY <1>3 DEF CollectStatus, AutoSpawn, FirstCycleCheck, MatchNewEdges, SecondCycleCheck,
                WriteTasks, DependencyChain, files, processes
  <2>2. notify = {}
    BY <1>3 DEF FeedInv, AnnouncesHeld, CollectStatus, AutoSpawn, FirstCycleCheck, MatchNewEdges,
                SecondCycleCheck, WriteTasks, DependencyChain
  <2> QED BY <2>1, <2>2, FeedQuiet
<1> QED
  BY <1>1, <1>2, <1>3, FeedCollect, FeedTransfer, FeedRaise, FeedAnnounce DEF Next, Cycle

LEMMA FeedInvariant == Spec => [](TypeOK /\ ValueInv /\ FeedInv)
<1>1. Init => TypeOK /\ ValueInv /\ FeedInv
  <2>1. Init => FeedInv
    BY DEF Init, FeedInv, CopyKept, AnnouncesHeld, Seen
  <2> QED BY <2>1, TypeInit, ValueInit
<1>2. TypeOK /\ ValueInv /\ FeedInv /\ [Next]_vars => (TypeOK /\ ValueInv /\ FeedInv)'
  BY TypeStep, ValueStep, FeedStep
<1> QED BY <1>1, <1>2, PTL DEF Spec
\* A key of SoleKeys, and what may be held of it.
LEMMA SoleSource ==
  ASSUME NEW k \in SoleKeys
  PROVE  /\ k \in Keys /\ SoleProvider(k)
         /\ Source[k] \in Nodes /\ Global(k) = {Source[k]}
<1>1. PICK p \in Nodes : Global(k) = {p}
  BY DEF SoleKeys
<1>2. Source[k] \in Nodes /\ Global(k) = {Source[k]}
  BY <1>1 DEF Source
<1> QED BY <1>2 DEF SoleKeys, SoleProvider

\* The snapshot of the provider has the newest number anyone holds.
LEMMA SnapIsNewest ==
  ASSUME TypeOK, ValueInv, NEW k \in SoleKeys, Source[k] \in Seen
  PROVE  LET new == snap[Source[k]].provides[k]
         IN /\ new \in Nat /\ new <= provides[Source[k]][k]
            /\ \A n \in Nodes : resolved[n][k].seq <= new
<1> DEFINE new == snap[Source[k]].provides[k]
<1>1. k \in Keys /\ Source[k] \in Nodes /\ Global(k) = {Source[k]}
  BY SoleSource
<1>2. new \in Nat
  BY <1>1, SeenType DEF Snaps
<1>3. new <= provides[Source[k]][k]
  BY <1>1 DEF ValueInv, SnapBehind
<1>4. ASSUME NEW n \in Nodes
      PROVE  resolved[n][k].seq <= new
  <2>1. resolved[n][k] \in Earned(k) /\ resolved[n][k].seq \in Nat
    BY <1>1 DEF ValueInv, ValuesEarned, Earned, Values
  <2> HIDE DEF new
  <2>2. CASE resolved[n][k].seq > 0
    BY <1>1, <2>1, <2>2 DEF Earned, new
  <2>3. CASE resolved[n][k].seq = 0
    BY <1>2, <2>3
  <2> QED BY <2>1, <2>2, <2>3
<1> QED BY <1>2, <1>3, <1>4

LEMMA OfferedIsNewest ==
  ASSUME TypeOK, ValueInv, NEW k \in SoleKeys, Offered(k).seq > 0
  PROVE  Source[k] \in Seen /\ Offered(k).seq = snap[Source[k]].provides[k]
<1>1. k \in Keys /\ Global(k) = {Source[k]}
  BY SoleSource
<1>2. route[k] # None /\ Offered(k).seq = snap[route[k]].provides[k]
  BY DEF Offered, Absent
<1>3. route[k] = Source[k] /\ route[k] \in Seen
  BY <1>1, <1>2 DEF ValueInv, RouteDeclares, TypeOK, MemoryOK
<1> QED BY <1>2, <1>3

\* A step of HandOut, number by number.
Handed(n, k) ==
  \/ resolved'[n][k].seq = resolved[n][k].seq
  \/ /\ resolved[n][k].seq < resolved'[n][k].seq
     /\ resolved'[n][k].seq <= provides[Source[k]][k]
  \/ resolved'[n][k].seq = 0 /\ Messages(n, k) = {}

LEMMA HandedIsHandOut ==
  ASSUME TypeOK, TypeOK', UNCHANGED <<provides, inbox>>,
         \A n \in Nodes, k \in SoleKeys : Handed(n, k)
  PROVE  Feed!HandOut
<1> DEFINE H == [n \in Nodes |-> [k \in SoleKeys |-> resolved[n][k].seq]]
           P == [k \in SoleKeys |-> provides[Source[k]][k]]
           T == [n \in Nodes |-> [k \in SoleKeys |-> {m.new : m \in Messages(n, k)}]]
<1>1. ASSUME NEW n \in Nodes, NEW k \in SoleKeys
      PROVE  /\ H[n][k] = resolved[n][k].seq /\ H'[n][k] = resolved'[n][k].seq
             /\ H'[n][k] \in Nat
             /\ P[k] = provides[Source[k]][k]
             /\ Messages(n, k) = {} => T[n][k] = {}
  <2>1. resolved'[n][k] \in Values
    BY SoleSource DEF TypeOK, FilesOK
  <2> QED BY <2>1 DEF Values
<1>2. H' \in [Nodes -> [SoleKeys -> Nat]]
  BY <1>1
<1>3. P' = P /\ T' = T
  BY DEF Messages
<1>4. \A n \in Nodes, k \in SoleKeys :
        \/ H'[n][k] = H[n][k]
        \/ H[n][k] < H'[n][k] /\ H'[n][k] <= P[k]
        \/ H'[n][k] = 0 /\ T[n][k] = {}
  BY <1>1 DEF Handed
<1> HIDE DEF H, P, T
<1>5. <<P, T>>' = <<P, T>>
  BY <1>3
<1> QED BY <1>2, <1>4, <1>5 DEF Feed!HandOut, H, P, T

\* What Pass 7, 8 or 9 takes from the snapshot of the provider.
LEMMA HandedNewest ==
  ASSUME TypeOK, ValueInv, NEW n \in Nodes, NEW k \in SoleKeys, Source[k] \in Seen,
         resolved'[n][k].seq = snap[Source[k]].provides[k]
  PROVE  Handed(n, k)
<1> DEFINE new == snap[Source[k]].provides[k]
           old == resolved[n][k].seq
<1>1. new \in Nat /\ new <= provides[Source[k]][k] /\ old <= new
  BY SnapIsNewest
<1>2. old \in Nat
  BY SoleSource DEF TypeOK, FilesOK, Values
<1>3. new = old \/ old < new
  <2> HIDE DEF new, old
  <2> QED BY <1>1, <1>2
<1> QED BY <1>1, <1>3 DEF Handed

\* What they save from the snapshot of the consumer: lost, if at all, before any
\* message about it.
LEMMA HandedCopy ==
  ASSUME TypeOK, ValueInv, FeedInv, NEW n \in Seen, NEW k \in SoleKeys,
         resolved'[n][k] = snap[n].resolved[k]
  PROVE  Handed(n, k)
<1>1. k \in Keys /\ SoleProvider(k)
  BY SoleSource
<1>2. CASE snap[n].resolved[k] = resolved[n][k]
  BY <1>2 DEF Handed
<1>3. CASE snap[n].resolved[k].seq = 0
  <2>1. ASSUME NEW m \in Messages(n, k)
        PROVE  FALSE
    <3>1. m \in inbox /\ m.to = n /\ m.key = k
      BY DEF Messages
    <3>2. snap[n].resolved[k].seq >= m.new
      BY <1>1, <3>1 DEF ValueInv, AnnouncedKept
    <3>3. m.new > 0 /\ m.new \in Nat
      BY <3>1 DEF FeedInv, AnnouncesHeld, TypeOK, FilesOK
    <3> QED BY <1>3, <3>2, <3>3
  <2>2. Messages(n, k) = {}
    BY <2>1
  <2> QED BY <1>3, <2>2 DEF Handed
<1> QED BY <1>1, <1>2, <1>3 DEF FeedInv, CopyKept

LEMMA TransferHandsOut ==
  ASSUME TypeOK, TypeOK', ValueInv, FeedInv, TransferResolved
  PROVE  Feed!HandOut
<1> DEFINE got(n) == IF n \in Requesters THEN {k \in Unresolved(n) : Offered(k) # Absent} ELSE {}
<1>1. /\ resolved' = [n \in Nodes |-> IF got(n) = {} THEN resolved[n]
                        ELSE [k \in Keys |-> IF k \in got(n) THEN Offered(k) ELSE snap[n].resolved[k]]]
      /\ UNCHANGED <<provides, inbox>>
  BY DEF TransferResolved, processes
<1>2. \A n : got(n) # {} => n \in Seen
  BY DEF Requesters
<1>3. \A n, k : k \in got(n) => Offered(k) # Absent
  OBVIOUS
<1> HIDE DEF got
<1>4. ASSUME NEW n \in Nodes, NEW k \in SoleKeys
      PROVE  Handed(n, k)
  <2>1. k \in Keys
    BY SoleSource
  <2>2. CASE got(n) = {}
    BY <1>1, <2>2 DEF Handed
  <2>3. CASE k \in got(n)
    <3>1. resolved'[n][k] = Offered(k)
      BY <1>1, <2>1, <2>3
    <3>2. Offered(k).seq > 0
      <4>1. route[k] # None /\ snap[route[k]].provides[k] > 0
        BY <1>3, <2>3 DEF Offered
      <4> QED BY <4>1 DEF Offered
    <3> QED BY <3>1, <3>2, OfferedIsNewest, HandedNewest
  <2>4. CASE got(n) # {} /\ k \notin got(n)
    BY <1>1, <1>2, <2>1, <2>4, HandedCopy
  <2> QED BY <2>2, <2>3, <2>4
<1> QED BY <1>1, <1>4, HandedIsHandOut

LEMMA RaiseHandsOut ==
  ASSUME TypeOK, TypeOK', ValueInv, FeedInv, ValueChange
  PROVE  Feed!HandOut
<1> DEFINE changed == {n \in Seen : Raised(n) # {}}
           raisedOf(n) == [k \in Keys |-> IF k \in Raised(n) THEN Offered(k)
                                          ELSE snap[n].resolved[k]]
<1>1. /\ resolved' = [n \in Nodes |-> IF n \in changed THEN raisedOf(n) ELSE resolved[n]]
      /\ UNCHANGED <<provides, inbox>>
  BY DEF ValueChange, processes
<1>2. ASSUME NEW n \in Nodes, NEW k \in SoleKeys
      PROVE  Handed(n, k)
  <2>1. k \in Keys
    BY SoleSource
  <2>2. CASE n \notin changed
    <3> HIDE DEF changed
    <3> QED BY <1>1, <2>2 DEF Handed
  <2>3. CASE n \in changed /\ k \in Raised(n)
    <3>1. resolved'[n][k] = Offered(k)
      BY <1>1, <2>1, <2>3
    <3>2. n \in Seen /\ Offered(k).seq > snap[n].resolved[k].seq
      BY <2>3 DEF Raised
    <3>3. Offered(k).seq \in Nat /\ snap[n].resolved[k].seq \in Nat
      BY <2>1, <3>2, OfferedType, SeenType DEF Snaps, Values
    <3> QED BY <3>1, <3>2, <3>3, OfferedIsNewest, HandedNewest
  <2>4. CASE n \in changed /\ k \notin Raised(n)
    <3>1. resolved'[n][k] = snap[n].resolved[k]
      BY <1>1, <2>1, <2>4
    <3> QED BY <2>4, <3>1, HandedCopy
  <2> QED BY <2>2, <2>3, <2>4
<1> QED BY <1>1, <1>2, HandedIsHandOut

LEMMA CrossLayerHandsOut ==
  ASSUME TypeOK, TypeOK', ValueInv, FeedInv, CrossLayer
  PROVE  Feed!HandOut
<1> DEFINE done == {e \in escalated : Settled(e)}
           doneFor(n) == {e \in done : e.requester = n /\ n \in Seen}
           value(e) == [from |-> e.provider, seq |-> snap[e.provider].provides[e.key]]
           handed(n, e) == [snap[n].resolved EXCEPT ![e.key] = value(e)]
<1>1. PICK last \in [Nodes -> done \union {None}] :
        /\ \A n \in Nodes : IF doneFor(n) = {} THEN last[n] = None ELSE last[n] \in doneFor(n)
        /\ resolved' = [n \in Nodes |-> IF last[n] = None THEN resolved[n] ELSE handed(n, last[n])]
  BY DEF CrossLayer
<1>2. UNCHANGED <<provides, inbox>>
  BY DEF CrossLayer
<1>3. ASSUME NEW n \in Nodes, last[n] # None
      PROVE  /\ n \in Seen /\ last[n] \in escalated /\ last[n].key \in Keys
             /\ last[n].provider \in Seen \intersect Global(last[n].key)
  <2>1. last[n] \in doneFor(n)
    BY <1>1, <1>3
  <2>2. n \in Seen /\ last[n] \in escalated /\ Settled(last[n])
    BY <2>1
  <2> QED BY <2>2 DEF Settled, TypeOK, FilesOK, ValueInv, MatchDeclares
<1>4. ASSUME NEW n \in Nodes, last[n] # None
      PROVE  /\ handed(n, last[n])[last[n].key] = value(last[n])
             /\ \A k \in Keys \ {last[n].key} : handed(n, last[n])[k] = snap[n].resolved[k]
  BY <1>3, <1>4, SeenType DEF Snaps
<1> HIDE DEF done, doneFor, value, handed
<1>5. ASSUME NEW n \in Nodes, NEW k \in SoleKeys
      PROVE  Handed(n, k)
  <2>1. k \in Keys /\ Global(k) = {Source[k]}
    BY SoleSource
  <2>2. CASE last[n] = None
    BY <1>1, <2>2 DEF Handed
  <2>3. CASE last[n] # None /\ last[n].key = k
    <3>1. last[n].provider = Source[k] /\ Source[k] \in Seen
      BY <1>3, <2>1, <2>3
    <3>2. resolved'[n][k] = value(last[n])
      BY <1>1, <1>4, <2>3
    <3>3. value(last[n]).seq = snap[Source[k]].provides[k]
      BY <2>3, <3>1 DEF value
    <3> QED BY <3>1, <3>2, <3>3, HandedNewest
  <2>4. CASE last[n] # None /\ last[n].key # k
    <3>1. n \in Seen /\ resolved'[n][k] = snap[n].resolved[k]
      BY <1>1, <1>3, <1>4, <2>1, <2>4
    <3> QED BY <3>1, HandedCopy
  <2> QED BY <2>2, <2>3, <2>4
<1> QED BY <1>2, <1>5, HandedIsHandOut
LEMMA PublishIsPublish ==
  ASSUME TypeOK, NEW n \in Nodes, Publish(n)
  PROVE  Feed!PublishNext \/ UNCHANGED Feed!feedVars
<1> DEFINE P == [k \in SoleKeys |-> provides[Source[k]][k]]
           H == [m \in Nodes |-> [k \in SoleKeys |-> resolved[m][k].seq]]
           T == [m \in Nodes |-> [k \in SoleKeys |-> {i.new : i \in Messages(m, k)}]]
<1>1. PICK j \in Declared[n] : provides' = [provides EXCEPT ![n][j] = @ + 1]
  BY DEF Publish
<1>2. H' = H /\ T' = T
  BY DEF Publish, Messages
<1>3. ASSUME NEW k \in SoleKeys
      PROVE  /\ P'[k] = IF k = j THEN P[k] + 1 ELSE P[k]
             /\ k \in Keys
  <2>1. k \in Keys /\ Source[k] \in Nodes /\ Global(k) = {Source[k]}
    BY SoleSource
  <2>2. k = j => Source[k] = n
    BY <2>1 DEF Global
  <2>3. provides[n] \in [Keys -> Nat] /\ provides \in [Nodes -> [Keys -> Nat]]
    BY DEF TypeOK, FilesOK
  <2>4. provides'[Source[k]][k] = IF k = j THEN provides[Source[k]][k] + 1 ELSE provides[Source[k]][k]
    BY <1>1, <2>1, <2>2, <2>3
  <2> QED BY <2>1, <2>4
<1>4. CASE j \in SoleKeys
  <2>1. P' = [P EXCEPT ![j] = @ + 1]
    BY <1>3, <1>4
  <2> HIDE DEF P, H, T
  <2> QED BY <1>2, <1>4, <2>1 DEF Feed!PublishNext, P, H, T
<1>5. CASE j \notin SoleKeys
  <2>1. P' = P
    BY <1>3, <1>5
  <2> HIDE DEF P, H, T
  <2> QED BY <1>2, <2>1 DEF Feed!feedVars, P, H, T
<1> QED BY <1>4, <1>5

\* The messages of Pass 8, by whom and what they are for.
LEMMA NotifyAnnounces ==
  ASSUME TypeOK, ValueInv, FeedInv, NotifyInbox
  PROVE  Feed!Announce
<1> DEFINE P == [k \in SoleKeys |-> provides[Source[k]][k]]
           H == [n \in Nodes |-> [k \in SoleKeys |-> resolved[n][k].seq]]
           T == [n \in Nodes |-> [k \in SoleKeys |-> {m.new : m \in Messages(n, k)}]]
           A == {<<m.to, m.key>> : m \in {i \in notify : i.key \in SoleKeys}}
<1>1. inbox' = inbox \union notify /\ UNCHANGED <<provides, resolved>>
  BY DEF NotifyInbox
<1>2. P' = P /\ H' = H
  BY <1>1
<1>3. A \in SUBSET (Nodes \X SoleKeys)
  <2>1. \A m \in notify : m.to \in Nodes
    BY DEF TypeOK, MemoryOK
  <2> QED BY <2>1
<1>4. ASSUME NEW n \in Nodes, NEW k \in SoleKeys, <<n, k>> \in A
      PROVE  \A v \in T[n][k] \union {0} : v < H[n][k]
  <2>1. PICK m \in notify : m.to = n /\ m.key = k
    BY <1>4
  <2>2. m.new > 0 /\ m.new = H[n][k]
    BY <2>1 DEF FeedInv, AnnouncesHeld
  <2>3. \A i \in Messages(n, k) : i.new < m.new
    BY <2>1, SoleSource DEF Messages, ValueInv, NotifyNewer
  <2>4. m.new \in Nat
    BY DEF TypeOK, MemoryOK
  <2>5. \A v \in T[n][k] : \E i \in Messages(n, k) : v = i.new
    OBVIOUS
  <2> HIDE DEF T, H
  <2> QED BY <2>2, <2>3, <2>4, <2>5
<1>5. ASSUME NEW n \in Nodes, NEW k \in SoleKeys
      PROVE  T'[n][k] = T[n][k] \union (IF <<n, k>> \in A THEN {H[n][k]} ELSE {})
  <2> DEFINE N == {m \in notify : m.to = n /\ m.key = k}
  <2>1. \A m \in N : m.new = H[n][k]
    BY DEF FeedInv, AnnouncesHeld
  <2>2. <<n, k>> \in A <=> N # {}
    OBVIOUS
  <2>3. T'[n][k] = T[n][k] \union {m.new : m \in N}
    <3>1. Messages(n, k)' = Messages(n, k) \union N
      BY <1>1 DEF Messages
    <3> QED BY <3>1
  <2>4. {m.new : m \in N} = IF N # {} THEN {H[n][k]} ELSE {}
    <3> HIDE DEF N, H
    <3> QED BY <2>1
  <2> HIDE DEF T, H, A, N
  <2> QED BY <2>2, <2>3, <2>4
<1>6. T' = [n \in Nodes |-> [k \in SoleKeys |->
              T[n][k] \union (IF <<n, k>> \in A THEN {H[n][k]} ELSE {})]]
  <2> DEFINE U == [n \in Nodes |-> [k \in SoleKeys |->
                    T[n][k] \union (IF <<n, k>> \in A THEN {H[n][k]} ELSE {})]]
             S(n) == [k \in SoleKeys |-> {m.new : m \in Messages(n, k)}]
  <2>1. ASSUME NEW n \in Nodes
        PROVE  S(n)' = U[n]
    <3>1. \A k \in SoleKeys : S(n)'[k] = T'[n][k]
      OBVIOUS
    <3>2. \A k \in SoleKeys : S(n)'[k] = U[n][k]
      <4> HIDE DEF T, H, A, S
      <4> QED BY <1>5, <3>1
    <3> HIDE DEF T, H, A
    <3> QED BY <3>2
  <2>2. T' = [n \in Nodes |-> S(n)']
    OBVIOUS
  <2> HIDE DEF T, S
  <2> QED BY <2>1, <2>2
<1> HIDE DEF P, H, T, A
<1> QED BY <1>2, <1>3, <1>4, <1>6 DEF Feed!Announce, P, H, T

LEMMA FeedStutters ==
  ASSUME UNCHANGED <<provides, resolved, inbox>>
  PROVE  UNCHANGED Feed!feedVars
BY DEF Feed!feedVars, Messages

LEMMA FeedStarts == Init => Feed!FeedInit
<1> SUFFICES ASSUME Init PROVE Feed!FeedInit
  OBVIOUS
<1>1. ASSUME NEW k \in SoleKeys
      PROVE  provides[Source[k]][k] = 0
  BY SoleSource DEF Init
<1>2. ASSUME NEW n \in Nodes, NEW k \in SoleKeys
      PROVE  resolved[n][k].seq = 0 /\ Messages(n, k) = {}
  BY SoleSource DEF Init, Absent, Messages
<1> QED BY <1>1, <1>2 DEF Feed!FeedInit

LEMMA FeedSteps ==
  ASSUME TypeOK, TypeOK', ValueInv, FeedInv, [Next]_vars
  PROVE  [Feed!FeedNext]_(Feed!feedVars)
<1>1. CASE \E n \in Nodes : Publish(n)
  BY <1>1, PublishIsPublish DEF Feed!FeedNext
<1>2. CASE TransferResolved \/ ValueChange \/ CrossLayer
  BY <1>2, TransferHandsOut, RaiseHandsOut, CrossLayerHandsOut DEF Feed!FeedNext
<1>3. CASE NotifyInbox
  BY <1>3, NotifyAnnounces DEF Feed!FeedNext
<1>4. CASE \/ StartCycle \/ CollectStatus \/ CollectFiles \/ AutoSpawn \/ FirstCycleCheck
           \/ MatchNewEdges \/ SecondCycleCheck \/ WriteTasks \/ DependencyChain
           \/ CycleFails \/ OrchestratorCrash \/ UNCHANGED vars
           \/ \E n \in Nodes : \/ DeclareNeeds(n) \/ BecomeBlocked(n) \/ Resume(n)
                               \/ Deliver(n) \/ Exit(n)
  <2>1. UNCHANGED <<provides, resolved, inbox>>
    BY <1>4 DEF StartCycle, CollectStatus, CollectFiles, AutoSpawn, FirstCycleCheck, MatchNewEdges,
                SecondCycleCheck, WriteTasks, DependencyChain, CycleFails, OrchestratorCrash,
                DeclareNeeds, BecomeBlocked, Resume, Deliver, Exit, vars, files, processes
  <2> QED BY <2>1, FeedStutters
<1> QED BY <1>1, <1>2, <1>3, <1>4 DEF Next, Cycle, NodeStep

\* Of a key with one provider, what the passes read from stale snapshots, save over
\* each other and lose in a crash comes to every node as a feed: numbers that rise,
\* announced once and after they were saved, and lost only before that.
THEOREM ResolutionImplementsFeed == Spec => ImplementsFeed
<1>1. TypeOK /\ ValueInv /\ FeedInv /\ TypeOK' /\ [Next]_vars => [Feed!FeedNext]_(Feed!feedVars)
  BY FeedSteps
<1> QED
  BY <1>1, FeedStarts, FeedInvariant, PTL DEF Spec, ImplementsFeed, Feed!FeedSpec
-------------------------------------------------------------------------------
\* Circles.  What OnCycle computes, without induction: the nodes reached from a node
\* are the smallest set that is closed under edges and holds its neighbours.

NextOf(edges, n) == {e.provider : e \in {d \in edges : d.requester = n}}
Closed(edges) == {S \in SUBSET Nodes : \A m \in S : NextOf(edges, m) \subseteq S}
Reached(edges, n) ==
  {m \in Nodes : \A S \in Closed(edges) : NextOf(edges, n) \subseteq S => m \in S}

LEMMA OnCycleReached ==
  ASSUME NEW edges
  PROVE  OnCycle(edges) = {n \in Nodes : n \in Reached(edges, n)}
BY DEF OnCycle, Reached, Closed, NextOf

LEMMA ReachedClosed ==
  ASSUME NEW edges, edges \subseteq Edge, NEW n \in Nodes
  PROVE  Reached(edges, n) \in Closed(edges) /\ NextOf(edges, n) \subseteq Reached(edges, n)
<1>1. \A m \in Nodes : NextOf(edges, m) \subseteq Nodes
  BY DEF NextOf, Edge
<1>2. NextOf(edges, n) \subseteq Reached(edges, n)
  BY <1>1 DEF Reached
<1>3. ASSUME NEW m \in Reached(edges, n), NEW p \in NextOf(edges, m)
      PROVE  p \in Reached(edges, n)
  <2>1. m \in Nodes /\ p \in Nodes
    BY <1>1 DEF Reached
  <2>2. ASSUME NEW S \in Closed(edges), NextOf(edges, n) \subseteq S
        PROVE  p \in S
    BY <2>2 DEF Reached, Closed
  <2> QED BY <2>1, <2>2 DEF Reached
<1> QED BY <1>2, <1>3 DEF Closed, Reached

\* A node that is reached from itself is on a circle: the nodes that it reaches and
\* that reach it.
LEMMA CycleIsCircle ==
  ASSUME NEW edges, edges \subseteq Edge, NEW n \in OnCycle(edges)
  PROVE  \E C \in SUBSET Nodes : n \in C /\ Circle(C, edges)
<1> DEFINE R == Reached(edges, n)
           C == {m \in R : n \in Reached(edges, m)}
<1>1. n \in Nodes /\ n \in R /\ R \in Closed(edges) /\ R \subseteq Nodes
  BY OnCycleReached, ReachedClosed DEF Reached
<1>2. ASSUME NEW T \in SUBSET C, T # {},
             \A e \in edges : e.requester \in T /\ e.provider \in C => T # C /\ e.provider \in T
      PROVE  FALSE
  <2> DEFINE X == T \union (R \ C)
  <2>1. ASSUME NEW m \in X, NEW p \in NextOf(edges, m)
        PROVE  p \in X
    <3>1. p \in R
      BY <1>1 DEF Closed
    <3>2. CASE m \in T
      <4>1. PICK e \in edges : e.requester = m /\ e.provider = p
        BY DEF NextOf
      <4> QED BY <1>2, <3>1, <3>2, <4>1
    <3>3. CASE m \in R \ C
      <4>1. ASSUME p \in C
            PROVE  n \in Reached(edges, m)
        <5>1. m \in Nodes /\ p \in Nodes
          BY <1>1, <3>1, <3>3
        <5>2. p \in Reached(edges, m) /\ Reached(edges, m) \in Closed(edges)
          BY <5>1, ReachedClosed
        <5>3. NextOf(edges, p) \subseteq Reached(edges, m)
          BY <5>2 DEF Closed
        <5> QED BY <4>1, <5>2, <5>3 DEF Reached
      <4> QED BY <3>1, <3>3, <4>1
    <3> QED BY <3>2, <3>3
  <2>2. X \in Closed(edges)
    BY <1>1, <2>1 DEF Closed
  <2>3. PICK t : t \in T
    BY <1>2
  <2>4. n \in X
    <3>1. n \in Reached(edges, t) /\ NextOf(edges, t) \subseteq X
      BY <2>1, <2>3
    <3> QED BY <2>2, <3>1 DEF Reached
  <2>5. n \in C
    BY <1>1
  <2>6. R \subseteq X
    <3>1. NextOf(edges, n) \subseteq X
      BY <2>1, <2>4
    <3> QED BY <2>2, <3>1 DEF Reached
  <2>7. T = C
    BY <2>6
  <2>8. PICK e \in edges : e.requester = n /\ e.provider \in C
    <3>1. ASSUME \A e \in edges : e.requester = n => e.provider \notin C
          PROVE  FALSE
      <4>1. ASSUME NEW m \in R \ C, NEW p \in NextOf(edges, m)
            PROVE  p \in R \ C
        <5>1. m \in Nodes /\ p \in R /\ p \in Nodes
          BY <1>1 DEF Closed
        <5>2. p \in Reached(edges, m) /\ Reached(edges, m) \in Closed(edges)
          BY <5>1, ReachedClosed
        <5>3. NextOf(edges, p) \subseteq Reached(edges, m)
          BY <5>2 DEF Closed
        <5>4. n \in Reached(edges, p) => n \in Reached(edges, m)
          BY <5>2, <5>3 DEF Reached
        <5> QED BY <5>1, <5>4
      <4>2. R \ C \in Closed(edges)
        BY <1>1, <4>1 DEF Closed
      <4>3. NextOf(edges, n) \subseteq R \ C
        BY <1>1, <3>1, ReachedClosed DEF NextOf
      <4> QED BY <1>1, <2>5, <4>2, <4>3 DEF Reached
    <3> QED BY <3>1
  <2> QED BY <1>2, <2>5, <2>7, <2>8
<1>3. Circle(C, edges)
  <2>1. C # {}
    BY <1>1
  <2>2. ASSUME NEW T \in (SUBSET C) \ {{}}
        PROVE  \E e \in edges : /\ e.requester \in T /\ e.provider \in C
                                /\ T = C \/ e.provider \notin T
    <3>1. CASE T = C
      BY <1>2, <3>1
    <3>2. CASE T # C
      BY <1>2, <3>2
    <3> QED BY <3>1, <3>2
  <2> HIDE DEF C
  <2> QED BY <2>1, <2>2 DEF Circle
<1> QED BY <1>1, <1>3

\* Among finitely many nodes that need each other some node is reached from itself: each
\* one of a smallest set of such nodes.
LEMMA NeedsMakeCycle ==
  ASSUME NEW edges, edges \subseteq Edge, NEW S \in (SUBSET Nodes) \ {{}},
         \A n \in S : \E e \in edges : e.requester = n /\ e.provider \in S
  PROVE  OnCycle(edges) # {}
<1> DEFINE Needy(T) == T # {} /\ \A n \in T : \E p \in NextOf(edges, n) : p \in T
           F == {T \in SUBSET Nodes : Needy(T)}
           Below == StrictSubsetOrdering(Nodes)
<1>1. PICK M \in F : \A T \in F : <<T, M>> \notin Below
  <2>1. FiniteSubsetsOf(Nodes) = SUBSET Nodes
    BY DepAssumption, FS_FiniteSubsetsOfFinite
  <2>2. IsWellFoundedOn(Below, SUBSET Nodes)
    BY <2>1, FS_StrictSubsetOrderingWellFounded
  <2>3. S \in F
    BY DEF NextOf
  <2>4. F \subseteq SUBSET Nodes /\ F # {}
    BY <2>3
  <2> HIDE DEF F, Below
  <2> QED BY <2>2, <2>4, WFMin
<1>2. M \in SUBSET Nodes /\ Needy(M)
  OBVIOUS
<1>3. ASSUME NEW T \in F, T \subseteq M
      PROVE  T = M
  BY <1>1, <1>2, <1>3 DEF StrictSubsetOrdering
<1>4. PICK m : m \in M
  BY <1>2
<1> DEFINE Inside == {X \in SUBSET M : \A x \in X : NextOf(edges, x) \intersect M \subseteq X}
           D == {x \in M : \A X \in Inside : NextOf(edges, m) \intersect M \subseteq X => x \in X}
<1>5. D \in F /\ D \subseteq M
  <2>1. NextOf(edges, m) \intersect M \subseteq D
    OBVIOUS
  <2>2. \A x \in D : NextOf(edges, x) \intersect M \subseteq D
    OBVIOUS
  <2>3. D # {}
    BY <1>2, <1>4, <2>1
  <2>4. \A x \in D : \E p \in NextOf(edges, x) : p \in D
    BY <1>2, <2>2
  <2> HIDE DEF D
  <2>5. D \subseteq M
    BY DEF D
  <2> QED BY <1>2, <2>3, <2>4, <2>5
<1>6. m \in D
  BY <1>3, <1>4, <1>5
<1>7. ASSUME NEW X \in Closed(edges), NextOf(edges, m) \subseteq X
      PROVE  m \in X
  <2>1. X \intersect M \in Inside
    BY DEF Closed
  <2> QED BY <1>6, <1>7, <2>1
<1>8. m \in Reached(edges, m)
  BY <1>2, <1>4, <1>7 DEF Reached
<1> QED BY <1>2, <1>4, <1>8, OnCycleReached
\* The edges of the snapshot.
LEMMA EdgesOfSnapshot ==
  ASSUME TypeOK
  PROVE  /\ ExistingEdges \union newEdges \subseteq Edge
         /\ \A e \in ExistingEdges \union newEdges : e.requester \in Seen
<1>1. newEdges \subseteq Edge /\ \A e \in newEdges : e.requester \in Seen
  BY DEF TypeOK, MemoryOK, Edge, Seen
<1>2. ExistingEdges \subseteq Edge /\ \A e \in ExistingEdges : e.requester \in Seen
  BY DEF ExistingEdges
<1> QED BY <1>1, <1>2

\* Before values are handed out, all edges last.
LEMMA EdgesLast ==
  ASSUME WaitInv, pass \in {"2", "5"}
  PROVE  LastingEdges = ExistingEdges \union newEdges
BY DEF WaitInv, SnapWaits, EdgesUnresolved, LastingEdges, StillWaits, ExistingEdges, BeforeValues,
       BeforeMatching, Waits, Asking

\* What a cycle check marks dead, if anything: one node of OnCycle.
LEMMA CheckMarks ==
  ASSUME TypeOK, WaitInv, FirstCycleCheck \/ SecondCycleCheck
  PROVE  \E found : /\ status' = Marked(found)
                    /\ LET all == ExistingEdges \union newEdges
                       IN IF OnCycle(all) = {} THEN found = {}
                          ELSE \E n \in OnCycle(all) : found = {n}
<1>1. CASE FirstCycleCheck
  <2>1. newEdges = {}
    BY <1>1 DEF FirstCycleCheck, WaitInv, EdgesUnresolved, BeforeMatching
  <2>2. ExistingEdges = ExistingEdges \union newEdges
    BY <2>1
  <2> QED BY <1>1, <2>2 DEF FirstCycleCheck, Detected
<1>2. CASE SecondCycleCheck
  BY <1>2 DEF SecondCycleCheck, Detected
<1> QED BY <1>1, <1>2

LEMMA DeathsOnCircles ==
  ASSUME TypeOK, WaitInv, [Next]_vars, pass \in {"2", "5"},
         NEW n \in Nodes, status[n] # "dead", status'[n] = "dead"
  PROVE  \E C \in SUBSET Seen : n \in C /\ Circle(C, LastingEdges)
<1> DEFINE all == ExistingEdges \union newEdges
<1>1. FirstCycleCheck \/ SecondCycleCheck
  <2>1. CASE \E m \in Nodes : NodeStep(m)
    BY <2>1 DEF NodeStep, DeclareNeeds, BecomeBlocked, Resume, Publish, Deliver, Exit, files,
                TypeOK, FilesOK
  <2>2. CASE CycleFails \/ OrchestratorCrash \/ UNCHANGED vars
    BY <2>2 DEF CycleFails, OrchestratorCrash, vars, files
  <2> QED BY <2>1, <2>2 DEF Next, Cycle, StartCycle, CollectStatus, CollectFiles, AutoSpawn,
             MatchNewEdges, WriteTasks, TransferResolved, DependencyChain, ValueChange,
             NotifyInbox, CrossLayer
<1>2. n \in OnCycle(all)
  <2>1. PICK found : /\ status' = Marked(found)
                     /\ IF OnCycle(all) = {} THEN found = {}
                        ELSE \E m \in OnCycle(all) : found = {m}
    BY <1>1, CheckMarks
  <2>2. n \in found
    BY <2>1 DEF Marked
  <2> HIDE DEF all
  <2> QED BY <2>1, <2>2
<1>3. PICK C \in SUBSET Nodes : n \in C /\ Circle(C, all)
  BY <1>2, EdgesOfSnapshot, CycleIsCircle
<1>4. \A m \in C : \E e \in all : e.requester = m
  <2> SUFFICES ASSUME NEW m \in C
               PROVE  \E e \in all : e.requester = m
    OBVIOUS
  <2>1. {m} \in (SUBSET C) \ {{}}
    OBVIOUS
  <2> HIDE DEF all
  <2> QED BY <1>3, <2>1 DEF Circle
<1>5. C \in SUBSET Seen
  BY <1>4, EdgesOfSnapshot
<1> QED BY <1>3, <1>5, EdgesLast

LEMMA NeedsAreBroken ==
  ASSUME TypeOK, WaitInv, [Next]_vars, NeedEachOther, pass \in {"2", "5"}, pass' \in {"4", "6"}
  PROVE  \E n \in Seen : status' = [status EXCEPT ![n] = "dead"]
<1> DEFINE all == ExistingEdges \union newEdges
<1>1. FirstCycleCheck \/ SecondCycleCheck
  <2>1. CASE \E m \in Nodes : NodeStep(m)
    BY <2>1 DEF NodeStep, DeclareNeeds, BecomeBlocked, Resume, Publish, Deliver, Exit, memory
  <2>2. CASE CycleFails \/ OrchestratorCrash \/ UNCHANGED vars
    BY <2>2 DEF CycleFails, OrchestratorCrash, vars, memory
  <2> QED BY <2>1, <2>2 DEF Next, Cycle, StartCycle, CollectStatus, CollectFiles, AutoSpawn,
             MatchNewEdges, WriteTasks, TransferResolved, DependencyChain, ValueChange,
             NotifyInbox, CrossLayer
<1>2. OnCycle(all) # {}
  <2>1. PICK S \in (SUBSET Seen) \ {{}} :
          \A n \in S : \E e \in all : e.requester = n /\ e.provider \in S
    BY DEF NeedEachOther
  <2>2. S \in (SUBSET Nodes) \ {{}}
    BY DEF Seen
  <2> QED BY <2>1, <2>2, EdgesOfSnapshot, NeedsMakeCycle
<1>3. PICK n \in OnCycle(all) : status' = Marked({n})
  BY <1>1, <1>2, CheckMarks
<1>4. n \in Seen
  <2>1. PICK C \in SUBSET Nodes : n \in C /\ Circle(C, all)
    BY EdgesOfSnapshot, CycleIsCircle
  <2>2. {n} \in (SUBSET C) \ {{}}
    BY <2>1
  <2>3. \E e \in all : e.requester = n
    <3> HIDE DEF all
    <3> QED BY <2>1, <2>2 DEF Circle
  <2> QED BY <2>3, EdgesOfSnapshot
<1>5. n \in Nodes /\ status \in [Nodes -> Statuses]
  BY <1>4 DEF Seen, TypeOK, FilesOK
<1>6. status' = [status EXCEPT ![n] = "dead"]
  BY <1>3, <1>5 DEF Marked
<1> QED BY <1>4, <1>6

\* Over any nodes and needs, a cycle check marks no node dead but one on a circle of
\* needs, on which every blocked node still waits.
THEOREM DeathsAreOnCircles == Spec => OnlyCirclesDie
<1>1. TypeOK /\ WaitInv /\ [Next]_vars =>
        [(pass \in {"2", "5"}) =>
           \A n \in Nodes :
             status[n] # "dead" /\ status'[n] = "dead" =>
               \E C \in SUBSET Seen : n \in C /\ Circle(C, LastingEdges)]_vars
  BY DeathsOnCircles
<1> QED BY <1>1, WaitInvariant, PTL DEF Spec, OnlyCirclesDie

\* Any finite set of nodes that need each other in the snapshot costs a node its life.
THEOREM CirclesAreBroken == Spec => CirclesBreak
<1>1. TypeOK /\ WaitInv /\ [Next]_vars =>
        [NeedEachOther /\ pass \in {"2", "5"} /\ pass' \in {"4", "6"} =>
           \E n \in Seen : status' = [status EXCEPT ![n] = "dead"]]_vars
  BY NeedsAreBroken
<1> QED BY <1>1, WaitInvariant, PTL DEF Spec, CirclesBreak

-------------------------------------------------------------------------------
\* The search that ends with this answer, over the graph of these edges.
Search(edges, entered, stack, open, left, answer) ==
  INSTANCE CycleSearch
    WITH Vertices <- Nodes, NoVertex <- None, adj <- [n \in Nodes |-> NextOf(edges, n)],
         visited <- entered, inStack <- stack, calls <- open,
         rest <- left, cycleNode <- answer

\* Detected of Passes 3 and 5 is what the depth-first search of CycleSearch can answer:
\* a search that finds cycles exactly where they are (PartProofs: every search does)
\* ends with a member of Detected.
THEOREM SearchAnswersDetected ==
  ASSUME NEW edges, edges \subseteq Edge, NEW entered, NEW stack, NEW open, NEW left,
         NEW answer \in Nodes \union {None},
         Search(edges, entered, stack, open, left, answer)!SearchFindsCycles
  PROVE  /\ answer # None => {answer} \in Detected(edges)
         /\ Search(edges, entered, stack, open, left, answer)!NothingFound => {} \in Detected(edges)
<1>1. ASSUME answer # None
      PROVE  {answer} \in Detected(edges)
  <2>1. answer \in Nodes /\ Search(edges, entered, stack, open, left, answer)!LeadsBack(answer)
    BY <1>1 DEF Search!SearchFindsCycles, Search!FoundIsOnCycle, Search!Searching
  <2>2. answer \in OnCycle(edges)
    BY <2>1 DEF Search!LeadsBack, OnCycle, NextOf
  <2> QED
    BY <2>2 DEF Detected
<1>2. ASSUME Search(edges, entered, stack, open, left, answer)!NothingFound
      PROVE  {} \in Detected(edges)
  <2>1. \A S \in (SUBSET Nodes) \ {{}} : \E v \in S : NextOf(edges, v) \intersect S = {}
    BY <1>2 DEF Search!SearchFindsCycles, Search!NoCycleMissed
  <2>2. OnCycle(edges) = {}
    <3> SUFFICES ASSUME NEW n \in OnCycle(edges) PROVE FALSE
      OBVIOUS
    <3>1. PICK C \in SUBSET Nodes : n \in C /\ Circle(C, edges)
      BY CycleIsCircle
    <3>2. PICK v \in C : NextOf(edges, v) \intersect C = {}
      BY <2>1, <3>1
    <3>3. PICK e \in edges : e.requester \in {v} /\ e.provider \in C
      BY <3>1, <3>2 DEF Circle
    <3> QED
      BY <3>2, <3>3 DEF NextOf
  <2> QED
    BY <2>2 DEF Detected
<1> QED
  BY <1>1, <1>2
===============================================================================
