--------------------------- MODULE ElectionProofs ---------------------------
(***************************************************************************)
(* Theorems of Election, for any number of nodes, any merits and latencies *)
(* and any losses, failures and restarts.  The inductive invariant says    *)
(* that a role is the one its table entails and that a node's own record   *)
(* has latency 0; the rest is about the order of one table.                *)
(***************************************************************************)
EXTENDS Election, FiniteSetTheorems, TLAPS

\* A table of records that holds n itself, as evaluate ranks it.
TableOf(t, n) ==
  /\ DOMAIN t \subseteq Nodes
  /\ n \in DOMAIN t
  /\ \A m \in DOMAIN t : t[m] \in Latencies
  /\ t[n] = 0

RolesMatch ==
  /\ status \in [Nodes -> Statuses]
  /\ heard \in [Nodes -> [Nodes -> Latencies \cup {NoNode}]]
  /\ view = [n \in Nodes |-> view[n]]
  /\ role = [n \in Nodes |-> role[n]]
  /\ \A n \in Nodes :
       \/ view[n] = NoView /\ role[n] = NoRole
       \/ TableOf(view[n], n) /\ role[n] = RoleIn(view[n], n)

-----------------------------------------------------------------------------
(* The order of one table                                                  *)

\* The scores are natural numbers, and the order on a table is total and strict.
LEMMA OrderOfTable ==
  ASSUME NEW t, NEW n \in DOMAIN t, NEW m \in DOMAIN t, DOMAIN t \subseteq Nodes,
         \A k \in DOMAIN t : t[k] \in Latencies
  PROVE  /\ Score(t, n) \in Nat
         /\ ~RanksBefore(t, n, n)
         /\ RanksBefore(t, n, m) => ~RanksBefore(t, m, n)
         /\ n # m => RanksBefore(t, n, m) \/ RanksBefore(t, m, n)
         /\ \A k \in DOMAIN t : RanksBefore(t, k, n) /\ RanksBefore(t, n, m) => RanksBefore(t, k, m)
<1>1. \A k \in DOMAIN t : Score(t, k) \in Nat /\ k \in Nat
  <2> TAKE k \in DOMAIN t
  <2>1. k \in Nodes /\ k \in Nat /\ t[k] \in Latencies
    BY NodesAssumption
  <2>2. Merit[k] \in Nat
    BY <2>1, MeritAssumption
  <2>3. LatencyScore[t[k]] \in Nat
    BY <2>1, LatencyAssumption
  <2> QED BY <2>1, <2>2, <2>3 DEF Score
<1> QED
  BY <1>1 DEF RanksBefore

\* Places are natural numbers, and different nodes have different ones.
LEMMA PlacesDiffer ==
  ASSUME NEW t, NEW n \in DOMAIN t, NEW m \in DOMAIN t, DOMAIN t \subseteq Nodes,
         \A k \in DOMAIN t : t[k] \in Latencies
  PROVE  Place(t, n) \in Nat /\ (RanksBefore(t, n, m) => Place(t, n) < Place(t, m))
<1> DEFINE Ahead(k) == {j \in DOMAIN t : RanksBefore(t, j, k)}
<1>1. \A k \in DOMAIN t : IsFiniteSet(Ahead(k)) /\ Cardinality(Ahead(k)) \in Nat
  <2>1. IsFiniteSet(DOMAIN t)
    BY NodesAssumption, FS_Subset
  <2> QED BY <2>1, FS_Subset, FS_CardinalityType
<1>2. \A k \in DOMAIN t : Place(t, k) = Cardinality(Ahead(k))
  BY DEF Place
<1>3. ASSUME RanksBefore(t, n, m) PROVE Place(t, n) < Place(t, m)
  <2>1. Ahead(n) \cup {n} \subseteq Ahead(m)
    BY <1>3, OrderOfTable
  <2>2. n \notin Ahead(n)
    BY OrderOfTable
  <2>3. Cardinality(Ahead(n) \cup {n}) = Cardinality(Ahead(n)) + 1
    BY <1>1, <2>2, FS_AddElement
  <2>4. Cardinality(Ahead(n) \cup {n}) <= Cardinality(Ahead(m))
    BY <1>1, <2>1, FS_Subset
  <2>5. Cardinality(Ahead(n)) \in Nat /\ Cardinality(Ahead(m)) \in Nat
    BY <1>1
  <2> HIDE DEF Ahead
  <2> QED BY <1>2, <2>3, <2>4, <2>5
<1> QED BY <1>1, <1>2, <1>3

\* A table with a node in it has at least one leader to give.
LEMMA LeaderCountPositive ==
  ASSUME NEW t, NEW n \in DOMAIN t, DOMAIN t \subseteq Nodes
  PROVE  LeaderCount(t) \in Nat \ {0}
<1>1. IsFiniteSet(DOMAIN t)
  BY NodesAssumption, FS_Subset
<1>2. Cardinality(DOMAIN t) \in Nat \ {0}
  BY <1>1, FS_CardinalityType, FS_EmptySet
<1> QED BY <1>2, LimitAssumption DEF LeaderCount

\* The flag of a role says whether the node is among the leaders.
LEMMA RoleFlag ==
  ASSUME NEW t, NEW n
  PROVE  RoleIn(t, n).coordinator <=> n \in Leaders(t)
<1> DEFINE leads == n \in Leaders(t)
<1>1. RoleIn(t, n).coordinator = leads
  BY DEF RoleIn
<1> QED BY <1>1, Zenon

-----------------------------------------------------------------------------
(* The invariant                                                           *)

LEMMA NoViewIsNoTable == \A n \in Nodes : ~TableOf(NoView, n)
BY DEF TableOf, NoView

\* What evaluate ranks is a table that holds the node itself, with latency 0.
LEMMA EvaluatedTable ==
  ASSUME NEW n \in Nodes, NEW expired, RolesMatch
  PROVE  TableOf(Table(n, expired), n)
<1>1. DOMAIN Table(n, expired) = ({k \in Nodes : heard[n][k] # NoNode} \ expired) \cup {n}
  BY DEF Table
<1>2. \A m \in DOMAIN Table(n, expired) :
        Table(n, expired)[m] = IF m = n THEN 0 ELSE heard[n][m]
  BY DEF Table
<1> QED BY <1>1, <1>2, LatencyAssumption DEF TableOf, RolesMatch

LEMMA RolesMatchInit == ElectionInit => RolesMatch
BY DEF ElectionInit, RolesMatch, Statuses, NothingHeard

LEMMA RolesMatchStep == RolesMatch /\ [ElectionNext]_electionVars => RolesMatch'
<1> SUFFICES ASSUME RolesMatch, [ElectionNext]_electionVars PROVE RolesMatch'
  OBVIOUS
<1>1. ASSUME NEW n \in Nodes, NEW m \in Nodes, NEW latency \in Delays[<<n, m>>],
             HearAnnouncement(n, m, latency)
      PROVE  RolesMatch'
  <2>1. latency \in Latencies
    BY DelaysAssumption
  <2>2. heard' \in [Nodes -> [Nodes -> Latencies \cup {NoNode}]]
    BY <1>1, <2>1 DEF HearAnnouncement, RolesMatch
  <2> QED BY <1>1, <2>2 DEF HearAnnouncement, RolesMatch, TableOf
<1>2. ASSUME NEW n \in Nodes, Evaluate(n) PROVE RolesMatch'
  <2>0. /\ UNCHANGED <<status, starts>>
        /\ \E expired \in Removed(n) : \E t \in {Table(n, expired)} :
             /\ heard' = [heard EXCEPT ![n] =
                            [m \in Nodes |-> IF m \in expired THEN NoNode ELSE @[m]]]
             /\ view' = [view EXCEPT ![n] = t]
             /\ role' = [role EXCEPT ![n] = RoleIn(t, n)]
    BY <1>2, ZenonT(30) DEF Evaluate
  <2>1. PICK expired : /\ heard' = [heard EXCEPT ![n] =
                                      [m \in Nodes |-> IF m \in expired THEN NoNode ELSE @[m]]]
                       /\ view' = [view EXCEPT ![n] = Table(n, expired)]
                       /\ role' = [role EXCEPT ![n] = RoleIn(Table(n, expired), n)]
    BY <2>0
  <2>2. TableOf(Table(n, expired), n)
    BY EvaluatedTable
  <2>3. heard' \in [Nodes -> [Nodes -> Latencies \cup {NoNode}]]
    BY <2>1 DEF RolesMatch
  <2>4. /\ view' = [k \in Nodes |-> view'[k]] /\ role' = [k \in Nodes |-> role'[k]]
        /\ view'[n] = Table(n, expired) /\ role'[n] = RoleIn(view'[n], n)
        /\ \A k \in Nodes \ {n} : view'[k] = view[k] /\ role'[k] = role[k]
    BY <2>1 DEF RolesMatch
  <2> QED BY <2>0, <2>2, <2>3, <2>4 DEF RolesMatch, TableOf
<1>3. ASSUME NEW n \in Nodes, Stop(n) PROVE RolesMatch'
  BY <1>3 DEF Stop, RolesMatch, TableOf, Statuses, NothingHeard
<1>4. ASSUME NEW n \in Nodes, Fade(n) PROVE RolesMatch'
  BY <1>4 DEF Fade, RolesMatch, TableOf, Statuses
<1>5. ASSUME NEW n \in Nodes, Start(n) PROVE RolesMatch'
  BY <1>5 DEF Start, RolesMatch, TableOf, Statuses
<1>6. CASE UNCHANGED electionVars
  BY <1>6 DEF electionVars, RolesMatch, TableOf
<1> QED BY <1>1, <1>2, <1>3, <1>4, <1>5, <1>6 DEF ElectionNext

\* Every role is the one the node's own table entails.
THEOREM RolesMatchTables == ElectionSpec => []RolesMatch
BY RolesMatchInit, RolesMatchStep, PTL DEF ElectionSpec

-----------------------------------------------------------------------------
(* What the roles of one state have to do with each other                  *)

LEMMA DeferenceIsUpward == RolesMatch => DefersUpward
<1> SUFFICES ASSUME RolesMatch, NEW n \in Nodes, view[n] # NoView, ~role[n].coordinator
             PROVE  \E m \in DOMAIN view[n] : Better(m, n)
  BY DEF DefersUpward
<1> DEFINE t == view[n]
<1>1. TableOf(t, n) /\ role[n] = RoleIn(t, n)
  BY DEF RolesMatch
<1>2. n \notin Leaders(t)
  BY <1>1, RoleFlag, Zenon
<1>3. ~(Place(t, n) < LeaderCount(t))
  BY <1>1, <1>2 DEF Leaders, TableOf
<1>4. Place(t, n) \in Nat \ {0}
  BY <1>1, <1>3, PlacesDiffer, LeaderCountPositive DEF TableOf
<1>5. PICK m \in DOMAIN t : RanksBefore(t, m, n)
  BY <1>4, FS_EmptySet DEF Place
<1>6. /\ Merit[m] \in Nat /\ Merit[n] \in Nat
      /\ LatencyScore[t[m]] \in Nat /\ LatencyScore[t[n]] \in Nat
      /\ LatencyScore[t[m]] <= LatencyScore[t[n]]
  BY <1>1, MeritAssumption, LatencyAssumption DEF TableOf
<1>7. m \in Nat /\ n \in Nat
  BY <1>1, NodesAssumption DEF TableOf
<1>8. Better(m, n)
  BY <1>5, <1>6, <1>7 DEF RanksBefore, Score, Better
<1> QED BY <1>8

\* Whatever is heard, lost or outdated, a node leaves coordination only to a
\* node of more merit: deference never goes round in a circle.
THEOREM DeferenceGoesUp == ElectionSpec => []DefersUpward
BY RolesMatchTables, DeferenceIsUpward, PTL

LEMMA EqualTablesAgree == RolesMatch => EqualTablesPartition
<1> SUFFICES ASSUME RolesMatch, NEW n \in Nodes, NEW m \in Nodes, n # m,
                    role[n].coordinator, role[m].coordinator, view[n] = view[m]
             PROVE  /\ role[n].count = role[m].count
                    /\ role[n].rank # role[m].rank
                    /\ role[n].rank < role[n].count /\ role[m].rank < role[m].count
  BY DEF EqualTablesPartition
<1> DEFINE t == view[n]
<1>1. /\ TableOf(t, n) /\ role[n] = RoleIn(t, n)
      /\ TableOf(t, m) /\ role[m] = RoleIn(t, m)
  BY DEF RolesMatch, NoRole
<1>2. n \in Leaders(t) /\ m \in Leaders(t)
  BY <1>1, RoleFlag, Zenon
<1>3. /\ role[n].rank = Place(t, n) /\ role[m].rank = Place(t, m)
      /\ role[n].count = LeaderCount(t) /\ role[m].count = LeaderCount(t)
  BY <1>1, <1>2 DEF RoleIn
<1>4. Place(t, n) < LeaderCount(t) /\ Place(t, m) < LeaderCount(t)
  BY <1>2 DEF Leaders
<1>5. RanksBefore(t, n, m) \/ RanksBefore(t, m, n)
  BY <1>1, OrderOfTable DEF TableOf
<1>6. Place(t, n) \in Nat /\ Place(t, m) \in Nat
      /\ (RanksBefore(t, n, m) => Place(t, n) < Place(t, m))
      /\ (RanksBefore(t, m, n) => Place(t, m) < Place(t, n))
  BY <1>1, PlacesDiffer DEF TableOf
<1> QED BY <1>3, <1>4, <1>5, <1>6

\* Coordinators that ranked the same table own different shares of the events.
THEOREM EqualTablesShare == ElectionSpec => []EqualTablesPartition
BY RolesMatchTables, EqualTablesAgree, PTL

\* Both: deference goes up, and equal tables divide the events.
THEOREM EventsShared == ElectionSpec => []EventsAreShared
<1>1. RolesMatch => EventsAreShared
  BY DeferenceIsUpward, EqualTablesAgree DEF EventsAreShared
<1> QED BY RolesMatchTables, <1>1, PTL

-----------------------------------------------------------------------------
(* What an evaluation chooses exists                                       *)

\* A total strict order has a first element in every finite set: one with the
\* fewest elements before it.
LEMMA FirstOfOrder ==
  ASSUME NEW S, IsFiniteSet(S), S # {}, NEW R,
         \A x \in S : <<x, x>> \notin R,
         \A x, y \in S : x # y => <<x, y>> \in R \/ <<y, x>> \in R,
         \A x, y, z \in S : <<x, y>> \in R /\ <<y, z>> \in R => <<x, z>> \in R
  PROVE  \E x \in S : \A y \in S \ {x} : <<x, y>> \in R
<1> DEFINE Before(x) == {y \in S : <<y, x>> \in R}
           T == {Before(x) : x \in S}
           less == StrictSubsetOrdering(S)
<1>1. T \subseteq FiniteSubsetsOf(S) /\ T # {}
  <2>1. \A x \in S : Before(x) \in SUBSET S
    OBVIOUS
  <2>2. \A x \in S : Before(x) \in FiniteSubsetsOf(S)
    <3> HIDE DEF Before
    <3> QED BY <2>1, FS_Subset DEF FiniteSubsetsOf
  <2> HIDE DEF Before
  <2> QED BY <2>2
<1>2. IsWellFoundedOn(less, FiniteSubsetsOf(S))
  BY FS_StrictSubsetOrderingWellFounded
<1>3. \E X \in T : \A Y \in T : <<Y, X>> \notin less
  <2> HIDE DEF T, less
  <2> QED BY <1>1, <1>2, WFMin
<1>4. PICK x \in S : \A y \in S : <<Before(y), Before(x)>> \notin less
  <2> HIDE DEF Before, less
  <2>1. PICK X \in T : \A Y \in T : <<Y, X>> \notin less
    BY <1>3
  <2>2. PICK x \in S : X = Before(x)
    BY <2>1
  <2>3. \A y \in S : Before(y) \in T
    OBVIOUS
  <2> HIDE DEF T
  <2> QED BY <2>1, <2>2, <2>3
<1>5. ASSUME NEW y \in S \ {x}, <<y, x>> \in R PROVE FALSE
  <2>1. Before(y) \subseteq Before(x) /\ y \in Before(x) /\ y \notin Before(y)
    BY <1>5
  <2>2. <<Before(y), Before(x)>> \in less
    BY <2>1 DEF StrictSubsetOrdering
  <2> QED BY <1>4, <2>2
<1> QED BY <1>5

\* The first of a table leads it.
LEMMA SomebodyLeads ==
  ASSUME NEW t, NEW n, TableOf(t, n)
  PROVE  Leaders(t) # {} /\ IsFiniteSet(Leaders(t)) /\ Leaders(t) \subseteq DOMAIN t
<1> DEFINE D == DOMAIN t
           R == {p \in D \X D : RanksBefore(t, p[1], p[2])}
<1>1. IsFiniteSet(D) /\ D # {} /\ D \subseteq Nodes
  BY NodesAssumption, FS_Subset DEF TableOf
<1>2. \A x, y \in D : <<x, y>> \in R <=> RanksBefore(t, x, y)
  OBVIOUS
<1>3. \A x, y, z \in D :
        /\ ~RanksBefore(t, x, x)
        /\ RanksBefore(t, x, y) => ~RanksBefore(t, y, x)
        /\ x # y => RanksBefore(t, x, y) \/ RanksBefore(t, y, x)
        /\ RanksBefore(t, x, y) /\ RanksBefore(t, y, z) => RanksBefore(t, x, z)
  BY <1>1, OrderOfTable DEF TableOf
<1>4. \E x \in D : \A y \in D \ {x} : <<x, y>> \in R
  <2> HIDE DEF D, R
  <2> QED BY <1>1, <1>2, <1>3, FirstOfOrder
<1>5. PICK x \in D : \A y \in D \ {x} : RanksBefore(t, x, y)
  BY <1>2, <1>4
<1>6. {y \in D : RanksBefore(t, y, x)} = {}
  BY <1>3, <1>5
<1>7. Place(t, x) = 0
  BY <1>6, FS_EmptySet DEF Place
<1>8. LeaderCount(t) \in Nat \ {0}
  BY LeaderCountPositive DEF TableOf
<1> QED BY <1>1, <1>7, <1>8, FS_Subset DEF Leaders

\* select_proxy finds a leader.
LEMMA ProxyLeads ==
  ASSUME NEW t, NEW n, TableOf(t, n)
  PROVE  ProxyOf(t, Leaders(t)) \in Leaders(t)
<1> DEFINE L == Leaders(t)
           Fits(m) == \A k \in L \ {m} : t[m] < t[k] \/ (t[m] = t[k] /\ ~RanksBefore(t, k, m))
           R == {p \in L \X L : t[p[1]] < t[p[2]] \/
                                (t[p[1]] = t[p[2]] /\ RanksBefore(t, p[1], p[2]))}
<1>1. L # {} /\ IsFiniteSet(L) /\ L \subseteq DOMAIN t
  BY SomebodyLeads
<1>2. \A m \in L : t[m] \in Nat
  BY <1>1, LatencyAssumption DEF TableOf
<1>3. \A x, y, z \in L :
        /\ ~RanksBefore(t, x, x)
        /\ RanksBefore(t, x, y) => ~RanksBefore(t, y, x)
        /\ x # y => RanksBefore(t, x, y) \/ RanksBefore(t, y, x)
        /\ RanksBefore(t, x, y) /\ RanksBefore(t, y, z) => RanksBefore(t, x, z)
  BY <1>1, OrderOfTable DEF TableOf
<1>4. \A x, y \in L : <<x, y>> \in R <=>
                        t[x] < t[y] \/ (t[x] = t[y] /\ RanksBefore(t, x, y))
  OBVIOUS
<1>5. \E x \in L : \A y \in L \ {x} : <<x, y>> \in R
  <2>1. \A x \in L : <<x, x>> \notin R
    BY <1>2, <1>3, <1>4
  <2>2. \A x, y \in L : x # y => <<x, y>> \in R \/ <<y, x>> \in R
    BY <1>2, <1>3, <1>4
  <2>3. \A x, y, z \in L : <<x, y>> \in R /\ <<y, z>> \in R => <<x, z>> \in R
    BY <1>2, <1>3, <1>4
  <2> HIDE DEF L, R
  <2> QED BY <1>1, <2>1, <2>2, <2>3, FirstOfOrder
<1>6. \E m \in L : Fits(m)
  <2>1. PICK x \in L : \A y \in L \ {x} : <<x, y>> \in R
    BY <1>5
  <2>2. \A y \in L \ {x} : t[x] < t[y] \/ (t[x] = t[y] /\ ~RanksBefore(t, y, x))
    <3> TAKE y \in L \ {x}
    <3>1. t[x] < t[y] \/ (t[x] = t[y] /\ RanksBefore(t, x, y))
      BY <1>4, <2>1
    <3>2. RanksBefore(t, x, y) => ~RanksBefore(t, y, x)
      BY <1>3
    <3> HIDE DEF L, R
    <3> QED BY <3>1, <3>2
  <2> QED BY <2>2
<1>7. ProxyOf(t, L) = CHOOSE m \in L : Fits(m)
  BY DEF ProxyOf
<1> HIDE DEF L, Fits
<1>8. ProxyOf(t, L) \in L
  BY <1>6, <1>7
<1> QED BY <1>8 DEF L

\* select_prometheus_exporter finds a node of the table.
LEMMA ExporterFound ==
  ASSUME NEW t, NEW n, TableOf(t, n)
  PROVE  ExporterOf(t) \in DOMAIN t
<1> DEFINE D == DOMAIN t
           Precedes(m, k) ==
             \/ Probe[m] > 0 /\ Probe[k] = 0
             \/ /\ Probe[m] > 0 <=> Probe[k] > 0
                /\ \/ ExportScore(t, m) > ExportScore(t, k)
                   \/ ExportScore(t, m) = ExportScore(t, k) /\ m < k
           Fits(m) == \A k \in D \ {m} : Precedes(m, k)
           R == {p \in D \X D : Precedes(p[1], p[2])}
<1>1. IsFiniteSet(D) /\ D # {} /\ D \subseteq Nodes
  BY NodesAssumption, FS_Subset DEF TableOf
<1>2. \A m \in D : m \in Nat /\ Probe[m] \in Nat /\ ExportScore(t, m) \in Nat
  <2> TAKE m \in D
  <2>1. m \in Nat /\ Probe[m] \in Nat
    BY <1>1, NodesAssumption, MeritAssumption
  <2>2. Score(t, m) \in Nat
    BY <1>1, OrderOfTable DEF TableOf
  <2>3. Score(t, m) \div ProbeShare \in Nat
    BY <2>2, DelaysAssumption
  <2> QED BY <2>1, <2>2, <2>3 DEF ExportScore
<1>3. \A x, y \in D : <<x, y>> \in R <=> Precedes(x, y)
  OBVIOUS
<1>4. \E x \in D : \A y \in D \ {x} : <<x, y>> \in R
  <2>1. \A x \in D : ~Precedes(x, x)
    BY <1>2
  <2>2. \A x, y \in D : x # y => Precedes(x, y) \/ Precedes(y, x)
    BY <1>2
  <2>3. \A x, y, z \in D : Precedes(x, y) /\ Precedes(y, z) => Precedes(x, z)
    BY <1>2
  <2> HIDE DEF D, R, Precedes
  <2> QED BY <1>1, <1>3, <2>1, <2>2, <2>3, FirstOfOrder
<1>5. \E m \in D : Fits(m)
  <2> HIDE DEF R, Precedes
  <2> QED BY <1>3, <1>4
<1>6. ExporterOf(t) = CHOOSE m \in D : Fits(m)
  BY DEF ExporterOf
<1> HIDE DEF D, Fits
<1>7. ExporterOf(t) \in D
  BY <1>5, <1>6
<1> QED BY <1>7 DEF D

\* The role a table entails has the type of a role, and no more coordinators
\* than the table has nodes.
LEMMA RoleTypes ==
  ASSUME NEW t, NEW n, TableOf(t, n)
  PROVE  RoleIn(t, n) \in Roles /\ RoleIn(t, n).count <= Cardinality(DOMAIN t)
<1>1. /\ IsFiniteSet(DOMAIN t) /\ Cardinality(DOMAIN t) \in Nat /\ Unranked \in Nat
      /\ Cardinality(DOMAIN t) <= Unranked
  BY NodesAssumption, FS_Subset, FS_CardinalityType DEF TableOf, Unranked
<1>2. LeaderCount(t) \in Nat /\ LeaderCount(t) <= Cardinality(DOMAIN t)
  BY <1>1, LimitAssumption DEF LeaderCount
<1>3. Place(t, n) \in 0 .. Unranked
  <2> DEFINE Ahead == {m \in DOMAIN t : RanksBefore(t, m, n)}
  <2>1. IsFiniteSet(Ahead) /\ Cardinality(Ahead) <= Cardinality(DOMAIN t)
    BY <1>1, FS_Subset
  <2>2. Cardinality(Ahead) \in Nat
    BY <2>1, FS_CardinalityType
  <2> HIDE DEF Ahead
  <2>3. Cardinality(Ahead) \in 0 .. Unranked
    BY <1>1, <2>1, <2>2
  <2> QED BY <2>3 DEF Place, Ahead
<1>4. ProxyOf(t, Leaders(t)) \in Nodes /\ ExporterOf(t) \in Nodes
  BY ProxyLeads, ExporterFound, SomebodyLeads DEF TableOf
<1> DEFINE leads == n \in Leaders(t)
           rank == IF leads THEN Place(t, n) ELSE Unranked
<1>5. RoleIn(t, n) = [coordinator |-> leads, rank |-> rank, count |-> LeaderCount(t),
                      proxy |-> ProxyOf(t, Leaders(t)), exporter |-> ExporterOf(t)]
  BY DEF RoleIn
<1>6. rank \in 0 .. Unranked /\ LeaderCount(t) \in 0 .. Unranked /\ leads \in BOOLEAN
  BY <1>1, <1>2, <1>3
<1> HIDE DEF leads, rank
<1> QED BY <1>2, <1>4, <1>5, <1>6 DEF Roles

\* Type correctness: what evaluate chooses it finds, so every role names nodes,
\* and the slice of leaders never exceeds the table it was cut from.
THEOREM ElectionTypes == ElectionSpec => []ElectionTypeOK
<1> DEFINE Bounded == starts \in 0 .. MaxStarts
<1>1. ElectionInit => Bounded
  BY LimitAssumption DEF ElectionInit
<1>2. Bounded /\ [ElectionNext]_electionVars => Bounded'
  <2> SUFFICES ASSUME Bounded, [ElectionNext]_electionVars PROVE Bounded'
    OBVIOUS
  <2>1. ASSUME NEW n \in Nodes, Start(n) PROVE Bounded'
    BY <2>1, LimitAssumption DEF Start
  <2>2. ASSUME NEW n \in Nodes, Evaluate(n) PROVE UNCHANGED starts
    BY <2>2, Zenon DEF Evaluate
  <2>3. ASSUME NEW n \in Nodes, Stop(n) \/ Fade(n) PROVE UNCHANGED starts
    BY <2>3 DEF Stop, Fade
  <2>4. ASSUME NEW n \in Nodes, NEW m \in Nodes, NEW latency \in Delays[<<n, m>>],
               HearAnnouncement(n, m, latency)
        PROVE  UNCHANGED starts
    BY <2>4 DEF HearAnnouncement
  <2>5. CASE UNCHANGED electionVars
    BY <2>5 DEF electionVars
  <2> QED BY <2>1, <2>2, <2>3, <2>4, <2>5 DEF ElectionNext
<1>3. RolesMatch /\ Bounded => ElectionTypeOK
  <2> SUFFICES ASSUME RolesMatch, NEW n \in Nodes
               PROVE  /\ role[n] \in Roles
                      /\ role[n].count <= Cardinality(DOMAIN view[n])
                      /\ DOMAIN view[n] \subseteq Nodes
                      /\ \A m \in DOMAIN view[n] : view[n][m] \in Latencies
    BY DEF ElectionTypeOK, RolesMatch
  <2>1. CASE view[n] = NoView /\ role[n] = NoRole
    <3>1. Unranked \in Nat
      BY NodesAssumption, FS_CardinalityType DEF Unranked
    <3>2. NoRole \in Roles /\ NoRole.count = 0
      BY <3>1 DEF NoRole, Roles
    <3>3. DOMAIN NoView = {}
      BY DEF NoView
    <3> QED BY <2>1, <3>2, <3>3, FS_EmptySet
  <2>2. CASE TableOf(view[n], n) /\ role[n] = RoleIn(view[n], n)
    BY <2>2, RoleTypes DEF TableOf
  <2> QED BY <2>1, <2>2 DEF RolesMatch
<1> HIDE DEF Bounded
<1> QED BY <1>1, <1>2, <1>3, RolesMatchTables, PTL DEF ElectionSpec
=============================================================================
