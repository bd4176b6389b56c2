------------------------------ MODULE Election ------------------------------
(***************************************************************************)
(* The coordinator election of Tracey nodes (src/src/coordination.rs).     *)
(* There is no vote: every node keeps a table of the announcements it has  *)
(* heard on the gossip socket and, once per election interval, ranks the   *)
(* table by a weighted score and gives itself the role its own place in    *)
(* that ranking entails.  No node ever tells another what it decided, so   *)
(* what the cluster agrees on is only what the tables have in common.      *)
(*                                                                         *)
(* A record of the table is abstracted to the latency it was heard with    *)
(* (receive time minus the sender's timestamp): the other terms of the     *)
(* score belong to the node and are the constant Merit.  The scores are    *)
(* integers here and floats in the code; ties are broken by the agent id,  *)
(* the order of Nodes.                                                     *)
(***************************************************************************)
EXTENDS Naturals, FiniteSets

CONSTANTS
  Nodes,            \* agent ids
  MaxCoordinators,  \* config.max_coordinators
  Merit,            \* cores, hash score and capability tags, weighted
  LatencyScore,     \* the weighted latency term of a record
  Latencies,        \* the latencies in milliseconds that occur
  Delays,           \* those with which a node may hear another
  LossyLinks,       \* where announcements may be lost for a whole TTL
  Probe,            \* export score of the Prometheus probe, 0: not ready
  ProbeShare,       \* 1 / 0.05: the weighted score's share in an export score
  MaxStarts,        \* bound: how often stopped nodes are started again
  NoNode              \* no record, no node

ASSUME NodesAssumption == Nodes \subseteq Nat /\ IsFiniteSet(Nodes) /\ Nodes # {}
ASSUME LimitAssumption == MaxCoordinators \in Nat /\ MaxStarts \in Nat
ASSUME MeritAssumption == Merit \in [Nodes -> Nat] /\ Probe \in [Nodes -> Nat]
ASSUME DelaysAssumption ==
  /\ Delays \in [Nodes \X Nodes -> SUBSET Latencies]
  /\ LossyLinks \subseteq Nodes \X Nodes
  /\ ProbeShare \in Nat \ {0}
\* 1_000_000 / (1 + latency) * weight_latency, the weight being at least 0
ASSUME LatencyAssumption ==
  /\ Latencies \subseteq Nat /\ 0 \in Latencies
  /\ LatencyScore \in [Latencies -> Nat]
  /\ \A l \in Latencies : LatencyScore[l] <= LatencyScore[0]
ASSUME NoNodeAssumption == NoNode \notin Nat

VARIABLES
  status,   \* "up", "stopped" (announcements may still arrive), "gone" (older than the TTL)
  heard,    \* per node and peer, the latency of the record in the presence table
  role,     \* CoordinatorRole
  view,     \* history: the table the last evaluation ranked
  starts    \* bound: restarts so far

electionVars == <<status, heard, role, view, starts>>

Statuses == {"up", "stopped", "gone"}
Up == {n \in Nodes : status[n] = "up"}

-----------------------------------------------------------------------------
(* Ranking a table: a function from the nodes in it to their latencies.    *)

\* weighted_score
Score(t, m) == Merit[m] + LatencyScore[t[m]]

\* mutant: equal scores keep whatever order the map had
RanksBeforeWithoutId(t, m, n) == Score(t, m) > Score(t, n)

\* the order of candidates.sort_by: higher score first, then the lower id
RanksBefore(t, m, n) ==
  \/ Score(t, m) > Score(t, n)
  \/ Score(t, m) = Score(t, n) /\ m < n

Place(t, n) == Cardinality({m \in DOMAIN t : RanksBefore(t, m, n)})

\* mutant: the limit is not cut to the size of the table
LeaderCountUncut(t) == IF MaxCoordinators = 0 THEN 1 ELSE MaxCoordinators

\* max_coordinators.max(1).min(candidates.len())
LeaderCount(t) ==
  LET limit == IF MaxCoordinators = 0 THEN 1 ELSE MaxCoordinators
      size  == Cardinality(DOMAIN t)
  IN IF size < limit THEN size ELSE limit

Leaders(t) == {m \in DOMAIN t : Place(t, m) < LeaderCount(t)}

\* select_proxy: the leader heard fastest, the first of them on a tie
ProxyOf(t, leaders) ==
  CHOOSE m \in leaders : \A k \in leaders \ {m} :
    t[m] < t[k] \/ (t[m] = t[k] /\ ~RanksBefore(t, k, m))

\* select_prometheus_exporter: ready probes first, then the export score
ExportScore(t, m) ==
  IF Probe[m] = 0 THEN Score(t, m) ELSE Probe[m] + Score(t, m) \div ProbeShare

ExporterOf(t) ==
  CHOOSE m \in DOMAIN t : \A k \in DOMAIN t \ {m} :
    \/ Probe[m] > 0 /\ Probe[k] = 0
    \/ /\ Probe[m] > 0 <=> Probe[k] > 0
       /\ \/ ExportScore(t, m) > ExportScore(t, k)
          \/ ExportScore(t, m) = ExportScore(t, k) /\ m < k

Unranked == Cardinality(Nodes)   \* usize::MAX: no leader has this rank

RoleIn(t, n) ==
  LET leaders == Leaders(t) IN
    [coordinator |-> n \in leaders,
     rank        |-> IF n \in leaders THEN Place(t, n) ELSE Unranked,
     count       |-> LeaderCount(t),
     proxy       |-> ProxyOf(t, leaders),
     exporter    |-> ExporterOf(t)]

NoRole == [coordinator |-> FALSE, rank |-> 0, count |-> 0, proxy |-> NoNode, exporter |-> NoNode]
NoView == [n \in {} |-> 0]
NothingHeard == [m \in Nodes |-> NoNode]

-----------------------------------------------------------------------------
ElectionInit ==
  /\ status = [n \in Nodes |-> "up"]
  /\ heard = [n \in Nodes |-> NothingHeard]
  /\ role = [n \in Nodes |-> NoRole]
  /\ view = [n \in Nodes |-> NoView]
  /\ starts = 0

\* record_presence: an announcement of m arrives, possibly after m stopped;
\* discovery drops a node's own announcements before this.
HearAnnouncement(n, m, latency) ==
  /\ n \in Up /\ m # n
  /\ status[m] # "gone"
  /\ latency \in Delays[<<n, m>>]
  /\ heard' = [heard EXCEPT ![n][m] = latency]
  /\ UNCHANGED <<status, role, view, starts>>

\* the records the TTL may have removed when n evaluates
Expirable(n) ==
  {m \in Nodes : heard[n][m] # NoNode /\ (status[m] = "gone" \/ <<n, m>> \in LossyLinks)}
Silent(n) == {m \in Nodes : heard[n][m] # NoNode /\ status[m] = "gone"}

\* mutant: nothing is ever removed
NothingRemoved(n) == {{}}

\* presence.retain: the sets of records it may remove
Removed(n) == {S \in SUBSET Expirable(n) : Silent(n) \subseteq S}

\* what is left, with the node's own record
Table(n, expired) ==
  [m \in ({k \in Nodes : heard[n][k] # NoNode} \ expired) \cup {n} |->
     IF m = n THEN 0 ELSE heard[n][m]]

\* evaluate, once per election interval
Evaluate(n) ==
  /\ n \in Up
  /\ \E expired \in Removed(n) :
       /\ heard' = [heard EXCEPT ![n] =
                      [m \in Nodes |-> IF m \in expired THEN NoNode ELSE @[m]]]
       /\ \E t \in {Table(n, expired)} :
            /\ view' = [view EXCEPT ![n] = t]
            /\ role' = [role EXCEPT ![n] = RoleIn(t, n)]
  /\ UNCHANGED <<status, starts>>

\* the environment: a node stops, its last announcements outlive the TTL, it
\* starts again with an empty table
Stop(n) ==
  /\ n \in Up
  /\ status' = [status EXCEPT ![n] = "stopped"]
  /\ heard' = [heard EXCEPT ![n] = NothingHeard]
  /\ role' = [role EXCEPT ![n] = NoRole]
  /\ view' = [view EXCEPT ![n] = NoView]
  /\ UNCHANGED starts

Fade(n) ==
  /\ status[n] = "stopped"
  /\ status' = [status EXCEPT ![n] = "gone"]
  /\ UNCHANGED <<heard, role, view, starts>>

Start(n) ==
  /\ n \notin Up
  /\ starts < MaxStarts
  /\ starts' = starts + 1
  /\ status' = [status EXCEPT ![n] = "up"]
  /\ UNCHANGED <<heard, role, view>>

ElectionNext ==
  \E n \in Nodes :
    \/ \E m \in Nodes : \E latency \in Delays[<<n, m>>] : HearAnnouncement(n, m, latency)
    \/ Evaluate(n)
    \/ Stop(n)
    \/ Fade(n)
    \/ Start(n)

\* The ticker of spawn_election never stops, announcements are repeated every
\* announce interval, and the TTL is finite.
ElectionFairness ==
  \A n \in Nodes :
    /\ WF_electionVars(Evaluate(n))
    /\ WF_electionVars(Fade(n))
    /\ \A m \in Nodes : WF_electionVars(\E latency \in Delays[<<n, m>>] : HearAnnouncement(n, m, latency))

ElectionSpec == ElectionInit /\ [][ElectionNext]_electionVars
FairElectionSpec == ElectionSpec /\ ElectionFairness

-----------------------------------------------------------------------------
(* Properties                                                              *)

Roles ==
  [coordinator : BOOLEAN, rank : 0 .. Unranked, count : 0 .. Unranked,
   proxy : Nodes \cup {NoNode}, exporter : Nodes \cup {NoNode}]

\* The values of the presence tables and roles; the slice of leaders never
\* exceeds the ranked table.
ElectionTypeOK ==
  /\ status \in [Nodes -> Statuses]
  /\ heard \in [Nodes -> [Nodes -> Latencies \cup {NoNode}]]
  /\ \A n \in Nodes : /\ role[n] \in Roles
                      /\ role[n].count <= Cardinality(DOMAIN view[n])
                      /\ DOMAIN view[n] \subseteq Nodes
                      /\ \A m \in DOMAIN view[n] : view[n][m] \in Latencies
  /\ starts \in 0 .. MaxStarts

\* the order the election would give with every latency equal
Better(m, n) == Merit[m] > Merit[n] \/ (Merit[m] = Merit[n] /\ m < n)

\* evaluate: a node that has evaluated and does not coordinate knows a better
\* node than itself, whatever it heard, however late, and whoever has died.
\* Deference only ever goes up in merit, so it cannot go round in a circle and
\* leave a cluster in which every node waits for another to coordinate.
DefersUpward ==
  \A n \in Nodes : view[n] # NoView /\ ~role[n].coordinator =>
                     \E m \in DOMAIN view[n] : Better(m, n)

\* evaluate and LeaderInfo::handles_event: nodes that rank the same table give
\* themselves different ranks below the same count, so that event_id % count
\* picks one of them for every event.
EqualTablesPartition ==
  \A n, m \in Nodes :
    (n # m /\ role[n].coordinator /\ role[m].coordinator /\ view[n] = view[m]) =>
      /\ role[n].count = role[m].count
      /\ role[n].rank # role[m].rank
      /\ role[n].rank < role[n].count /\ role[m].rank < role[m].count

\* evaluate: the events are shared among coordinators without a gap that a circle
\* of deference would leave, and without an overlap of those who see the same.
EventsAreShared == DefersUpward /\ EqualTablesPartition

\* evaluate with its TTL: after the last stop or start the best node that is
\* still up coordinates with rank 0 for good, and no stopped node remains
\* anyone's status proxy or Prometheus exporter (of the nodes that have evaluated at all).
SurvivorsSettle ==
  <>[](\A n \in {k \in Up : view[k] # NoView} :
         /\ (\A m \in Up \ {n} : Better(n, m)) => role[n].coordinator /\ role[n].rank = 0
         /\ role[n].proxy \in Up /\ role[n].exporter \in Up)

\* "split-brain detected; reconciling" (coordination.rs:277): with nobody
\* failing and every announcement heard, the cluster settles with no more
\* coordinators than max_coordinators.
SplitBrainReconciled ==
  <>[](Cardinality({n \in Up : role[n].coordinator}) <=
         IF MaxCoordinators = 0 THEN 1 ELSE MaxCoordinators)
=============================================================================
