-------------------------------- MODULE Swarm --------------------------------
(***************************************************************************)
(* The swarm of one Tracey node: events are published on a broadcast bus   *)
(* with a ring buffer (src/src/bus.rs), every agent scores every event it  *)
(* does not miss and sends its assessment through a bounded channel        *)
(* (src/src/swarm/agent.rs), and the coordinator task collects the         *)
(* assessments per event id and decides at quorum or at expiry             *)
(* (src/src/swarm/coordinator.rs).  The node's role comes from the         *)
(* election and may change at any moment.                                  *)
(*                                                                         *)
(* An assessment is the pair of its event and its agent; scores are left   *)
(* out, so that a decision is the set of assessments it averages.          *)
(***************************************************************************)
EXTENDS Naturals, Sequences, FiniteSets

CONSTANTS
  Events,           \* in the order in which they are published: 1 .. n
  Id,               \* event.id: each producer counts its own from its own start
  Agents,
  Quorum,           \* config.assessment_quorum
  BusCapacity,      \* config.bus_capacity
  ChannelCapacity,  \* config.assessment_channel_capacity
  Roles,            \* what the election may make of this node
  None              \* nothing being sent

ASSUME EventsAssumption == Events = 1 .. Cardinality(Events) /\ IsFiniteSet(Events)
ASSUME AgentsAssumption == IsFiniteSet(Agents)
ASSUME IdAssumption == Id \in [Events -> Nat]
ASSUME SizesAssumption ==
  Quorum \in Nat \ {0} /\ BusCapacity \in Nat \ {0} /\ ChannelCapacity \in Nat \ {0}
ASSUME RolesAssumption == Roles \subseteq [leader : BOOLEAN, rank : Nat, count : Nat]
ASSUME NoneAssumption == None \notin Events

Ids == {Id[e] : e \in Events}
Assessments == Events \X Agents
IdOf(assessment) == Id[assessment[1]]

VARIABLES
  published,  \* how many events the bus has carried: events 1 .. published
  cursor,     \* per agent, the next event of its broadcast receiver
  sending,    \* per agent, the event whose assessment it is sending
  channel,    \* assessment_rx
  role,       \* CoordinatorRole, as leader_info reads it
  wasLeader,  \* Coordinator.was_leader
  pending,    \* per event id, the assessments collected; {} stands for no entry
  old,        \* the entries whose TTL has elapsed
  decided,    \* history: the sets of assessments that were averaged
  counted     \* history: in how many decisions each assessment was averaged

vars == <<published, cursor, sending, channel, role, wasLeader, pending, old,
          decided, counted>>
agentVars == <<published, cursor, sending>>
coordinatorVars == <<wasLeader, pending, old, decided, counted>>

-----------------------------------------------------------------------------
Init ==
  /\ published = 0
  /\ cursor = [a \in Agents |-> 1]
  /\ sending = [a \in Agents |-> None]
  /\ channel = <<>>
  /\ role \in Roles
  /\ wasLeader = FALSE
  /\ pending = [i \in Ids |-> {}]
  /\ old = {}
  /\ decided = {}
  /\ counted = [x \in Assessments |-> 0]

(* Bus and agents                                                          *)

\* EventBus::publish: never blocks, overwrites the oldest slot
Publish ==
  /\ published + 1 \in Events
  /\ published' = published + 1
  /\ UNCHANGED <<cursor, sending, channel, role, coordinatorVars>>

Oldest == IF published > BusCapacity THEN published - BusCapacity + 1 ELSE 1

\* receiver.recv() = Ok(event): handle_event scores it and starts to send
Assess(a) ==
  /\ sending[a] = None
  /\ cursor[a] \in Oldest .. published
  /\ sending' = [sending EXCEPT ![a] = cursor[a]]
  /\ cursor' = [cursor EXCEPT ![a] = @ + 1]
  /\ UNCHANGED <<published, channel, role, coordinatorVars>>

\* receiver.recv() = Err(Lagged): the receiver moves to the oldest slot
Lag(a) ==
  /\ sending[a] = None
  /\ cursor[a] < Oldest
  /\ cursor' = [cursor EXCEPT ![a] = Oldest]
  /\ UNCHANGED <<published, sending, channel, role, coordinatorVars>>

\* assessment_tx.send().await completes when the channel has room
Send(a) ==
  /\ sending[a] # None
  /\ Len(channel) < ChannelCapacity
  /\ channel' = Append(channel, <<sending[a], a>>)
  /\ sending' = [sending EXCEPT ![a] = None]
  /\ UNCHANGED <<published, cursor, role, coordinatorVars>>

-----------------------------------------------------------------------------
(* The coordinator task                                                    *)

\* LeaderInfo::handles_event
Handles(i) ==
  /\ role.leader /\ role.count > 0
  /\ role.count <= 1 \/ i % role.count = role.rank

\* mutant: the entry is read instead of removed
FinalizeWithoutRemove(entries, ids) ==
  /\ decided' = decided \cup {entries[i] : i \in ids}
  /\ counted' = [x \in Assessments |->
                   IF \E i \in ids : x \in entries[i] THEN counted[x] + 1 ELSE counted[x]]
  /\ pending' = entries
  /\ old' = old \ ids

\* finalize_decision, for every entry of ids that is removed from `entries`
Finalize(entries, ids) ==
  /\ decided' = decided \cup {entries[i] : i \in ids}
  /\ counted' = [x \in Assessments |->
                   IF \E i \in ids : x \in entries[i] THEN counted[x] + 1 ELSE counted[x]]
  /\ pending' = [i \in Ids |-> IF i \in ids THEN {} ELSE entries[i]]
  /\ old' = old \ ids

Abandon ==
  /\ pending' = [i \in Ids |-> {}]
  /\ old' = {}
  /\ wasLeader' = FALSE
  /\ UNCHANGED <<decided, counted>>

\* ingest_assessment of a node that does not lead
IngestAsFollower ==
  /\ channel # <<>> /\ ~role.leader
  /\ channel' = Tail(channel)
  /\ \/ wasLeader /\ Abandon
     \/ ~wasLeader /\ UNCHANGED coordinatorVars
  /\ UNCHANGED <<agentVars, role>>

\* ingest_assessment of a leader
IngestAsLeader ==
  /\ channel # <<>> /\ role.leader
  /\ channel' = Tail(channel)
  /\ wasLeader' = TRUE
  /\ LET x == Head(channel)
         i == IdOf(x)
         entries == [pending EXCEPT ![i] = @ \cup {x}]
     IN \/ /\ ~Handles(i)
           /\ UNCHANGED <<pending, old, decided, counted>>
        \/ /\ Handles(i)
           /\ Finalize(entries, IF Cardinality(entries[i]) >= Quorum THEN {i} ELSE {})
  /\ UNCHANGED <<agentVars, role>>

\* decision_ttl elapses for an entry
Age(i) ==
  /\ pending[i] # {} /\ i \notin old
  /\ old' = old \cup {i}
  /\ UNCHANGED <<agentVars, channel, role, wasLeader, pending, decided, counted>>

\* mutant: only those this rank still owns
ExpiredOwned == {i \in old : Handles(i)}

\* the entries flush_expired collects
Expired == old

\* flush_expired, at every cleanup tick
FlushExpired ==
  /\ \/ ~role.leader /\ Abandon
     \/ role.leader /\ Finalize(pending, Expired) /\ UNCHANGED wasLeader
  /\ UNCHANGED <<agentVars, channel, role>>

\* the election changes the role this task reads
ChangeRole ==
  /\ role' \in Roles \ {role}
  /\ UNCHANGED <<agentVars, channel, coordinatorVars>>

Next ==
  \/ Publish
  \/ \E a \in Agents : Assess(a) \/ Lag(a) \/ Send(a)
  \/ IngestAsFollower
  \/ IngestAsLeader
  \/ \E i \in Ids : Age(i)
  \/ FlushExpired
  \/ ChangeRole

\* Every task is a loop of its own; tokio's select polls its branches in random
\* order, so none of them is starved; time passes.
Fairness ==
  /\ \A a \in Agents : WF_vars(Assess(a) \/ Lag(a) \/ Send(a))
  /\ WF_vars(IngestAsFollower \/ IngestAsLeader)
  /\ \A i \in Ids : WF_vars(Age(i))
  /\ WF_vars(FlushExpired)

Spec == Init /\ [][Next]_vars
FairSpec == Spec /\ Fairness

-----------------------------------------------------------------------------
(* Properties                                                              *)

\* The channel never holds more than its capacity, entries never reach the
\* quorum, and only entries grow old.
SwarmTypeOK ==
  /\ published \in 0 .. Cardinality(Events)
  /\ cursor \in [Agents -> Nat]
  /\ sending \in [Agents -> Events \cup {None}]
  /\ channel \in Seq(Assessments) /\ Len(channel) <= ChannelCapacity
  /\ role \in Roles /\ wasLeader \in BOOLEAN
  /\ \A i \in Ids : /\ pending[i] \subseteq {x \in Assessments : IdOf(x) = i}
                    /\ pending[i] = {} \/ Cardinality(pending[i]) < Quorum
  /\ old \subseteq {i \in Ids : pending[i] # {}}
  /\ decided \subseteq SUBSET Assessments

\* ingest_assessment and flush_expired: whatever the order of quorum, expiry
\* and changes of role, no assessment is averaged into two decisions, and none
\* that was decided is still waiting in an entry or on its way.
CountedOnce ==
  \A x \in Assessments :
    /\ counted[x] <= 1
    /\ counted[x] = 1 =>
         /\ x \notin pending[IdOf(x)]
         /\ \A k \in DOMAIN channel : channel[k] # x
         /\ sending[x[2]] # x[1]

Sole == role.leader /\ role.count = 1

\* ingest_assessment, flush_expired and the two bounded channels: no entry stays
\* for ever, even if the rank or the number of coordinators has changed since it
\* was made; and while the node stays the only coordinator, every assessment an
\* agent has begun to send is averaged into a decision.
AssessmentsResolved ==
  /\ \A i \in Ids : pending[i] # {} ~> pending[i] = {}
  /\ \A x \in Assessments :
       [](sending[x[2]] = x[1] /\ []Sole => <>(counted[x] > 0))

\* "accumulate assessments until quorum is reached or the per-event TTL expires
\* ... record the final decision" (WORKFLOW_ANALYSIS.md:294-299): an event that
\* was decided at quorum is not decided again by the assessments that follow.
QuorumIsFinal ==
  \A d1, d2 \in decided :
    Cardinality(d1) >= Quorum /\ (\E x \in d1, y \in d2 : x[1] = y[1]) => d1 = d2

\* "average risk ... across the received assessments" of the event
\* (WORKFLOW_ANALYSIS.md:295): a decision is about one event.
OneEventPerDecision == \A d \in decided : \A x, y \in d : x[1] = y[1]
=============================================================================
