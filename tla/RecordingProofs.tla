-------------------------- MODULE RecordingProofs --------------------------
(***************************************************************************)
(* Theorems of how what the agents see is decided, stored and counted.     *)
(*                                                                         *)
(* Of Swarm, for any number of events and agents, any numbering of the     *)
(* events, any quorum, capacities and roles: the argument of CountedOnce   *)
(* is that an assessment is in one place at a time: still to be made,      *)
(* being sent, in the channel, in an entry, or averaged.                   *)
(*                                                                         *)
(* Of Storage, for any senders, sizes, limits and faults: each step of it  *)
(* is one of the record log, because the open file is the newest there is, *)
(* so that what is written comes last, and what is removed came first.     *)
(*                                                                         *)
(* Of MCRecording, which puts both beside the export of ExportProofs.      *)
(***************************************************************************)
EXTENDS MCRecording, ExportProofs, Folding

-----------------------------------------------------------------------------
(* Swarm                                                                   *)

InChannel(x) == \E k \in 1 .. Len(channel) : channel[k] = x

\* The values the argument is about.
Shape ==
  /\ published \in 0 .. Cardinality(Events)
  /\ cursor \in [Agents -> Nat \ {0}]
  /\ sending \in [Agents -> Events \cup {None}]
  /\ channel \in Seq(Assessments)
  /\ pending \in [Ids -> SUBSET Assessments]
  /\ \A i \in Ids : \A x \in pending[i] : IdOf(x) = i
  /\ old \subseteq Ids
  /\ counted \in [Assessments -> Nat]

\* An assessment that has been made, by an agent whose cursor has passed it.
Made(x) == x[1] < cursor[x[2]]

\* One place at a time.
OnePlace ==
  /\ \A x \in Assessments : sending[x[2]] = x[1] => Made(x) /\ counted[x] = 0
  /\ \A x \in Assessments : InChannel(x) =>
       Made(x) /\ sending[x[2]] # x[1] /\ counted[x] = 0
  /\ \A k, l \in 1 .. Len(channel) : channel[k] = channel[l] => k = l
  /\ \A x \in Assessments : x \in pending[IdOf(x)] =>
       Made(x) /\ sending[x[2]] # x[1] /\ ~InChannel(x) /\ counted[x] = 0
  /\ \A x \in Assessments : counted[x] # 0 => Made(x) /\ counted[x] = 1

SwarmInv == Shape /\ OnePlace

-----------------------------------------------------------------------------
LEMMA IdsOfAssessments ==
  \A x \in Assessments : x[1] \in Events /\ x[2] \in Agents /\ IdOf(x) \in Ids
                         /\ x = <<x[1], x[2]>>
BY DEF Assessments, IdOf, Ids

LEMMA EventsAreNumbers == Events \subseteq Nat \ {0} /\ Cardinality(Events) \in Nat
<1>1. Cardinality(Events) \in Nat
  BY EventsAssumption, FS_CardinalityType
<1> QED BY <1>1, EventsAssumption

LEMMA SwarmInvInit == Init => SwarmInv
BY IdsOfAssessments, EventsAreNumbers, NoneAssumption
   DEF Init, SwarmInv, Shape, OnePlace, Made, InChannel

\* The steps of the bus and the agents.
LEMMA AgentStep ==
  ASSUME SwarmInv, NEW a \in Agents, Assess(a) \/ Lag(a) \/ Send(a)
  PROVE  SwarmInv'
<1>1. CASE Assess(a)
  <2>1. Shape'
    BY <1>1, EventsAreNumbers, EventsAssumption DEF Assess, Oldest, SwarmInv, Shape, coordinatorVars
  <2>2. \A x \in Assessments : Made(x) => Made(x)'
    BY <1>1, IdsOfAssessments, EventsAreNumbers
       DEF Assess, SwarmInv, Shape, Made
  <2>3. \A x \in Assessments : sending'[x[2]] = x[1] =>
          \/ sending[x[2]] = x[1]
          \/ ~Made(x) /\ Made(x)'
    BY <1>1, IdsOfAssessments, EventsAreNumbers, NoneAssumption
       DEF Assess, SwarmInv, Shape, Made
  <2>4. UNCHANGED <<channel, pending, counted>>
    BY <1>1 DEF Assess, coordinatorVars
  <2>5. \A x \in Assessments : InChannel(x)' <=> InChannel(x)
    BY <2>4 DEF InChannel
  <2>6. \A x \in Assessments : counted[x] \in Nat
    BY DEF SwarmInv, Shape
  <2>7. OnePlace'
    <3>1. \A x \in Assessments : sending'[x[2]] = x[1] => Made(x)' /\ counted'[x] = 0
      BY <2>2, <2>3, <2>4, <2>6 DEF SwarmInv, OnePlace
    <3>2. \A x \in Assessments : InChannel(x)' =>
            Made(x)' /\ sending'[x[2]] # x[1] /\ counted'[x] = 0
      BY <2>2, <2>3, <2>4, <2>5 DEF SwarmInv, OnePlace
    <3>3. \A k, l \in 1 .. Len(channel') : channel'[k] = channel'[l] => k = l
      BY <2>4 DEF SwarmInv, OnePlace
    <3>4. \A x \in Assessments : x \in pending'[IdOf(x)] =>
            Made(x)' /\ sending'[x[2]] # x[1] /\ ~InChannel(x)' /\ counted'[x] = 0
      BY <2>2, <2>3, <2>4, <2>5 DEF SwarmInv, OnePlace
    <3>5. \A x \in Assessments : counted'[x] # 0 => Made(x)' /\ counted'[x] = 1
      BY <2>2, <2>4 DEF SwarmInv, OnePlace
    <3> QED BY <3>1, <3>2, <3>3, <3>4, <3>5 DEF OnePlace, IdOf
  <2> QED BY <2>1, <2>7 DEF SwarmInv
<1>2. CASE Lag(a)
  <2>0. Oldest \in Nat \ {0}
    BY EventsAreNumbers, SizesAssumption DEF Oldest, SwarmInv, Shape
  <2>1. Shape'
    BY <1>2, <2>0 DEF Lag, SwarmInv, Shape, coordinatorVars
  <2>2. \A x \in Assessments : Made(x) => Made(x)'
    <3>1. \A b \in Agents : cursor[b] \in Nat /\ cursor'[b] \in Nat /\ cursor[b] <= cursor'[b]
      BY <1>2, <2>0 DEF Lag, SwarmInv, Shape
    <3>2. \A x \in Assessments : x[1] \in Nat /\ x[2] \in Agents
      BY IdsOfAssessments, EventsAreNumbers
    <3> QED BY <3>1, <3>2 DEF Made
  <2>3. UNCHANGED <<sending, channel, pending, counted>>
    BY <1>2 DEF Lag, coordinatorVars
  <2> QED BY <2>1, <2>2, <2>3 DEF SwarmInv, OnePlace, InChannel, IdOf
<1>3. CASE Send(a)
  <2> DEFINE y == <<sending[a], a>>
  <2>1. y \in Assessments /\ sending[y[2]] = y[1]
    BY <1>3 DEF Send, SwarmInv, Shape, Assessments
  <2>2. /\ channel' = Append(channel, y) /\ channel \in Seq(Assessments)
        /\ sending' = [sending EXCEPT ![a] = None] /\ sending \in [Agents -> Events \cup {None}]
        /\ UNCHANGED <<published, cursor, pending, counted>>
    BY <1>3 DEF Send, SwarmInv, Shape, coordinatorVars
  <2>3. Shape'
    <3>1. UNCHANGED old /\ channel' \in Seq(Assessments)
      BY <1>3, <2>1, <2>2 DEF Send, coordinatorVars
    <3>2. sending' \in [Agents -> Events \cup {None}]
      BY <2>2
    <3> QED BY <2>2, <3>1, <3>2 DEF SwarmInv, Shape, IdOf
  <2>4. \A x \in Assessments : sending'[x[2]] = x[1] => sending[x[2]] = x[1] /\ x # y
    BY <2>2, IdsOfAssessments, NoneAssumption
  <2>5. \A x \in Assessments : InChannel(x)' <=> InChannel(x) \/ x = y
    <3>1. Len(channel') = Len(channel) + 1 /\ Len(channel) \in Nat
      BY <2>1, <2>2
    <3>2. \A k \in 1 .. Len(channel) : channel'[k] = channel[k]
      BY <2>1, <2>2
    <3>3. channel'[Len(channel) + 1] = y
      BY <2>1, <2>2
    <3>4. \A k \in 1 .. Len(channel') : k \in 1 .. Len(channel) \/ k = Len(channel) + 1
      BY <3>1
    <3>5. \A k \in 1 .. Len(channel) : k \in 1 .. Len(channel')
      BY <3>1
    <3>6. Len(channel) + 1 \in 1 .. Len(channel')
      BY <3>1
    <3> HIDE DEF y
    <3> QED BY <3>2, <3>3, <3>4, <3>5, <3>6 DEF InChannel
  <2>6. ~InChannel(y) /\ y \notin pending[IdOf(y)] /\ Made(y) /\ counted[y] = 0
    BY <2>1 DEF SwarmInv, OnePlace
  <2>7. \A x \in Assessments : Made(x)' <=> Made(x)
    BY <2>2 DEF Made
  <2>8. \A k, l \in 1 .. Len(channel') : channel'[k] = channel'[l] => k = l
    <3>1. \A k \in 1 .. Len(channel) : channel[k] # y
      BY <2>6 DEF InChannel
    <3>2. \A k \in 1 .. Len(channel') : channel'[k] = IF k <= Len(channel) THEN channel[k] ELSE y
      BY <2>1, <2>2
    <3>3. Len(channel') = Len(channel) + 1 /\ Len(channel) \in Nat
      BY <2>1, <2>2
    <3> QED BY <3>1, <3>2, <3>3 DEF SwarmInv, OnePlace
  <2>9. OnePlace'
    <3>1. \A x \in Assessments : sending'[x[2]] = x[1] => Made(x)' /\ counted'[x] = 0
      BY <2>2, <2>4, <2>7 DEF SwarmInv, OnePlace
    <3>2. \A x \in Assessments : InChannel(x)' =>
            Made(x)' /\ sending'[x[2]] # x[1] /\ counted'[x] = 0
      BY <2>2, <2>4, <2>5, <2>6, <2>7 DEF SwarmInv, OnePlace
    <3>3. \A x \in Assessments : x \in pending'[IdOf(x)] =>
            Made(x)' /\ sending'[x[2]] # x[1] /\ ~InChannel(x)' /\ counted'[x] = 0
      BY <2>2, <2>4, <2>5, <2>6, <2>7 DEF SwarmInv, OnePlace
    <3>4. \A x \in Assessments : counted'[x] # 0 => Made(x)' /\ counted'[x] = 1
      BY <2>2, <2>7 DEF SwarmInv, OnePlace
    <3> QED BY <2>8, <3>1, <3>2, <3>3, <3>4 DEF OnePlace, IdOf
  <2> QED BY <2>3, <2>9 DEF SwarmInv
<1> QED BY <1>1, <1>2, <1>3

-----------------------------------------------------------------------------
(* The steps of the coordinator                                            *)

\* What is left of the channel: the head is gone, and so is its only copy.
LEMMA TailOfChannel ==
  ASSUME SwarmInv, channel # <<>>, channel' = Tail(channel)
  PROVE  /\ Head(channel) \in Assessments
         /\ channel' \in Seq(Assessments)
         /\ InChannel(Head(channel))
         /\ \A x \in Assessments : InChannel(x)' => InChannel(x) /\ x # Head(channel)
         /\ \A k, l \in 1 .. Len(channel') : channel'[k] = channel'[l] => k = l
<1>1. channel \in Seq(Assessments) /\ Len(channel) \in Nat \ {0}
  BY DEF SwarmInv, Shape
<1>2. /\ Head(channel) = channel[1] /\ channel[1] \in Assessments
      /\ Len(channel') = Len(channel) - 1
      /\ \A k \in 1 .. Len(channel') : channel'[k] = channel[k + 1]
      /\ channel' \in Seq(Assessments)
  BY <1>1
<1>3. \A k, l \in 1 .. Len(channel) : channel[k] = channel[l] => k = l
  BY DEF SwarmInv, OnePlace
<1>4. InChannel(Head(channel))
  BY <1>1, <1>2 DEF InChannel
<1>5. ASSUME NEW x \in Assessments, InChannel(x)'
      PROVE  InChannel(x) /\ x # Head(channel)
  <2>1. PICK k \in 1 .. Len(channel') : channel'[k] = x
    BY <1>5 DEF InChannel
  <2>2. k + 1 \in 1 .. Len(channel) /\ k + 1 # 1 /\ channel[k + 1] = x
    BY <1>1, <1>2, <2>1
  <2> QED BY <1>1, <1>2, <1>3, <2>2 DEF InChannel
<1>6. ASSUME NEW k \in 1 .. Len(channel'), NEW l \in 1 .. Len(channel'),
             channel'[k] = channel'[l]
      PROVE  k = l
  <2>1. k + 1 \in 1 .. Len(channel) /\ l + 1 \in 1 .. Len(channel)
    BY <1>1, <1>2
  <2> QED BY <1>2, <1>3, <1>6, <2>1
<1> QED BY <1>2, <1>4, <1>5, <1>6

\* Entries that hold nothing but undecided assessments that have left the agents
\* and the channel: what Finalize takes.
Fit(entries) ==
  /\ entries \in [Ids -> SUBSET Assessments]
  /\ \A i \in Ids : \A x \in entries[i] : IdOf(x) = i
  /\ \A x \in Assessments : x \in entries[IdOf(x)] =>
       Made(x) /\ sending[x[2]] # x[1] /\ counted[x] = 0

\* finalize_decision takes each assessment out of the entries as it counts it.
LEMMA FinalizeCounts ==
  ASSUME SwarmInv, NEW entries, NEW ids \in SUBSET Ids, Fit(entries),
         \A x \in Assessments : x \in entries[IdOf(x)] => ~InChannel(x)',
         \A x \in Assessments : InChannel(x)' => InChannel(x),
         \A k, l \in 1 .. Len(channel') : channel'[k] = channel'[l] => k = l,
         channel' \in Seq(Assessments),
         UNCHANGED <<published, cursor, sending>>,
         Finalize(entries, ids)
  PROVE  SwarmInv'
<1>1. \A x \in Assessments : (\E i \in ids : x \in entries[i]) =>
                               IdOf(x) \in ids /\ x \in entries[IdOf(x)]
  BY DEF Fit
<1>2. /\ counted' \in [Assessments -> Nat]
      /\ \A x \in Assessments :
           counted'[x] = IF \E i \in ids : x \in entries[i] THEN counted[x] + 1 ELSE counted[x]
  BY DEF Finalize, SwarmInv, Shape
<1>3. /\ pending' \in [Ids -> SUBSET Assessments]
      /\ \A i \in Ids : pending'[i] = IF i \in ids THEN {} ELSE entries[i]
  BY DEF Finalize, Fit
<1>4. Shape'
  BY <1>2, <1>3 DEF SwarmInv, Shape, Fit, IdOf, Finalize
<1>5. \A x \in Assessments : Made(x)' <=> Made(x)
  BY DEF Made
<1>6. \A x \in Assessments : counted[x] \in Nat /\ (counted[x] # 0 => Made(x) /\ counted[x] = 1)
  BY DEF SwarmInv, Shape, OnePlace
<1>7. \A x \in Assessments : sending'[x[2]] = x[1] => Made(x)' /\ counted'[x] = 0
  BY <1>1, <1>2, <1>5 DEF SwarmInv, OnePlace, Fit
<1>8. \A x \in Assessments : InChannel(x)' =>
        Made(x)' /\ sending'[x[2]] # x[1] /\ counted'[x] = 0
  BY <1>1, <1>2, <1>5 DEF SwarmInv, OnePlace
<1>9. \A x \in Assessments : x \in pending'[IdOf(x)] =>
        Made(x)' /\ sending'[x[2]] # x[1] /\ ~InChannel(x)' /\ counted'[x] = 0
  BY <1>1, <1>2, <1>3, <1>5, IdsOfAssessments DEF Fit
<1>10. \A x \in Assessments : counted'[x] # 0 => Made(x)' /\ counted'[x] = 1
  BY <1>1, <1>2, <1>5, <1>6 DEF Fit
<1> QED BY <1>4, <1>7, <1>8, <1>9, <1>10 DEF SwarmInv, OnePlace, IdOf

LEMMA PendingFit == SwarmInv => Fit(pending) /\ \A x \in Assessments : x \in pending[IdOf(x)] => ~InChannel(x)
BY DEF SwarmInv, Shape, OnePlace, Fit

\* Entries may be thrown away.
LEMMA AbandonKeeps ==
  ASSUME SwarmInv, Abandon \/ UNCHANGED coordinatorVars,
         \A x \in Assessments : InChannel(x)' => InChannel(x),
         \A k, l \in 1 .. Len(channel') : channel'[k] = channel'[l] => k = l,
         channel' \in Seq(Assessments),
         UNCHANGED <<published, cursor, sending>>
  PROVE  SwarmInv'
<1>1. /\ pending' \in [Ids -> SUBSET Assessments] /\ UNCHANGED counted /\ old' \subseteq Ids
      /\ \A i \in Ids : pending'[i] \subseteq pending[i]
  BY DEF Abandon, coordinatorVars, SwarmInv, Shape
<1>2. \A x \in Assessments : Made(x)' <=> Made(x)
  BY DEF Made
<1>3. Shape'
  BY <1>1 DEF SwarmInv, Shape, IdOf
<1> QED BY <1>1, <1>2, <1>3, IdsOfAssessments DEF SwarmInv, OnePlace, IdOf

LEMMA CoordinatorStep ==
  ASSUME SwarmInv, IngestAsFollower \/ IngestAsLeader \/ FlushExpired
  PROVE  SwarmInv'
<1>1. CASE IngestAsFollower
  <2>1. UNCHANGED <<published, cursor, sending>> /\ (Abandon \/ UNCHANGED coordinatorVars)
    BY <1>1 DEF IngestAsFollower, agentVars
  <2> QED BY <1>1, <2>1, TailOfChannel, AbandonKeeps DEF IngestAsFollower
<1>2. CASE IngestAsLeader
  <2> DEFINE x == Head(channel)
             i == IdOf(x)
             entries == [pending EXCEPT ![i] = @ \cup {x}]
             ids == IF Cardinality(entries[i]) >= Quorum THEN {i} ELSE {}
  <2>1. channel # <<>> /\ channel' = Tail(channel) /\ UNCHANGED <<published, cursor, sending>>
    BY <1>2 DEF IngestAsLeader, agentVars
  <2>2. /\ x \in Assessments /\ InChannel(x) /\ channel' \in Seq(Assessments)
        /\ \A z \in Assessments : InChannel(z)' => InChannel(z) /\ z # x
        /\ \A k, l \in 1 .. Len(channel') : channel'[k] = channel'[l] => k = l
    BY <2>1, TailOfChannel
  <2>3. i \in Ids
    BY <2>2, IdsOfAssessments
  <2>4. CASE UNCHANGED <<pending, old, decided, counted>>
    <3>1. \A z \in Assessments : Made(z)' <=> Made(z)
      BY <2>1 DEF Made
    <3> QED BY <2>1, <2>2, <2>4, <3>1 DEF SwarmInv, Shape, OnePlace, IdOf
  <2>5. CASE Finalize(entries, ids)
    <3>1. /\ entries \in [Ids -> SUBSET Assessments]
          /\ \A j \in Ids : entries[j] = IF j = i THEN pending[j] \cup {x} ELSE pending[j]
      BY <2>2, <2>3 DEF SwarmInv, Shape
    <3>2. \A z \in Assessments : z \in entries[IdOf(z)] => z \in pending[IdOf(z)] \/ z = x
      BY <3>1, IdsOfAssessments
    <3>3. Made(x) /\ sending[x[2]] # x[1] /\ counted[x] = 0
      BY <2>2 DEF SwarmInv, OnePlace
    <3>4. Fit(entries)
      BY <3>1, <3>2, <3>3, PendingFit DEF Fit
    <3>5. \A z \in Assessments : z \in entries[IdOf(z)] => ~InChannel(z)'
      BY <2>2, <3>2, PendingFit
    <3>6. ids \in SUBSET Ids
      BY <2>3
    <3> HIDE DEF entries, ids
    <3> QED BY <2>1, <2>2, <2>5, <3>4, <3>5, <3>6, FinalizeCounts
  <2> QED BY <1>2, <2>4, <2>5 DEF IngestAsLeader
<1>3. CASE FlushExpired
  <2>1. UNCHANGED <<published, cursor, sending, channel>>
    BY <1>3 DEF FlushExpired, agentVars
  <2>2. /\ \A z \in Assessments : InChannel(z)' <=> InChannel(z)
        /\ \A k, l \in 1 .. Len(channel') : channel'[k] = channel'[l] => k = l
        /\ channel' \in Seq(Assessments)
    BY <2>1 DEF InChannel, SwarmInv, Shape, OnePlace
  <2>3. CASE Abandon
    BY <2>1, <2>2, <2>3, AbandonKeeps
  <2>4. CASE Finalize(pending, Expired)
    <3>1. Expired \in SUBSET Ids
      BY DEF Expired, SwarmInv, Shape
    <3> QED BY <2>1, <2>2, <2>4, <3>1, PendingFit, FinalizeCounts
  <2> QED BY <1>3, <2>3, <2>4 DEF FlushExpired
<1> QED BY <1>1, <1>2, <1>3

LEMMA SwarmInvStep == SwarmInv /\ [Next]_vars => SwarmInv'
<1> SUFFICES ASSUME SwarmInv, [Next]_vars PROVE SwarmInv'
  OBVIOUS
<1>1. CASE Publish
  <2>1. published' \in 0 .. Cardinality(Events)
    BY <1>1, EventsAssumption, EventsAreNumbers DEF Publish, SwarmInv, Shape
  <2> QED BY <1>1, <2>1 DEF Publish, coordinatorVars, SwarmInv, Shape, OnePlace, Made, InChannel, IdOf
<1>2. ASSUME NEW a \in Agents, Assess(a) \/ Lag(a) \/ Send(a) PROVE SwarmInv'
  BY <1>2, AgentStep
<1>3. CASE IngestAsFollower \/ IngestAsLeader \/ FlushExpired
  BY <1>3, CoordinatorStep
<1>4. ASSUME NEW i \in Ids, Age(i) PROVE SwarmInv'
  BY <1>4 DEF Age, agentVars, SwarmInv, Shape, OnePlace, Made, InChannel, IdOf
<1>5. CASE ChangeRole
  BY <1>5 DEF ChangeRole, agentVars, coordinatorVars, SwarmInv, Shape, OnePlace, Made, InChannel, IdOf
<1>6. CASE UNCHANGED vars
  BY <1>6 DEF vars, SwarmInv, Shape, OnePlace, Made, InChannel, IdOf
<1> QED BY <1>1, <1>2, <1>3, <1>4, <1>5, <1>6 DEF Next

\* An assessment is in one place at a time.
THEOREM SwarmSafe == Spec => []SwarmInv
BY SwarmInvInit, SwarmInvStep, PTL DEF Spec

LEMMA OnePlaceCounts == SwarmInv => CountedOnce
<1> SUFFICES ASSUME SwarmInv, NEW x \in Assessments
             PROVE  /\ counted[x] <= 1
                    /\ (counted[x] = 1 => (/\ x \notin pending[IdOf(x)]
                                           /\ \A k \in DOMAIN channel : channel[k] # x
                                           /\ sending[x[2]] # x[1]))
  BY DEF CountedOnce
<1>1. counted[x] \in Nat /\ DOMAIN channel = 1 .. Len(channel)
  BY DEF SwarmInv, Shape
<1>2. counted[x] = 0 \/ counted[x] = 1
  BY <1>1 DEF SwarmInv, OnePlace
<1>3. counted[x] = 1 => x \notin pending[IdOf(x)] /\ sending[x[2]] # x[1] /\ ~InChannel(x)
  BY DEF SwarmInv, OnePlace
<1> QED BY <1>1, <1>2, <1>3 DEF InChannel

\* Whatever the order of quorum, expiry, lag, back-pressure and changes of role,
\* no assessment is averaged twice.
THEOREM EachCountedOnce == Spec => []CountedOnce
BY SwarmSafe, OnePlaceCounts, PTL

-----------------------------------------------------------------------------
(* Types and sizes                                                         *)

\* The channel keeps to its capacity, no entry waits with a quorum, only
\* entries are old.
Sizes ==
  /\ Len(channel) <= ChannelCapacity
  /\ role \in Roles /\ wasLeader \in BOOLEAN
  /\ \A i \in Ids : pending[i] = {} \/ Cardinality(pending[i]) < Quorum
  /\ \A i \in old : pending[i] # {}
  /\ decided \subseteq SUBSET Assessments

LEMMA SizesInit == Init => Sizes
<1> SUFFICES ASSUME Init PROVE Sizes
  OBVIOUS
<1>1. Len(channel) = 0 /\ ChannelCapacity \in Nat /\ role \in Roles
  BY SizesAssumption DEF Init
<1>2. Len(channel) <= ChannelCapacity
  BY <1>1
<1>3. (\A i \in Ids : pending[i] = {}) /\ (\A i \in old : pending[i] # {})
      /\ decided \subseteq SUBSET Assessments /\ wasLeader \in BOOLEAN
  BY DEF Init
<1> QED BY <1>1, <1>2, <1>3, Zenon DEF Sizes

\* Finalize leaves no entry it was to decide, and records sets of assessments.
LEMMA FinalizeSizes ==
  ASSUME Shape, Sizes, NEW entries \in [Ids -> SUBSET Assessments], NEW ids \in SUBSET Ids,
         Finalize(entries, ids),
         \A i \in Ids : pending[i] \subseteq entries[i],
         \A i \in Ids \ ids : entries[i] = {} \/ Cardinality(entries[i]) < Quorum
  PROVE  /\ \A i \in Ids : pending'[i] = {} \/ Cardinality(pending'[i]) < Quorum
         /\ \A i \in old' : pending'[i] # {}
         /\ decided' \subseteq SUBSET Assessments
<1>1. \A i \in Ids : pending'[i] = IF i \in ids THEN {} ELSE entries[i]
  BY DEF Finalize
<1>2. old' = old \ ids /\ old \subseteq Ids
  BY DEF Finalize, Shape
<1>3. \A i \in old' : pending'[i] # {}
  BY <1>1, <1>2 DEF Sizes
<1>4. decided' \subseteq SUBSET Assessments
  BY DEF Finalize, Sizes
<1> QED BY <1>1, <1>3, <1>4

LEMMA SizesStep ==
  ASSUME SwarmInv, SwarmInv', Sizes, [Next]_vars
  PROVE  Sizes'
<1>1. CASE Publish
  BY <1>1 DEF Publish, coordinatorVars, Sizes
<1>2. ASSUME NEW a \in Agents, Assess(a) \/ Lag(a) PROVE Sizes'
  BY <1>2 DEF Assess, Lag, coordinatorVars, Sizes
<1>3. ASSUME NEW a \in Agents, Send(a) PROVE Sizes'
  <2>1. Len(channel) \in Nat /\ Len(channel) < ChannelCapacity
    BY <1>3 DEF Send, SwarmInv, Shape
  <2>2. Len(channel') = Len(channel) + 1
    BY <1>3 DEF Send, SwarmInv, Shape
  <2>3. Len(channel') <= ChannelCapacity
    BY <2>1, <2>2, SizesAssumption
  <2> QED BY <1>3, <2>3 DEF Send, coordinatorVars, Sizes
<1>4. channel # <<>> /\ channel' = Tail(channel) => Len(channel') <= ChannelCapacity
  <2>1. channel # <<>> => Len(Tail(channel)) = Len(channel) - 1 /\ Len(channel) \in Nat
    BY DEF SwarmInv, Shape
  <2> QED BY <2>1, SizesAssumption DEF Sizes
<1>5. Abandon => (/\ wasLeader' \in BOOLEAN /\ UNCHANGED decided /\ old' = {}
                  /\ \A i \in Ids : pending'[i] = {})
  BY DEF Abandon
<1>6. CASE IngestAsFollower
  <2>1. channel # <<>> /\ channel' = Tail(channel) /\ UNCHANGED role
    BY <1>6 DEF IngestAsFollower
  <2>2. CASE Abandon
    BY <1>4, <1>5, <2>1, <2>2 DEF Sizes
  <2>3. CASE UNCHANGED coordinatorVars
    BY <1>4, <2>1, <2>3 DEF coordinatorVars, Sizes
  <2> QED BY <1>6, <2>2, <2>3 DEF IngestAsFollower
<1>7. CASE IngestAsLeader
  <2> DEFINE x == Head(channel)
             i == IdOf(x)
             entries == [pending EXCEPT ![i] = @ \cup {x}]
             ids == IF Cardinality(entries[i]) >= Quorum THEN {i} ELSE {}
  <2>1. channel # <<>> /\ channel' = Tail(channel) /\ UNCHANGED role /\ wasLeader' = TRUE
    BY <1>7 DEF IngestAsLeader
  <2>2. CASE UNCHANGED <<pending, old, decided, counted>>
    BY <1>4, <2>1, <2>2 DEF Sizes
  <2>3. CASE Finalize(entries, ids)
    <3>1. x \in Assessments /\ i \in Ids
      BY <2>1, TailOfChannel, IdsOfAssessments
    <3>2. /\ entries \in [Ids -> SUBSET Assessments]
          /\ \A j \in Ids : entries[j] = IF j = i THEN pending[j] \cup {x} ELSE pending[j]
      <4>1. pending \in [Ids -> SUBSET Assessments]
        BY DEF SwarmInv, Shape
      <4> HIDE DEF x, i
      <4> QED BY <3>1, <4>1
    <3>3. IsFiniteSet(entries[i]) /\ Cardinality(entries[i]) \in Nat
      <4>1. IsFiniteSet(Assessments)
        BY EventsAssumption, AgentsAssumption, FS_Product DEF Assessments
      <4>2. entries[i] \in SUBSET Assessments
        BY <3>1, <3>2
      <4> HIDE DEF entries
      <4> QED BY <4>1, <4>2, FS_Subset, FS_CardinalityType
    <3>4. \A j \in Ids \ ids : entries[j] = {} \/ Cardinality(entries[j]) < Quorum
      <4> SUFFICES ASSUME NEW j \in Ids \ ids PROVE entries[j] = {} \/ Cardinality(entries[j]) < Quorum
        OBVIOUS
      <4>1. CASE j = i
        <5>1. ~(Cardinality(entries[i]) >= Quorum)
          BY <4>1
        <5> HIDE DEF entries, ids
        <5> QED BY <3>3, <4>1, <5>1, SizesAssumption
      <4>2. CASE j # i
        BY <3>2, <4>2 DEF Sizes
      <4> QED BY <4>1, <4>2
    <3>5. \A j \in Ids : pending[j] \subseteq entries[j]
      BY <3>2
    <3>6. ids \in SUBSET Ids
      BY <3>1
    <3> HIDE DEF entries, ids
    <3> QED BY <1>4, <2>1, <2>3, <3>2, <3>4, <3>5, <3>6, FinalizeSizes DEF Sizes, SwarmInv
  <2> QED BY <1>7, <2>2, <2>3 DEF IngestAsLeader
<1>8. ASSUME NEW i \in Ids, Age(i) PROVE Sizes'
  BY <1>8 DEF Age, agentVars, Sizes
<1>9. CASE FlushExpired
  <2>1. UNCHANGED <<channel, role>>
    BY <1>9 DEF FlushExpired
  <2>2. CASE Abandon
    BY <1>5, <2>1, <2>2 DEF Sizes
  <2>3. CASE Finalize(pending, Expired) /\ UNCHANGED wasLeader
    <3>1. Expired \in SUBSET Ids /\ pending \in [Ids -> SUBSET Assessments]
      BY DEF Expired, SwarmInv, Shape
    <3> QED BY <2>1, <2>3, <3>1, FinalizeSizes DEF Sizes, SwarmInv
  <2> QED BY <1>9, <2>2, <2>3 DEF FlushExpired
<1>10. CASE ChangeRole
  BY <1>10 DEF ChangeRole, coordinatorVars, Sizes
<1>11. CASE UNCHANGED vars
  BY <1>11 DEF vars, Sizes
<1> QED BY <1>1, <1>2, <1>3, <1>6, <1>7, <1>8, <1>9, <1>10, <1>11 DEF Next

\* Type correctness, and with it that no entry reaches the quorum without being
\* decided and that only entries grow old.
THEOREM SwarmTypes == Spec => []SwarmTypeOK
<1>1. SwarmInv /\ Sizes /\ [Next]_vars => Sizes'
  BY SwarmInvStep, SizesStep
<1>2. SwarmInv /\ Sizes => SwarmTypeOK
  BY DEF SwarmInv, Shape, Sizes, SwarmTypeOK
<1> QED BY <1>1, <1>2, SizesInit, SwarmSafe, PTL DEF Spec

-----------------------------------------------------------------------------
(* Storage: the contents of one file                                       *)

Recs == 1 .. MaxRecords

\* The contents a file of the storage has: a summary, if any, and then records.
LogFiles == {f \in Seq(0 .. MaxRecords) : RecordsOf(f) \in Seq(Recs)}

LEMMA SummaryFacts ==
  /\ MaxRecords \in Nat /\ Summary = 0 /\ Summary \notin Recs /\ Recs \subseteq 0 .. MaxRecords
  /\ Seq(Recs) \subseteq Seq(0 .. MaxRecords)
<1>1. MaxRecords \in Nat /\ Summary = 0 /\ Summary \notin Recs /\ Recs \subseteq 0 .. MaxRecords
  BY StorageAssumption DEF Recs
<1> QED BY <1>1, SeqMonotonic

\* Records alone are a file whose records they are.
LEMMA PlainFile ==
  ASSUME NEW s \in Seq(Recs)
  PROVE  s \in LogFiles /\ RecordsOf(s) = s
<1>1. s # <<>> => Head(s) \in Recs
  BY HeadTailProperties
<1>2. RecordsOf(s) = s
  BY <1>1, SummaryFacts DEF RecordsOf
<1> QED BY <1>2, SummaryFacts DEF LogFiles

\* Records below a summary
LEMMA SummedFile ==
  ASSUME NEW s \in Seq(Recs), NEW f, f = <<Summary>> \o s
  PROVE  f \in LogFiles /\ RecordsOf(f) = s
<1> DEFINE Z == 0 .. MaxRecords
<1>1. <<Summary>> \in Seq(Z) /\ s \in Seq(Z) /\ Len(<<Summary>>) = 1 /\ Summary \in Z
  BY SummaryFacts
<1> HIDE DEF Z
<1>2. f \in Seq(Z) /\ f # <<>> /\ Head(f) = Summary /\ Tail(f) = s
  <2>1. /\ f \in Seq(Z) /\ Len(f) = 1 + Len(s)
        /\ \A i \in 1 .. 1 + Len(s) : f[i] = IF i <= 1 THEN <<Summary>>[i] ELSE s[i - 1]
    BY <1>1, ConcatProperties
  <2>2. Len(s) \in Nat
    OBVIOUS
  <2>3. f # <<>>
    BY <2>1, <2>2
  <2>4. Head(f) = f[1] /\ f[1] = Summary
    BY <2>1, <2>2, <2>3
  <2>5. Tail(f) \in Seq(Z) /\ Len(Tail(f)) = Len(f) - 1 /\ \A i \in 1 .. Len(Tail(f)) : Tail(f)[i] = f[i + 1]
    BY <2>1, <2>3, HeadTailProperties
  <2>6. \A i \in 1 .. Len(s) : Tail(f)[i] = s[i]
    BY <2>1, <2>2, <2>5
  <2>7. Tail(f) = s
    BY <1>1, <2>1, <2>2, <2>5, <2>6, SeqEqual
  <2> QED BY <2>1, <2>3, <2>4, <2>7
<1> QED BY <1>2 DEF RecordsOf, LogFiles, Z

\* A file to which records are written
LEMMA WrittenFile ==
  ASSUME NEW f \in LogFiles, NEW x \in Seq(Recs), NEW g, g = f \o x
  PROVE  g \in LogFiles /\ RecordsOf(g) = RecordsOf(f) \o x
<1> DEFINE Z == 0 .. MaxRecords
<1>1. f \in Seq(Z) /\ x \in Seq(Z) /\ RecordsOf(f) \in Seq(Recs)
  BY SummaryFacts DEF LogFiles
<1>2. RecordsOf(f) \o x \in Seq(Recs)
  BY <1>1, ConcatProperties
<1> HIDE DEF Z
<1>3. CASE f # <<>> /\ Head(f) = Summary
  <2>1. RecordsOf(f) = Tail(f)
    BY <1>3 DEF RecordsOf
  <2>2. f = <<Summary>> \o Tail(f)
    BY <1>1, <1>3, HeadTailProperties
  <2> DEFINE t == Tail(f)
             one == <<Summary>>
  <2>3. t \in Seq(Recs) /\ one \in Seq(Z) /\ t \in Seq(Z) /\ f = one \o t
    BY <1>1, <2>1, <2>2, SummaryFacts DEF Z
  <2> HIDE DEF t, one
  <2>4. (one \o t) \o x = one \o (t \o x)
    BY <1>1, <2>3, ConcatAssociative
  <2>5. g = one \o (t \o x) /\ t \o x \in Seq(Recs)
    BY <1>2, <2>1, <2>3, <2>4 DEF t
  <2>6. g \in LogFiles /\ RecordsOf(g) = t \o x
    BY <2>5, SummedFile DEF one
  <2> QED BY <2>1, <2>6 DEF t
<1>4. CASE ~(f # <<>> /\ Head(f) = Summary)
  <2>1. RecordsOf(f) = f
    BY <1>4 DEF RecordsOf
  <2>2. g \in Seq(Recs)
    BY <1>2, <2>1
  <2> QED BY <2>1, <2>2, PlainFile
<1> QED BY <1>3, <1>4

\* The newest r lines of a file, below a summary
LEMMA CompactedFile ==
  ASSUME NEW f \in LogFiles, NEW r \in Nat, r < Len(f), NEW g,
         g = <<Summary>> \o SubSeq(f, Len(f) - r + 1, Len(f))
  PROVE  g \in LogFiles /\ \E c : Shortened(RecordsOf(f), c, RecordsOf(g))
<1> DEFINE Z == 0 .. MaxRecords
           k == Len(f) - r
           p == SubSeq(f, k + 1, Len(f))
<1>1. f \in Seq(Z) /\ RecordsOf(f) \in Seq(Recs) /\ k \in 1 .. Len(f) /\ Len(f) \in Nat
  BY DEF LogFiles
<1>2. g = <<Summary>> \o p
  OBVIOUS
<1> HIDE DEF Z, k, p
<1>3. CASE f # <<>> /\ Head(f) = Summary
  <2> DEFINE t == Tail(f)
  <2>1. RecordsOf(f) = t /\ t \in Seq(Recs)
    BY <1>1, <1>3 DEF RecordsOf
  <2>2. Len(t) = Len(f) - 1 /\ \A i \in 1 .. Len(t) : t[i] = f[i + 1]
    BY <1>1, <1>3, HeadTailProperties
  <2> HIDE DEF t
  <2> DEFINE q == SubSeq(t, (k - 1) + 1, Len(t))
  <2>3. k - 1 \in 0 .. Len(t)
    BY <1>1, <2>2
  <2>4. Shortened(t, k - 1, q)
    BY <2>3 DEF Shortened
  <2>5. q \in Seq(Recs) /\ p = q
    <3>1. \A i \in k .. Len(t) : t[i] \in Recs
      BY <1>1, <2>1, ElementOfSeq
    <3>2. (k - 1) + 1 = k
      BY <1>1
    <3>3. /\ q \in Seq(Recs) /\ Len(q) = (IF k <= Len(t) THEN Len(t) - k + 1 ELSE 0)
          /\ \A i \in 1 .. Len(t) - k + 1 : q[i] = t[k + i - 1]
      BY <1>1, <2>1, <3>1, <3>2, SubSeqProperties
    <3>4. \A i \in k + 1 .. Len(f) : f[i] \in Z
      BY <1>1, ElementOfSeq
    <3>5. /\ p \in Seq(Z) /\ Len(p) = (IF k + 1 <= Len(f) THEN Len(f) - (k + 1) + 1 ELSE 0)
          /\ \A i \in 1 .. Len(f) - (k + 1) + 1 : p[i] = f[k + 1 + i - 1]
      BY <1>1, <3>4, SubSeqProperties DEF p
    <3> HIDE DEF q
    <3>6. q \in Seq(Z)
      BY <3>3, SummaryFacts DEF Z
    <3>7. Len(p) = Len(q) /\ Len(p) = Len(f) - k
      BY <1>1, <2>2, <3>3, <3>5
    <3>8. ASSUME NEW i \in 1 .. Len(p) PROVE p[i] = q[i]
      <4>1. i \in 1 .. Len(f) - (k + 1) + 1 /\ i \in 1 .. Len(t) - k + 1 /\ k + 1 + i - 1 = k + i
            /\ k + i - 1 \in 1 .. Len(t) /\ (k + i - 1) + 1 = k + i
        BY <1>1, <2>2, <3>7
      <4> QED BY <2>2, <3>3, <3>5, <4>1
    <3>9. p = q
      BY <3>5, <3>6, <3>7, <3>8, SeqEqual
    <3> QED BY <3>3, <3>9
  <2> HIDE DEF q
  <2>6. g \in LogFiles /\ RecordsOf(g) = q
    BY <1>2, <2>5, SummedFile
  <2> QED BY <2>1, <2>4, <2>6
<1>4. CASE ~(f # <<>> /\ Head(f) = Summary)
  <2>1. RecordsOf(f) = f /\ f \in Seq(Recs)
    BY <1>1, <1>4 DEF RecordsOf
  <2>2. p \in Seq(Recs)
    <3>1. \A i \in k + 1 .. Len(f) : f[i] \in Recs
      BY <1>1, <2>1, ElementOfSeq
    <3> QED BY <1>1, <2>1, <3>1, SubSeqProperties DEF p
  <2>3. Shortened(f, k, p)
    BY <1>1 DEF Shortened, p
  <2>4. g \in LogFiles /\ RecordsOf(g) = p
    BY <1>2, <2>2, SummedFile
  <2> QED BY <2>1, <2>3, <2>4
<1> QED BY <1>3, <1>4
-----------------------------------------------------------------------------
(* What is read back from a set of files *)

LinesIn(fs, i) == IF fs[i] # NoFile THEN RecordsOf(fs[i]) ELSE <<>>
Read(fs, n) == [i \in 0 .. n |-> LinesIn(fs, i)]
ReadBack(fs, n) == Flat(n, Read(fs, n))

\* Files of the storage: slots that hold a log file or none.
Files(fs) == DOMAIN fs = Slots /\ \A i \in Slots : fs[i] # NoFile => fs[i] \in LogFiles

LEMMA LimitFacts ==
  /\ MaxArchive \in Nat /\ Limits \subseteq Nat
  /\ \A n \in Limits : n < MaxArchive /\ n \in Slots /\ 0 .. n \subseteq Slots
<1>1. Limits \subseteq Nat /\ \E l \in Limits : \A k \in Limits : l >= k
  BY StorageAssumption
<1>2. Max(Limits) \in Limits /\ \A k \in Limits : Max(Limits) >= k
  BY <1>1 DEF Max
<1>3. MaxArchive \in Nat /\ \A n \in Limits : n < MaxArchive
  <2>1. PICK m \in Nat : m = Max(Limits)
    BY <1>1, <1>2
  <2>2. MaxArchive = m + 1 /\ \A k \in Limits : k \in Nat /\ m >= k
    BY <1>1, <1>2, <2>1 DEF MaxArchive
  <2> QED BY <2>2
<1>4. ASSUME NEW n \in Limits PROVE n \in Slots /\ 0 .. n \subseteq Slots
  BY <1>1, <1>3 DEF Slots
<1> QED BY <1>1, <1>3, <1>4

LEMMA GoneFacts ==
  /\ Gone \notin Slots /\ \A h \in Slots \cup {Gone} : h # Gone => h \in Nat
  /\ \A h \in Slots : h \in Nat /\ \A i \in 0 .. h - 1 : i \in Slots
BY LimitFacts DEF Gone, Slots

\* The open file h is the newest there is, and within the limit n.
NewestOpen(fs, h, n) == h # Gone => h <= n /\ fs[h] # NoFile /\ \A i \in 0 .. h - 1 : fs[i] = NoFile

LEMMA ReadType ==
  ASSUME NEW fs, Files(fs), NEW n \in Limits
  PROVE  Read(fs, n) \in [0 .. n -> Seq(Recs)]
<1>1. <<>> \in Seq(Recs)
  OBVIOUS
<1>2. \A i \in 0 .. n : LinesIn(fs, i) \in Seq(Recs)
  BY <1>1, LimitFacts DEF LinesIn, Files, LogFiles
<1> QED BY <1>2 DEF Read

LEMMA ReadBackType ==
  ASSUME NEW fs, Files(fs), NEW n \in Limits
  PROVE  ReadBack(fs, n) \in Seq(Recs)
BY ReadType, FlatType, LimitFacts DEF ReadBack

LEMMA OnDiskIsRead == DOMAIN files = Slots /\ limit \in Limits => OnDisk = ReadBack(files, limit)
<1> SUFFICES ASSUME limit \in Limits PROVE OnDisk = ReadBack(files, limit)
  OBVIOUS
<1>1. limit \in Nat
  BY LimitFacts
<1>2. \A k \in 1 .. limit + 1 : limit + 1 - k \in 0 .. limit
  BY <1>1
<1>3. \A k \in 1 .. limit + 1 : Lines(limit + 1 - k) = Read(files, limit)[limit + 1 - k]
  BY <1>2 DEF Lines, Exists, Read, LinesIn
<1> QED BY <1>3 DEF OnDisk, ReadBack, Flat

WrittenTo(fs, j, x) == [fs EXCEPT ![j] = @ \o x]

\* Writing to the newest of the files that exist
LEMMA WriteReads ==
  ASSUME NEW fs, Files(fs), NEW n \in Limits, NEW j \in Slots, NewestOpen(fs, j, n),
         NEW x \in Seq(Recs), NEW gs, gs = WrittenTo(fs, j, x)
  PROVE  Files(gs) /\ ReadBack(gs, n) = ReadBack(fs, n) \o x
<1> DEFINE L == Read(fs, n)
           M == Read(gs, n)
<1>0. j \in 0 .. n /\ fs[j] # NoFile /\ \A i \in 0 .. j - 1 : fs[i] = NoFile
  BY GoneFacts, LimitFacts DEF NewestOpen
<1>1. j \in Slots /\ n \in Nat /\ fs[j] \in LogFiles
  BY <1>0, LimitFacts DEF Files
<1>2. gs[j] = fs[j] \o x /\ \A i \in Slots : i # j => gs[i] = fs[i]
  BY <1>1 DEF Files, WrittenTo
<1>3. gs[j] \in LogFiles /\ RecordsOf(gs[j]) = RecordsOf(fs[j]) \o x
  BY <1>1, <1>2, WrittenFile
<1>4. NoFile \notin LogFiles
  BY StorageAssumption DEF LogFiles
<1>5. Files(gs)
  BY <1>2, <1>3 DEF Files, WrittenTo
<1>6. L \in [0 .. n -> Seq(Recs)] /\ M \in [0 .. n -> Seq(Recs)]
  BY <1>5, ReadType
<1>7. M[j] = L[j] \o x
  BY <1>0, <1>3, <1>4 DEF Read, LinesIn
<1>8. \A i \in 0 .. n : i # j => M[i] = L[i]
  BY <1>2, LimitFacts DEF Read, LinesIn
<1>9. \A i \in 0 .. j - 1 : L[i] = <<>>
  BY <1>0, <1>1 DEF Read, LinesIn
<1> HIDE DEF L, M
<1>10. Flat(n, M) = Flat(n, L) \o x
  BY <1>0, <1>1, <1>6, <1>7, <1>8, <1>9, FlatGrows
<1> QED BY <1>5, <1>10 DEF ReadBack, L, M

\* A change to the oldest of the files that exist
LEMMA ShorteningReads ==
  ASSUME NEW fs, Files(fs), NEW gs, Files(gs), NEW n \in Limits, NEW j \in 0 .. n,
         \A i \in j + 1 .. n : fs[i] = NoFile, \A i \in Slots : i # j => gs[i] = fs[i],
         NEW c, Shortened(LinesIn(fs, j), c, LinesIn(gs, j))
  PROVE  Shortened(ReadBack(fs, n), c, ReadBack(gs, n))
<1> DEFINE L == Read(fs, n)
           M == Read(gs, n)
<1>1. n \in Nat
  BY LimitFacts
<1>2. L \in [0 .. n -> Seq(Recs)] /\ M \in [0 .. n -> Seq(Recs)]
  BY ReadType
<1>3. Shortened(L[j], c, M[j])
  BY DEF Read
<1>4. \A i \in 0 .. n : i # j => M[i] = L[i]
  BY LimitFacts DEF Read, LinesIn
<1>5. \A i \in j + 1 .. n : L[i] = <<>>
  BY <1>1 DEF Read, LinesIn
<1> HIDE DEF L, M
<1>6. Shortened(Flat(n, L), c, Flat(n, M))
  BY <1>1, <1>2, <1>3, <1>4, <1>5, FlatShrinks
<1> QED BY <1>6 DEF ReadBack, L, M

\* The whole of the oldest file goes.
LEMMA RemovalReads ==
  ASSUME NEW fs, Files(fs), NEW n \in Limits, NEW j \in Slots, j <= n => \A i \in j + 1 .. n : fs[i] = NoFile,
         NEW gs, gs = [fs EXCEPT ![j] = NoFile]
  PROVE  Files(gs) /\ \E c : Shortened(ReadBack(fs, n), c, ReadBack(gs, n))
<1>1. gs[j] = NoFile /\ \A i \in Slots : i # j => gs[i] = fs[i]
  BY DEF Files
<1>2. Files(gs)
  BY <1>1 DEF Files
<1>3. ReadBack(fs, n) \in Seq(Recs) /\ n \in Nat
  BY ReadBackType, LimitFacts
<1>4. CASE j <= n
  <2> DEFINE s == LinesIn(fs, j)
  <2>1. j \in 0 .. n
    BY <1>3, <1>4, LimitFacts DEF Slots
  <2>2. s \in Seq(Recs) /\ LinesIn(gs, j) = <<>>
    <3>1. <<>> \in Seq(Recs)
      OBVIOUS
    <3> QED BY <1>1, <3>1 DEF LinesIn, Files, LogFiles
  <2> HIDE DEF s
  <2>3. Shortened(s, Len(s), <<>>)
    BY <2>2 DEF Shortened
  <2>4. Shortened(LinesIn(fs, j), Len(s), LinesIn(gs, j))
    BY <2>2, <2>3 DEF s
  <2> DEFINE c == Len(s)
  <2> HIDE DEF c
  <2>5. Shortened(LinesIn(fs, j), c, LinesIn(gs, j))
    BY <2>4 DEF c
  <2>6. Shortened(ReadBack(fs, n), c, ReadBack(gs, n))
    BY <1>1, <1>2, <1>4, <2>1, <2>5, ShorteningReads
  <2> QED BY <1>2, <2>6
<1>5. CASE j > n
  <2>1. Read(gs, n) = Read(fs, n)
    BY <1>1, <1>3, <1>5, LimitFacts DEF Read, LinesIn
  <2>2. Shortened(ReadBack(fs, n), 0, ReadBack(fs, n))
    BY <1>3 DEF Shortened
  <2> QED BY <1>2, <2>1, <2>2 DEF ReadBack
<1>6. j \in Int /\ n \in Int
  BY <1>3, LimitFacts DEF Slots
<1>7. j <= n \/ j > n
  BY <1>6
<1> QED BY <1>4, <1>5, <1>7

\* A file that is no longer within the limit
LEMMA ExcessReads ==
  ASSUME NEW fs, Files(fs), NEW n \in Limits, NEW j \in Slots, j > n, NEW gs, gs = [fs EXCEPT ![j] = NoFile]
  PROVE  Files(gs) /\ ReadBack(gs, n) = ReadBack(fs, n)
<1>1. gs[j] = NoFile /\ \A i \in Slots : i # j => gs[i] = fs[i]
  BY DEF Files
<1>2. Files(gs)
  BY <1>1 DEF Files
<1>3. Read(gs, n) = Read(fs, n)
  BY <1>1, LimitFacts DEF Read, LinesIn
<1> QED BY <1>2, <1>3 DEF ReadBack

\* Renaming a file to the next number, which is free
LEMMA RenameReads ==
  ASSUME NEW fs, Files(fs), NEW n \in Limits, NEW j \in 0 .. n - 1, fs[j + 1] = NoFile,
         NEW gs, gs = [fs EXCEPT ![j] = NoFile, ![j + 1] = fs[j]]
  PROVE  Files(gs) /\ ReadBack(gs, n) = ReadBack(fs, n)
<1> DEFINE L == Read(fs, n)
           M == Read(gs, n)
<1>1. j \in Slots /\ j + 1 \in Slots /\ j \in 0 .. n /\ j + 1 \in 0 .. n /\ n \in Nat /\ j # j + 1
  BY LimitFacts DEF Slots
<1>2. gs[j] = NoFile /\ gs[j + 1] = fs[j] /\ \A i \in Slots : i # j /\ i # j + 1 => gs[i] = fs[i]
  BY <1>1 DEF Files
<1>3. Files(gs)
  BY <1>1, <1>2 DEF Files
<1>4. L \in [0 .. n -> Seq(Recs)] /\ M \in [0 .. n -> Seq(Recs)]
  BY <1>3, ReadType
<1>5. L[j + 1] = <<>> /\ M[j + 1] = L[j] /\ M[j] = <<>>
  BY <1>1, <1>2 DEF Read, LinesIn
<1>6. ASSUME NEW i \in 0 .. n, i # j, i # j + 1 PROVE M[i] = L[i]
  <2>1. gs[i] = fs[i]
    BY <1>2, <1>6, LimitFacts
  <2> QED BY <2>1 DEF Read, LinesIn
<1> HIDE DEF L, M
<1>7. Flat(n, M) = Flat(n, L)
  <2>1. Moved(L, M, n, j)
    BY <1>5, <1>6 DEF Moved
  <2> QED BY <1>1, <1>4, <2>1, FlatMoves
<1> QED BY <1>3, <1>7 DEF ReadBack, L, M

\* Creating the active file
LEMMA CreationReads ==
  ASSUME NEW fs, Files(fs), NEW n \in Limits, NEW gs, gs = [fs EXCEPT ![0] = IF fs[0] # NoFile THEN @ ELSE <<>>]
  PROVE  Files(gs) /\ gs[0] # NoFile /\ ReadBack(gs, n) = ReadBack(fs, n)
<1>1. 0 \in Slots
  BY LimitFacts DEF Slots
<1>2. <<>> \in LogFiles /\ RecordsOf(<<>>) = <<>> /\ <<>> # NoFile
  <2>1. <<>> \in Seq(Recs)
    OBVIOUS
  <2> QED BY <2>1, PlainFile, StorageAssumption DEF LogFiles
<1>3. gs[0] = (IF fs[0] # NoFile THEN fs[0] ELSE <<>>) /\ \A i \in Slots : i # 0 => gs[i] = fs[i]
  BY <1>1 DEF Files
<1>4. Files(gs)
  BY <1>1, <1>2, <1>3 DEF Files
<1>5. \A i \in 0 .. n : LinesIn(gs, i) = LinesIn(fs, i)
  BY <1>2, <1>3, LimitFacts DEF LinesIn
<1>6. Read(gs, n) = Read(fs, n)
  BY <1>5 DEF Read
<1> QED BY <1>2, <1>3, <1>4, <1>6 DEF ReadBack
-----------------------------------------------------------------------------
(* The steps of a record log *)

Both == OnDisk \in Seq(Recs) /\ Buffered \in Seq(Recs)
LogStep == [RL!LogNext]_<<OnDisk \o Buffered, Len(OnDisk)>>

LEMMA StutterStep == OnDisk' = OnDisk /\ Buffered' = Buffered => LogStep
BY DEF LogStep

LEMMA HardenStep ==
  ASSUME Both, OnDisk' = OnDisk \o Buffered, Buffered' = <<>>
  PROVE  LogStep
<1> DEFINE D == OnDisk
           B == Buffered
<1>1. D \in Seq(Recs) /\ B \in Seq(Recs)
  BY DEF Both
<1> HIDE DEF D, B
<1>2. D \o B \in Seq(Recs) /\ Len(D \o B) = Len(D) + Len(B) /\ Len(D) \in Nat /\ Len(B) \in Nat
  BY <1>1, ConcatProperties
<1>3. (D \o B) \o <<>> = D \o B
  BY <1>2, ConcatEmptySeq
<1>4. Len(D \o B) \in Len(D) .. Len(D \o B)
  BY <1>2
<1>5. (OnDisk \o Buffered)' = OnDisk \o Buffered /\ (Len(OnDisk))' \in Len(OnDisk) .. Len(OnDisk \o Buffered)
  BY <1>3, <1>4 DEF D, B
<1> QED BY <1>5 DEF LogStep, RL!LogNext, RL!Harden

LEMMA AcceptStep ==
  ASSUME Both, NEW r \in Recs,
         \/ OnDisk' = OnDisk /\ Buffered' = Append(Buffered, r)
         \/ OnDisk' = OnDisk \o Buffered /\ Buffered' = <<r>>
  PROVE  LogStep
<1> DEFINE D == OnDisk
           B == Buffered
           one == <<r>>
<1>1. D \in Seq(Recs) /\ B \in Seq(Recs) /\ one \in Seq(Recs)
  BY DEF Both
<1>2. \A s \in Seq(Recs) : Append(s, r) = s \o one
  BY AppendIsConcat
<1> HIDE DEF D, B, one
<1>3. D \o B \in Seq(Recs) /\ Len(D \o B) = Len(D) + Len(B) /\ Len(D) \in Nat /\ Len(B) \in Nat
  BY <1>1, ConcatProperties
<1>4. (D \o B) \o one = D \o (B \o one)
  BY <1>1, ConcatAssociative
<1>5. Append(D \o B, r) = D \o Append(B, r) /\ Append(D \o B, r) = (D \o B) \o one
  BY <1>1, <1>2, <1>3, <1>4
<1>6. Len(D) \in Len(D) .. Len(D \o B) /\ Len(D \o B) \in Len(D) .. Len(D \o B)
  BY <1>3
<1>7. (OnDisk \o Buffered)' = Append(OnDisk \o Buffered, r)
  BY <1>5 DEF D, B, one
<1>8. (Len(OnDisk))' \in Len(OnDisk) .. Len(OnDisk \o Buffered)
  BY <1>6 DEF D, B
<1> QED BY <1>7, <1>8 DEF LogStep, RL!LogNext, RL!Accept, Recs

LEMMA ForgetStep ==
  ASSUME Both, OnDisk' = OnDisk \/ OnDisk' = OnDisk \o Buffered, Buffered' = <<>>
  PROVE  LogStep
<1> DEFINE D == OnDisk
           B == Buffered
<1>1. D \in Seq(Recs) /\ B \in Seq(Recs)
  BY DEF Both
<1> HIDE DEF D, B
<1>2. D \o B \in Seq(Recs) /\ Len(D \o B) = Len(D) + Len(B) /\ Len(D) \in Nat /\ Len(B) \in Nat
  BY <1>1, ConcatProperties
<1>3. SubSeq(D \o B, 1, Len(D)) = D
  <2> DEFINE s == D \o B
             p == SubSeq(s, 1, Len(D))
  <2>1. /\ s \in Seq(Recs) /\ Len(s) = Len(D) + Len(B)
        /\ \A i \in 1 .. Len(D) : s[i] = D[i]
    BY <1>1, <1>2, ConcatProperties
  <2>2. \A i \in 1 .. Len(D) : s[i] \in Recs
    BY <1>1, <2>1, ElementOfSeq
  <2> HIDE DEF s
  <2>3. /\ p \in Seq(Recs) /\ Len(p) = (IF 1 <= Len(D) THEN Len(D) - 1 + 1 ELSE 0)
        /\ \A i \in 1 .. Len(D) - 1 + 1 : p[i] = s[1 + i - 1]
    BY <1>2, <2>1, <2>2, SubSeqProperties
  <2> HIDE DEF p
  <2>4. Len(p) = Len(D) /\ \A i \in 1 .. Len(D) : p[i] = D[i]
    BY <1>2, <2>1, <2>3
  <2>5. p = D
    BY <1>1, <2>3, <2>4, SeqEqual
  <2> QED BY <2>5 DEF s, p
<1>4. SubSeq(D \o B, 1, Len(D \o B)) = D \o B
  BY <1>2, SubSeqFull
<1>5. Len(D) \in Len(D) .. Len(D \o B) /\ Len(D \o B) \in Len(D) .. Len(D \o B)
  BY <1>2
<1>6. D \o <<>> = D /\ (D \o B) \o <<>> = D \o B
  BY <1>1, <1>2, ConcatEmptySeq
<1>7. \E n \in Len(OnDisk) .. Len(OnDisk \o Buffered) :
        (OnDisk \o Buffered)' = SubSeq(OnDisk \o Buffered, 1, n) /\ (Len(OnDisk))' = n
  <2>1. CASE OnDisk' = OnDisk
    BY <1>3, <1>5, <1>6, <2>1 DEF D, B
  <2>2. CASE OnDisk' = OnDisk \o Buffered
    BY <1>4, <1>5, <1>6, <2>2 DEF D, B
  <2> QED BY <2>1, <2>2
<1> QED BY <1>7 DEF LogStep, RL!LogNext, RL!Forget

LEMMA RetainStep ==
  ASSUME Both, NEW c, Shortened(OnDisk, c, OnDisk'), Buffered' = Buffered
  PROVE  LogStep
<1> DEFINE D == OnDisk
           B == Buffered
           E == SubSeq(D, c + 1, Len(D))
<1>1. D \in Seq(Recs) /\ B \in Seq(Recs)
  BY DEF Both
<1>2. OnDisk' = E /\ c \in 0 .. Len(D) /\ Shortened(D, c, E)
  BY DEF Shortened
<1> HIDE DEF D, B
<1>3. Shortened(D \o B, c, E \o B)
  <2> HIDE DEF E
  <2> QED BY <1>1, <1>2, SuffixOfConcat
<1>4. E \o B = SubSeq(D \o B, c + 1, Len(D \o B))
  <2> HIDE DEF E
  <2> QED BY <1>3 DEF Shortened
<1>5. E \in Seq(Recs) /\ Len(E) = Len(D) - c /\ Len(D) \in Nat
  <2>1. \A i \in c + 1 .. Len(D) : D[i] \in Recs
    BY <1>1, <1>2, ElementOfSeq
  <2>2. E \in Seq(Recs) /\ Len(E) = (IF c + 1 <= Len(D) THEN Len(D) - (c + 1) + 1 ELSE 0)
    BY <1>1, <1>2, <2>1, SubSeqProperties
  <2> QED BY <1>1, <1>2, <2>2
<1>6. CASE c = 0
  <2>1. E = D
    BY <1>1, <1>6, SubSeqFull
  <2> QED BY <1>2, <2>1, StutterStep DEF D
<1>7. CASE c # 0
  <2> HIDE DEF E
  <2>1. c \in 1 .. Len(D)
    BY <1>2, <1>5, <1>7
  <2>2. \E n \in 1 .. Len(OnDisk) :
          /\ (OnDisk \o Buffered)' = SubSeq(OnDisk \o Buffered, n + 1, Len(OnDisk \o Buffered))
          /\ (Len(OnDisk))' = Len(OnDisk) - n
    BY <1>2, <1>4, <1>5, <2>1 DEF D, B
  <2> QED BY <2>2 DEF LogStep, RL!LogNext, RL!Retain
<1> QED BY <1>6, <1>7
-----------------------------------------------------------------------------
(* The inductive invariant of the storage *)

Stages == {"serve", "flush", "excess", "measure", "oldest", "shift",
           "compact", "reopen", "budget", "stopped"}

ChannelInv ==
  /\ sent \in 0 .. MaxRecords
  /\ queue \in Seq(Recs) /\ Len(queue) <= Capacity
  /\ blocked \in Seq([by : Senders, record : Recs])

FilesInv ==
  /\ limit \in Limits /\ Files(files)
  /\ handle \in Slots \cup {Gone} /\ NewestOpen(files, handle, limit)
  /\ buffer \in Seq(Recs) /\ Len(buffer) <= BufferSize

\* While the worker moves files, nothing is buffered and the next archive is free.
WorkerInv ==
  /\ stage \in Stages
  /\ stage \notin {"serve", "flush"} => buffer = <<>>
  /\ stage = "oldest" => limit > 0
  /\ stage = "shift" => shifting \in 0 .. limit - 1 /\ files[shifting + 1] = NoFile
  /\ stage = "compact" => limit = 0 /\ files[0] # NoFile

StorageInv == ChannelInv /\ FilesInv /\ WorkerInv

LEMMA BothTyped == FilesInv => Both /\ OnDisk = ReadBack(files, limit)
<1> SUFFICES ASSUME FilesInv PROVE Both /\ OnDisk = ReadBack(files, limit)
  OBVIOUS
<1>1. OnDisk = ReadBack(files, limit)
  BY OnDiskIsRead DEF FilesInv, Files
<1>2. OnDisk \in Seq(Recs)
  BY <1>1, ReadBackType DEF FilesInv
<1>3. <<>> \in Seq(Recs)
  OBVIOUS
<1> QED BY <1>1, <1>2, <1>3 DEF Both, Buffered, FilesInv

\* What a step does to the files is read back of them.
LEMMA DiskMoves ==
  ASSUME FilesInv, limit' = limit, Files(files')
  PROVE  OnDisk' = ReadBack(files', limit)
<1>1. limit' \in Limits /\ DOMAIN files' = Slots
  BY DEF FilesInv, Files
<1>2. (DOMAIN files = Slots /\ limit \in Limits => OnDisk = ReadBack(files, limit))'
  BY OnDiskIsRead, PTL
<1> QED BY <1>1, <1>2

\* The worker's buffer, written to the open file if there is one
LEMMA WrittenReads ==
  ASSUME FilesInv, NEW gs, gs = Written(buffer)
  PROVE  /\ Files(gs) /\ NewestOpen(gs, handle, limit)
         /\ ReadBack(gs, limit) = OnDisk \o Buffered
         /\ handle = Gone => gs = files
<1>1. CASE handle = Gone
  <2>1. gs = files /\ Buffered = <<>>
    BY <1>1 DEF Written, Buffered
  <2>2. OnDisk \in Seq(Recs) /\ OnDisk = ReadBack(files, limit)
    BY BothTyped DEF Both
  <2>3. OnDisk \o <<>> = OnDisk
    BY <2>2, ConcatEmptySeq
  <2> QED BY <2>1, <2>2, <2>3 DEF FilesInv
<1>2. CASE handle # Gone
  <2>1. /\ handle \in 0 .. limit /\ files[handle] # NoFile /\ handle \in Slots
        /\ \A i \in 0 .. handle - 1 : files[i] = NoFile
    BY <1>2, GoneFacts, LimitFacts DEF FilesInv, NewestOpen
  <2>2. gs = WrittenTo(files, handle, buffer)
    BY <1>2 DEF Written, WrittenTo
  <2>3. Files(files) /\ limit \in Limits /\ buffer \in Seq(Recs)
    BY DEF FilesInv
  <2>4. Files(gs) /\ ReadBack(gs, limit) = ReadBack(files, limit) \o buffer
    <3>1. NewestOpen(files, handle, limit)
      BY DEF FilesInv
    <3> QED BY <2>1, <2>2, <2>3, <3>1, WriteReads
  <2>5. \A i \in Slots : gs[i] = NoFile <=> files[i] = NoFile
    <3>1. files[handle] \in LogFiles
      BY <2>1, <2>3 DEF Files
    <3>2. gs[handle] = files[handle] \o buffer /\ \A i \in Slots : i # handle => gs[i] = files[i]
      BY <2>1, <2>2, <2>3 DEF Files, WrittenTo
    <3>3. gs[handle] \in LogFiles
      BY <2>3, <3>1, <3>2, WrittenFile
    <3>4. gs[handle] # NoFile
      BY <3>3, StorageAssumption DEF LogFiles
    <3> QED BY <2>1, <3>2, <3>4
  <2>6. 0 .. handle - 1 \subseteq Slots
    BY <2>1, GoneFacts
  <2>7. NewestOpen(gs, handle, limit)
    BY <2>1, <2>5, <2>6, <1>2 DEF NewestOpen
  <2>8. Buffered = buffer /\ OnDisk = ReadBack(files, limit)
    BY <1>2, BothTyped DEF Buffered
  <2> QED BY <1>2, <2>4, <2>7, <2>8
<1> QED BY <1>1, <1>2

\* An archive or the open file is removed
LEMMA RemovalKeepsOpen ==
  ASSUME FilesInv, NEW j \in Slots, NEW gs, gs = WithoutFile(j), NEW h, h = HandleAfterRemoval(j)
  PROVE  h \in Slots \cup {Gone} /\ NewestOpen(gs, h, limit)
<1>1. gs[j] = NoFile /\ \A i \in Slots : i # j => gs[i] = files[i]
  BY DEF FilesInv, Files, WithoutFile
<1>2. CASE handle = j
  BY <1>2 DEF HandleAfterRemoval, NewestOpen
<1>3. CASE handle # j /\ handle # Gone
  <2>1. h = handle /\ handle \in Slots
    BY <1>3 DEF HandleAfterRemoval, FilesInv
  <2>2. handle <= limit /\ gs[handle] # NoFile
    BY <1>1, <1>3, <2>1 DEF FilesInv, NewestOpen
  <2>3. ASSUME NEW i \in 0 .. handle - 1 PROVE gs[i] = NoFile
    <3>1. i \in Slots /\ files[i] = NoFile
      BY <1>3, <2>1, GoneFacts DEF FilesInv, NewestOpen
    <3> QED BY <1>1, <3>1
  <2> QED BY <2>1, <2>2, <2>3 DEF NewestOpen
<1>4. CASE handle # j /\ handle = Gone
  BY <1>4 DEF HandleAfterRemoval, NewestOpen
<1> QED BY <1>2, <1>3, <1>4

\* A file gets the next number, which is free
LEMMA RenameKeepsOpen ==
  ASSUME FilesInv, NEW j \in 0 .. limit - 1, files[j] # NoFile, files[j + 1] = NoFile,
         Rename(j, j + 1)
  PROVE  handle' \in Slots \cup {Gone} /\ NewestOpen(files', handle', limit) /\ files'[j] = NoFile
<1>1. limit \in Nat /\ limit \in Slots /\ j \in Slots /\ j + 1 \in Slots /\ j \in Nat /\ MaxArchive \in Nat
  BY LimitFacts DEF FilesInv, Slots
<1>2. /\ files'[j] = NoFile /\ files'[j + 1] = files[j]
      /\ \A i \in Slots : i # j /\ i # j + 1 => files'[i] = files[i]
  BY <1>1 DEF Rename, FilesInv, Files
<1>3. handle # j + 1
  BY <1>1 DEF FilesInv, NewestOpen, Gone
<1>4. CASE handle = j
  <2>1. handle' = j + 1
    BY <1>4 DEF Rename
  <2>2. ASSUME NEW i \in 0 .. (j + 1) - 1 PROVE files'[i] = NoFile
    <3>1. i = j \/ i \in 0 .. j - 1
      BY <1>1
    <3>2. i \in 0 .. j - 1 => files[i] = NoFile /\ i \in Slots /\ i # j /\ i # j + 1
      BY <1>1, <1>4 DEF FilesInv, NewestOpen, Gone, Slots
    <3> QED BY <1>2, <3>1, <3>2
  <2>3. j + 1 <= limit
    BY <1>1
  <2> QED BY <1>1, <1>2, <2>1, <2>2, <2>3 DEF NewestOpen
<1>5. CASE handle # j
  <2>1. handle' = handle
    BY <1>3, <1>5 DEF Rename, HandleAfterRemoval
  <2>2. handle # Gone => handle \in Slots /\ handle \in Nat
    BY GoneFacts DEF FilesInv
  <2>3. ASSUME handle # Gone PROVE files'[handle] # NoFile /\ handle <= limit
    BY <1>2, <1>3, <1>5, <2>2, <2>3 DEF FilesInv, NewestOpen
  <2>4. ASSUME handle # Gone, NEW i \in 0 .. handle - 1 PROVE files'[i] = NoFile
    <3>1. files[i] = NoFile /\ i \in Slots /\ i # j
      BY <1>5, <2>2, <2>4, GoneFacts DEF FilesInv, NewestOpen
    <3>2. handle <= j
      <4>1. CASE j < handle
        <5>1. j \in 0 .. handle - 1
          BY <1>1, <2>2, <2>4, <4>1
        <5> QED BY <2>4, <5>1 DEF FilesInv, NewestOpen
      <4> QED BY <1>1, <2>2, <2>4, <4>1
    <3>3. i # j + 1
      BY <1>1, <2>2, <2>4, <3>2
    <3> QED BY <1>2, <3>1, <3>3
  <2> QED BY <1>2, <2>1, <2>2, <2>3, <2>4 DEF NewestOpen, FilesInv
<1> QED BY <1>4, <1>5
-----------------------------------------------------------------------------
(* The steps of the storage, each of them a step of the record log or none *)

\* What is proved of each of them, but for the channel.
WorkerGoal == FilesInv' /\ WorkerInv' /\ LogStep

\* Steps that leave the files, the buffer and the worker as they are
LEMMA SenderSteps ==
  ASSUME StorageInv, UNCHANGED <<buffer, files, handle, limit, stage, shifting>>
  PROVE  WorkerGoal
<1>1. FilesInv' /\ WorkerInv'
  BY DEF StorageInv, FilesInv, WorkerInv
<1>2. OnDisk' = OnDisk /\ Buffered' = Buffered
  <2>1. OnDisk' = ReadBack(files', limit)
    BY DiskMoves DEF StorageInv, FilesInv
  <2> QED BY <2>1, BothTyped DEF StorageInv, Buffered
<1> QED BY <1>1, <1>2, StutterStep DEF WorkerGoal

LEMMA ReceiveStep == StorageInv /\ ReceiveRecord => WorkerGoal
<1> SUFFICES ASSUME StorageInv, ReceiveRecord PROVE WorkerGoal
  OBVIOUS
<1> DEFINE r == Head(queue)
<1>1. /\ r \in Recs /\ limit' = limit /\ handle' = handle /\ stage' = stage /\ shifting' = shifting
      /\ stage = "serve" /\ Both /\ FilesInv /\ buffer \in Seq(Recs)
      /\ BufferSize \in Nat \ {0} /\ OnDisk = ReadBack(files, limit)
  BY HeadTailProperties, BothTyped, StorageAssumption DEF StorageInv, ChannelInv, FilesInv, ReceiveRecord
<1>2. CASE Len(buffer) < BufferSize /\ buffer' = Append(buffer, r) /\ files' = files
  <2>1. buffer' \in Seq(Recs) /\ Len(buffer') <= BufferSize
    BY <1>1, <1>2, AppendProperties
  <2>2. FilesInv'
    BY <1>1, <1>2, <2>1 DEF FilesInv
  <2>3. OnDisk' = OnDisk
    BY <1>1, <1>2, DiskMoves DEF FilesInv
  <2>4. LogStep
    <3>1. CASE handle = Gone
      BY <1>1, <2>3, <3>1, StutterStep DEF Buffered
    <3>2. CASE handle # Gone
      <4>1. Buffered' = Append(Buffered, r)
        BY <1>1, <1>2, <3>2 DEF Buffered
      <4> QED BY <1>1, <2>3, <4>1, AcceptStep
    <3> QED BY <3>1, <3>2
  <2> QED BY <1>1, <1>2, <2>2, <2>4 DEF WorkerGoal, WorkerInv, StorageInv
<1>3. CASE buffer' = <<r>> /\ files' = Written(buffer)
  <2>1. buffer' \in Seq(Recs) /\ Len(buffer') = 1
    BY <1>1, <1>3
  <2>2. /\ Files(files') /\ NewestOpen(files', handle, limit)
        /\ ReadBack(files', limit) = OnDisk \o Buffered /\ (handle = Gone => files' = files)
    BY <1>1, <1>3, WrittenReads
  <2>3. FilesInv'
    BY <1>1, <2>1, <2>2 DEF FilesInv
  <2>4. OnDisk' = OnDisk \o Buffered
    BY <1>1, <2>2, DiskMoves
  <2>5. LogStep
    <3>1. CASE handle = Gone
      <4>1. OnDisk' = OnDisk
        BY <1>1, <2>2, <3>1, DiskMoves
      <4> QED BY <1>1, <3>1, <4>1, StutterStep DEF Buffered
    <3>2. CASE handle # Gone
      <4>1. Buffered' = <<r>>
        BY <1>1, <1>3, <3>2 DEF Buffered
      <4> QED BY <1>1, <2>4, <4>1, AcceptStep
    <3> QED BY <3>1, <3>2
  <2> QED BY <1>1, <2>3, <2>5 DEF WorkerGoal, WorkerInv, Stages
<1> QED BY <1>2, <1>3 DEF ReceiveRecord

\* The worker ends, with its buffer written or not.
LEMMA StopStep ==
  ASSUME StorageInv, NEW disk \in {files, Written(buffer)}, StopWorker(disk)
  PROVE  WorkerGoal
<1>1. /\ files' = disk /\ buffer' = <<>> /\ limit' = limit /\ handle' = handle /\ stage' = "stopped"
      /\ FilesInv /\ Both /\ OnDisk = ReadBack(files, limit)
  BY BothTyped DEF StopWorker, StorageInv
<1>2. Files(files') /\ NewestOpen(files', handle, limit)
  BY <1>1, WrittenReads DEF FilesInv
<1>3. OnDisk' = OnDisk \/ OnDisk' = OnDisk \o Buffered
  <2>1. OnDisk' = ReadBack(files', limit)
    BY <1>1, <1>2, DiskMoves
  <2> QED BY <1>1, <2>1, WrittenReads
<1>4. FilesInv'
  BY <1>1, <1>2, StorageAssumption DEF FilesInv
<1>5. Buffered' = <<>>
  BY <1>1 DEF Buffered
<1>6. LogStep
  BY <1>1, <1>3, <1>5, ForgetStep
<1> QED BY <1>1, <1>4, <1>6 DEF WorkerGoal, WorkerInv, Stages

LEMMA FlushStep == StorageInv /\ FlushWriter => WorkerGoal
<1> SUFFICES ASSUME StorageInv, FlushWriter PROVE WorkerGoal
  OBVIOUS
<1>1. /\ files' = Written(buffer) /\ buffer' = <<>> /\ limit' = limit /\ handle' = handle /\ stage' = "excess"
      /\ FilesInv /\ Both
  BY BothTyped DEF FlushWriter, StorageInv, Goto
<1>2. Files(files') /\ NewestOpen(files', handle, limit) /\ ReadBack(files', limit) = OnDisk \o Buffered
  BY <1>1, WrittenReads
<1>3. OnDisk' = OnDisk \o Buffered
  BY <1>1, <1>2, DiskMoves
<1>4. FilesInv'
  BY <1>1, <1>2, StorageAssumption DEF FilesInv
<1>5. Buffered' = <<>>
  BY <1>1 DEF Buffered
<1>6. LogStep
  BY <1>1, <1>3, <1>5, HardenStep
<1> QED BY <1>1, <1>4, <1>6 DEF WorkerGoal, WorkerInv, Stages

\* A step of the housekeeping that moves no file
LEMMA QuietStep ==
  ASSUME StorageInv, UNCHANGED <<files, handle, buffer, limit>>, stage' \in Stages,
         stage' \notin {"serve", "flush"} => buffer = <<>>,
         stage' = "oldest" => limit > 0, stage' # "shift",
         stage' = "compact" => limit = 0 /\ files[0] # NoFile
  PROVE  WorkerGoal
<1>1. OnDisk' = OnDisk /\ Buffered' = Buffered /\ FilesInv'
  <2>1. OnDisk' = ReadBack(files', limit)
    BY DiskMoves DEF StorageInv, FilesInv
  <2> QED BY <2>1, BothTyped DEF StorageInv, FilesInv, Buffered
<1>2. WorkerInv'
  BY DEF WorkerInv
<1>3. LogStep
  BY <1>1, StutterStep
<1> QED BY <1>1, <1>2, <1>3 DEF WorkerGoal

\* A step of the housekeeping that removes a file, or lines of the oldest one
LEMMA RemovalStep ==
  ASSUME StorageInv, buffer = <<>>, UNCHANGED <<buffer, limit>>,
         Files(files'), handle' \in Slots \cup {Gone}, NewestOpen(files', handle', limit),
         \E c : Shortened(ReadBack(files, limit), c, ReadBack(files', limit)), WorkerInv'
  PROVE  WorkerGoal
<1>1. FilesInv'
  BY DEF StorageInv, FilesInv
<1>2. OnDisk = ReadBack(files, limit) /\ Both /\ OnDisk' = ReadBack(files', limit)
  BY BothTyped, DiskMoves DEF StorageInv
<1>3. Buffered' = Buffered
  BY DEF Buffered
<1>4. PICK c : Shortened(OnDisk, c, OnDisk')
  BY <1>2
<1>5. LogStep
  BY <1>2, <1>3, <1>4, RetainStep
<1> QED BY <1>1, <1>5 DEF WorkerGoal

LEMMA ExcessStep == StorageInv /\ PruneExcess => WorkerGoal
<1> SUFFICES ASSUME StorageInv, PruneExcess PROVE WorkerGoal
  OBVIOUS
<1> DEFINE excess == {i \in Archives : i > limit}
           j == Min(excess)
<1>1. /\ limit' = limit /\ buffer' = buffer /\ FilesInv /\ buffer = <<>>
      /\ limit \in Limits /\ limit \in Nat
  BY LimitFacts DEF StorageInv, FilesInv, WorkerInv, PruneExcess, Goto
<1>2. CASE excess = {} /\ Goto("measure") /\ UNCHANGED <<files, handle>>
  BY <1>1, <1>2, QuietStep DEF Goto, Stages
<1>3. CASE excess # {} /\ Goto("excess") /\ files' = WithoutFile(j) /\ handle' = HandleAfterRemoval(j)
  <2>1. j \in excess
    <3>1. excess \in SUBSET Nat
      BY GoneFacts DEF Archives
    <3> HIDE DEF excess
    <3> QED BY <1>3, <3>1, LeastOf
  <2> HIDE DEF j
  <2>2. j \in Slots /\ j > limit
    BY <2>1 DEF Archives
  <2>3. handle' \in Slots \cup {Gone} /\ NewestOpen(files', handle', limit)
    BY <1>1, <1>3, <2>2, RemovalKeepsOpen
  <2>4. files' = [files EXCEPT ![j] = NoFile]
    BY <1>3 DEF WithoutFile
  <2>5. j <= limit => \A i \in j + 1 .. limit : files[i] = NoFile
    BY <1>1, <2>2, GoneFacts
  <2>6. Files(files') /\ \E c : Shortened(ReadBack(files, limit), c, ReadBack(files', limit))
    BY <1>1, <2>2, <2>4, <2>5, RemovalReads DEF FilesInv
  <2>7. WorkerInv'
    BY <1>1, <1>3 DEF WorkerInv, Goto, Stages
  <2> QED BY <1>1, <2>3, <2>6, <2>7, RemovalStep
<1> QED BY <1>2, <1>3 DEF PruneExcess

LEMMA MeasureStep == StorageInv /\ Measure => WorkerGoal
<1> SUFFICES ASSUME StorageInv, Measure PROVE WorkerGoal
  OBVIOUS
<1>1. UNCHANGED <<files, handle, buffer, limit>> /\ buffer = <<>> /\ limit \in Nat
  BY LimitFacts DEF StorageInv, FilesInv, WorkerInv, Measure, Goto
<1>2. stage' \in {"serve", "budget"} \/ (files[0] # NoFile /\ stage' = IF limit > 0 THEN "oldest" ELSE "compact")
  BY DEF Measure, Goto, Exists
<1>3. /\ stage' \in Stages /\ stage' # "shift"
      /\ stage' = "oldest" => limit > 0
      /\ stage' = "compact" => limit = 0 /\ files[0] # NoFile
  BY <1>1, <1>2 DEF Stages
<1> QED BY <1>1, <1>3, QuietStep

LEMMA OldestStep == StorageInv /\ RemoveOldest => WorkerGoal
<1> SUFFICES ASSUME StorageInv, RemoveOldest PROVE WorkerGoal
  OBVIOUS
<1>1. /\ limit' = limit /\ buffer' = buffer /\ FilesInv /\ buffer = <<>>
      /\ limit \in Limits /\ limit \in Nat /\ limit > 0 /\ limit \in Slots
      /\ files' = WithoutFile(limit) /\ handle' = HandleAfterRemoval(limit)
      /\ stage' = "shift" /\ shifting' = limit - 1
  BY LimitFacts DEF StorageInv, FilesInv, WorkerInv, RemoveOldest, Goto
<1>2. handle' \in Slots \cup {Gone} /\ NewestOpen(files', handle', limit)
  BY <1>1, RemovalKeepsOpen
<1>3. files' = [files EXCEPT ![limit] = NoFile]
  BY <1>1 DEF WithoutFile
<1>4. limit <= limit => \A i \in limit + 1 .. limit : files[i] = NoFile
  BY <1>1
<1>5. Files(files') /\ \E c : Shortened(ReadBack(files, limit), c, ReadBack(files', limit))
  BY <1>1, <1>3, <1>4, RemovalReads DEF FilesInv
<1>6. WorkerInv'
  <2>1. shifting' \in 0 .. limit - 1 /\ shifting' + 1 = limit
    BY <1>1
  <2>2. files'[limit] = NoFile
    BY <1>1, <1>3 DEF FilesInv, Files
  <2> QED BY <1>1, <2>1, <2>2 DEF WorkerInv, Stages
<1> QED BY <1>1, <1>2, <1>5, <1>6, RemovalStep

LEMMA ShiftStep == StorageInv /\ ShiftArchives => WorkerGoal
<1> SUFFICES ASSUME StorageInv, ShiftArchives PROVE WorkerGoal
  OBVIOUS
<1>1. /\ limit' = limit /\ buffer' = buffer /\ FilesInv /\ buffer = <<>> /\ Both
      /\ limit \in Limits /\ limit \in Nat /\ OnDisk = ReadBack(files, limit)
      /\ stage' = (IF shifting = 0 THEN "reopen" ELSE "shift")
      /\ shifting' = (IF shifting = 0 THEN 0 ELSE shifting - 1)
      /\ shifting \in 0 .. limit - 1 /\ files[shifting + 1] = NoFile
  BY LimitFacts, BothTyped DEF StorageInv, FilesInv, WorkerInv, ShiftArchives, Goto
<1>2. /\ Files(files') /\ ReadBack(files', limit) = OnDisk /\ files'[shifting] = NoFile
      /\ handle' \in Slots \cup {Gone} /\ NewestOpen(files', handle', limit)
  <2>1. CASE Exists(shifting)
    <3>1. Rename(shifting, shifting + 1) /\ files[shifting] # NoFile
      BY <2>1 DEF ShiftArchives, Exists
    <3>2. files' = [files EXCEPT ![shifting] = NoFile, ![shifting + 1] = files[shifting]]
      BY <3>1 DEF Rename
    <3>3. Files(files') /\ ReadBack(files', limit) = ReadBack(files, limit)
      BY <1>1, <3>2, RenameReads DEF FilesInv
    <3>4. handle' \in Slots \cup {Gone} /\ NewestOpen(files', handle', limit) /\ files'[shifting] = NoFile
      BY <1>1, <3>1, RenameKeepsOpen
    <3> QED BY <1>1, <3>3, <3>4
  <2>2. CASE ~Exists(shifting)
    BY <1>1, <2>2 DEF ShiftArchives, FilesInv, Exists
  <2> QED BY <2>1, <2>2
<1>3. FilesInv'
  BY <1>1, <1>2 DEF FilesInv
<1>4. OnDisk' = OnDisk /\ Buffered' = Buffered
  BY <1>1, <1>2, DiskMoves DEF Buffered
<1>5. WorkerInv'
  <2>1. shifting # 0 => shifting' \in 0 .. limit - 1 /\ shifting' + 1 = shifting
    BY <1>1
  <2> QED BY <1>1, <1>2, <2>1 DEF WorkerInv, Stages
<1> QED BY <1>3, <1>4, <1>5, StutterStep DEF WorkerGoal

LEMMA CompactStep == StorageInv /\ Compact => WorkerGoal
<1> SUFFICES ASSUME StorageInv, Compact PROVE WorkerGoal
  OBVIOUS
<1> DEFINE f == files[0]
<1>1. /\ limit' = limit /\ buffer' = buffer /\ FilesInv /\ buffer = <<>> /\ stage' = "reopen"
      /\ limit \in Limits /\ limit = 0 /\ f # NoFile /\ 0 \in Slots /\ f \in LogFiles
  BY LimitFacts DEF StorageInv, FilesInv, WorkerInv, Compact, Goto, Files, Slots
<1>2. CASE UNCHANGED <<files, handle>>
  BY <1>1, <1>2, QuietStep DEF Stages
<1>3. CASE /\ ~(Len(f) <= RetainLines)
           /\ files' = [files EXCEPT ![0] = <<Summary>> \o SubSeq(f, Len(f) - RetainLines + 1, Len(f))]
           /\ handle' = HandleAfterRemoval(0)
  <2> DEFINE g == files'[0]
  <2>1. g = <<Summary>> \o SubSeq(f, Len(f) - RetainLines + 1, Len(f)) /\ \A i \in Slots : i # 0 => files'[i] = files[i]
    BY <1>1, <1>3 DEF FilesInv, Files
  <2>2. RetainLines \in Nat /\ RetainLines < Len(f)
    <3>1. Len(f) \in Nat
      BY <1>1 DEF LogFiles
    <3> QED BY <1>3, <3>1, StorageAssumption
  <2> HIDE DEF f, g
  <2>3. g \in LogFiles /\ \E c : Shortened(RecordsOf(f), c, RecordsOf(g))
    BY <1>1, <2>1, <2>2, CompactedFile
  <2>4. Files(files')
    BY <1>1, <1>3, <2>1, <2>3 DEF FilesInv, Files, g
  <2>5. PICK c : Shortened(RecordsOf(f), c, RecordsOf(g))
    BY <2>3
  <2>6. LinesIn(files, 0) = RecordsOf(f) /\ LinesIn(files', 0) = RecordsOf(g)
    BY <1>1, <2>3, StorageAssumption DEF LinesIn, f, g, LogFiles
  <2>7. Shortened(ReadBack(files, limit), c, ReadBack(files', limit))
    <3>1. /\ Files(files) /\ 0 \in 0 .. limit /\ \A i \in 0 + 1 .. limit : files[i] = NoFile
          /\ Shortened(LinesIn(files, 0), c, LinesIn(files', 0))
      BY <1>1, <2>5, <2>6 DEF FilesInv
    <3> QED BY <1>1, <2>1, <2>4, <3>1, ShorteningReads
  <2>8. handle' \in Slots \cup {Gone} /\ NewestOpen(files', handle', limit)
    <3>1. handle' = Gone
      <4>1. handle \in Nat => handle <= 0
        BY <1>1 DEF FilesInv, NewestOpen, Gone
      <4> QED BY <1>1, <1>3, <4>1, GoneFacts DEF FilesInv, HandleAfterRemoval
    <3> QED BY <3>1 DEF NewestOpen
  <2>9. WorkerInv'
    BY <1>1 DEF WorkerInv, Stages
  <2> QED BY <1>1, <2>4, <2>7, <2>8, <2>9, RemovalStep
<1> QED BY <1>2, <1>3 DEF Compact

\* The active file is opened again, by the worker or by a new process.
LEMMA ReopenStep ==
  ASSUME StorageInv, limit' = limit, handle' = 0, buffer' = <<>>, stage' \in {"budget", "flush"},
         files' = [files EXCEPT ![0] = IF Exists(0) THEN @ ELSE <<>>]
  PROVE  WorkerGoal
<1>1. FilesInv /\ Both /\ limit \in Limits /\ limit \in Nat /\ 0 \in Slots /\ OnDisk = ReadBack(files, limit)
  BY LimitFacts, BothTyped DEF StorageInv, FilesInv, Slots
<1>2. Files(files') /\ files'[0] # NoFile /\ ReadBack(files', limit) = ReadBack(files, limit)
  BY <1>1, CreationReads DEF FilesInv, Exists
<1>3. NewestOpen(files', 0, limit)
  BY <1>1, <1>2 DEF NewestOpen
<1>4. FilesInv'
  BY <1>1, <1>2, <1>3, StorageAssumption DEF FilesInv
<1>5. OnDisk' = OnDisk /\ Buffered' = <<>>
  BY <1>1, <1>2, DiskMoves DEF Buffered
<1>6. LogStep
  BY <1>1, <1>5, ForgetStep
<1>7. WorkerInv'
  BY DEF WorkerInv, Stages
<1> QED BY <1>4, <1>6, <1>7 DEF WorkerGoal

LEMMA BudgetStep == StorageInv /\ PruneBudget => WorkerGoal
<1> SUFFICES ASSUME StorageInv, PruneBudget PROVE WorkerGoal
  OBVIOUS
<1> DEFINE j == Max(Archives)
<1>1. /\ limit' = limit /\ buffer' = buffer /\ FilesInv /\ buffer = <<>>
      /\ limit \in Limits /\ limit \in Nat
  BY LimitFacts DEF StorageInv, FilesInv, WorkerInv, PruneBudget, Goto
<1>2. CASE Goto("serve") /\ UNCHANGED <<files, handle>>
  BY <1>1, <1>2, QuietStep DEF Goto, Stages
<1>3. CASE Archives # {} /\ Goto("budget") /\ files' = WithoutFile(j) /\ handle' = HandleAfterRemoval(j)
  <2>1. j \in Archives /\ \A k \in Archives : j >= k
    <3>1. Archives \in SUBSET (0 .. MaxArchive) /\ MaxArchive \in Nat
      BY LimitFacts DEF Archives, Slots
    <3> QED BY <1>3, <3>1, GreatestOf
  <2> HIDE DEF j
  <2>2. j \in Slots /\ j \in Nat
    BY <2>1, GoneFacts DEF Archives
  <2>3. handle' \in Slots \cup {Gone} /\ NewestOpen(files', handle', limit)
    BY <1>1, <1>3, <2>2, RemovalKeepsOpen
  <2>4. files' = [files EXCEPT ![j] = NoFile]
    BY <1>3 DEF WithoutFile
  <2>5. \A i \in j + 1 .. limit : files[i] = NoFile
    <3>1. ASSUME NEW i \in j + 1 .. limit, files[i] # NoFile PROVE FALSE
      <4>1. i \in Slots /\ i # 0 /\ ~(j >= i)
        BY <1>1, <2>2, <3>1, LimitFacts
      <4> QED BY <2>1, <3>1, <4>1 DEF Archives, Exists
    <3> QED BY <3>1
  <2>6. Files(files') /\ \E c : Shortened(ReadBack(files, limit), c, ReadBack(files', limit))
    BY <1>1, <2>2, <2>4, <2>5, RemovalReads DEF FilesInv
  <2>7. WorkerInv'
    BY <1>1, <1>3 DEF WorkerInv, Goto, Stages
  <2> QED BY <1>1, <2>3, <2>6, <2>7, RemovalStep
<1> QED BY <1>2, <1>3 DEF PruneBudget

LEMMA ChannelStep == StorageInv /\ [StorageNext]_storageVars => ChannelInv'
<1> SUFFICES ASSUME StorageInv, [StorageNext]_storageVars PROVE ChannelInv'
  OBVIOUS
<1> USE DEF ChannelInv
<1>0. ChannelInv /\ Capacity \in Nat /\ MaxRecords \in Nat
  BY StorageAssumption DEF StorageInv
<1>1. ASSUME NEW s \in Senders, Record(s) PROVE ChannelInv'
  <2>1. sent' \in 0 .. MaxRecords /\ sent + 1 \in Recs /\ sent' = sent + 1
    BY <1>0, <1>1 DEF Record, Recs
  <2>2. CASE UNCHANGED <<queue, blocked>>
    BY <1>0, <2>1, <2>2
  <2>3. CASE Len(queue) < Capacity /\ queue' = Append(queue, sent + 1) /\ UNCHANGED blocked
    <3>1. queue' \in Seq(Recs) /\ Len(queue') = Len(queue) + 1
      BY <1>0, <2>1, <2>3, AppendProperties
    <3> QED BY <1>0, <2>1, <2>3, <3>1
  <2>4. CASE blocked' = Append(blocked, [by |-> s, record |-> sent + 1]) /\ UNCHANGED queue
    <3>1. [by |-> s, record |-> sent + 1] \in [by : Senders, record : Recs]
      BY <2>1
    <3>2. blocked' \in Seq([by : Senders, record : Recs])
      BY <1>0, <2>4, <3>1, AppendProperties
    <3> QED BY <1>0, <2>1, <2>4, <3>2
  <2> QED BY <1>1, <2>2, <2>3, <2>4 DEF Record
<1>2. CASE AdmitBlocked
  <2>1. Head(blocked) \in [by : Senders, record : Recs] /\ Tail(blocked) \in Seq([by : Senders, record : Recs])
    BY <1>0, <1>2, HeadTailProperties DEF AdmitBlocked
  <2>2. Head(blocked).record \in Recs
    BY <2>1
  <2>3. queue' \in Seq(Recs) /\ Len(queue') = Len(queue) + 1
    BY <1>0, <1>2, <2>2, AppendProperties DEF AdmitBlocked
  <2> QED BY <1>0, <1>2, <2>1, <2>3 DEF AdmitBlocked
<1>3. CASE ReceiveRecord
  <2>1. Tail(queue) \in Seq(Recs) /\ Len(Tail(queue)) = Len(queue) - 1
    BY <1>0, <1>3, HeadTailProperties DEF ReceiveRecord
  <2> QED BY <1>0, <1>3, <2>1 DEF ReceiveRecord
<1>4. CASE queue' = <<>> /\ blocked' = <<>> /\ sent' = sent
  BY <1>0, <1>4
<1>5. CASE UNCHANGED <<queue, blocked, sent>>
  BY <1>0, <1>5
<1>6. CASE WriteFails \/ ShutdownStorage \/ RestartStorage
  BY <1>4, <1>6 DEF WriteFails, ShutdownStorage, RestartStorage, StopWorker
<1>7. CASE CompactTick \/ Housekeeping \/ UNCHANGED storageVars
  <2>1. CASE CompactTick
    BY <1>5, <2>1 DEF CompactTick, Goto
  <2>2. CASE Housekeeping
    BY <1>5, <2>2 DEF Housekeeping, FlushWriter, PruneExcess, Measure, RemoveOldest, ShiftArchives,
       Compact, Reopen, PruneBudget, HousekeepingFails, Goto
  <2>3. CASE UNCHANGED storageVars
    BY <1>5, <2>3 DEF storageVars
  <2> QED BY <1>7, <2>1, <2>2, <2>3
<1> QED BY <1>1, <1>2, <1>3, <1>6, <1>7 DEF StorageNext

LEMMA WorkerStep == StorageInv /\ [StorageNext]_storageVars => WorkerGoal
<1> SUFFICES ASSUME StorageInv, [StorageNext]_storageVars PROVE WorkerGoal
  OBVIOUS
<1>1. ASSUME NEW s \in Senders, Record(s) PROVE WorkerGoal
  BY <1>1, SenderSteps DEF Record
<1>2. CASE AdmitBlocked
  BY <1>2, SenderSteps DEF AdmitBlocked
<1>3. CASE ReceiveRecord
  BY <1>3, ReceiveStep
<1>4. CASE WriteFails
  BY <1>4, StopStep DEF WriteFails
<1>5. CASE ShutdownStorage
  BY <1>5, StopStep DEF ShutdownStorage
<1>6. CASE CompactTick
  <2>1. UNCHANGED <<files, handle, buffer, limit>> /\ stage' = "flush"
    BY <1>6 DEF CompactTick, Goto
  <2> QED BY <2>1, QuietStep DEF Stages
<1>7. CASE FlushWriter
  BY <1>7, FlushStep
<1>8. CASE PruneExcess
  BY <1>8, ExcessStep
<1>9. CASE Measure
  BY <1>9, MeasureStep
<1>10. CASE RemoveOldest
  BY <1>10, OldestStep
<1>11. CASE ShiftArchives
  BY <1>11, ShiftStep
<1>12. CASE Compact
  BY <1>12, CompactStep
<1>13. CASE Reopen
  BY <1>13, ReopenStep DEF Reopen, Goto
<1>14. CASE PruneBudget
  BY <1>14, BudgetStep
<1>15. CASE HousekeepingFails
  <2>1. UNCHANGED <<files, handle, buffer, limit>> /\ stage' = "serve"
    BY <1>15 DEF HousekeepingFails
  <2> QED BY <2>1, QuietStep DEF Stages
<1>16. CASE RestartStorage
  BY <1>16, ReopenStep DEF RestartStorage
<1>17. CASE UNCHANGED storageVars
  BY <1>17, SenderSteps DEF storageVars
<1> QED BY <1>1, <1>2, <1>3, <1>4, <1>5, <1>6, <1>7, <1>8, <1>9, <1>10, <1>11, <1>12, <1>13, <1>14, <1>15,
           <1>16, <1>17 DEF StorageNext, Housekeeping

LEMMA StorageInvInit == StorageInit => StorageInv /\ OnDisk = <<>> /\ Buffered = <<>>
<1> SUFFICES ASSUME StorageInit PROVE StorageInv /\ OnDisk = <<>> /\ Buffered = <<>>
  OBVIOUS
<1>0. <<>> \in Seq(Recs) /\ <<>> \in Seq([by : Senders, record : Recs]) /\ Len(<<>>) = 0
  OBVIOUS
<1>1. ChannelInv
  BY <1>0, StorageAssumption DEF StorageInit, ChannelInv
<1>2. PICK left : files = [i \in Slots |-> IF i = 0 THEN <<>> ELSE IF i \in left THEN <<Summary>> ELSE NoFile]
  BY DEF StorageInit
<1>3. <<>> \in LogFiles /\ <<Summary>> \in LogFiles /\ RecordsOf(<<>>) = <<>> /\ RecordsOf(<<Summary>>) = <<>>
  <2>1. <<>> \in LogFiles /\ RecordsOf(<<>>) = <<>>
    BY <1>0, PlainFile
  <2>2. <<Summary>> \in Seq(0 .. MaxRecords)
    BY SummaryFacts
  <2>3. <<Summary>> = <<Summary>> \o <<>>
    BY <2>2, ConcatEmptySeq
  <2>4. <<Summary>> \in LogFiles /\ RecordsOf(<<Summary>>) = <<>>
    BY <1>0, <2>3, SummedFile
  <2> QED BY <2>1, <2>4
<1>4. Files(files)
  BY <1>2, <1>3 DEF Files
<1>5. /\ limit \in Limits /\ limit \in Nat /\ handle = 0 /\ 0 \in Slots /\ buffer = <<>> /\ stage = "flush"
      /\ files[0] # NoFile
  <2>1. limit \in Limits /\ handle = 0 /\ buffer = <<>> /\ stage = "flush"
    BY DEF StorageInit
  <2>2. limit \in Nat /\ 0 \in Slots
    BY <2>1, LimitFacts DEF Slots
  <2>3. NoFile \notin LogFiles
    BY StorageAssumption DEF LogFiles
  <2> QED BY <1>2, <1>3, <2>1, <2>2, <2>3
<1>6. FilesInv
  BY <1>0, <1>4, <1>5, StorageAssumption DEF FilesInv, NewestOpen
<1>7. WorkerInv
  BY <1>5 DEF WorkerInv, Stages
<1>8. Read(files, limit) = [i \in 0 .. limit |-> <<>>]
  <2>1. \A i \in 0 .. limit : LinesIn(files, i) = <<>>
    BY <1>2, <1>3, <1>5, LimitFacts DEF LinesIn
  <2> QED BY <2>1 DEF Read
<1>9. Flat(limit, Read(files, limit)) = <<>>
  <2> DEFINE L == Read(files, limit)
  <2>1. L \in [0 .. limit -> Seq(Recs)] /\ AllEmpty(L, 0, limit)
    BY <1>0, <1>8 DEF AllEmpty
  <2> HIDE DEF L
  <2>2. PICK h : Flat(limit, L) = h[limit + 1] /\ Chained(limit, L, h)
    BY <1>5, <2>1, FlatChain
  <2>3. h[limit + 1] = <<>>
    <3>1. 0 \in 0 .. limit + 1 /\ limit + 1 \in 0 .. limit + 1 - 0
      BY <1>5
    <3> QED BY <1>5, <2>1, <2>2, <3>1, ChainEmpty
  <2> QED BY <2>2, <2>3 DEF L
<1>10. OnDisk = <<>>
  BY <1>6, <1>9, BothTyped DEF ReadBack
<1> QED BY <1>1, <1>5, <1>6, <1>7, <1>10 DEF StorageInv, Buffered

LEMMA StorageInvariant == StorageInit /\ [][StorageNext]_storageVars => []StorageInv
<1>1. StorageInit => StorageInv
  BY StorageInvInit
<1>2. StorageInv /\ [StorageNext]_storageVars => StorageInv'
  BY ChannelStep, WorkerStep DEF StorageInv, WorkerGoal
<1> QED BY <1>1, <1>2, PTL

LEMMA StorageInvTypes == StorageInv => StorageTypeOK
BY DEF StorageInv, ChannelInv, FilesInv, WorkerInv, Files, LogFiles, Stages, Exists, StorageTypeOK, Recs

\* Every variable of the storage has its type, and channel and buffer keep to their sizes.
THEOREM StorageTypes == StorageSpec => []StorageTypeOK
BY StorageInvariant, StorageInvTypes, PTL DEF StorageSpec

\* What can be read back of the files and the buffer is a record log: in whatever order
\* rotation, compaction, failed operations, crashes and restarts come, the records are read
\* in the order in which they came, and only the oldest, or those not yet written, are lost.
THEOREM RecordLogImplemented == StorageSpec => ImplementsRecordLog
<1>1. StorageInit => RL!LogInit
  <2> SUFFICES ASSUME StorageInit PROVE RL!LogInit
    OBVIOUS
  <2>1. OnDisk = <<>> /\ Buffered = <<>> /\ <<>> \in Seq(1 .. MaxRecords)
    BY StorageInvInit
  <2>2. <<>> \o <<>> = <<>>
    BY <2>1, ConcatEmptySeq
  <2> QED BY <2>1, <2>2 DEF RL!LogInit
<1>2. StorageInv /\ [StorageNext]_storageVars => [RL!LogNext]_<<OnDisk \o Buffered, Len(OnDisk)>>
  BY WorkerStep DEF WorkerGoal, LogStep
<1> QED BY <1>1, <1>2, StorageInvariant, PTL DEF StorageSpec, ImplementsRecordLog, RL!LogSpec

-----------------------------------------------------------------------------
(* The three together                                                      *)

\* A behaviour of the three is one of each of them, but for its fairness: a step of one
\* leaves the state of the others alone.
LEMMA EachRecording ==
  RecordingSpec => /\ Spec /\ StorageInit /\ [][StorageNext]_storageVars
                   /\ ExportInit /\ [][ExportNext]_exportVars
<1>1. RecordingInit => Init /\ StorageInit /\ ExportInit
  BY DEF RecordingInit
<1>2. [RecordingNext]_<<subject, vars, storageVars, exportVars>> =>
        [Next]_vars /\ [StorageNext]_storageVars /\ [ExportNext]_exportVars
  BY DEF RecordingNext
<1> QED BY <1>1, <1>2, PTL DEF RecordingSpec, Spec

\* RecordingTypeOK: swarm, storage and export keep their types, whichever is exercised.
THEOREM RecordingTypes == RecordingSpec => []RecordingTypeOK
BY EachRecording, SwarmTypes, StorageInvariant, StorageInvTypes, ExportInvariant, ExportInvTypes, PTL
DEF RecordingTypeOK
=============================================================================
