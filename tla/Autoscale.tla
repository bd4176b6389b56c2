------------------------------ MODULE Autoscale ------------------------------
(***************************************************************************)
(* The Continuum autoscaler of several nodes (src/src/autoscaler.rs): the  *)
(* node that believes it is the controller asks Continuum, which is not in *)
(* the repository, to recruit as many hosts of one ordered list as its     *)
(* telemetry calls for.  It remembers only its own successes, in memory.   *)
(*                                                                         *)
(* Who is the controller is up to the election, which may name none or     *)
(* several at a time (module Election); here it changes at any moment.     *)
(***************************************************************************)
EXTENDS Naturals, FiniteSets

CONSTANTS
  ScalingNodes,  \* the nodes with this configuration
  RecruitHosts,  \* the length of recruit_hosts, whose entries are distinct
  PerTick,       \* max_recruits_per_tick
  SignalCounts,  \* the numbers of pressure signals
  MaxReboots     \* bound: the restarts of the nodes

ASSUME AutoscaleAssumption ==
  /\ RecruitHosts \in Nat \ {0} /\ PerTick \in 1 .. 16
  /\ SignalCounts \subseteq 0 .. 6 /\ MaxReboots \in Nat

VARIABLES
  controllers,  \* the nodes whose role is coordinator of rank 0
  signals,      \* pressure_signals.len() of each node
  tick,         \* what a tick under way still does, or Done: [requested, left]
  recruited,    \* recruited_hosts of each node
  joined,       \* external: the hosts Continuum has recruited
  reboots,      \* the restarts so far
  peak          \* history: the most hosts a controller has ever called for

scaleVars == <<controllers, signals, tick, recruited, joined, reboots, peak>>

Hosts == 1 .. RecruitHosts
Done == [requested |-> 0, left |-> 0]

ScaleInit ==
  /\ controllers = {} /\ signals \in [ScalingNodes -> {0}]
  /\ tick = [n \in ScalingNodes |-> Done]
  /\ recruited = [n \in ScalingNodes |-> {}]
  /\ joined = {} /\ reboots = 0 /\ peak = 0

-----------------------------------------------------------------------------
(* What the ticks read: the role, and the signals of load, latency and     *)
(* Slurm                                                                   *)

Elect(nodes) ==
  /\ controllers' = nodes
  /\ UNCHANGED <<signals, tick, recruited, joined, reboots, peak>>

Press(n, count) ==
  /\ signals' = [signals EXCEPT ![n] = count]
  /\ UNCHANGED <<controllers, tick, recruited, joined, reboots, peak>>

-----------------------------------------------------------------------------
(* A tick: the role and the telemetry are read once, then hosts are asked  *)
(* for one after the other                                                 *)

\* requested_remote_nodes
Called(count) ==
  LET hosts == IF count = 0 THEN 0 ELSE 1 + (count - 1) \div 2
  IN IF hosts < RecruitHosts THEN hosts ELSE RecruitHosts

Missing(n, requested) == Cardinality(recruited[n]) < requested

\* a standby, and a controller that has enough, only writes its snapshot
EvaluateTelemetry(n) ==
  LET requested == Called(signals[n])
  IN /\ tick[n] = Done
     /\ n \in controllers /\ Missing(n, requested)
     /\ tick' = [tick EXCEPT ![n] = [requested |-> requested, left |-> PerTick]]
     /\ peak' = IF requested > peak THEN requested ELSE peak
     /\ UNCHANGED <<controllers, signals, recruited, joined, reboots>>

\* mutant: the unused hosts in the order of a set
AnyUnused(n) == Hosts \ recruited[n]

\* the first of the list that is not in recruited_hosts
NextHost(n) == {h \in Hosts \ recruited[n] : \A k \in Hosts \ recruited[n] : h <= k}

Accept(n) ==
  /\ tick[n] # Done
  /\ \E h \in NextHost(n) :
       /\ joined' = joined \cup {h}
       /\ recruited' = [recruited EXCEPT ![n] = @ \cup {h}]
       /\ tick' = [tick EXCEPT ![n] =
                     IF Cardinality(recruited'[n]) < @.requested /\ @.left > 1
                       THEN [requested |-> @.requested, left |-> @.left - 1] ELSE Done]
  /\ UNCHANGED <<controllers, signals, reboots, peak>>

\* mutant: the host counts as recruited before the answer is there
RememberedAnyway(n) == recruited' = [recruited EXCEPT ![n] = @ \cup NextHost(n)]

AfterRefusal(n) == UNCHANGED recruited

\* an error status, no connection, or an answer that got lost: the tick is over
Fail(n) ==
  /\ tick[n] # Done
  /\ \/ UNCHANGED joined
     \/ joined' = joined \cup NextHost(n)
  /\ AfterRefusal(n)
  /\ tick' = [tick EXCEPT ![n] = Done]
  /\ UNCHANGED <<controllers, signals, reboots, peak>>

\* the process ends, in the middle of a tick or not, and starts anew
Reboot(n) ==
  /\ reboots < MaxReboots /\ reboots' = reboots + 1
  /\ tick' = [tick EXCEPT ![n] = Done]
  /\ recruited' = [recruited EXCEPT ![n] = {}]
  /\ UNCHANGED <<controllers, signals, joined, peak>>

ScaleNext ==
  \/ \E nodes \in SUBSET ScalingNodes : Elect(nodes)
  \/ \E n \in ScalingNodes : \/ \E count \in SignalCounts : Press(n, count)
                             \/ EvaluateTelemetry(n) \/ Accept(n) \/ Fail(n) \/ Reboot(n)

\* The interval never stops and requests end; a Continuum that is asked again
\* and again accepts in the end.
Recruits == \E n \in ScalingNodes : Accept(n)

ScaleSpec == ScaleInit /\ [][ScaleNext]_scaleVars
FairScaleSpec ==
  /\ ScaleSpec
  /\ \A n \in ScalingNodes : WF_scaleVars(EvaluateTelemetry(n)) /\ WF_scaleVars(Accept(n) \/ Fail(n))
  /\ SF_scaleVars(Recruits)

-----------------------------------------------------------------------------
(* Properties                                                              *)

\* The state of the autoscalers.
ScaleTypeOK ==
  /\ controllers \subseteq ScalingNodes /\ signals \in [ScalingNodes -> 0 .. 6]
  /\ tick \in [ScalingNodes -> [requested : 0 .. RecruitHosts, left : 0 .. PerTick]]
  /\ recruited \in [ScalingNodes -> SUBSET joined] /\ joined \subseteq Hosts
  /\ reboots \in 0 .. MaxReboots /\ peak \in 0 .. RecruitHosts

\* recruit_host and the search before it: however often the election changes,
\* several nodes control at a time, answers get lost and controllers forget what
\* they have recruited, no more hosts join than some controller called for at once.
NoMoreThanCalledFor == Cardinality(joined) <= peak

\* spawn_continuum_autoscaler: a controller whose telemetry goes on calling for
\* more hosts than there are gets them, if requests for the next host of the list
\* do not fail for ever.
Short(n) == n \in controllers /\ Cardinality(joined) < Called(signals[n])
PressureIsRelieved == \A n \in ScalingNodes : Short(n) ~> ~Short(n)
=============================================================================
