---------------------------- MODULE TraceyGuard -----------------------------
(***************************************************************************)
(* The TraceyGuard runtime of one host (src/src/tracey_guard.rs): a single *)
(* task that schedules probes of the devices, hands them to workers as far *)
(* as there are permits, collects their results through a channel and      *)
(* moves the devices between healthy, suspect, quarantined and deep test.  *)
(* Operators change its control block at any time.                         *)
(*                                                                         *)
(* Time, budget and the random audits decide what is due when the task     *)
(* wakes: any subset of the probe kinds, and an audit or none.  The        *)
(* reliability of a device, alpha / (alpha + beta), is the number of       *)
(* thresholds of the configuration it reaches; a probe that passed does    *)
(* not lower it, any other does not raise it.  Fail, error and timeout     *)
(* differ in weight only.                                                  *)
(***************************************************************************)
EXTENDS Naturals, Sequences, FiniteSets, Functions

CONSTANTS
  Devices,            \* devices that may be discovered, in this order
  Kinds,              \* enabled probe types, in the order of their priority
  MaxSamples,         \* the most SMs sampled per device and probe
  MaxParallel,        \* max_parallel_tasks of the configuration
  ChannelCapacity,    \* capacity of the result channel
  MaxReliability,     \* the highest reliability, counted in thresholds
  QuarantineBelow,    \* suspect_to_quarantine
  SuspectBelow,       \* healthy_to_suspect
  TrustedFrom,        \* quarantine_to_healthy
  FirstReliability,   \* that of alpha = 100, beta = 1
  ImmediateFailures,  \* immediate_quarantine_failures
  DeepPasses,         \* deep_test_passes
  MaxRequests,        \* bound: control requests
  MaxFaults           \* bound: probes that do not pass

ASSUME GuardSetsAssumption ==
  /\ Devices \subseteq Nat /\ Kinds \subseteq Nat
  /\ IsFiniteSet(Devices) /\ IsFiniteSet(Kinds)
ASSUME GuardNumbersAssumption ==
  /\ MaxSamples \in Nat \ {0} /\ MaxParallel \in Nat \ {0} /\ ChannelCapacity \in Nat \ {0}
  /\ ImmediateFailures \in Nat \ {0} /\ DeepPasses \in Nat \ {0}
  /\ MaxReliability \in Nat /\ MaxRequests \in Nat /\ MaxFaults \in Nat
\* what sanitize makes of the correlation section
ASSUME ThresholdsAssumption ==
  /\ QuarantineBelow \in 0 .. SuspectBelow /\ SuspectBelow \in 0 .. TrustedFrom
  /\ TrustedFrom \in 0 .. MaxReliability /\ FirstReliability \in 0 .. MaxReliability

GuardStates == {"Healthy", "Suspect", "Quarantined", "DeepTest"}

VARIABLES
  control,   \* TraceyGuardControlState: enabled and force_scan_epoch
  seen,      \* the control block the loop read when it last began to wait
  acked,     \* last_force_scan_epoch
  device,    \* DeviceState of the discovered devices, see GuardTypeOK
  inFlight,  \* how many workers that hold a permit probe each device
  results,   \* the channel: device and success of finished probes
  streak,    \* history: passes in a row of each device, up to DeepPasses
  scanned,   \* history: the epoch of the last forced scan that was scheduled
  wanted,    \* history: the last scan forced while enabled, 0 once disabled
  requests,  \* the environment: how many control requests are still to come
  faults     \* the environment: how many probes may still not pass

guardHistory == <<streak, scanned, wanted>>
guardVars == <<control, seen, acked, device, inFlight, results, guardHistory, requests, faults>>

Discovered == DOMAIN device
LesserOf(x, y) == IF x < y THEN x ELSE y

\* run_tracey_guard_runtime up to the loop; without a device it returns
GuardInit ==
  /\ control = [enabled |-> TRUE, epoch |-> 0] /\ acked = 0
  /\ seen = control
  /\ \E found \in SUBSET Devices \ {{}} :
       /\ device = [d \in found |-> [state |-> "Healthy", reliability |-> FirstReliability,
                                     fails |-> 0, passes |-> 0]]
       /\ inFlight = [d \in found |-> 0]
       /\ streak = [d \in found |-> 0]
  /\ results = <<>> /\ scanned = 0 /\ wanted = 0
  /\ requests \in 0 .. MaxRequests /\ faults \in 0 .. MaxFaults

-----------------------------------------------------------------------------
(* The lifecycle of a device: register_probe_outcome                       *)

\* transition_to
Become(dev, state) ==
  [dev EXCEPT !.state = state, !.passes = IF state = "DeepTest" THEN @ ELSE 0]

\* A pass in deep test is counted up to the number required.
Passed(dev, reliability) ==
  LET counted == [dev EXCEPT !.reliability = reliability, !.fails = 0,
                    !.passes = IF dev.state = "DeepTest" THEN LesserOf(@ + 1, DeepPasses) ELSE @]
      recovers == \/ /\ dev.state = "DeepTest"
                     /\ counted.passes >= DeepPasses /\ reliability >= TrustedFrom
                  \/ dev.state = "Suspect" /\ reliability >= SuspectBelow
  IN IF recovers THEN Become(counted, "Healthy") ELSE counted

\* A failure counts towards the quarantine when confidence, risk or peers with
\* the same fault make it credible.
Failed(dev, reliability, credible) ==
  [dev EXCEPT !.reliability = reliability, !.passes = 0,
              !.fails = IF credible THEN LesserOf(@ + 1, ImmediateFailures) ELSE @]

Unreliable(dev) ==
  dev.reliability < QuarantineBelow \/ dev.fails >= ImmediateFailures

\* mutant: a quarantined device is retested on its reliability alone
JudgedByReliability(dev) ==
  CASE dev.state = "Healthy" /\ (dev.reliability < SuspectBelow \/ dev.fails >= 1)
         -> Become(dev, "Suspect")
    [] dev.state \in {"Suspect", "DeepTest"} /\ Unreliable(dev) -> Become(dev, "Quarantined")
    [] dev.state = "Quarantined" /\ dev.reliability >= TrustedFrom -> Become(dev, "DeepTest")
    [] OTHER -> dev

\* mutant: the failures in a row are not looked at
JudgedWithoutCount(dev) ==
  CASE dev.state = "Healthy" /\ (dev.reliability < SuspectBelow \/ dev.fails >= 1)
         -> Become(dev, "Suspect")
    [] dev.state \in {"Suspect", "DeepTest"} /\ dev.reliability < QuarantineBelow
         -> Become(dev, "Quarantined")
    [] dev.state = "Quarantined" /\ dev.reliability >= TrustedFrom /\ dev.fails = 0
         -> Become(dev, "DeepTest")
    [] OTHER -> dev

Judged(dev) ==
  CASE dev.state = "Healthy" /\ (dev.reliability < SuspectBelow \/ dev.fails >= 1)
         -> Become(dev, "Suspect")
    [] dev.state \in {"Suspect", "DeepTest"} /\ Unreliable(dev) -> Become(dev, "Quarantined")
    [] dev.state = "Quarantined" /\ dev.reliability >= TrustedFrom /\ dev.fails = 0
         -> Become(dev, "DeepTest")
    [] OTHER -> dev

Outcome(dev, passed, reliability, credible) ==
  Judged(IF passed THEN Passed(dev, reliability) ELSE Failed(dev, reliability, credible))

NextReliability(dev, passed) ==
  IF passed THEN dev.reliability .. MaxReliability ELSE 0 .. dev.reliability

-----------------------------------------------------------------------------
(* Dispatch                                                                *)

Free == MaxParallel - SumFunction(inFlight)

Before(p, q) == p[1] < q[1] \/ (p[1] = q[1] /\ p[2] < q[2])

\* schedule_due_tasks then dispatch_probe_task for each task: how many of the
\* tasks of each probe and device get a permit.  Each device is sampled at one
\* or more SMs for each probe; from the first task that gets no permit on, all
\* are dropped, although their probes count as fired.
Dispatches(kinds) ==
  {s \in [kinds \X Discovered -> 0 .. MaxSamples] :
     LET total == SumFunction(s)
     IN /\ total <= Free
        /\ \/ \A p \in DOMAIN s : s[p] > 0
           \/ /\ total = Free
              /\ \A p, q \in DOMAIN s : Before(p, q) /\ s[p] = 0 => s[q] = 0}

Share(s, d) == SumFunctionOnSet(s, {p \in DOMAIN s : p[2] = d})

NoAudit == [d \in Discovered |-> 0]
AuditOn(x) == [NoAudit EXCEPT ![x] = 1]

Left(s) == Free - SumFunction(s)

\* mutant: quarantined devices are not audited
AuditsOfUsed(s) ==
  {NoAudit} \cup {AuditOn(x) : x \in {d \in Discovered : Left(s) > 0 /\ device[d].state # "Quarantined"}}

\* build_random_audit_task: if an audit is due and a permit is left, one more
\* task for a device chosen at random
Audits(s) == {NoAudit} \cup {AuditOn(x) : x \in IF Left(s) > 0 THEN Discovered ELSE {}}

\* mutant: the epoch acknowledged is read again, after the sleep
AckedLate == control.epoch

Acked == seen.epoch

\* scheduler_sleep ends.  A forced scan is acknowledged even when the runtime
\* is disabled, and schedules every probe regardless of budget and period, but
\* no audit.
Wake ==
  LET force == seen.epoch # acked
  IN /\ acked' = IF force THEN Acked ELSE acked
     /\ \/ ~seen.enabled /\ UNCHANGED <<inFlight, scanned>>
        \/ /\ seen.enabled
           /\ \E kinds \in IF force THEN {Kinds} ELSE SUBSET Kinds :
                \E s \in Dispatches(kinds) :
                  \E audit \in IF force THEN {NoAudit} ELSE Audits(s) :
                    inFlight' = [d \in Discovered |-> inFlight[d] + Share(s, d) + audit[d]]
           /\ scanned' = IF force THEN seen.epoch ELSE scanned
     /\ seen' = control
     /\ UNCHANGED <<control, device, results, streak, wanted, requests, faults>>

\* A control notification, an event of the bus or the TMR timer: the loop turns
\* without a change to what is modelled, and reads the control block again.
\* (The notification is lost on a loop that does not wait; the sleep ends anyway.)
Turn ==
  /\ seen' = control
  /\ UNCHANGED <<control, acked, device, inFlight, results, guardHistory, requests, faults>>

\* A worker's probe ends or times out, and its result is in the channel: the
\* permit is returned after the send, for which the channel must have room.
Finish(d) ==
  /\ d \in Discovered /\ inFlight[d] > 0 /\ Len(results) < ChannelCapacity
  /\ \E passed \in BOOLEAN :
       /\ \/ passed /\ UNCHANGED faults
          \/ ~passed /\ faults > 0 /\ faults' = faults - 1
       /\ results' = Append(results, [device |-> d, passed |-> passed])
  /\ inFlight' = [inFlight EXCEPT ![d] = @ - 1]
  /\ UNCHANGED <<control, seen, acked, device, guardHistory, requests>>

\* The branch of the result channel, which is polled whether or not the runtime
\* is enabled.
Receive ==
  /\ results # <<>>
  /\ LET d == Head(results).device
         passed == Head(results).passed
     IN /\ \E reliability \in NextReliability(device[d], passed), credible \in BOOLEAN :
             device' = [device EXCEPT ![d] = Outcome(@, passed, reliability, credible)]
        /\ streak' = [streak EXCEPT ![d] = IF passed THEN LesserOf(@ + 1, DeepPasses) ELSE 0]
  /\ results' = Tail(results)
  /\ seen' = control
  /\ UNCHANGED <<control, acked, inFlight, scanned, wanted, requests, faults>>

\* apply_control: any of its two fields may be absent
Request ==
  /\ requests > 0 /\ requests' = requests - 1
  /\ \E enabled, force \in BOOLEAN :
       LET epoch == IF force THEN control.epoch + 1 ELSE control.epoch
       IN /\ control' = [enabled |-> enabled, epoch |-> epoch]
          /\ wanted' = IF ~enabled THEN 0 ELSE IF force THEN epoch ELSE wanted
  /\ UNCHANGED <<seen, acked, device, inFlight, results, streak, scanned, faults>>

GuardNext ==
  \/ Wake \/ Turn \/ Receive \/ Request
  \/ \E d \in Devices : Finish(d)

GuardSpec == GuardInit /\ [][GuardNext]_guardVars

-----------------------------------------------------------------------------
(* Fairness                                                                *)

\* The times of the audits are random and so are their devices: with a worker
\* free now and then, each device has its turn.
AuditOf(d) ==
  /\ d \in Discovered /\ Free > 0 /\ seen.enabled /\ seen.epoch = acked
  /\ inFlight' = [inFlight EXCEPT ![d] = @ + 1] /\ Wake

\* alpha grows with each pass, so that passes alone lead to any threshold.
Mends ==
  /\ results # <<>> /\ Head(results).passed
  /\ device[Head(results).device].reliability < MaxReliability
  /\ Receive /\ device'[Head(results).device].reliability = MaxReliability

GuardFairness ==
  /\ WF_guardVars(Wake) /\ WF_guardVars(Receive) /\ SF_guardVars(Mends)
  /\ \A d \in Devices : WF_guardVars(Finish(d)) /\ SF_guardVars(AuditOf(d))

FairGuardSpec == GuardSpec /\ GuardFairness

-----------------------------------------------------------------------------
(* Properties                                                              *)

\* The values of the state; at most max_parallel_tasks permits are out.
GuardTypeOK ==
  /\ control \in [enabled : BOOLEAN, epoch : Nat]
  /\ seen \in [enabled : BOOLEAN, epoch : Nat]
  /\ acked \in Nat /\ scanned \in Nat /\ wanted \in Nat
  /\ Discovered \in SUBSET Devices \ {{}}
  /\ device \in [Discovered -> [state : GuardStates, reliability : 0 .. MaxReliability,
                                fails : 0 .. ImmediateFailures, passes : 0 .. DeepPasses]]
  /\ inFlight \in [Discovered -> 0 .. MaxParallel] /\ Free \in 0 .. MaxParallel
  /\ results \in Seq([device : Discovered, passed : BOOLEAN])
  /\ Len(results) <= ChannelCapacity
  /\ streak \in [Discovered -> 0 .. DeepPasses]
  /\ requests \in 0 .. MaxRequests /\ faults \in 0 .. MaxFaults

\* register_probe_outcome: whatever mixture of passes, failures and failures
\* that do not count a device goes through, and however often it is sent back,
\* it leaves quarantine for health only after deep_test_passes passes in a row.
\* And a probe that did not pass never moves it closer to being used again, even
\* one whose failure did not count: the reinstatement of a quarantined device is
\* considered after every outcome.
ReleasedAfterDeepTest ==
  [][\A d \in Discovered :
       /\ device[d].state \in {"Quarantined", "DeepTest"} /\ device'[d].state = "Healthy"
            => streak'[d] >= DeepPasses
       /\ device'[d].state # device[d].state /\ streak'[d] = 0
            => <<device[d].state, device'[d].state>> \in
                 {<<"Healthy", "Suspect">>, <<"Suspect", "Quarantined">>,
                  <<"DeepTest", "Quarantined">>}]_guardVars

\* Although an outcome moves a device by one state only, no device that failed
\* immediate_quarantine_failures times in a row is anything but quarantined.
\* (With a threshold of one, a device in its first failure is only suspect.)
QuarantinedAfterFailures ==
  ImmediateFailures > 1 =>
    \A d \in Discovered : device[d].fails >= ImmediateFailures => device[d].state = "Quarantined"

\* A scan forced on an enabled runtime that is not disabled meanwhile is
\* scheduled, wherever the loop was when the request came.
ForceScanRuns == wanted > scanned ~> wanted <= scanned

\* Once its faults are over, a device comes back: none stays in quarantine, in
\* deep test or under suspicion for ever, although the workers may never suffice
\* for the devices that are scheduled last.
SoundDevicesRecover ==
  (\E d \in Discovered : device[d].state # "Healthy")
    ~> ~control.enabled \/ \A d \in Discovered : device[d].state = "Healthy"
=============================================================================
