------------------------------ MODULE Continuum ------------------------------
(***************************************************************************)
(* The assessment client of src/src/continuum_assessment.rs: one task that *)
(* fetches a plan from the Continuum server, reports the slices of its     *)
(* inventory that the plan makes due, and takes plan and progress from the *)
(* answers.  The server is not in the repository: it is any that applies a *)
(* slice once per cycle, refuses reports under a plan it has replaced, and *)
(* answers with its present plan and progress.                             *)
(*                                                                         *)
(* Every cycle has the same slots: phase 0 is before the agent's slot, in  *)
(* phase p the first p slices are due, and then the slot is over.          *)
(***************************************************************************)
EXTENDS Naturals

CONSTANTS
  SliceCount,   \* slice_count of every plan
  LinkFaults,   \* which of "unreachable", "unanswered", "refused" may happen
  MaxCycles,    \* bound: the cycles
  MaxPlans,     \* bound: the plans the server makes
  NoSlice

Slices == 1 .. SliceCount

ASSUME ContinuumAssumption ==
  /\ SliceCount \in Nat \ {0} /\ MaxCycles \in Nat \ {0} /\ MaxPlans \in Nat \ {0}
  /\ LinkFaults \subseteq {"unreachable", "unanswered", "refused"}
  /\ NoSlice \notin Nat

VARIABLES
  time,         \* [cycle, phase]
  server,       \* external: [token, applied], the plan in force and the slices it has
  plan,         \* AssessmentRuntime.plan: [token, cycle]; token 0 is None
  completed,    \* progress.completed_slices; empty as well for None
  reporting,    \* the slice execute_slice has sent, or NoSlice
  planWait,     \* now < next_plan_attempt_ms
  reportWait,   \* now < next_report_attempt_ms
  carried       \* history: the completed slices taken over from an earlier cycle

clientVars == <<plan, completed, reporting, planWait, reportWait, carried>>
continuumVars == <<time, server, clientVars>>

ContinuumInit ==
  /\ time = [cycle |-> 1, phase |-> 0]
  /\ server = [token |-> 1, applied |-> {}]
  /\ plan = [token |-> 0, cycle |-> 0]
  /\ completed = {} /\ carried = {}
  /\ reporting = NoSlice
  /\ planWait = FALSE /\ reportWait = FALSE

-----------------------------------------------------------------------------
(* Time and the server's plans                                             *)

NextPhase ==
  /\ time.phase <= SliceCount
  /\ time' = [time EXCEPT !.phase = @ + 1]
  /\ UNCHANGED <<server, clientVars>>

NextCycle ==
  /\ time.phase = SliceCount + 1 /\ time.cycle < MaxCycles /\ server.token < MaxPlans
  /\ time' = [cycle |-> time.cycle + 1, phase |-> 0]
  /\ server' = [token |-> server.token + 1, applied |-> {}]
  /\ UNCHANGED clientVars

\* a new assignment of slots within the cycle
Replan ==
  /\ server.token < MaxPlans
  /\ server' = [server EXCEPT !.token = @ + 1]
  /\ UNCHANGED <<time, clientVars>>

PlanInForce == [token |-> server.token, cycle |-> time.cycle]

\* the backoff of a failure, or plan_poll_interval_ms
PlanWaitEnds ==
  /\ planWait /\ planWait' = FALSE
  /\ UNCHANGED <<time, server, plan, completed, reporting, reportWait, carried>>

ReportWaitEnds ==
  /\ reportWait /\ reportWait' = FALSE
  /\ UNCHANGED <<time, server, plan, completed, reporting, planWait, carried>>

-----------------------------------------------------------------------------
(* fetch_plan and ingest_plan                                              *)

\* completed slices of the plan and of the progress so far, whatever its cycle
MergedProgress == server.applied \cup completed

FetchPlan ==
  /\ reporting = NoSlice /\ ~planWait
  /\ plan' = PlanInForce
  /\ completed' = MergedProgress
  /\ carried' = IF plan.cycle = time.cycle THEN carried ELSE completed
  /\ planWait' = TRUE
  /\ UNCHANGED <<time, server, reporting, reportWait>>

FetchFails ==
  /\ "unreachable" \in LinkFaults
  /\ reporting = NoSlice /\ ~planWait
  /\ planWait' = TRUE
  /\ UNCHANGED <<time, server, plan, completed, reporting, reportWait, carried>>

-----------------------------------------------------------------------------
(* due_slice_index and execute_slice                                       *)

\* mutant: a slice is due when its time is over, not when it begins
StartedOnceOver ==
  IF plan.cycle = time.cycle /\ time.phase \in Slices THEN 1 .. time.phase - 1 ELSE {}

\* the slot of a plan of another cycle is over
Started ==
  IF plan.cycle = time.cycle /\ time.phase \in Slices THEN 1 .. time.phase ELSE {}

DueSlices == Started \ completed

\* the first of them
SendReport ==
  /\ reporting = NoSlice /\ ~reportWait
  /\ reporting' \in {s \in DueSlices : \A t \in DueSlices : s <= t}
  /\ UNCHANGED <<time, server, plan, completed, planWait, reportWait, carried>>

\* apply_report_state: plan and progress are the server's
TakeAnswer(applied) ==
  /\ plan' = PlanInForce
  /\ completed' = applied
  /\ carried' = {}

\* accepted, "applied" or "duplicate": the request id is new, the slice may not be
Accepted ==
  /\ reporting # NoSlice /\ plan.token = server.token
  /\ server' = [server EXCEPT !.applied = @ \cup {reporting}]
  /\ TakeAnswer(server'.applied)
  /\ reporting' = NoSlice /\ reportWait' = FALSE
  /\ UNCHANGED <<time, planWait>>

\* "stale_plan": no failure, the slice is tried again under the new plan
StalePlan ==
  /\ reporting # NoSlice /\ plan.token # server.token
  /\ TakeAnswer(server.applied)
  /\ reporting' = NoSlice /\ reportWait' = FALSE
  /\ UNCHANGED <<time, server, planWait>>

\* another disposition: a failure, but the answer's state is taken
Refused ==
  /\ "refused" \in LinkFaults /\ reporting # NoSlice
  /\ TakeAnswer(server.applied)
  /\ reporting' = NoSlice /\ reportWait' = TRUE
  /\ UNCHANGED <<time, server, planWait>>

\* mutant: a report without an answer counts
CountUnanswered == completed' = completed \cup {reporting}

AfterFailure == completed' = completed

\* no answer, or one that request_json or validate_report_response rejects;
\* the server may have applied the slice
ReportFails ==
  /\ reporting # NoSlice
  /\ \/ "unreachable" \in LinkFaults /\ UNCHANGED server
     \/ /\ "unanswered" \in LinkFaults /\ plan.token = server.token
        /\ server' = [server EXCEPT !.applied = @ \cup {reporting}]
  /\ AfterFailure
  /\ reporting' = NoSlice /\ reportWait' = TRUE
  /\ UNCHANGED <<time, plan, planWait, carried>>

ContinuumNext ==
  \/ NextPhase \/ NextCycle \/ Replan \/ PlanWaitEnds \/ ReportWaitEnds
  \/ FetchPlan \/ FetchFails \/ SendReport
  \/ Accepted \/ StalePlan \/ Refused \/ ReportFails

\* The tick interval goes on and waits are finite; a server that is asked again
\* and again answers in the end.
ContinuumSpec == ContinuumInit /\ [][ContinuumNext]_continuumVars
FairContinuumSpec ==
  /\ ContinuumSpec
  /\ WF_continuumVars(PlanWaitEnds) /\ WF_continuumVars(ReportWaitEnds)
  /\ WF_continuumVars(SendReport)
  /\ WF_continuumVars(Accepted \/ StalePlan \/ Refused \/ ReportFails)
  /\ SF_continuumVars(FetchPlan)
  /\ SF_continuumVars(Accepted \/ StalePlan)

-----------------------------------------------------------------------------
(* Properties                                                              *)

\* The state of client and server.
ContinuumTypeOK ==
  /\ time \in [cycle : 1 .. MaxCycles, phase : 0 .. SliceCount + 1]
  /\ server \in [token : 1 .. MaxPlans, applied : SUBSET Slices]
  /\ plan \in [token : 0 .. MaxPlans, cycle : 0 .. MaxCycles]
  /\ completed \subseteq Slices /\ carried \subseteq Slices
  /\ reporting \in Slices \cup {NoSlice}
  /\ planWait \in BOOLEAN /\ reportWait \in BOOLEAN

\* ingest_plan and apply_report_state: what the client holds for completed in
\* the cycle of its plan, the server has, although reports and answers get
\* lost and plans change under them; except what was carried over from an
\* earlier cycle.
CompletedWasApplied ==
  plan.cycle = time.cycle => completed \subseteq server.applied \cup carried

\* execute_slice: the server gets every slice of the cycle before the agent's slot
\* is over, however few answers arrive, if the slot only lasts long enough;
\* unless the client carried over slices from an earlier cycle.
EverySliceReported ==
  (time.phase = SliceCount) ~>
    (server.applied = Slices \/ time.phase = SliceCount + 1 \/ carried # {})
=============================================================================
