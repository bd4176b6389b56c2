----------------------------- MODULE MCServices ------------------------------
(***************************************************************************)
(* Services of the agent that share no state and send each other nothing.  *)
(* A behaviour exercises one of them, chosen in its initial state, while   *)
(* the others rest in an initial state of their own; so the behaviours are *)
(* those of each service by itself, and nothing is lost by checking them   *)
(* together.                                                               *)
(***************************************************************************)
EXTENDS MCGovernance, MCTraceyBan, MCTraceyGuard, Continuum, Autoscale

VARIABLE part

Resting(service) == part # service

ServicesInit ==
  /\ part \in {"governance", "ban", "guard", "continuum", "autoscaler"}
  /\ Init /\ BanInit /\ GuardInit /\ InGuardScenario /\ ContinuumInit /\ ScaleInit
  /\ Resting("governance") => /\ config = CHOOSE c \in Configs : TRUE
                              /\ base = CHOOSE b \in Bases : TRUE
  /\ Resting("ban") => ignored = CHOOSE l \in IgnoreLists : TRUE
  /\ Resting("guard") => requests = MaxRequests /\ Discovered = {1}

ServicesNext ==
  /\ \/ ~Resting("governance") /\ Next /\ UNCHANGED <<banVars, guardVars, continuumVars, scaleVars>>
     \/ ~Resting("ban") /\ BanNext /\ UNCHANGED <<vars, guardVars, continuumVars, scaleVars>>
     \/ ~Resting("guard") /\ GuardNext /\ UNCHANGED <<vars, banVars, continuumVars, scaleVars>>
     \/ ~Resting("continuum") /\ ContinuumNext /\ UNCHANGED <<vars, banVars, guardVars, scaleVars>>
     \/ ~Resting("autoscaler") /\ ScaleNext /\ UNCHANGED <<vars, banVars, guardVars, continuumVars>>
  /\ UNCHANGED part

\* The strong fairness of TraceyGuard, of Continuum and of the autoscaler.  part does
\* not change, so fairness of a disjunction is fairness of the one disjunct that is
\* ever enabled.
MendsFetchesOrRecruits ==
  \/ ~Resting("guard") /\ Mends /\ UNCHANGED <<continuumVars, scaleVars>>
  \/ ~Resting("continuum") /\ FetchPlan /\ UNCHANGED <<guardVars, scaleVars>>
  \/ ~Resting("autoscaler") /\ Recruits /\ UNCHANGED <<guardVars, continuumVars>>
AuditedOrAnswered(d) ==
  \/ ~Resting("guard") /\ AuditOf(d) /\ UNCHANGED continuumVars
  \/ ~Resting("continuum") /\ (Accepted \/ StalePlan) /\ UNCHANGED guardVars

\* BanFairness, GuardFairness and those of FairContinuumSpec and FairScaleSpec, asked
\* of the behaviours that exercise them
ServicesFairness ==
  /\ WF_banVars(~Resting("ban") /\ Advance)
  /\ \A a \in Agents : WF_banVars(~Resting("ban") /\ UnbanTick(a))
  /\ WF_guardVars(~Resting("guard") /\ Wake)
  /\ WF_guardVars(~Resting("guard") /\ Receive)
  /\ \A d \in Devices : WF_guardVars(~Resting("guard") /\ Finish(d))
  /\ WF_continuumVars(~Resting("continuum") /\ PlanWaitEnds)
  /\ WF_continuumVars(~Resting("continuum") /\ ReportWaitEnds)
  /\ WF_continuumVars(~Resting("continuum") /\ SendReport)
  /\ WF_continuumVars(~Resting("continuum") /\ (Accepted \/ StalePlan \/ Refused \/ ReportFails))
  /\ \A n \in ScalingNodes :
       /\ WF_scaleVars(~Resting("autoscaler") /\ EvaluateTelemetry(n))
       /\ WF_scaleVars(~Resting("autoscaler") /\ (Accept(n) \/ Fail(n)))
  /\ SF_<<guardVars, continuumVars, scaleVars>>(MendsFetchesOrRecruits)
  /\ \A d \in Devices : SF_<<guardVars, continuumVars>>(AuditedOrAnswered(d))

ServicesSpec ==
  ServicesInit /\ [][ServicesNext]_<<part, vars, banVars, guardVars, continuumVars, scaleVars>>
  /\ ServicesFairness

ServicesTypeOK == GovernanceTypeOK /\ BanTypeOK /\ GuardTypeOK /\ ContinuumTypeOK /\ ScaleTypeOK
=============================================================================
