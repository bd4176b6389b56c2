---------------------------- MODULE MCTraceyGuard ---------------------------
(***************************************************************************)
(* TraceyGuard for model checking: one device with an operator, or two     *)
(* devices with faults that compete for one worker.                        *)
(***************************************************************************)
EXTENDS TraceyGuard

GuardScenarios == {<<1, MaxRequests, 1>>, <<2, 0, MaxFaults>>}
InGuardScenario == <<Cardinality(Discovered), requests, faults>> \in GuardScenarios
=============================================================================
