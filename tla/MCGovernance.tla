---------------------------- MODULE MCGovernance ----------------------------
(* Governance for model checking. *)
EXTENDS Governance

MCConfigs ==
  {[active |-> TRUE, shutdown |-> TRUE, update |-> TRUE, remote |-> TRUE],
   [active |-> FALSE, shutdown |-> TRUE, update |-> TRUE, remote |-> FALSE]}
=============================================================================
