------------------------------- MODULE MCSwarm -------------------------------
(* Swarm for model checking. *)
EXTENDS Swarm

MCIdDistinct == [e \in Events |-> e]
MCIdShared == [e \in Events |-> 1]
MCSole == [leader |-> TRUE, rank |-> 0, count |-> 1]
MCRoles ==
  {MCSole, [leader |-> TRUE, rank |-> 1, count |-> 2], [leader |-> FALSE, rank |-> 3, count |-> 1]}
MCRolesSole == {MCSole}
=============================================================================
