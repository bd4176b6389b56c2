----------------------------- MODULE MCProgress ------------------------------
(***************************************************************************)
(* What keeps a cluster going: a loader that keeps one core running, and   *)
(* the election among the nodes whose loaders do.  They share no state; a  *)
(* behaviour exercises one of them, as in MCServices.                      *)
(***************************************************************************)
EXTENDS MCLoader, MCElection

VARIABLE keeper

ProgressInit ==
  /\ keeper \in {"loader", "election"}
  /\ Init /\ ElectionInit
  /\ keeper # "loader" => cur = Triple(1)

ProgressNext ==
  /\ \/ keeper = "loader" /\ Next /\ UNCHANGED electionVars
     \/ keeper = "election" /\ ElectionNext /\ UNCHANGED vars
  /\ UNCHANGED keeper

\* the fairness of FairSpec and of ElectionFairness, asked of the behaviours that exercise them
ProgressFairness ==
  /\ WF_vars(keeper = "loader" /\ Boot)
  /\ WF_vars(keeper = "loader" /\ MainLoop)
  /\ WF_vars(keeper = "loader" /\ Apply)
  /\ WF_vars(keeper = "loader" /\ WindowElapses)
  /\ WF_vars(keeper = "loader" /\ Cleanup)
  /\ \A n \in Nodes :
       /\ WF_electionVars(keeper = "election" /\ Evaluate(n))
       /\ WF_electionVars(keeper = "election" /\ Fade(n))
       /\ \A m \in Nodes :
            WF_electionVars(/\ keeper = "election"
                            /\ \E latency \in Delays[<<n, m>>] : HearAnnouncement(n, m, latency))

ProgressSpec == ProgressInit /\ [][ProgressNext]_<<keeper, vars, electionVars>> /\ ProgressFairness
=============================================================================
