------------------------------ MODULE MCCrashes ------------------------------
(***************************************************************************)
(* What is killed at any step and goes on from what it left on disk: the   *)
(* loader, and TraceyBan following a log.  They share no state; a          *)
(* behaviour exercises one of them, as in MCServices.                      *)
(***************************************************************************)
EXTENDS MCLoader, LogWatch

VARIABLE killed

CrashesInit ==
  /\ killed \in {"loader", "watch"}
  /\ Init /\ LogInit
  /\ killed # "loader" => cur = Triple(1)

CrashesNext ==
  /\ \/ killed = "loader" /\ Next /\ UNCHANGED logVars
     \/ killed = "watch" /\ LogNext /\ UNCHANGED vars
  /\ UNCHANGED killed

\* the fairness of FairLogSpec, asked of the behaviours that exercise it
CrashesFairness ==
  /\ WF_logVars(killed = "watch" /\ (PollLog \/ ReadLine \/ ReadFails \/ EndPass))
  /\ WF_logVars(killed = "watch" /\ CountDetection)

CrashesSpec == CrashesInit /\ [][CrashesNext]_<<killed, vars, logVars>> /\ CrashesFairness

CrashesTypeOK == TypeOK /\ LogTypeOK
=============================================================================
