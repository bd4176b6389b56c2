---------------------------- MODULE MCDistribution ----------------------------
(***************************************************************************)
(* How cores get from loader to loader: the transfer between two of them   *)
(* and the threat memory of all; and how a release gets from the update    *)
(* directory to the running agent where there is no loader.  What a fetch  *)
(* makes suspicious is an incident of the memory and what the memory       *)
(* condemns is no candidate of the loader (blockedCores, blockedPeers);    *)
(* beyond that they share no state, and a behaviour exercises one of them  *)
(* (as in MCServices).                                                     *)
(***************************************************************************)
EXTENDS MCPeerTransfer, Threat, Update, TLC

VARIABLE topic

DistributionInit ==
  /\ topic \in {"transfer", "threat", "update"}
  /\ TransferInit /\ ThreatInit /\ UpdateInit
  /\ topic # "transfer" => cur = Triple(1)
  /\ topic # "update" => ~alone

DistributionNext ==
  /\ \/ topic = "transfer" /\ TransferNext /\ UNCHANGED <<threatVars, updateVars>>
     \/ topic = "threat" /\ ThreatNext /\ UNCHANGED <<vars, tvars, updateVars>>
     \/ topic = "update" /\ UpdateNext /\ UNCHANGED <<vars, tvars, threatVars>>
  /\ UNCHANGED topic

DistributionSpec ==
  DistributionInit /\ [][DistributionNext]_<<topic, vars, tvars, threatVars, updateVars>>

DistributionTypeOK == TransferTypeOK /\ ThreatTypeOK /\ UpdateTypeOK

\* loaders and subjects are interchangeable
Interchangeable == Permutations(Loaders) \cup Permutations(Subjects)
=============================================================================
