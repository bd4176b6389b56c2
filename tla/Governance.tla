----------------------------- MODULE Governance -----------------------------
(***************************************************************************)
(* Posture governance of one Tracey node: the agents' votes collect in the *)
(* coordinator task (src/src/swarm/coordinator.rs), which, while the node  *)
(* leads, may change the posture; the posture and the base threshold of    *)
(* the adaptive tuner determine the gates every other task reads           *)
(* (src/src/governance.rs).                                                *)
(*                                                                         *)
(* Thresholds and confidences are percent.  A vote is its posture, its     *)
(* confidence and whether it is within its TTL; equal votes are counted.   *)
(* The configuration is read again from its file at every application.     *)
(***************************************************************************)
EXTENDS Integers, FiniteSets, Functions

CONSTANTS
  Configs,        \* what the configuration file may say, see below
  Bases,          \* base thresholds the tuner may reach
  Confidences,    \* confidences of votes
  Quorum,         \* governance.quorum
  MinConfidence,  \* governance.min_confidence
  Support,        \* governance.decision_threshold
  MaxVotes        \* bound: votes held at a time

Postures == {"Relaxed", "Balanced", "Strict", "Lockdown"}
VoteKinds == [posture : Postures, confidence : Confidences, fresh : BOOLEAN]

ASSUME ConfigsAssumption ==
  Configs \subseteq [active : BOOLEAN, shutdown : BOOLEAN, update : BOOLEAN, remote : BOOLEAN]
ASSUME NumbersAssumption ==
  /\ Bases \subseteq 0 .. 100 /\ Confidences \subseteq 0 .. 100
  /\ Quorum \in Nat /\ MinConfidence \in 0 .. 100 /\ Support \in 0 .. 100
  /\ MaxVotes \in Nat

VARIABLES
  config,   \* the configuration file
  leader,   \* CoordinatorRole.is_coordinator
  votes,    \* Coordinator.governance_votes: how many of each kind
  base,     \* GovernanceState.base_decision_threshold
  posture,  \* GovernanceState.posture
  gates     \* the gates of GovernanceState that depend on the posture

vars == <<config, leader, votes, base, posture, gates>>

-----------------------------------------------------------------------------
\* mutant: no clamp
Unclamped(x, low, high) == x

Clamp(x, low, high) == IF x < low THEN low ELSE IF x > high THEN high ELSE x

Shift == [Relaxed |-> 5, Balanced |-> 0, Strict |-> -5, Lockdown |-> -10]

\* apply_posture
Gates(p, b, cfg) ==
  [threshold |-> Clamp(b + Shift[p], 10, 99),
   active    |-> cfg.active /\ p \in {"Strict", "Lockdown"},
   shutdown  |-> cfg.shutdown /\ p = "Lockdown",
   update    |-> cfg.update /\ p \notin {"Strict", "Lockdown"},
   remote    |-> cfg.remote /\ p = "Relaxed"]

Init ==
  /\ config \in Configs
  /\ leader = FALSE
  /\ votes = [k \in VoteKinds |-> 0]
  /\ base \in Bases
  /\ posture = "Balanced"
  /\ gates = Gates("Balanced", base, config)

Count(kinds) == SumFunctionOnSet(votes, kinds)

\* governance_votes.push: followers collect votes, too, and an agent may vote
\* any number of times
Vote(k) ==
  /\ k.fresh
  /\ Count(VoteKinds) < MaxVotes
  /\ votes' = [votes EXCEPT ![k] = @ + 1]
  /\ UNCHANGED <<config, leader, base, posture, gates>>

\* vote_ttl_ms passes
Age(k) ==
  /\ k.fresh /\ votes[k] > 0
  /\ votes' = [votes EXCEPT ![k] = @ - 1, ![[k EXCEPT !.fresh = FALSE]] = @ + 1]
  /\ UNCHANGED <<config, leader, base, posture, gates>>

Fresh == {k \in VoteKinds : k.fresh}

\* mutant: expired votes are kept
AllKinds == VoteKinds

Retained == Fresh

\* a vote without confidence weighs one percent
Weights == [k \in VoteKinds |-> votes[k] * (IF k.confidence = 0 THEN 1 ELSE k.confidence)]

Backing(p, kinds) == {k \in kinds : k.posture = p /\ k.confidence >= MinConfidence}

Weight(p) == SumFunctionOnSet(Weights, Backing(p, Retained))

TotalWeight == SumFunction([p \in Postures |-> Weight(p)])

\* The postures that may win: a maximal bucket, whichever of them the iteration
\* of the map yields last, with the required share of the confident weight.
Winners ==
  IF Count(Retained) < Quorum \/ TotalWeight = 0 THEN {}
  ELSE {p \in Postures : /\ \A q \in Postures : Weight(q) <= Weight(p)
                         /\ Weight(p) * 100 >= Support * TotalWeight}

\* process_governance, at every governance tick
ProcessGovernance ==
  /\ leader
  /\ votes' = [k \in VoteKinds |-> IF k \in Retained THEN votes[k] ELSE 0]
  /\ \/ /\ Winners \subseteq {posture}
        /\ UNCHANGED <<posture, gates>>
     \/ \E p \in Winners \ {posture} :
          /\ posture' = p
          /\ gates' = Gates(p, base, config)
  /\ UNCHANGED <<config, leader, base>>

\* set_base_threshold
Rebased(b) == Gates(posture, b, config)

\* finalize_decision with a tuner whose window has ended
Retune(b) ==
  /\ leader
  /\ base' = b
  /\ gates' = Rebased(b)
  /\ UNCHANGED <<config, leader, votes, posture>>

\* the environment: the election, an operator
ChangeRole ==
  /\ leader' = ~leader
  /\ UNCHANGED <<config, votes, base, posture, gates>>

EditConfig ==
  /\ config' \in Configs \ {config}
  /\ UNCHANGED <<leader, votes, base, posture, gates>>

Next ==
  \/ \E k \in VoteKinds : Vote(k) \/ Age(k)
  \/ ProcessGovernance
  \/ \E b \in Bases : Retune(b)
  \/ ChangeRole
  \/ EditConfig

Spec == Init /\ [][Next]_vars

-----------------------------------------------------------------------------
(* Properties                                                              *)

\* The values of the state; the threshold stays within the bounds of its clamp.
GovernanceTypeOK ==
  /\ config \in Configs /\ leader \in BOOLEAN
  /\ votes \in [VoteKinds -> 0 .. MaxVotes]
  /\ base \in Bases /\ posture \in Postures
  /\ gates \in [threshold : 10 .. 99, active : BOOLEAN, shutdown : BOOLEAN,
                update : BOOLEAN, remote : BOOLEAN]

\* apply_posture and set_base_threshold write the same gates from two places of
\* the coordinator task: in whatever order votes, the tuner and edits of the
\* configuration come, the threshold is that of the present base and posture,
\* and no gate is open that the present posture closes.
GatesFollowPosture ==
  /\ gates.threshold = Clamp(base + Shift[posture], 10, 99)
  /\ gates.active => posture \in {"Strict", "Lockdown"}
  /\ gates.shutdown => posture = "Lockdown"
  /\ gates.update => posture \notin {"Strict", "Lockdown"}
  /\ gates.remote => posture = "Relaxed"

\* process_governance: the posture changes only on a leader, and only to one
\* that holds the required share of the confident votes cast within the TTL, more
\* than any other and not nothing; what a follower piled up before it was elected
\* and what has expired since does not count.
PostureIsBacked ==
  [][posture' # posture =>
       LET strength(p) == SumFunctionOnSet(Weights, Backing(p, Fresh))
           confident == {k \in Fresh : k.confidence >= MinConfidence}
       IN /\ leader
          /\ Count(Fresh) >= Quorum
          /\ Count(Backing(posture', Fresh)) > 0
          /\ \A p \in Postures : strength(p) <= strength(posture')
          /\ strength(posture') * 100 >= Support * SumFunctionOnSet(Weights, confident)]_vars
=============================================================================
