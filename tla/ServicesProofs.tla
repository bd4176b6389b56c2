--------------------------- MODULE ServicesProofs ---------------------------
(***************************************************************************)
(* Theorems of the services that share no state: Governance, TraceyBan,    *)
(* TraceyGuard, Continuum and Autoscale, each for any values of its        *)
(* constants, and of their composition in MCServices.                      *)
(***************************************************************************)
EXTENDS MCServices, Folding

-----------------------------------------------------------------------------
(* Governance: the gates the other tasks read are those of the posture     *)

\* What the gates are computed from.
GatesType ==
  /\ config \in Configs /\ base \in Bases /\ posture \in Postures
  /\ gates \in [threshold : Int, active : BOOLEAN, shutdown : BOOLEAN,
                update : BOOLEAN, remote : BOOLEAN]

GatesInv == GatesType /\ GatesFollowPosture

\* apply_posture opens no gate the posture closes, whatever the configuration.
LEMMA GatesOfPosture ==
  ASSUME NEW p \in Postures, NEW b \in Bases, NEW cfg \in Configs
  PROVE  LET g == Gates(p, b, cfg) IN
           /\ g \in [threshold : Int, active : BOOLEAN, shutdown : BOOLEAN,
                     update : BOOLEAN, remote : BOOLEAN]
           /\ g.threshold = Clamp(b + Shift[p], 10, 99)
           /\ g.active => p \in {"Strict", "Lockdown"}
           /\ g.shutdown => p = "Lockdown"
           /\ g.update => p \notin {"Strict", "Lockdown"}
           /\ g.remote => p = "Relaxed"
<1> DEFINE g == Gates(p, b, cfg)
           strict == cfg.active /\ p \in {"Strict", "Lockdown"}
           shutdown == cfg.shutdown /\ p = "Lockdown"
           update == cfg.update /\ p \notin {"Strict", "Lockdown"}
           relaxed == cfg.remote /\ p = "Relaxed"
<1>1. g = [threshold |-> Clamp(b + Shift[p], 10, 99), active |-> strict,
           shutdown |-> shutdown, update |-> update, remote |-> relaxed]
  BY DEF Gates
<1>2. Clamp(b + Shift[p], 10, 99) \in Int
  <2>1. b \in Int
    BY NumbersAssumption
  <2>2. Shift[p] \in Int
    BY DEF Shift, Postures
  <2> QED BY <2>1, <2>2 DEF Clamp
<1>3. strict \in BOOLEAN /\ shutdown \in BOOLEAN /\ update \in BOOLEAN /\ relaxed \in BOOLEAN
  OBVIOUS
<1> HIDE DEF strict, shutdown, update, relaxed
<1>4. /\ g \in [threshold : Int, active : BOOLEAN, shutdown : BOOLEAN,
                update : BOOLEAN, remote : BOOLEAN]
      /\ g.threshold = Clamp(b + Shift[p], 10, 99) /\ g.active = strict
      /\ g.shutdown = shutdown /\ g.update = update /\ g.remote = relaxed
  BY <1>1, <1>2, <1>3
<1>5. /\ g.active => p \in {"Strict", "Lockdown"}
      /\ g.shutdown => p = "Lockdown"
      /\ g.update => p \notin {"Strict", "Lockdown"}
      /\ g.remote => p = "Relaxed"
  BY <1>4, Zenon DEF strict, shutdown, update, relaxed
<1> QED BY <1>4, <1>5

\* The gates are computed when the task starts.
LEMMA GatesInvInit == Init => GatesInv
BY GatesOfPosture DEF Init, GatesInv, GatesType, GatesFollowPosture, Postures

\* Every step that changes the posture computes the gates again.
LEMMA GatesInvStep == GatesInv /\ [Next]_vars => GatesInv'
<1> SUFFICES ASSUME GatesInv, [Next]_vars PROVE GatesInv'
  OBVIOUS
<1>1. ASSUME NEW k \in VoteKinds, Vote(k) \/ Age(k) PROVE GatesInv'
  BY <1>1 DEF Vote, Age, GatesInv, GatesType, GatesFollowPosture
<1>2. CASE ProcessGovernance
  <2>1. CASE UNCHANGED <<posture, gates>>
    BY <1>2, <2>1 DEF ProcessGovernance, GatesInv, GatesType, GatesFollowPosture
  <2>2. ASSUME NEW p \in Winners, posture' = p, gates' = Gates(p, base, config)
        PROVE  GatesInv'
    <3>1. p \in Postures
      BY DEF Winners
    <3> QED BY <1>2, <2>2, <3>1, GatesOfPosture
            DEF ProcessGovernance, GatesInv, GatesType, GatesFollowPosture
  <2> QED BY <1>2, <2>1, <2>2 DEF ProcessGovernance
<1>3. ASSUME NEW b \in Bases, Retune(b) PROVE GatesInv'
  BY <1>3, GatesOfPosture DEF Retune, Rebased, GatesInv, GatesType, GatesFollowPosture
<1>4. CASE ChangeRole
  BY <1>4 DEF ChangeRole, GatesInv, GatesType, GatesFollowPosture
<1>5. CASE EditConfig
  BY <1>5 DEF EditConfig, GatesInv, GatesType, GatesFollowPosture
<1>6. CASE UNCHANGED vars
  BY <1>6 DEF vars, GatesInv, GatesType, GatesFollowPosture
<1> QED BY <1>1, <1>2, <1>3, <1>4, <1>5, <1>6 DEF Next

\* Votes, tuner and edits of the configuration leave the gates those of the
\* posture in force.
THEOREM GatesSafe == Spec => []GatesFollowPosture
<1>1. GatesInv => GatesFollowPosture
  BY DEF GatesInv
<1> QED BY <1>1, GatesInvInit, GatesInvStep, PTL DEF Spec
-----------------------------------------------------------------------------
(* The votes                                                               *)

\* Votes are so many of each kind, and altogether no more than MaxVotes.
VotesInv == votes \in [VoteKinds -> Nat] /\ Count(VoteKinds) <= MaxVotes

\* There are four postures,
LEMMA PosturesAreFinite == IsFiniteSet(Postures)
<1>1. IsFiniteSet({"Relaxed"}) /\ IsFiniteSet({"Balanced"}) /\ IsFiniteSet({"Strict"}) /\ IsFiniteSet({"Lockdown"})
  BY FS_Singleton
<1>2. IsFiniteSet({"Relaxed"} \cup {"Balanced"}) /\ IsFiniteSet({"Strict"} \cup {"Lockdown"})
  BY <1>1, FS_Union
<1>3. IsFiniteSet(({"Relaxed"} \cup {"Balanced"}) \cup ({"Strict"} \cup {"Lockdown"}))
  BY <1>2, FS_Union
<1>4. Postures = ({"Relaxed"} \cup {"Balanced"}) \cup ({"Strict"} \cup {"Lockdown"})
  BY DEF Postures
<1> QED BY <1>3, <1>4

\* and finitely many kinds of vote.
LEMMA KindsAreFinite == IsFiniteSet(VoteKinds)
<1> DEFINE T == Postures \X (Confidences \X BOOLEAN)
           fields == [k \in VoteKinds |-> <<k.posture, <<k.confidence, k.fresh>>>>]
<1>1. IsFiniteSet(Confidences)
  <2>1. Confidences \in SUBSET Nat /\ \A c \in Confidences : c <= 100
    BY NumbersAssumption
  <2> QED BY <2>1, FS_BoundedSetOfNaturals
<1>2. IsFiniteSet(Postures)
  BY PosturesAreFinite
<1>3. IsFiniteSet(BOOLEAN)
  <2>1. IsFiniteSet({TRUE}) /\ IsFiniteSet({FALSE})
    BY FS_Singleton
  <2>2. IsFiniteSet({TRUE} \cup {FALSE})
    BY <2>1, FS_Union
  <2>3. BOOLEAN = {TRUE} \cup {FALSE}
    OBVIOUS
  <2> QED BY <2>2, <2>3
<1>4. IsFiniteSet(T)
  BY <1>1, <1>2, <1>3, FS_Product
<1>5. fields \in Injection(VoteKinds, T)
  BY DEF VoteKinds, Injection, IsInjective
<1> HIDE DEF fields
<1> QED BY <1>4, <1>5, FS_Injection

\* A vote that grows old changes its kind.
LEMMA AgedKind ==
  ASSUME NEW k \in VoteKinds, k.fresh, NEW a, a = [k EXCEPT !.fresh = FALSE]
  PROVE  a \in VoteKinds /\ ~a.fresh /\ a # k
BY DEF VoteKinds

\* At first there are no votes.
LEMMA VotesInvInit == Init => VotesInv
<1> SUFFICES ASSUME Init PROVE VotesInv
  OBVIOUS
<1>1. votes \in [VoteKinds -> Nat] /\ \A k \in VoteKinds : votes[k] = 0
  BY DEF Init
<1>2. SumFunctionOnSet(votes, VoteKinds) = 0
  BY <1>1, KindsAreFinite, SumIsZero
<1> QED BY <1>1, <1>2, NumbersAssumption DEF VotesInv, Count

\* A vote is counted while there is room, changes its kind or is forgotten.
LEMMA VotesInvStep == VotesInv /\ [Next]_vars => VotesInv'
<1> SUFFICES ASSUME VotesInv, [Next]_vars PROVE VotesInv'
  OBVIOUS
<1> USE KindsAreFinite
<1>1. /\ votes \in [VoteKinds -> Nat] /\ SumFunctionOnSet(votes, VoteKinds) <= MaxVotes
      /\ SumFunctionOnSet(votes, VoteKinds) \in Nat
  BY SumElement DEF VotesInv, Count
<1>2. ASSUME NEW k \in VoteKinds, Vote(k) PROVE VotesInv'
  <2>1. votes' = [votes EXCEPT ![k] = @ + 1] /\ SumFunctionOnSet(votes, VoteKinds) < MaxVotes
    BY <1>2 DEF Vote, Count
  <2>2. /\ votes' \in [VoteKinds -> Nat] /\ votes'[k] = votes[k] + 1
        /\ \A y \in VoteKinds \ {k} : votes'[y] = votes[y]
    BY <1>1, <2>1
  <2>3. SumFunctionOnSet(votes', VoteKinds) + votes[k] = SumFunctionOnSet(votes, VoteKinds) + votes'[k]
    BY <1>1, <2>2, SumUpdate
  <2>4. SumFunctionOnSet(votes', VoteKinds) \in Nat
    BY <2>2, SumElement
  <2>5. SumFunctionOnSet(votes', VoteKinds) <= MaxVotes
    BY <1>1, <2>1, <2>2, <2>3, <2>4, NumbersAssumption
  <2> QED BY <2>2, <2>5 DEF VotesInv, Count
<1>3. ASSUME NEW k \in VoteKinds, Age(k) PROVE VotesInv'
  <2> DEFINE a == [k EXCEPT !.fresh = FALSE]
             between == [votes EXCEPT ![k] = @ - 1]
  <2>1. a \in VoteKinds /\ a # k
    BY <1>3, AgedKind DEF Age
  <2>2. votes' = [votes EXCEPT ![k] = @ - 1, ![a] = @ + 1] /\ votes[k] > 0
    BY <1>3 DEF Age
  <2> HIDE DEF a
  <2>3. /\ between \in [VoteKinds -> Nat] /\ between[k] = votes[k] - 1
        /\ \A y \in VoteKinds \ {k} : between[y] = votes[y]
    BY <1>1, <2>2
  <2>4. /\ votes' \in [VoteKinds -> Nat] /\ votes'[a] = between[a] + 1
        /\ \A y \in VoteKinds \ {a} : votes'[y] = between[y]
    BY <1>1, <2>1, <2>2
  <2> HIDE DEF between
  <2>5. SumFunctionOnSet(between, VoteKinds) + votes[k] = SumFunctionOnSet(votes, VoteKinds) + between[k]
    BY <1>1, <2>3, SumUpdate
  <2>6. SumFunctionOnSet(votes', VoteKinds) + between[a] = SumFunctionOnSet(between, VoteKinds) + votes'[a]
    BY <2>1, <2>3, <2>4, SumUpdate
  <2>7. SumFunctionOnSet(between, VoteKinds) \in Nat /\ SumFunctionOnSet(votes', VoteKinds) \in Nat
    BY <2>3, <2>4, SumElement
  <2>8. SumFunctionOnSet(votes', VoteKinds) = SumFunctionOnSet(votes, VoteKinds)
    BY <1>1, <2>1, <2>3, <2>4, <2>5, <2>6, <2>7
  <2> QED BY <1>1, <2>4, <2>8 DEF VotesInv, Count
<1>4. CASE ProcessGovernance
  <2>1. /\ votes' \in [VoteKinds -> Nat]
        /\ \A y \in VoteKinds : votes[y] \in Nat /\ votes'[y] \in Nat /\ votes'[y] <= votes[y]
    BY <1>1, <1>4 DEF ProcessGovernance
  <2>2. SumFunctionOnSet(votes', VoteKinds) <= SumFunctionOnSet(votes, VoteKinds)
    BY <2>1, SumMonotone
  <2>3. SumFunctionOnSet(votes', VoteKinds) \in Nat
    BY <2>1, SumElement
  <2> QED BY <1>1, <2>1, <2>2, <2>3, NumbersAssumption DEF VotesInv, Count
<1>5. CASE UNCHANGED votes
  BY <1>1, <1>5 DEF VotesInv, Count
<1>6. UNCHANGED votes \/ (\E k \in VoteKinds : Vote(k) \/ Age(k)) \/ ProcessGovernance
  BY DEF Next, vars, Retune, ChangeRole, EditConfig
<1> QED BY <1>2, <1>3, <1>4, <1>5, <1>6

\* Type correctness: votes and the threshold keep within their bounds.
THEOREM GovernanceTypes == Spec => []GovernanceTypeOK
<1>1. Spec => []GatesInv
  BY GatesInvInit, GatesInvStep, PTL DEF Spec
<1>2. Spec => []VotesInv
  BY VotesInvInit, VotesInvStep, PTL DEF Spec
<1>3. Spec => [](leader \in BOOLEAN)
  <2>1. Init => leader \in BOOLEAN
    BY DEF Init
  <2>2. leader \in BOOLEAN /\ [Next]_vars => (leader \in BOOLEAN)'
    BY DEF Next, vars, Vote, Age, ProcessGovernance, Retune, ChangeRole, EditConfig
  <2> QED BY <2>1, <2>2, PTL DEF Spec
<1>4. GatesInv /\ VotesInv /\ leader \in BOOLEAN => GovernanceTypeOK
  <2> SUFFICES ASSUME GatesInv, VotesInv, leader \in BOOLEAN PROVE GovernanceTypeOK
    OBVIOUS
  <2>1. votes \in [VoteKinds -> 0 .. MaxVotes]
    <3>1. \A k \in VoteKinds : votes[k] <= MaxVotes
      <4> SUFFICES ASSUME NEW k \in VoteKinds PROVE votes[k] <= MaxVotes
        OBVIOUS
      <4>1. /\ SumFunctionOnSet(votes, VoteKinds) = votes[k] + SumFunctionOnSet(votes, VoteKinds \ {k})
            /\ SumFunctionOnSet(votes, VoteKinds \ {k}) \in Nat
        BY KindsAreFinite, SumElement DEF VotesInv
      <4> QED BY <4>1, NumbersAssumption DEF VotesInv, Count
    <3> QED BY <3>1, NumbersAssumption DEF VotesInv
  <2>2. gates.threshold \in 10 .. 99
    <3>1. base + Shift[posture] \in Int
      BY NumbersAssumption DEF GatesInv, GatesType, Shift, Postures
    <3> QED BY <3>1 DEF Clamp, GatesInv, GatesFollowPosture
  <2> QED BY <2>1, <2>2 DEF GatesInv, GatesType, GovernanceTypeOK
<1> QED BY <1>1, <1>2, <1>3, <1>4, PTL

\* What the votes of a posture weigh is a number, and nothing without a vote.
LEMMA WeightsAreNumbers ==
  ASSUME VotesInv
  PROVE  \A k \in VoteKinds : Weights[k] \in Nat /\ (votes[k] = 0 => Weights[k] = 0)
<1> SUFFICES ASSUME NEW k \in VoteKinds
             PROVE  Weights[k] \in Nat /\ (votes[k] = 0 => Weights[k] = 0)
  OBVIOUS
<1> DEFINE w == IF k.confidence = 0 THEN 1 ELSE k.confidence
<1>1. votes[k] \in Nat
  BY DEF VotesInv
<1>2. w \in Nat
  <2>1. k.confidence \in 0 .. 100
    <3>1. k.confidence \in Confidences
      BY DEF VoteKinds
    <3> QED BY <3>1, NumbersAssumption
  <2> QED BY <2>1
<1>3. Weights[k] = votes[k] * w
  BY DEF Weights
<1>4. \A m, n \in Nat : m * n \in Nat /\ 0 * n = 0
  OBVIOUS
<1> HIDE DEF w
<1> QED BY <1>1, <1>2, <1>3, <1>4

\* Whoever wins has votes, and the confident weight is that of the postures together.
LEMMA WinnerIsBacked ==
  ASSUME VotesInv, NEW p \in Winners
  PROVE  /\ p \in Postures /\ Count(Fresh) >= Quorum
         /\ Count(Backing(p, Fresh)) > 0
         /\ \A q \in Postures : SumFunctionOnSet(Weights, Backing(q, Fresh)) <=
                                  SumFunctionOnSet(Weights, Backing(p, Fresh))
         /\ SumFunctionOnSet(Weights, Backing(p, Fresh)) * 100 >=
              Support * SumFunctionOnSet(Weights, {k \in Fresh : k.confidence >= MinConfidence})
<1> DEFINE confident == {k \in Fresh : k.confidence >= MinConfidence}
           weighed == [q \in Postures |-> Weight(q)]
<1>1. /\ p \in Postures /\ Count(Fresh) >= Quorum /\ TotalWeight # 0
      /\ \A q \in Postures : Weight(q) <= Weight(p)
      /\ Weight(p) * 100 >= Support * TotalWeight
  <2>1. Count(Fresh) \in Int
    <3>1. IsFiniteSet(Fresh)
      BY KindsAreFinite, FS_Subset DEF Fresh
    <3>2. \A k \in Fresh : votes[k] \in Nat
      BY DEF Fresh, VotesInv
    <3> QED BY <3>1, <3>2, SumElement DEF Count
  <2> QED BY <2>1, NumbersAssumption DEF Winners, Retained
<1>2. \A q : /\ Weight(q) = SumFunctionOnSet(Weights, Backing(q, Fresh))
             /\ Backing(q, Fresh) \in SUBSET VoteKinds /\ IsFiniteSet(Backing(q, Fresh))
  <2>1. \A q : Backing(q, Fresh) \in SUBSET VoteKinds
    BY DEF Backing, Fresh
  <2> QED BY <2>1, KindsAreFinite, FS_Subset DEF Weight, Retained
<1>3. \A q : Weight(q) \in Nat
  BY <1>2, WeightsAreNumbers, SumElement
<1>4. IsFiniteSet(Postures)
  BY PosturesAreFinite
<1>5. TotalWeight = SumFunctionOnSet(weighed, Postures)
  <2>1. DOMAIN weighed = Postures
    OBVIOUS
  <2> QED BY <2>1 DEF TotalWeight, SumFunction
<1>6. TotalWeight = SumFunctionOnSet(Weights, confident)
  <2> DEFINE side == [k \in confident |-> k.posture]
  <2>1. IsFiniteSet(confident) /\ \A k \in confident : Weights[k] \in Nat
    <3>1. confident \in SUBSET VoteKinds
      BY DEF Fresh
    <3> HIDE DEF confident
    <3> QED BY <3>1, KindsAreFinite, FS_Subset, WeightsAreNumbers
  <2>2. \A k \in confident : side[k] \in Postures
    BY DEF Fresh, VoteKinds
  <2>3. \A q \in Postures : {k \in confident : side[k] = q} = Backing(q, Fresh)
    BY DEF Backing
  <2>4. \A q \in Postures : weighed[q] = SumFunctionOnSet(Weights, {k \in confident : side[k] = q})
    BY <1>2, <2>3
  <2> HIDE DEF confident, side, weighed
  <2> QED BY <1>4, <1>5, <2>1, <2>2, <2>4, SumByClass
<1>7. Weight(p) # 0
  <2> SUFFICES ASSUME Weight(p) = 0 PROVE FALSE
    OBVIOUS
  <2>1. \A q \in Postures : weighed[q] = 0
    BY <1>1, <1>3
  <2> HIDE DEF weighed
  <2> QED BY <1>1, <1>4, <1>5, <2>1, SumIsZero
<1>8. PICK k \in Backing(p, Fresh) : votes[k] # 0
  BY <1>2, <1>7, WeightsAreNumbers, SumIsZero
<1>9. Count(Backing(p, Fresh)) > 0
  <2>1. \A y \in Backing(p, Fresh) : votes[y] \in Nat
    BY <1>2 DEF VotesInv
  <2>2. Count(Backing(p, Fresh)) \in Nat /\ Count(Backing(p, Fresh)) # 0
    BY <1>2, <1>8, <2>1, SumElement, SumIsZero DEF Count
  <2> QED BY <2>2
<1> QED BY <1>1, <1>2, <1>6, <1>9

\* The coordinator changes the posture only as the leader, and to none without the
\* required share of the votes that are in force.
THEOREM PosturesAreBacked == Spec => PostureIsBacked
<1>1. Spec => []VotesInv
  BY VotesInvInit, VotesInvStep, PTL DEF Spec
<1> DEFINE strength(p) == SumFunctionOnSet(Weights, Backing(p, Fresh))
           backed == /\ leader /\ Count(Fresh) >= Quorum
                     /\ Count(Backing(posture', Fresh)) > 0
                     /\ \A p \in Postures : strength(p) <= strength(posture')
                     /\ strength(posture') * 100 >=
                          Support * SumFunctionOnSet(Weights, {k \in Fresh : k.confidence >= MinConfidence})
<1>2. ASSUME VotesInv, [Next]_vars, posture' # posture PROVE backed
  <2>1. ProcessGovernance
    BY <1>2 DEF Next, vars, Vote, Age, Retune, ChangeRole, EditConfig
  <2>2. leader /\ posture' \in Winners
    BY <1>2, <2>1 DEF ProcessGovernance
  <2> QED BY <1>2, <2>2, WinnerIsBacked
<1>3. VotesInv /\ [Next]_vars => [posture' # posture => backed]_vars
  BY <1>2
<1> QED BY <1>1, <1>3, PTL DEF Spec, PostureIsBacked
-----------------------------------------------------------------------------
(* TraceyBan: any hosts, addresses, ignore lists, durations and faults     *)

\* The hub and the jail are changed together, by every handler.
HubMirrorsJail == local = active

\* Every expiry in every table was imposed by a detection or an operator.
AllGranted ==
  \A a \in Agents, x \in Addresses :
    /\ Holds(active[a], x) => <<x, active[a][x]>> \in granted
    /\ Holds(saved[a], x) => <<x, saved[a][x]>> \in granted
    /\ \A b \in Agents : Holds(remote[a][b], x) => <<x, remote[a][b][x]>> \in granted

\* The bans a host has, or would have if it were started.
Enforcing(a) == IF a \in running THEN active[a] ELSE saved[a]

\* BansAreEnforced, extended to the hosts that are down: what is enforced
\* there is what their file says, until a crash has lost changes.
EnforcedOrLost ==
  \A a \in Agents : ~lost[a] =>
    \A x \in Addresses : Holds(Enforcing(a), x) => x \in firewall[a]

BanInv ==
  /\ BanTypeOK
  /\ HubMirrorsJail
  /\ AllGranted
  /\ EnforcedOrLost
  /\ IgnoredUnlessOrdered

\* Whatever is dropped as expired, what is left was there before.
LEMMA UnexpiredIsThere ==
  ASSUME NEW bans \in BanTables
  PROVE  /\ Unexpired(bans) \in BanTables
         /\ \A x \in Addresses : Holds(Unexpired(bans), x) =>
              Holds(bans, x) /\ Unexpired(bans)[x] = bans[x]
BY DEF BanTables, Unexpired, Holds

LEMMA NoBansIsEmpty ==
  /\ NoBans \in BanTables
  /\ \A x \in Addresses : ~Holds(NoBans, x)
BY DEF NoBans, BanTables, Holds

LEMMA BanInvInit == BanInit => BanInv
<1> SUFFICES ASSUME BanInit PROVE BanInv
  OBVIOUS
<1>1. BanTypeOK
  BY NoBansIsEmpty, BanAssumption
     DEF BanInit, BanTypeOK, Times, NoFailures
<1>2. HubMirrorsJail /\ AllGranted /\ EnforcedOrLost
  BY NoBansIsEmpty DEF BanInit, HubMirrorsJail, AllGranted, EnforcedOrLost, Enforcing
<1>3. IgnoredUnlessOrdered
  BY DEF BanInit, IgnoredUnlessOrdered
<1> QED BY <1>1, <1>2, <1>3 DEF BanInv

-----------------------------------------------------------------------------
(* install_ban_record: the parts of the invariant an installed ban touches *)

\* The jail's bans with one more.
Recorded(a, x, expiry) == [active[a] EXCEPT ![x] = expiry]

LEMMA RecordedBans ==
  ASSUME BanTypeOK, NEW a \in running, NEW x \in Addresses, NEW expiry \in Expiries
  PROVE  /\ a \in Agents /\ Recorded(a, x, expiry) \in BanTables
         /\ Recorded(a, x, expiry)[x] = expiry
         /\ \A y \in Addresses : y # x => Recorded(a, x, expiry)[y] = active[a][y]
BY DEF Recorded, BanTypeOK, BanTables

LEMMA InstalledBan ==
  ASSUME BanTypeOK, HubMirrorsJail, NEW a \in running, NEW x \in Addresses,
         NEW expiry \in Expiries, NEW accepted \in BOOLEAN,
         InstallBan(a, x, expiry, accepted)
  PROVE  /\ local' = active'
         /\ \/ /\ accepted
               /\ firewall' = [firewall EXCEPT ![a] = @ \cup {x}]
               /\ active' = [active EXCEPT ![a] = Recorded(a, x, expiry)]
            \/ ~accepted /\ UNCHANGED <<firewall, active>>
BY DEF InstallBan, BanTypeOK, HubMirrorsJail, Recorded

LEMMA OutcomeIsBoolean == ASSUME NEW accepted \in Outcomes PROVE accepted \in BOOLEAN
<1>1. accepted = TRUE \/ accepted = ("firewall" \notin BanFaults)
  BY Zenon DEF Outcomes
<1> QED BY <1>1, Zenon

\* Bans are imposed before the horizon, so they end before the clock does.
LEMMA ExpiryInRange ==
  ASSUME now \in Times, now <= Horizon, NEW start \in Times, start <= now,
         NEW d \in Durations
  PROVE  start + d \in Expiries
<1>1. d \in Nat /\ Horizon + d <= EndOfTime /\ Horizon \in Nat /\ EndOfTime \in Nat
  BY BanAssumption
<1>2. start \in Nat /\ now \in Nat
  BY DEF Times
<1>3. start + d \in 0 .. EndOfTime
  BY <1>1, <1>2
<1> QED BY <1>3 DEF Expiries, Times

\* An address the host ignores is not added to what its firewall blocks.
LEMMA InstallIgnored ==
  ASSUME BanTypeOK, IgnoredUnlessOrdered, NEW a \in running, NEW x \in Addresses,
         NEW expiry \in Expiries, NEW accepted \in BOOLEAN,
         InstallBan(a, x, expiry, accepted), ignored' = ignored,
         \A b \in Agents : ordered[b] \subseteq ordered'[b],
         x \notin ignored[a] \/ x \in ordered'[a]
  PROVE  IgnoredUnlessOrdered'
<1>1. \A b \in Agents : firewall'[b] \subseteq firewall[b] \cup (IF b = a THEN {x} ELSE {})
  <2>1. CASE accepted
    BY <2>1 DEF InstallBan, BanTypeOK
  <2>2. CASE ~accepted
    BY <2>2 DEF InstallBan
  <2> QED BY <2>1, <2>2
<1> QED BY <1>1 DEF IgnoredUnlessOrdered

LEMMA InstallTypes ==
  ASSUME BanTypeOK, HubMirrorsJail, NEW a \in running, NEW x \in Addresses,
         NEW expiry \in Expiries, NEW accepted \in BOOLEAN,
         InstallBan(a, x, expiry, accepted)
  PROVE  /\ firewall' \in [Agents -> SUBSET Addresses]
         /\ active' \in [Agents -> BanTables] /\ local' = active'
         /\ \A b \in Agents \ running : active'[b] = active[b]
<1>1. /\ local' = active'
      /\ \/ /\ accepted
            /\ firewall' = [firewall EXCEPT ![a] = @ \cup {x}]
            /\ active' = [active EXCEPT ![a] = Recorded(a, x, expiry)]
         \/ ~accepted /\ UNCHANGED <<firewall, active>>
  BY InstalledBan
<1>2. /\ a \in Agents /\ Recorded(a, x, expiry) \in BanTables
      /\ Recorded(a, x, expiry)[x] = expiry
      /\ \A y \in Addresses : y # x => Recorded(a, x, expiry)[y] = active[a][y]
  BY RecordedBans
<1>3. CASE accepted
  <2>1. firewall' \in [Agents -> SUBSET Addresses]
    BY <1>1, <1>2, <1>3 DEF BanTypeOK
  <2>2. active \in [Agents -> BanTables]
    BY DEF BanTypeOK
  <2>3. active' = [active EXCEPT ![a] = Recorded(a, x, expiry)]
    BY <1>1, <1>3
  <2>4. active' \in [Agents -> BanTables]
    BY <1>2, <2>2, <2>3
  <2>5. \A b \in Agents \ running : active'[b] = active[b]
    BY <2>2, <2>3
  <2> QED BY <1>1, <2>1, <2>4, <2>5
<1>4. CASE ~accepted
  BY <1>1, <1>4 DEF BanTypeOK
<1> QED BY <1>3, <1>4

LEMMA InstallGranted ==
  ASSUME BanTypeOK, HubMirrorsJail, AllGranted, NEW a \in running, NEW x \in Addresses,
         NEW expiry \in Expiries, NEW accepted \in BOOLEAN,
         InstallBan(a, x, expiry, accepted),
         granted' = granted \cup (IF accepted THEN {<<x, expiry>>} ELSE {}),
         UNCHANGED <<saved, remote>>
  PROVE  AllGranted'
<1>1. /\ local' = active'
      /\ \/ /\ accepted
            /\ firewall' = [firewall EXCEPT ![a] = @ \cup {x}]
            /\ active' = [active EXCEPT ![a] = Recorded(a, x, expiry)]
         \/ ~accepted /\ UNCHANGED <<firewall, active>>
  BY InstalledBan
<1>2. /\ a \in Agents /\ Recorded(a, x, expiry) \in BanTables
      /\ Recorded(a, x, expiry)[x] = expiry
      /\ \A y \in Addresses : y # x => Recorded(a, x, expiry)[y] = active[a][y]
  BY RecordedBans
<1>3. \A b \in Agents, y \in Addresses :
        active'[b][y] # NoBan => <<y, active'[b][y]>> \in granted'
  BY <1>1, <1>2 DEF BanTypeOK, AllGranted, Holds
<1> QED BY <1>3 DEF AllGranted, Holds

LEMMA InstallEnforced ==
  ASSUME BanTypeOK, HubMirrorsJail, EnforcedOrLost, NEW a \in running, NEW x \in Addresses,
         NEW expiry \in Expiries, NEW accepted \in BOOLEAN,
         InstallBan(a, x, expiry, accepted), UNCHANGED <<running, saved, lost>>
  PROVE  EnforcedOrLost'
<1>1. /\ local' = active'
      /\ \/ /\ accepted
            /\ firewall' = [firewall EXCEPT ![a] = @ \cup {x}]
            /\ active' = [active EXCEPT ![a] = Recorded(a, x, expiry)]
         \/ ~accepted /\ UNCHANGED <<firewall, active>>
  BY InstalledBan
<1>2. /\ a \in Agents /\ Recorded(a, x, expiry) \in BanTables
      /\ Recorded(a, x, expiry)[x] = expiry
      /\ \A y \in Addresses : y # x => Recorded(a, x, expiry)[y] = active[a][y]
  BY RecordedBans
<1>3. \A b \in Agents, y \in Addresses :
        /\ firewall[b] \subseteq firewall'[b]
        /\ b \notin running => active'[b] = active[b]
        /\ active'[b][y] # NoBan => active[b][y] # NoBan \/ y \in firewall'[b]
  BY ZenonT(60), <1>1, <1>2 DEF BanTypeOK
<1> QED BY <1>3 DEF EnforcedOrLost, Enforcing, Holds

-----------------------------------------------------------------------------
(* One lemma per kind of step                                              *)

LEMMA DetectStep ==
  ASSUME BanInv, NEW a \in Agents, NEW x \in Addresses, NEW ts \in Times,
         Detect(a, x, ts)
  PROVE  BanInv'
<1>1. /\ a \in running /\ x \notin ignored[a] /\ ts <= now /\ now <= Horizon
      /\ UNCHANGED <<ignored, now, running, remote, saved, ordered, lost>>
  BY DEF Detect
<1>2. PICK kept \in 0 .. failures[a][x], threshold \in Thresholds(a, x) :
        LET attempts == IF kept < MaxRetry THEN kept + 1 ELSE MaxRetry
        IN \/ /\ attempts < threshold
              /\ failures' = [failures EXCEPT ![a][x] = attempts]
              /\ UNCHANGED <<firewall, active, local, granted>>
           \/ /\ attempts >= threshold
              /\ \E duration \in Durations, accepted \in Outcomes :
                   /\ InstallBan(a, x, ts + duration, accepted)
                   /\ failures' = [failures EXCEPT ![a][x] = IF accepted THEN 0 ELSE attempts]
                   /\ granted' = granted \cup (IF accepted THEN {<<x, ts + duration>>} ELSE {})
  BY DEF Detect
<1> DEFINE attempts == IF kept < MaxRetry THEN kept + 1 ELSE MaxRetry
<1>3. attempts \in 0 .. MaxRetry /\ 0 \in 0 .. MaxRetry
  BY BanAssumption DEF BanInv, BanTypeOK
<1> HIDE DEF attempts
<1>4. \A n \in 0 .. MaxRetry :
        [failures EXCEPT ![a][x] = n] \in [Agents -> [Addresses -> 0 .. MaxRetry]]
  BY DEF BanInv, BanTypeOK
<1>5. CASE UNCHANGED <<firewall, active, local, granted>>
           /\ failures' = [failures EXCEPT ![a][x] = attempts]
  <2>1. BanTypeOK'
    BY <1>1, <1>3, <1>4, <1>5 DEF BanInv, BanTypeOK
  <2> QED BY <2>1, <1>1, <1>5 DEF BanInv, HubMirrorsJail, AllGranted, EnforcedOrLost,
                                Enforcing, Holds, IgnoredUnlessOrdered
<1>6. ASSUME NEW duration \in Durations, NEW accepted \in Outcomes,
             InstallBan(a, x, ts + duration, accepted),
             failures' = [failures EXCEPT ![a][x] = IF accepted THEN 0 ELSE attempts],
             granted' = granted \cup (IF accepted THEN {<<x, ts + duration>>} ELSE {})
      PROVE  BanInv'
  <2>1. ts + duration \in Expiries /\ accepted \in BOOLEAN
    BY <1>1, OutcomeIsBoolean, ExpiryInRange DEF BanInv, BanTypeOK
  <2>2. BanTypeOK'
    <3>1. failures' \in [Agents -> [Addresses -> 0 .. MaxRetry]]
      BY <1>3, <1>4, <1>6, <2>1
    <3>2. granted' \subseteq Addresses \X Expiries
      BY <1>6, <2>1 DEF BanInv, BanTypeOK
    <3> QED BY <1>1, <1>6, <2>1, <3>1, <3>2, InstallTypes DEF BanInv, BanTypeOK, HubMirrorsJail
  <2>3. HubMirrorsJail' /\ AllGranted' /\ EnforcedOrLost'
    BY <1>1, <1>6, <2>1, InstallTypes, InstallGranted, InstallEnforced
       DEF BanInv, HubMirrorsJail
  <2>4. IgnoredUnlessOrdered'
    BY <1>1, <1>6, <2>1, InstallIgnored DEF BanInv
  <2> QED BY <2>2, <2>3, <2>4 DEF BanInv
<1> QED BY <1>2, <1>5, <1>6 DEF attempts

LEMMA OperatorBanStep ==
  ASSUME BanInv, NEW a \in Agents, NEW x \in Addresses, NEW expiry,
         expiry = Never \/ \E d \in Durations : expiry = now + d,
         OperatorBan(a, x, expiry)
  PROVE  BanInv'
<1>1. PICK accepted \in Outcomes :
        /\ InstallBan(a, x, expiry, accepted)
        /\ granted' = granted \cup (IF accepted THEN {<<x, expiry>>} ELSE {})
  BY DEF OperatorBan
<1>2. /\ a \in running /\ now <= Horizon
      /\ ordered' = [ordered EXCEPT ![a] = @ \cup {x}]
      /\ UNCHANGED <<ignored, now, running, failures, remote, saved, lost>>
  BY DEF OperatorBan
<1>3. expiry \in Expiries /\ accepted \in BOOLEAN
  <2>1. CASE expiry = Never
    BY <2>1, OutcomeIsBoolean DEF Expiries
  <2>2. ASSUME NEW d \in Durations, expiry = now + d PROVE expiry \in Expiries
    <3>1. now \in Times /\ now <= now /\ now <= Horizon
      BY <1>2 DEF BanInv, BanTypeOK, Times
    <3> QED BY <3>1, <2>2, ExpiryInRange
  <2> QED BY <2>1, <2>2, OutcomeIsBoolean
<1>4. BanTypeOK'
  <2>1. granted' \subseteq Addresses \X Expiries /\ ordered' \in [Agents -> SUBSET Addresses]
    BY <1>1, <1>2, <1>3 DEF BanInv, BanTypeOK
  <2> QED BY <1>1, <1>2, <1>3, <2>1, InstallTypes DEF BanInv, BanTypeOK, HubMirrorsJail
<1>5. HubMirrorsJail' /\ AllGranted' /\ EnforcedOrLost'
  BY <1>1, <1>2, <1>3, InstallTypes, InstallGranted, InstallEnforced DEF BanInv, HubMirrorsJail
<1>6. IgnoredUnlessOrdered'
  <2>1. x \in ordered'[a] /\ \A b \in Agents : ordered[b] \subseteq ordered'[b]
    BY <1>2 DEF BanInv, BanTypeOK
  <2> QED BY <1>1, <1>2, <1>3, <2>1, InstallIgnored DEF BanInv
<1> QED BY <1>4, <1>5, <1>6 DEF BanInv

LEMMA OperatorUnbanStep ==
  ASSUME BanInv, NEW a \in Agents, NEW x \in Addresses, OperatorUnban(a, x)
  PROVE  BanInv'
<1>1. /\ a \in running
      /\ firewall' = [firewall EXCEPT ![a] = @ \ {x}]
      /\ active' = [active EXCEPT ![a] = Without(@, {x})]
      /\ local' = active'
      /\ UNCHANGED <<ignored, now, running, failures, remote, saved, granted, ordered, lost>>
  BY DEF OperatorUnban, AdvertisedWithout, banHistory, BanInv, BanTypeOK, HubMirrorsJail
<1>2. Without(active[a], {x}) \in BanTables
  BY DEF Without, BanInv, BanTypeOK, BanTables
<1>3. BanTypeOK'
  BY <1>1, <1>2 DEF BanInv, BanTypeOK, HubMirrorsJail
<1>4. HubMirrorsJail'
  BY <1>1 DEF HubMirrorsJail
<1>5. AllGranted'
  BY <1>1 DEF Without, BanInv, BanTypeOK, AllGranted, Holds
<1>6. EnforcedOrLost'
  BY <1>1 DEF Without, BanInv, BanTypeOK, EnforcedOrLost, Enforcing, Holds
<1>7. IgnoredUnlessOrdered'
  BY <1>1 DEF BanInv, BanTypeOK, IgnoredUnlessOrdered
<1> QED BY <1>3, <1>4, <1>5, <1>6, <1>7 DEF BanInv

\* The ban adopted from a peer is one the peer advertised, and the host does
\* not ignore its address.
LEMMA UnbanTickStep ==
  ASSUME BanInv, NEW a \in Agents, UnbanTick(a)
  PROVE  BanInv'
<1>1. PICK released \in SUBSET Due(a) : \E adopted \in SUBSET Adoptable(a, released) :
       /\ "firewall" \notin BanFaults => released = Due(a) /\ adopted = Adoptable(a, released)
       /\ \E source \in [adopted -> Agents] :
            LET After(bans) == [x \in Addresses |->
                  IF x \in adopted THEN Adopted(a, source[x], x) ELSE bans[x]]
            IN /\ \A x \in adopted : source[x] \in Sources(a, x, released)
               /\ firewall' = [firewall EXCEPT ![a] = (@ \ released) \cup adopted]
               /\ active' = [active EXCEPT ![a] = After(Without(@, released))]
               /\ local' = [local EXCEPT ![a] = After(AdvertisedWithout(a, released))]
  BY DEF UnbanTick
<1>2. PICK adopted \in SUBSET Adoptable(a, released) : \E source \in [adopted -> Agents] :
        /\ \A x \in adopted : source[x] \in Sources(a, x, released)
        /\ firewall' = [firewall EXCEPT ![a] = (@ \ released) \cup adopted]
        /\ active' = [active EXCEPT ![a] = [x \in Addresses |->
             IF x \in adopted THEN Adopted(a, source[x], x)
             ELSE Without(active[a], released)[x]]]
        /\ local' = [local EXCEPT ![a] = [x \in Addresses |->
             IF x \in adopted THEN Adopted(a, source[x], x)
             ELSE AdvertisedWithout(a, released)[x]]]
  BY <1>1
<1>2a. PICK source \in [adopted -> Agents] :
        /\ \A x \in adopted : source[x] \in Sources(a, x, released)
        /\ firewall' = [firewall EXCEPT ![a] = (@ \ released) \cup adopted]
        /\ active' = [active EXCEPT ![a] = [x \in Addresses |->
             IF x \in adopted THEN Adopted(a, source[x], x)
             ELSE Without(active[a], released)[x]]]
        /\ local' = [local EXCEPT ![a] = [x \in Addresses |->
             IF x \in adopted THEN Adopted(a, source[x], x)
             ELSE AdvertisedWithout(a, released)[x]]]
  BY <1>2
<1>3. /\ a \in running /\ adopted \subseteq Addresses /\ released \subseteq Addresses
      /\ UNCHANGED <<ignored, now, running, failures, remote, saved, granted, ordered, lost>>
  BY DEF UnbanTick, banHistory, Adoptable, Due
<1>4. \A x \in adopted :
        /\ x \notin ignored[a] /\ source[x] \in Agents
        /\ Holds(remote[a][source[x]], x)
        /\ Adopted(a, source[x], x) = remote[a][source[x]][x]
  BY <1>2a DEF Sources, Enforceable, InForce, Adopted
<1> DEFINE new == [x \in Addresses |->
             IF x \in adopted THEN remote[a][source[x]][x]
             ELSE IF x \in released THEN NoBan ELSE active[a][x]]
<1>5. active' = [active EXCEPT ![a] = new]
  BY <1>2a, <1>3, <1>4 DEF Without, BanInv, BanTypeOK
<1>6. local' = active'
  BY <1>2a, <1>3, <1>4, <1>5 DEF Without, AdvertisedWithout, BanInv, BanTypeOK, HubMirrorsJail
<1>7. new \in BanTables
  BY <1>3, <1>4 DEF BanInv, BanTypeOK, BanTables
<1>8. \A x \in Addresses : Holds(new, x) =>
        /\ <<x, new[x]>> \in granted
        /\ x \notin adopted => x \notin released /\ Holds(active[a], x)
  BY <1>3, <1>4 DEF Holds, BanInv, AllGranted
<1> HIDE DEF new
<1>9. BanTypeOK'
  <2>1. firewall' \in [Agents -> SUBSET Addresses]
    BY <1>2a, <1>3 DEF BanInv, BanTypeOK
  <2>2. active' \in [Agents -> BanTables] /\ local' \in [Agents -> BanTables]
    BY <1>5, <1>6, <1>7 DEF BanInv, BanTypeOK
  <2>3. \A b \in Agents \ running : active'[b] = NoBans /\ local'[b] = NoBans
    BY <1>3, <1>5, <1>6 DEF BanInv, BanTypeOK
  <2> QED BY <1>3, <2>1, <2>2, <2>3 DEF BanInv, BanTypeOK
<1>10. HubMirrorsJail'
  BY <1>6 DEF HubMirrorsJail
<1>11. AllGranted'
  BY <1>3, <1>5, <1>8 DEF BanInv, BanTypeOK, AllGranted, Holds
<1>12. EnforcedOrLost'
  BY ZenonT(60), <1>2a, <1>3, <1>5, <1>8 DEF BanInv, BanTypeOK, EnforcedOrLost, Enforcing, Holds
<1>13. IgnoredUnlessOrdered'
  BY <1>2a, <1>3, <1>4 DEF BanInv, BanTypeOK, IgnoredUnlessOrdered
<1> QED BY <1>9, <1>10, <1>11, <1>12, <1>13 DEF BanInv

LEMMA DiscoveryStep ==
  ASSUME BanInv, NEW a \in Agents, NEW b \in Agents, Hear(a, b) \/ Forget(a, b)
  PROVE  BanInv'
<1>1. PICK heard \in {Unexpired(local[b]), NoBans} :
        remote' = [remote EXCEPT ![a][b] = heard]
  BY DEF Hear, Forget
<1>2. UNCHANGED <<ignored, now, running, firewall, active, failures, local, saved,
                  granted, ordered, lost>>
  BY DEF Hear, Forget, banHistory
<1>3. /\ heard \in BanTables
      /\ \A x \in Addresses : Holds(heard, x) => <<x, heard[x]>> \in granted
  <2>1. local[b] = active[b] /\ active[b] \in BanTables
    BY DEF BanInv, BanTypeOK, HubMirrorsJail
  <2>2. \A x \in Addresses : Holds(active[b], x) => <<x, active[b][x]>> \in granted
    BY DEF BanInv, AllGranted
  <2> QED BY <2>1, <2>2, UnexpiredIsThere, NoBansIsEmpty
<1>4. BanTypeOK'
  BY <1>1, <1>2, <1>3 DEF BanInv, BanTypeOK
<1>5. AllGranted'
  BY <1>1, <1>2, <1>3 DEF BanInv, BanTypeOK, AllGranted, Holds
<1>6. HubMirrorsJail' /\ EnforcedOrLost' /\ IgnoredUnlessOrdered'
  BY <1>2 DEF BanInv, HubMirrorsJail, EnforcedOrLost, Enforcing, Holds, IgnoredUnlessOrdered
<1> QED BY <1>4, <1>5, <1>6 DEF BanInv

\* A stop saves what is enforced; a crash that finds the file behind the jail
\* has lost changes.
LEMMA DownStep ==
  ASSUME BanInv, NEW a \in Agents, StopAgent(a) \/ CrashAgent(a) \/ TearAgent(a)
  PROVE  BanInv'
<1>1. /\ a \in running /\ running' = running \ {a}
      /\ active' = [active EXCEPT ![a] = NoBans]
      /\ failures' = [failures EXCEPT ![a] = NoFailures]
      /\ local' = [local EXCEPT ![a] = NoBans]
      /\ remote' = [remote EXCEPT ![a] = [b \in Agents |-> NoBans]]
      /\ UNCHANGED <<ignored, now, firewall, granted, ordered>>
  BY DEF StopAgent, CrashAgent, TearAgent, LoseMemory, banHistory
<1>2. PICK file \in {active[a], saved[a], NoBans} :
        /\ saved' = [saved EXCEPT ![a] = file]
        /\ \E l \in BOOLEAN : lost' = [lost EXCEPT ![a] = l]
        /\ ~lost'[a] => ~lost[a] /\ file = active[a]
  <2>1. CASE StopAgent(a)
    BY <2>1 DEF StopAgent, SavedOnStop, banHistory, BanInv, BanTypeOK
  <2>2. CASE CrashAgent(a)
    <3>1. saved' = [saved EXCEPT ![a] = saved[a]]
      BY <2>2 DEF CrashAgent, BanInv, BanTypeOK
    <3>2. lost' = [lost EXCEPT ![a] = @ \/ saved[a] # active[a]] /\ lost \in [Agents -> BOOLEAN]
      BY <2>2 DEF CrashAgent, BanInv, BanTypeOK
    <3>3. ~lost'[a] => ~lost[a] /\ saved[a] = active[a]
      BY <3>2, Zenon
    <3>4. \E l \in BOOLEAN : lost' = [lost EXCEPT ![a] = l]
      <4> DEFINE l == lost[a] \/ saved[a] # active[a]
      <4>1. l \in BOOLEAN
        OBVIOUS
      <4>2. lost' = [lost EXCEPT ![a] = l]
        BY <3>2
      <4> QED BY <4>1, <4>2
    <3> QED BY <3>1, <3>3, <3>4, Zenon
  <2>3. CASE TearAgent(a)
    BY <2>3 DEF TearAgent, BanInv, BanTypeOK
  <2> QED BY <2>1, <2>2, <2>3
<1>3. /\ file \in BanTables
      /\ \A x \in Addresses : Holds(file, x) => <<x, file[x]>> \in granted
  <2>1. CASE file = active[a]
    BY <2>1 DEF BanInv, BanTypeOK, AllGranted
  <2>2. CASE file = saved[a]
    BY <2>2 DEF BanInv, BanTypeOK, AllGranted
  <2>3. CASE file = NoBans
    BY <2>3, NoBansIsEmpty
  <2> QED BY <2>1, <2>2, <2>3
<1>4. BanTypeOK'
  <2>1. NoFailures \in [Addresses -> 0 .. MaxRetry]
    BY BanAssumption DEF NoFailures
  <2> QED BY <1>1, <1>2, <1>3, <2>1, NoBansIsEmpty DEF BanInv, BanTypeOK
<1>5. HubMirrorsJail'
  BY <1>1 DEF BanInv, HubMirrorsJail
<1>6. AllGranted'
  BY <1>1, <1>2, <1>3, NoBansIsEmpty DEF BanInv, BanTypeOK, AllGranted
<1>7. EnforcedOrLost'
  BY <1>1, <1>2 DEF BanInv, BanTypeOK, EnforcedOrLost, Enforcing
<1>8. IgnoredUnlessOrdered'
  BY <1>1 DEF BanInv, IgnoredUnlessOrdered
<1> QED BY <1>4, <1>5, <1>6, <1>7, <1>8 DEF BanInv

LEMMA StartStep ==
  ASSUME BanInv, NEW a \in Agents, StartAgent(a)
  PROVE  BanInv'
<1> DEFINE restored == Unexpired(saved[a])
<1>1. /\ a \notin running /\ running' = running \cup {a}
      /\ active' = [active EXCEPT ![a] = restored]
      /\ local' = [local EXCEPT ![a] = restored]
      /\ UNCHANGED <<ignored, now, firewall, failures, remote, saved, granted, ordered, lost>>
  BY DEF StartAgent, banHistory
<1>2. /\ restored \in BanTables
      /\ \A x \in Addresses : Holds(restored, x) =>
           Holds(saved[a], x) /\ restored[x] = saved[a][x]
  BY UnexpiredIsThere DEF BanInv, BanTypeOK
<1> HIDE DEF restored
<1>3. BanTypeOK' /\ HubMirrorsJail'
  BY <1>1, <1>2 DEF BanInv, BanTypeOK, HubMirrorsJail
<1>4. AllGranted'
  BY <1>1, <1>2 DEF BanInv, BanTypeOK, AllGranted, Holds
<1>5. EnforcedOrLost'
  BY <1>1, <1>2 DEF BanInv, BanTypeOK, EnforcedOrLost, Enforcing
<1>6. IgnoredUnlessOrdered'
  BY <1>1 DEF BanInv, IgnoredUnlessOrdered
<1> QED BY <1>3, <1>4, <1>5, <1>6 DEF BanInv

LEMMA PersistStep ==
  ASSUME BanInv, NEW a \in Agents, Persist(a)
  PROVE  BanInv'
<1>1. /\ a \in running /\ saved' = [saved EXCEPT ![a] = active[a]]
      /\ UNCHANGED <<ignored, now, running, firewall, active, failures, local, remote,
                     granted, ordered, lost>>
  BY DEF Persist, banMemory, banHistory
<1> QED BY <1>1 DEF BanInv, BanTypeOK, HubMirrorsJail, AllGranted, EnforcedOrLost,
                    Enforcing, Holds, IgnoredUnlessOrdered

LEMMA AdvanceStep == BanInv /\ Advance => BanInv'
<1> SUFFICES ASSUME BanInv, Advance PROVE BanInv'
  OBVIOUS
<1>1. now' \in Times
  BY BanAssumption DEF Advance, Times, BanInv, BanTypeOK
<1>2. UNCHANGED <<ignored, running, firewall, active, failures, local, remote, saved,
                  granted, ordered, lost>>
  BY DEF Advance, banMemory, banHistory
<1> QED BY <1>1, <1>2 DEF BanInv, BanTypeOK, HubMirrorsJail, AllGranted, EnforcedOrLost,
                         Enforcing, Holds, IgnoredUnlessOrdered

LEMMA BanInvStep == BanInv /\ [BanNext]_banVars => BanInv'
<1> SUFFICES ASSUME BanInv, [BanNext]_banVars PROVE BanInv'
  OBVIOUS
<1>1. CASE UNCHANGED banVars
  BY <1>1 DEF banVars, banMemory, banHistory, BanInv, BanTypeOK, HubMirrorsJail, AllGranted,
             EnforcedOrLost, Enforcing, Holds, IgnoredUnlessOrdered
<1>2. CASE BanNext
  BY <1>2, DetectStep, OperatorBanStep, OperatorUnbanStep, UnbanTickStep, DiscoveryStep,
     DownStep, StartStep, PersistStep, AdvanceStep DEF BanNext
<1> QED BY <1>1, <1>2

\* The inductive invariant of TraceyBan: the jails, the advertisements, the
\* files and the firewalls of all hosts correspond at every step.
THEOREM BanSafe == BanSpec => []BanInv
BY BanInvInit, BanInvStep, PTL DEF BanSpec

\* BanTypeOK, for any hosts and addresses.
THEOREM BanTypes == BanSpec => []BanTypeOK
<1>1. BanInv => BanTypeOK
  BY DEF BanInv
<1> QED BY <1>1, BanSafe, PTL

\* install_ban_record, uninstall_ban_record, restore_persisted_bans: no refused
\* command, stop or restart parts an active ban from its firewall rule, or what a
\* host advertises from a ban of its own.
THEOREM BansEnforced == BanSpec => []BansAreEnforced
<1>1. BanInv => BansAreEnforced
  BY DEF BanInv, BanTypeOK, EnforcedOrLost, Enforcing, HubMirrorsJail, BansAreEnforced
<1> QED BY <1>1, BanSafe, PTL

\* process_remote_bans: however long bans travel between the hosts, none is
\* held beyond the expiry a detection or an operator gave it.
THEOREM BansKeepTheirExpiry == BanSpec => []NoBanOutlivesItsOrigin
<1>1. BanInv => NoBanOutlivesItsOrigin
  BY DEF BanInv, AllGranted, NoBanOutlivesItsOrigin
<1> QED BY <1>1, BanSafe, PTL

\* An ignored address is blocked only where an operator ordered it.
THEOREM IgnoredAreSpared == BanSpec => []IgnoredUnlessOrdered
<1>1. BanInv => IgnoredUnlessOrdered
  BY DEF BanInv
<1> QED BY <1>1, BanSafe, PTL
-----------------------------------------------------------------------------
(* TraceyGuard: what happens to a device is decided by its own record      *)

DeviceRecords ==
  [state : GuardStates, reliability : 0 .. MaxReliability,
   fails : 0 .. ImmediateFailures, passes : 0 .. DeepPasses]

\* How the record of a device corresponds to its passes in a row: deep test
\* counts no more than there were, quarantine has a reason, and nothing but
\* quarantine has as many failures as lead there.
Consistent(dev, passesInARow) ==
  /\ dev.state = "DeepTest" => dev.passes <= passesInARow
  /\ dev.state # "DeepTest" => dev.passes = 0
  /\ dev.state = "Quarantined" => dev.fails > 0 \/ dev.reliability < TrustedFrom
  /\ dev.state = "Healthy" => dev.fails = 0
  /\ ImmediateFailures > 1 /\ dev.state # "Quarantined" => dev.fails < ImmediateFailures

\* The inductive invariant.
LifecycleInv ==
  /\ device \in [Discovered -> DeviceRecords]
  /\ streak \in [Discovered -> 0 .. DeepPasses]
  /\ results \in Seq([device : Discovered, passed : BOOLEAN])
  /\ \A d \in Discovered : Consistent(device[d], streak[d])

NextStreak(k, passed) == IF passed THEN LesserOf(k + 1, DeepPasses) ELSE 0

\* The ways an outcome may move a device.
Worsening ==
  {<<"Healthy", "Suspect">>, <<"Suspect", "Quarantined">>, <<"DeepTest", "Quarantined">>}

-----------------------------------------------------------------------------
\* What the count is made of are numbers.
LEMMA Numbers ==
  /\ ImmediateFailures \in Nat /\ ImmediateFailures >= 1 /\ DeepPasses \in Nat /\ DeepPasses >= 1
  /\ MaxReliability \in Nat /\ QuarantineBelow \in Nat /\ SuspectBelow \in Nat /\ TrustedFrom \in Nat
  /\ QuarantineBelow <= SuspectBelow /\ SuspectBelow <= TrustedFrom
BY GuardNumbersAssumption, ThresholdsAssumption

\* The last match of register_probe_outcome, field by field.
LEMMA JudgedFields ==
  ASSUME NEW dev \in DeviceRecords
  PROVE  /\ Judged(dev) \in DeviceRecords
         /\ Judged(dev).fails = dev.fails /\ Judged(dev).reliability = dev.reliability
         /\ dev.state = "Healthy" => Judged(dev).state =
              (IF dev.reliability < SuspectBelow \/ dev.fails >= 1 THEN "Suspect" ELSE "Healthy")
         /\ dev.state \in {"Suspect", "DeepTest"} => Judged(dev).state =
              (IF Unreliable(dev) THEN "Quarantined" ELSE dev.state)
         /\ dev.state = "Quarantined" => Judged(dev).state =
              (IF dev.reliability >= TrustedFrom /\ dev.fails = 0 THEN "DeepTest" ELSE "Quarantined")
         /\ Judged(dev).passes =
              (IF Judged(dev).state \in {dev.state, "DeepTest"} THEN dev.passes ELSE 0)
<1>n. 0 \in 0 .. DeepPasses
  BY Numbers
<1>b. \A s \in GuardStates :
        /\ Become(dev, s) \in DeviceRecords
        /\ Become(dev, s).state = s /\ Become(dev, s).fails = dev.fails
        /\ Become(dev, s).reliability = dev.reliability
        /\ Become(dev, s).passes = IF s = "DeepTest" THEN dev.passes ELSE 0
  BY <1>n DEF Become, DeviceRecords
<1>1. CASE dev.state = "Healthy"
  BY <1>1, <1>b DEF Judged, GuardStates
<1>2. CASE dev.state \in {"Suspect", "DeepTest"}
  BY <1>2, <1>b DEF Judged, GuardStates
<1>3. CASE dev.state = "Quarantined"
  BY <1>3, <1>b DEF Judged, GuardStates
<1> QED
  BY <1>1, <1>2, <1>3 DEF DeviceRecords, GuardStates

\* The first match of register_probe_outcome, for a pass.
LEMMA PassedFields ==
  ASSUME NEW dev \in DeviceRecords, NEW reliability \in 0 .. MaxReliability
  PROVE  LET met == Passed(dev, reliability)
             n == LesserOf(dev.passes + 1, DeepPasses)
         IN /\ met \in DeviceRecords /\ met.fails = 0 /\ met.reliability = reliability
            /\ dev.state \in {"Healthy", "Quarantined"}
                 => met.state = dev.state /\ met.passes = dev.passes
            /\ dev.state = "Suspect" => \/ met.state = "Suspect" /\ met.passes = dev.passes
                                        \/ met.state = "Healthy" /\ met.passes = 0
            /\ dev.state = "DeepTest" =>
                 \/ met.state = "DeepTest" /\ met.passes = n
                 \/ met.state = "Healthy" /\ met.passes = 0 /\ n >= DeepPasses
<1>n. /\ 0 \in 0 .. DeepPasses /\ 0 \in 0 .. ImmediateFailures
      /\ dev.passes \in 0 .. DeepPasses /\ LesserOf(dev.passes + 1, DeepPasses) \in 0 .. DeepPasses
  BY Numbers DEF LesserOf, DeviceRecords
<1> DEFINE counted == [dev EXCEPT !.reliability = reliability, !.fails = 0,
               !.passes = IF dev.state = "DeepTest" THEN LesserOf(@ + 1, DeepPasses) ELSE @]
<1>1. /\ counted \in DeviceRecords /\ counted.state = dev.state /\ counted.fails = 0
      /\ counted.reliability = reliability
      /\ counted.passes = IF dev.state = "DeepTest" THEN LesserOf(dev.passes + 1, DeepPasses)
                          ELSE dev.passes
  BY <1>n DEF DeviceRecords
<1>2. /\ Become(counted, "Healthy") \in DeviceRecords
      /\ Become(counted, "Healthy").state = "Healthy" /\ Become(counted, "Healthy").fails = 0
      /\ Become(counted, "Healthy").reliability = reliability
      /\ Become(counted, "Healthy").passes = 0
  BY <1>1, <1>n DEF Become, DeviceRecords, GuardStates
<1>3. Passed(dev, reliability) =
        IF \/ dev.state = "DeepTest" /\ counted.passes >= DeepPasses /\ reliability >= TrustedFrom
           \/ dev.state = "Suspect" /\ reliability >= SuspectBelow
          THEN Become(counted, "Healthy") ELSE counted
  BY DEF Passed
<1> HIDE DEF counted
<1> QED
  BY <1>1, <1>2, <1>3

\* register_probe_outcome keeps a consistent record consistent; it makes a
\* device in deep test healthy only after enough passes in a row, and a failure
\* only makes it worse.
LEMMA OutcomeKeeps ==
  ASSUME NEW dev \in DeviceRecords, NEW k \in 0 .. DeepPasses, Consistent(dev, k),
         NEW passed \in BOOLEAN, NEW reliability \in NextReliability(dev, passed),
         NEW credible \in BOOLEAN
  PROVE  /\ Outcome(dev, passed, reliability, credible) \in DeviceRecords
         /\ Consistent(Outcome(dev, passed, reliability, credible), NextStreak(k, passed))
         /\ dev.state \in {"Quarantined", "DeepTest"}
              /\ Outcome(dev, passed, reliability, credible).state = "Healthy"
              => NextStreak(k, passed) >= DeepPasses
         /\ ~passed /\ Outcome(dev, passed, reliability, credible).state # dev.state
              => <<dev.state, Outcome(dev, passed, reliability, credible).state>> \in Worsening
<1>r. /\ reliability \in 0 .. MaxReliability
      /\ ~passed => reliability <= dev.reliability
      /\ dev.reliability \in Nat /\ dev.fails \in 0 .. ImmediateFailures
      /\ dev.passes \in 0 .. DeepPasses /\ dev.state \in GuardStates
  BY Numbers DEF NextReliability, DeviceRecords
<1>k. NextStreak(k, passed) \in 0 .. DeepPasses
  BY Numbers DEF NextStreak, LesserOf
<1>1. CASE passed
  <2> DEFINE met == Passed(dev, reliability)
             n == LesserOf(dev.passes + 1, DeepPasses)
  <2>1. Outcome(dev, passed, reliability, credible) = Judged(met)
    BY <1>1 DEF Outcome
  <2>2. dev.state = "DeepTest" => n <= NextStreak(k, passed)
    BY <1>1, <1>r, Numbers DEF LesserOf, NextStreak, Consistent
  <2>3. /\ met \in DeviceRecords /\ met.fails = 0 /\ met.reliability = reliability
        /\ dev.state \in {"Healthy", "Quarantined"}
             => met.state = dev.state /\ met.passes = 0
        /\ dev.state = "Suspect" => met.state \in {"Suspect", "Healthy"} /\ met.passes = 0
        /\ dev.state = "DeepTest" =>
             \/ met.state = "DeepTest" /\ met.passes = n
             \/ met.state = "Healthy" /\ met.passes = 0 /\ n >= DeepPasses
    BY <1>r, PassedFields DEF Consistent
  <2>n. n \in Nat
    BY <1>r, Numbers DEF LesserOf
  <2> HIDE DEF met, n
  <2>4. Judged(met) \in DeviceRecords
    BY <2>3, JudgedFields
  <2>5. Consistent(Judged(met), NextStreak(k, passed))
    <3>1. CASE dev.state \in {"Healthy", "Suspect"}
      <4>1. /\ Judged(met).state \in {"Healthy", "Suspect", "Quarantined"}
            /\ Judged(met).passes = 0 /\ Judged(met).fails = 0
            /\ Judged(met).state = "Quarantined" => Judged(met).reliability < QuarantineBelow
        BY <2>3, <3>1, <1>r, JudgedFields, Numbers DEF Unreliable
      <4>2. Judged(met).reliability \in Nat
        BY <2>3, <1>r, JudgedFields, Numbers
      <4> QED
        BY <4>1, <4>2, <1>k, Numbers DEF Consistent
    <3>2. CASE dev.state = "Quarantined"
      <4>1. /\ Judged(met).passes = 0 /\ Judged(met).fails = 0
            /\ \/ Judged(met).state = "DeepTest"
               \/ Judged(met).state = "Quarantined" /\ Judged(met).reliability < TrustedFrom
        BY <2>3, <3>2, <1>r, JudgedFields, Numbers
      <4> QED
        BY <4>1, <1>k, Numbers DEF Consistent
    <3>3. CASE dev.state = "DeepTest"
      <4>1. /\ Judged(met).fails = 0
            /\ \/ Judged(met).state = "DeepTest" /\ Judged(met).passes = n
               \/ Judged(met).state \in {"Healthy", "Suspect"} /\ Judged(met).passes = 0
               \/ /\ Judged(met).state = "Quarantined" /\ Judged(met).passes = 0
                  /\ Judged(met).reliability < QuarantineBelow
        BY <2>3, <3>3, <1>r, JudgedFields, Numbers DEF Unreliable
      <4>2. Judged(met).reliability \in Nat
        BY <2>3, <1>r, JudgedFields, Numbers
      <4> QED
        BY <4>1, <4>2, <2>2, <3>3, <1>k, Numbers DEF Consistent
    <3> QED
      BY <3>1, <3>2, <3>3, <1>r DEF GuardStates
  <2>6. dev.state \in {"Quarantined", "DeepTest"} /\ Judged(met).state = "Healthy"
          => NextStreak(k, passed) >= DeepPasses
    BY <2>2, <2>3, <2>n, <1>k, JudgedFields, Numbers
  <2> QED
    BY <1>1, <2>1, <2>4, <2>5, <2>6
<1>2. CASE ~passed
  <2> DEFINE met == Failed(dev, reliability, credible)
  <2>1. Outcome(dev, passed, reliability, credible) = Judged(met)
    BY <1>2 DEF Outcome
  <2>2. NextStreak(k, passed) = 0
    BY <1>2 DEF NextStreak
  <2>3. /\ met \in DeviceRecords /\ met.state = dev.state /\ met.passes = 0
        /\ met.reliability = reliability /\ met.fails \in Nat
        /\ dev.fails <= met.fails /\ met.fails <= dev.fails + 1
    <3>1. LesserOf(dev.fails + 1, ImmediateFailures) \in dev.fails .. ImmediateFailures
          /\ LesserOf(dev.fails + 1, ImmediateFailures) <= dev.fails + 1
      BY <1>r, Numbers DEF LesserOf
    <3> DEFINE fails == IF credible THEN LesserOf(dev.fails + 1, ImmediateFailures) ELSE dev.fails
    <3>2. /\ fails \in 0 .. ImmediateFailures /\ dev.fails <= fails /\ fails <= dev.fails + 1
          /\ 0 \in 0 .. DeepPasses
      BY <3>1, <1>r, Numbers
    <3>3. met = [dev EXCEPT !.reliability = reliability, !.passes = 0, !.fails = fails]
      BY DEF Failed
    <3> HIDE DEF fails, met
    <3>4. met \in DeviceRecords /\ met.state = dev.state /\ met.passes = 0
          /\ met.reliability = reliability /\ met.fails = fails
      BY <3>2, <3>3, <1>r DEF DeviceRecords
    <3> QED
      BY <3>2, <3>4, Numbers
  <2> HIDE DEF met
  <2>4. Judged(met) \in DeviceRecords
    BY <2>3, JudgedFields
  <2>5. dev.state = "Quarantined" => Judged(met).state = "Quarantined"
    BY <2>3, <1>2, <1>r, JudgedFields, Numbers DEF Consistent
  <2>6. dev.state \in {"Suspect", "DeepTest"}
          => \/ Judged(met).state = dev.state /\ met.fails < ImmediateFailures
             \/ /\ Judged(met).state = "Quarantined"
                /\ met.fails > 0 \/ met.reliability < TrustedFrom
    BY <2>3, <1>r, JudgedFields, Numbers DEF Unreliable
  <2>7. dev.state = "Healthy"
          => \/ Judged(met).state = "Healthy" /\ met.fails = 0
             \/ Judged(met).state = "Suspect" /\ met.fails <= 1
    BY <2>3, <1>r, JudgedFields, Numbers DEF Consistent
  <2>8. dev.state = "Quarantined" => met.fails > 0 \/ met.reliability < TrustedFrom
    BY <2>3, <1>2, <1>r, Numbers DEF Consistent
  <2>9. Judged(met).fails = met.fails /\ Judged(met).reliability = met.reliability
        /\ Judged(met).passes = 0
    BY <2>3, JudgedFields
  <2>10. Consistent(Judged(met), 0)
    BY <2>5, <2>6, <2>7, <2>8, <2>9, <2>3, <1>r, Numbers DEF Consistent, GuardStates
  <2>11. Judged(met).state # "Healthy" \/ dev.state = "Healthy"
    BY <2>5, <2>6, <1>r DEF GuardStates
  <2>12. Judged(met).state # dev.state => <<dev.state, Judged(met).state>> \in Worsening
    BY <2>5, <2>6, <2>7, <1>r DEF GuardStates, Worsening
  <2> QED
    BY <1>2, <2>1, <2>2, <2>4, <2>10, <2>11, <2>12
<1> QED
  BY <1>1, <1>2

-----------------------------------------------------------------------------
(* The runtime                                                             *)

LEMMA LifecycleInit == GuardInit => LifecycleInv
<1> SUFFICES ASSUME GuardInit PROVE LifecycleInv
  OBVIOUS
<1>1. PICK found \in SUBSET Devices \ {{}} :
        /\ device = [d \in found |-> [state |-> "Healthy", reliability |-> FirstReliability,
                                      fails |-> 0, passes |-> 0]]
        /\ streak = [d \in found |-> 0]
  BY DEF GuardInit
<1>2. /\ 0 \in 0 .. DeepPasses /\ 0 \in 0 .. ImmediateFailures /\ 0 < ImmediateFailures
      /\ FirstReliability \in 0 .. MaxReliability
  BY Numbers, ThresholdsAssumption
<1>3. [state |-> "Healthy", reliability |-> FirstReliability, fails |-> 0, passes |-> 0]
        \in DeviceRecords
  BY <1>2 DEF DeviceRecords, GuardStates
<1>4. Discovered = found
  BY <1>1 DEF Discovered
<1>5. \A d \in Discovered : Consistent(device[d], streak[d])
  BY <1>1, <1>2, <1>4 DEF Consistent
<1>6. results = <<>>
  BY DEF GuardInit
<1> QED
  BY <1>1, <1>2, <1>3, <1>4, <1>5, <1>6 DEF LifecycleInv

\* What Receive does to the device its result is about, and to no other.
LEMMA ReceiveOutcome ==
  ASSUME LifecycleInv, Receive
  PROVE  \E d \in Discovered, passed \in BOOLEAN, credible \in BOOLEAN :
           \E reliability \in NextReliability(device[d], passed) :
             /\ device' = [device EXCEPT ![d] = Outcome(device[d], passed, reliability, credible)]
             /\ streak' = [streak EXCEPT ![d] = NextStreak(streak[d], passed)]
             /\ results' \in Seq([device : Discovered, passed : BOOLEAN])
<1>0. results \in Seq([device : Discovered, passed : BOOLEAN]) /\ results # <<>>
  BY DEF LifecycleInv, Receive
<1>1. /\ Head(results) \in [device : Discovered, passed : BOOLEAN]
      /\ Tail(results) \in Seq([device : Discovered, passed : BOOLEAN])
  <2> DEFINE T == [device : Discovered, passed : BOOLEAN]
  <2>1. results \in Seq(T) /\ results # <<>>
    BY <1>0
  <2> HIDE DEF T
  <2>2. Head(results) \in T /\ Tail(results) \in Seq(T)
    BY <2>1
  <2> QED
    BY <2>2 DEF T
<1>2. Head(results).device \in Discovered /\ Head(results).passed \in BOOLEAN
  BY <1>1
<1> DEFINE k == Head(results).device
           ok == Head(results).passed
<1>3. PICK reliability \in NextReliability(device[k], ok), credible \in BOOLEAN :
        device' = [device EXCEPT ![k] = Outcome(device[k], ok, reliability, credible)]
  BY DEF Receive
<1>4. streak' = [streak EXCEPT ![k] = NextStreak(streak[k], ok)]
  BY DEF Receive, NextStreak
<1>5. results' \in Seq([device : Discovered, passed : BOOLEAN])
  BY <1>1 DEF Receive
<1> HIDE DEF k, ok
<1>6. k \in Discovered /\ ok \in BOOLEAN
  BY <1>2 DEF k, ok
<1> QED
  BY <1>3, <1>4, <1>5, <1>6

LEMMA LifecycleStep == LifecycleInv /\ [GuardNext]_guardVars => LifecycleInv'
<1> SUFFICES ASSUME LifecycleInv, [GuardNext]_guardVars PROVE LifecycleInv'
  OBVIOUS
<1>1. CASE UNCHANGED <<device, streak, results>>
  BY <1>1 DEF LifecycleInv, Discovered
<1>2. ASSUME NEW d \in Devices, Finish(d) PROVE LifecycleInv'
  <2>1. PICK passed \in BOOLEAN : results' = Append(results, [device |-> d, passed |-> passed])
    BY <1>2 DEF Finish
  <2>2. UNCHANGED <<device, streak>> /\ d \in Discovered
    BY <1>2 DEF Finish, guardHistory
  <2>3. results' \in Seq([device : Discovered, passed : BOOLEAN])
    BY <2>1, <2>2 DEF LifecycleInv
  <2> QED
    BY <2>2, <2>3 DEF LifecycleInv, Discovered
<1>3. CASE Receive
  <2>1. PICK d \in Discovered, passed \in BOOLEAN, credible \in BOOLEAN :
          \E reliability \in NextReliability(device[d], passed) :
             /\ device' = [device EXCEPT ![d] = Outcome(device[d], passed, reliability, credible)]
             /\ streak' = [streak EXCEPT ![d] = NextStreak(streak[d], passed)]
             /\ results' \in Seq([device : Discovered, passed : BOOLEAN])
    BY <1>3, ReceiveOutcome
  <2>2. PICK reliability \in NextReliability(device[d], passed) :
             /\ device' = [device EXCEPT ![d] = Outcome(device[d], passed, reliability, credible)]
             /\ streak' = [streak EXCEPT ![d] = NextStreak(streak[d], passed)]
             /\ results' \in Seq([device : Discovered, passed : BOOLEAN])
    BY <2>1
  <2>3. device[d] \in DeviceRecords /\ streak[d] \in 0 .. DeepPasses /\ Consistent(device[d], streak[d])
    BY DEF LifecycleInv
  <2>4. /\ Outcome(device[d], passed, reliability, credible) \in DeviceRecords
        /\ Consistent(Outcome(device[d], passed, reliability, credible), NextStreak(streak[d], passed))
    BY <2>3, OutcomeKeeps
  <2>5. NextStreak(streak[d], passed) \in 0 .. DeepPasses
    BY <2>3, Numbers DEF NextStreak, LesserOf
  <2>6. Discovered' = Discovered
    BY <2>2 DEF Discovered, LifecycleInv
  <2>7. device' \in [Discovered -> DeviceRecords] /\ streak' \in [Discovered -> 0 .. DeepPasses]
    BY <2>2, <2>4, <2>5 DEF LifecycleInv
  <2>8. \A x \in Discovered : Consistent(device'[x], streak'[x])
    BY <2>2, <2>4 DEF LifecycleInv
  <2> QED
    BY <2>2, <2>6, <2>7, <2>8 DEF LifecycleInv
<1> QED
  BY <1>1, <1>2, <1>3 DEF GuardNext, Wake, Turn, Request, guardVars, guardHistory

\* The records of the devices correspond to what their probes found, whatever
\* the operators, the workers and the faults do.
THEOREM GuardLifecycle == GuardSpec => []LifecycleInv
  BY LifecycleInit, LifecycleStep, PTL DEF GuardSpec

\* QuarantinedAfterFailures: no device with as many credible failures in a row
\* as lead to quarantine is in any other state.
THEOREM FailuresQuarantine == GuardSpec => []QuarantinedAfterFailures
<1>1. LifecycleInv => QuarantinedAfterFailures
  <2> SUFFICES ASSUME LifecycleInv, ImmediateFailures > 1, NEW d \in Discovered,
                      device[d].fails >= ImmediateFailures
               PROVE  device[d].state = "Quarantined"
    BY DEF QuarantinedAfterFailures
  <2>1. Consistent(device[d], streak[d]) /\ device[d].fails \in Nat
    BY Numbers DEF LifecycleInv, DeviceRecords
  <2> QED
    BY <2>1, Numbers DEF Consistent
<1> QED
  BY <1>1, GuardLifecycle, PTL

\* A step that changes a device is an outcome it was given.
LEMMA ChangedByOutcome ==
  ASSUME LifecycleInv, [GuardNext]_guardVars, NEW x \in Discovered, device'[x] # device[x]
  PROVE  \E passed \in BOOLEAN, credible \in BOOLEAN :
           \E reliability \in NextReliability(device[x], passed) :
             /\ device'[x] = Outcome(device[x], passed, reliability, credible)
             /\ streak'[x] = NextStreak(streak[x], passed)
<1>1. Receive
  BY DEF GuardNext, Wake, Turn, Request, Finish, guardVars, guardHistory
<1> QED
  BY <1>1, ReceiveOutcome DEF LifecycleInv

\* ReleasedAfterDeepTest: a device comes back to health only after the passes
\* required, in a row, and a probe that did not pass only makes it worse.
THEOREM ReleaseIsEarned == GuardSpec => ReleasedAfterDeepTest
<1>1. LifecycleInv /\ [GuardNext]_guardVars =>
        [\A d \in Discovered :
           /\ device[d].state \in {"Quarantined", "DeepTest"} /\ device'[d].state = "Healthy"
                => streak'[d] >= DeepPasses
           /\ device'[d].state # device[d].state /\ streak'[d] = 0
                => <<device[d].state, device'[d].state>> \in
                     {<<"Healthy", "Suspect">>, <<"Suspect", "Quarantined">>,
                      <<"DeepTest", "Quarantined">>}]_guardVars
  <2> SUFFICES ASSUME LifecycleInv, [GuardNext]_guardVars, NEW d \in Discovered,
                      device'[d].state # device[d].state
               PROVE  /\ device[d].state \in {"Quarantined", "DeepTest"}
                         /\ device'[d].state = "Healthy" => streak'[d] >= DeepPasses
                      /\ streak'[d] = 0 => <<device[d].state, device'[d].state>> \in Worsening
    BY DEF Worsening
  <2>1. PICK passed \in BOOLEAN, credible \in BOOLEAN :
          \E reliability \in NextReliability(device[d], passed) :
             /\ device'[d] = Outcome(device[d], passed, reliability, credible)
             /\ streak'[d] = NextStreak(streak[d], passed)
    BY ChangedByOutcome
  <2>2. device[d] \in DeviceRecords /\ streak[d] \in 0 .. DeepPasses /\ Consistent(device[d], streak[d])
    BY DEF LifecycleInv
  <2>3. ASSUME device[d].state \in {"Quarantined", "DeepTest"}, device'[d].state = "Healthy"
        PROVE  streak'[d] >= DeepPasses
    BY <2>1, <2>2, <2>3, OutcomeKeeps
  <2>4. ASSUME streak'[d] = 0
        PROVE  <<device[d].state, device'[d].state>> \in Worsening
    <3>1. ~passed
      BY <2>1, <2>2, <2>4, Numbers DEF NextStreak, LesserOf
    <3> QED
      BY <2>1, <2>2, <3>1, OutcomeKeeps
  <2> QED
    BY <2>3, <2>4
<1> QED
  BY <1>1, GuardLifecycle, PTL DEF GuardSpec, ReleasedAfterDeepTest
-----------------------------------------------------------------------------
(* The permits of the workers                                              *)

\* No more permits are out than there are, and the rest of the task's state has its type.
PermitsInv ==
  /\ control \in [enabled : BOOLEAN, epoch : Nat] /\ seen \in [enabled : BOOLEAN, epoch : Nat]
  /\ acked \in Nat /\ scanned \in Nat /\ wanted \in Nat
  /\ Discovered \in SUBSET Devices \ {{}}
  /\ inFlight \in [Discovered -> Nat] /\ Free \in Nat
  /\ Len(results) <= ChannelCapacity
  /\ requests \in 0 .. MaxRequests /\ faults \in 0 .. MaxFaults

\* The permits that are out are a number.
LEMMA PermitsOut ==
  ASSUME NEW D \in SUBSET Devices, NEW f \in [D -> Nat]
  PROVE  IsFiniteSet(D) /\ SumFunction(f) = SumFunctionOnSet(f, D) /\ SumFunction(f) \in Nat
<1>1. IsFiniteSet(D)
  BY GuardSetsAssumption, FS_Subset
<1>2. SumFunction(f) = SumFunctionOnSet(f, D)
  BY DEF SumFunction
<1> QED BY <1>1, <1>2, SumElement

\* At first no worker holds a permit.
LEMMA PermitsInit == GuardInit => PermitsInv
<1> SUFFICES ASSUME GuardInit PROVE PermitsInv
  OBVIOUS
<1>1. PICK found \in SUBSET Devices \ {{}} :
        /\ Discovered = found /\ inFlight = [d \in found |-> 0]
  BY DEF GuardInit, Discovered
<1>2. SumFunction(inFlight) = 0
  <2>1. inFlight \in [found -> Nat] /\ \A d \in found : inFlight[d] = 0
    BY <1>1
  <2> QED BY <2>1, PermitsOut, SumIsZero
<1>3. inFlight \in [Discovered -> Nat] /\ Free \in Nat
  BY <1>1, <1>2, Numbers, GuardNumbersAssumption DEF Free
<1> QED BY <1>1, <1>3, GuardNumbersAssumption DEF GuardInit, PermitsInv

\* An audit takes a permit that the scheduled tasks have left.
LEMMA AuditTakes ==
  ASSUME NEW D \in SUBSET Devices, D = Discovered, NEW s, NEW audit \in Audits(s), Left(s) \in Nat
  PROVE  /\ audit \in [D -> Nat]
         /\ SumFunctionOnSet(audit, D) \in Nat /\ SumFunctionOnSet(audit, D) <= Left(s)
<1>1. NoAudit \in [D -> Nat] /\ \A d \in D : NoAudit[d] = 0
  BY DEF NoAudit
<1>2. IsFiniteSet(D) /\ SumFunctionOnSet(NoAudit, D) = 0
  BY <1>1, PermitsOut, SumIsZero
<1>3. CASE audit = NoAudit
  BY <1>1, <1>2, <1>3
<1>4. ASSUME NEW x \in D, audit = AuditOn(x), Left(s) > 0
      PROVE  audit \in [D -> Nat] /\ SumFunctionOnSet(audit, D) = 1
  <2>1. /\ audit \in [D -> Nat] /\ audit[x] = 1
        /\ \A y \in D \ {x} : audit[y] = NoAudit[y]
    BY <1>1, <1>4 DEF AuditOn
  <2>2. SumFunctionOnSet(audit, D) + NoAudit[x] = SumFunctionOnSet(NoAudit, D) + audit[x]
    BY <1>1, <1>2, <2>1, SumUpdate
  <2>3. SumFunctionOnSet(audit, D) \in Nat
    BY <1>2, <2>1, SumElement
  <2> QED BY <1>1, <1>2, <2>1, <2>2, <2>3
<1>5. audit = NoAudit \/ \E x \in D : audit = AuditOn(x) /\ Left(s) > 0
  BY DEF Audits
<1> QED BY <1>3, <1>4, <1>5

\* A wake-up hands out no more permits than are free.
LEMMA DispatchTakes ==
  ASSUME PermitsInv, NEW kinds \in SUBSET Kinds, NEW s \in Dispatches(kinds), NEW audit,
         audit \in Audits(s) \/ audit = NoAudit,
         inFlight' = [d \in Discovered |-> inFlight[d] + Share(s, d) + audit[d]], device' = device
  PROVE  inFlight' \in [Discovered -> Nat] /\ Free' \in Nat
<1> DEFINE D == Discovered
           S == kinds \X D
           h == [p \in S |-> p[2]]
           shares == [d \in D |-> Share(s, d)]
           between == [d \in D |-> inFlight[d] + shares[d]]
<1>1. /\ s \in [S -> Nat] /\ DOMAIN s = S /\ SumFunction(s) <= Free
      /\ D \in SUBSET Devices /\ IsFiniteSet(D) /\ IsFiniteSet(S)
  <2>1. s \in [S -> 0 .. MaxSamples] /\ SumFunction(s) <= Free
    BY DEF Dispatches
  <2>2. D \in SUBSET Devices /\ IsFiniteSet(D) /\ IsFiniteSet(kinds)
    BY GuardSetsAssumption, FS_Subset DEF PermitsInv
  <2>3. IsFiniteSet(S)
    <3> HIDE DEF D
    <3> QED BY <2>2, FS_Product
  <2> HIDE DEF S, D
  <2> QED BY <2>1, <2>2, <2>3, GuardNumbersAssumption
<1>2. inFlight \in [D -> Nat] /\ Free \in Nat /\ Free = MaxParallel - SumFunction(inFlight)
  BY DEF PermitsInv, Free
<1>3. SumFunction(s) = SumFunctionOnSet(s, S) /\ SumFunction(s) \in Nat
  <2>1. \A p \in S : s[p] \in Nat
    BY <1>1
  <2>2. SumFunction(s) = SumFunctionOnSet(s, S)
    <3> HIDE DEF S
    <3> QED BY <1>1 DEF SumFunction
  <2> HIDE DEF S
  <2> QED BY <1>1, <2>1, <2>2, SumElement
<1>4. \A d \in D : shares[d] = SumFunctionOnSet(s, {p \in S : h[p] = d}) /\ shares[d] \in Nat
  <2> SUFFICES ASSUME NEW d \in D
               PROVE  shares[d] = SumFunctionOnSet(s, {p \in S : h[p] = d}) /\ shares[d] \in Nat
    OBVIOUS
  <2> DEFINE own == {p \in S : h[p] = d}
  <2>1. shares[d] = SumFunctionOnSet(s, own)
    <3>1. {p \in DOMAIN s : p[2] = d} = own
      BY <1>1
    <3> HIDE DEF own
    <3> QED BY <3>1 DEF Share
  <2>2. IsFiniteSet(own) /\ \A p \in own : s[p] \in Nat
    <3>1. own \in SUBSET S
      OBVIOUS
    <3> HIDE DEF S, own
    <3> QED BY <1>1, <3>1, FS_Subset
  <2>3. SumFunctionOnSet(s, own) \in Nat
    <3> HIDE DEF own, shares
    <3> QED BY <2>2, SumElement
  <2> HIDE DEF S, h, shares
  <2> QED BY <2>1, <2>3
<1>5. SumFunctionOnSet(shares, D) = SumFunction(s)
  <2>1. \A p \in S : h[p] \in D /\ s[p] \in Nat
    BY <1>1
  <2> HIDE DEF S, D, h, shares
  <2> QED BY <1>1, <1>3, <1>4, <2>1, SumByClass
<1>6. Left(s) \in Nat /\ Left(s) = Free - SumFunction(s)
  BY <1>1, <1>2, <1>3 DEF Left
<1>7. audit \in [D -> Nat] /\ SumFunctionOnSet(audit, D) \in Nat /\ SumFunctionOnSet(audit, D) <= Left(s)
  <2>1. NoAudit \in Audits(s)
    BY DEF Audits
  <2> QED BY <1>1, <1>6, <2>1, AuditTakes
<1>8. SumFunctionOnSet(between, D) = SumFunctionOnSet(inFlight, D) + SumFunctionOnSet(shares, D)
  <2>1. \A d \in D : inFlight[d] \in Nat /\ shares[d] \in Nat /\ between[d] = inFlight[d] + shares[d]
    <3> HIDE DEF shares
    <3> QED BY <1>2, <1>4
  <2> HIDE DEF between, shares, D
  <2> QED BY <1>1, <2>1, SumAdds
<1>9. inFlight' \in [D -> Nat] /\ \A d \in D : between[d] \in Nat /\ inFlight'[d] = between[d] + audit[d]
  <2>1. \A d \in D : inFlight[d] \in Nat /\ shares[d] \in Nat /\ audit[d] \in Nat /\ shares[d] = Share(s, d)
    <3>1. \A d \in D : shares[d] \in Nat
      BY <1>4
    <3>2. \A d \in D : shares[d] = Share(s, d)
      OBVIOUS
    <3> HIDE DEF shares
    <3> QED BY <1>2, <1>7, <3>1, <3>2
  <2>2. inFlight' = [d \in D |-> inFlight[d] + Share(s, d) + audit[d]]
    OBVIOUS
  <2>3. \A d \in D : between[d] = inFlight[d] + shares[d]
    <3> HIDE DEF shares
    <3> QED OBVIOUS
  <2> HIDE DEF shares, between, D
  <2>4. \A d \in D : inFlight'[d] = inFlight[d] + Share(s, d) + audit[d]
    BY <2>2
  <2>5. inFlight' \in [D -> Nat]
    BY <2>1, <2>2
  <2> QED BY <2>1, <2>3, <2>4, <2>5
<1>10. SumFunctionOnSet(inFlight', D) = SumFunctionOnSet(between, D) + SumFunctionOnSet(audit, D)
  <2>1. \A d \in D : between[d] \in Nat /\ audit[d] \in Nat /\ inFlight'[d] = between[d] + audit[d]
    BY <1>7, <1>9
  <2> HIDE DEF between, D
  <2> QED BY <1>1, <2>1, SumAdds
<1>11. SumFunction(inFlight) = SumFunctionOnSet(inFlight, D) /\ SumFunction(inFlight) \in Nat
  BY <1>1, <1>2, PermitsOut
<1>12. SumFunction(inFlight') = SumFunctionOnSet(inFlight', D) /\ SumFunction(inFlight') \in Nat
  BY <1>1, <1>9, PermitsOut
<1>13. Free' = MaxParallel - SumFunction(inFlight')
  BY DEF Free
<1>14. MaxParallel \in Nat
  BY GuardNumbersAssumption
<1> HIDE DEF between, shares, h, S
<1> QED BY <1>1, <1>2, <1>3, <1>5, <1>6, <1>7, <1>8, <1>9, <1>10, <1>11, <1>12, <1>13, <1>14
\* A worker that is done returns the permit it had.
LEMMA FinishReturns ==
  ASSUME PermitsInv, LifecycleInv, NEW x \in Devices, Finish(x)
  PROVE  PermitsInv'
<1> DEFINE D == Discovered
<1>1. /\ x \in D /\ inFlight[x] > 0 /\ device' = device /\ Len(results) < ChannelCapacity
      /\ inFlight' = [inFlight EXCEPT ![x] = @ - 1]
      /\ inFlight \in [D -> Nat] /\ D \in SUBSET Devices /\ Free \in Nat /\ Discovered' = D
  BY DEF Finish, PermitsInv, Discovered
<1>2. /\ inFlight' \in [D -> Nat] /\ inFlight'[x] = inFlight[x] - 1
      /\ \A d \in D \ {x} : inFlight'[d] = inFlight[d]
  <2> HIDE DEF D
  <2> QED BY <1>1
<1>3. /\ IsFiniteSet(D) /\ SumFunction(inFlight) = SumFunctionOnSet(inFlight, D)
      /\ SumFunction(inFlight') = SumFunctionOnSet(inFlight', D)
      /\ SumFunction(inFlight) \in Nat /\ SumFunction(inFlight') \in Nat
  <2> HIDE DEF D
  <2> QED BY <1>1, <1>2, PermitsOut
<1>4. SumFunctionOnSet(inFlight', D) + inFlight[x] = SumFunctionOnSet(inFlight, D) + inFlight'[x]
  <2> DEFINE before == inFlight
             after == inFlight'
  <2>1. /\ IsFiniteSet(D) /\ x \in D
        /\ \A y \in D : before[y] \in Nat /\ after[y] \in Nat
        /\ \A y \in D \ {x} : after[y] = before[y]
    BY <1>1, <1>2, <1>3
  <2> HIDE DEF D, before, after
  <2>2. SumFunctionOnSet(after, D) + before[x] = SumFunctionOnSet(before, D) + after[x]
    BY <2>1, SumUpdate
  <2> QED BY <2>2 DEF before, after
<1>5. Free = MaxParallel - SumFunction(inFlight) /\ Free' = MaxParallel - SumFunction(inFlight')
  BY DEF Free
<1>6. Free' \in Nat
  <2>1. inFlight[x] \in Nat /\ MaxParallel \in Nat
    BY <1>1, GuardNumbersAssumption
  <2> HIDE DEF D
  <2> QED BY <1>1, <1>2, <1>3, <1>4, <1>5, <2>1
<1>7. Len(results') <= ChannelCapacity
  <2>1. results \in Seq([device : D, passed : BOOLEAN])
    BY DEF LifecycleInv
  <2>2. \E passed \in BOOLEAN : results' = Append(results, [device |-> x, passed |-> passed])
    BY DEF Finish
  <2>3. Len(results) \in Nat /\ Len(results') = Len(results) + 1
    <3> HIDE DEF D
    <3> QED BY <1>1, <2>1, <2>2
  <2> QED BY <1>1, <2>3, GuardNumbersAssumption
<1>8. faults' \in 0 .. MaxFaults
  BY GuardNumbersAssumption DEF Finish, PermitsInv
<1> QED BY <1>1, <1>2, <1>6, <1>7, <1>8 DEF Finish, PermitsInv, guardHistory

\* The scheduler wakes.
LEMMA WakeTakes == ASSUME PermitsInv, Wake PROVE PermitsInv'
<1>1. /\ device' = device /\ Discovered' = Discovered /\ control' = control /\ results' = results
      /\ wanted' = wanted /\ requests' = requests /\ faults' = faults /\ seen' = control
  BY DEF Wake, Discovered
<1>2. acked' \in Nat /\ scanned' \in Nat
  BY DEF Wake, PermitsInv, Acked
<1>3. inFlight' \in [Discovered -> Nat] /\ Free' \in Nat
  <2>1. CASE UNCHANGED inFlight
    BY <2>1 DEF PermitsInv, Free
  <2>2. ASSUME NEW kinds \in SUBSET Kinds, NEW s \in Dispatches(kinds), NEW audit,
               audit \in Audits(s) \/ audit = NoAudit,
               inFlight' = [d \in Discovered |-> inFlight[d] + Share(s, d) + audit[d]]
        PROVE  inFlight' \in [Discovered -> Nat] /\ Free' \in Nat
    BY <1>1, <2>2, DispatchTakes
  <2>3. \/ UNCHANGED inFlight
        \/ \E kinds \in SUBSET Kinds : \E s \in Dispatches(kinds) :
             \E audit : /\ audit \in Audits(s) \/ audit = NoAudit
                        /\ inFlight' = [d \in Discovered |-> inFlight[d] + Share(s, d) + audit[d]]
    <3> DEFINE To(s, audit) ==
                 inFlight' = [d \in Discovered |-> inFlight[d] + Share(s, d) + audit[d]]
    <3>1. \/ UNCHANGED inFlight
          \/ \E kinds \in IF seen.epoch # acked THEN {Kinds} ELSE SUBSET Kinds :
               \E s \in Dispatches(kinds) :
                 \E audit \in IF seen.epoch # acked THEN {NoAudit} ELSE Audits(s) : To(s, audit)
      BY DEF Wake
    <3> HIDE DEF To
    <3>2. \/ UNCHANGED inFlight
          \/ \E kinds \in SUBSET Kinds : \E s \in Dispatches(kinds) :
               \E audit : (audit \in Audits(s) \/ audit = NoAudit) /\ To(s, audit)
      BY <3>1
    <3> QED BY <3>2 DEF To
  <2> QED BY <2>1, <2>2, <2>3
<1> QED BY <1>1, <1>2, <1>3 DEF PermitsInv

\* Every step keeps the permits within those there are.
LEMMA PermitsStep == PermitsInv /\ LifecycleInv /\ [GuardNext]_guardVars => PermitsInv'
<1> SUFFICES ASSUME PermitsInv, LifecycleInv, [GuardNext]_guardVars PROVE PermitsInv'
  OBVIOUS
<1>1. CASE Wake
  BY <1>1, WakeTakes
<1>2. CASE Turn
  BY <1>2 DEF Turn, PermitsInv, guardHistory, Discovered, Free
<1>3. CASE Receive
  <2>1. Discovered' = Discovered
    BY <1>3 DEF Receive, Discovered
  <2>2. results \in Seq([device : Discovered, passed : BOOLEAN]) /\ results # <<>>
    BY <1>3 DEF LifecycleInv, Receive
  <2>3. Len(results') <= Len(results) /\ Len(results) \in Nat /\ Len(results') \in Nat
    BY <1>3, <2>2 DEF Receive
  <2>4. Len(results') <= ChannelCapacity
    BY <2>3, GuardNumbersAssumption DEF PermitsInv
  <2> QED BY <1>3, <2>1, <2>4 DEF Receive, PermitsInv, Free
<1>4. CASE Request
  <2>1. control' \in [enabled : BOOLEAN, epoch : Nat] /\ wanted' \in Nat
    BY <1>4 DEF Request, PermitsInv
  <2>2. requests' \in 0 .. MaxRequests
    BY <1>4, GuardNumbersAssumption DEF Request, PermitsInv
  <2> QED BY <1>4, <2>1, <2>2 DEF Request, PermitsInv, Discovered, Free
<1>5. ASSUME NEW d \in Devices, Finish(d) PROVE PermitsInv'
  BY <1>5, FinishReturns
<1>6. CASE UNCHANGED guardVars
  BY <1>6 DEF guardVars, guardHistory, PermitsInv, Discovered, Free
<1> QED BY <1>1, <1>2, <1>3, <1>4, <1>5, <1>6 DEF GuardNext

\* GuardTypeOK: whatever the tasks that fall due, the requests and the probes
\* that fail, the workers hold no more permits than max_parallel_tasks, the
\* channel no more results than it has room for, and every device is in a state
\* of the lifecycle.
THEOREM GuardTypes == GuardSpec => []GuardTypeOK
<1>1. GuardSpec => []PermitsInv
  <2>1. GuardSpec => []LifecycleInv
    BY GuardLifecycle
  <2> QED BY <2>1, PermitsInit, PermitsStep, PTL DEF GuardSpec
<1>2. PermitsInv /\ LifecycleInv => GuardTypeOK
  <2> SUFFICES ASSUME PermitsInv, LifecycleInv PROVE GuardTypeOK
    OBVIOUS
  <2>1. /\ inFlight \in [Discovered -> Nat] /\ Discovered \in SUBSET Devices
        /\ Free = MaxParallel - SumFunction(inFlight) /\ Free \in Nat /\ MaxParallel \in Nat
    BY GuardNumbersAssumption DEF PermitsInv, Free
  <2>2. /\ IsFiniteSet(Discovered) /\ SumFunction(inFlight) = SumFunctionOnSet(inFlight, Discovered)
        /\ SumFunction(inFlight) \in Nat
    BY <2>1, PermitsOut
  <2>3. \A d \in Discovered :
          inFlight[d] <= SumFunction(inFlight) /\ inFlight[d] \in Nat
    <3> DEFINE D == Discovered
    <3> HIDE DEF D
    <3>1. IsFiniteSet(D) /\ \A d \in D : inFlight[d] \in Nat
      BY <2>1, <2>2 DEF D
    <3>2. \A d \in D : /\ SumFunctionOnSet(inFlight, D \ {d}) \in Nat
                       /\ SumFunctionOnSet(inFlight, D)
                            = inFlight[d] + SumFunctionOnSet(inFlight, D \ {d})
      BY <3>1, SumElement
    <3>3. SumFunction(inFlight) = SumFunctionOnSet(inFlight, D)
      BY <2>2 DEF D
    <3>4. \A d \in D : inFlight[d] <= SumFunction(inFlight) /\ inFlight[d] \in Nat
      <4> SUFFICES ASSUME NEW d \in D
                   PROVE  inFlight[d] <= SumFunction(inFlight) /\ inFlight[d] \in Nat
        OBVIOUS
      <4> DEFINE rest == SumFunctionOnSet(inFlight, D \ {d})
      <4>1. rest \in Nat /\ SumFunction(inFlight) = inFlight[d] + rest /\ inFlight[d] \in Nat
        BY <3>1, <3>2, <3>3
      <4> HIDE DEF rest
      <4> QED BY <4>1
    <3> QED BY <3>4 DEF D
  <2>4. inFlight \in [Discovered -> 0 .. MaxParallel] /\ Free \in 0 .. MaxParallel
    BY <2>1, <2>2, <2>3
  <2> QED BY <2>4 DEF PermitsInv, LifecycleInv, GuardTypeOK, DeviceRecords
<1> QED BY <1>1, <1>2, GuardLifecycle, PTL
-----------------------------------------------------------------------------
(* Continuum: what is completed was applied                                *)

\* The inductive invariant: with the types, a plan is not of a cycle to come, so
\* that a cycle that begins makes every plan held one of another cycle.
AssessmentInv == ContinuumTypeOK /\ plan.cycle <= time.cycle /\ CompletedWasApplied

\* At first nothing is completed.
LEMMA AssessmentInit == ContinuumInit => AssessmentInv
<1> SUFFICES ASSUME ContinuumInit PROVE AssessmentInv
  OBVIOUS
<1>1. /\ time.cycle = 1 /\ plan.cycle = 0 /\ plan.cycle <= time.cycle
      /\ time \in [cycle : 1 .. MaxCycles, phase : 0 .. SliceCount + 1]
      /\ server \in [token : 1 .. MaxPlans, applied : SUBSET Slices]
      /\ plan \in [token : 0 .. MaxPlans, cycle : 0 .. MaxCycles]
  BY ContinuumAssumption DEF ContinuumInit
<1>2. completed = {} /\ carried = {} /\ reporting = NoSlice /\ planWait = FALSE /\ reportWait = FALSE
  BY DEF ContinuumInit
<1> QED BY <1>1, <1>2 DEF AssessmentInv, ContinuumTypeOK, CompletedWasApplied

\* What an answer brings is what the server has.
LEMMA AnswerKeeps ==
  ASSUME ContinuumTypeOK, NEW applied \in SUBSET Slices, TakeAnswer(applied),
         server'.applied = applied, server'.token = server.token, time' = time
  PROVE  /\ plan' \in [token : 0 .. MaxPlans, cycle : 0 .. MaxCycles] /\ plan'.cycle <= time'.cycle
         /\ completed' \subseteq Slices /\ carried' \subseteq Slices /\ CompletedWasApplied'
<1>1. server.token \in 0 .. MaxPlans /\ time.cycle \in 0 .. MaxCycles
  BY DEF ContinuumTypeOK
<1> QED BY <1>1 DEF TakeAnswer, PlanInForce, CompletedWasApplied

\* A slice is completed only when the server has applied it.
LEMMA AssessmentStep == AssessmentInv /\ [ContinuumNext]_continuumVars => AssessmentInv'
<1> SUFFICES ASSUME AssessmentInv, [ContinuumNext]_continuumVars PROVE AssessmentInv'
  OBVIOUS
<1> USE DEF AssessmentInv
<1>1. CASE NextPhase
  <2>1. time'.cycle = time.cycle /\ time' \in [cycle : 1 .. MaxCycles, phase : 0 .. SliceCount + 1]
    BY <1>1, ContinuumAssumption DEF NextPhase, ContinuumTypeOK
  <2> QED BY <1>1, <2>1 DEF NextPhase, clientVars, ContinuumTypeOK, CompletedWasApplied
<1>2. CASE NextCycle
  <2>1. /\ time'.cycle = time.cycle + 1 /\ time' \in [cycle : 1 .. MaxCycles, phase : 0 .. SliceCount + 1]
        /\ server' \in [token : 1 .. MaxPlans, applied : SUBSET Slices]
    BY <1>2, ContinuumAssumption DEF NextCycle, ContinuumTypeOK
  <2>2. plan.cycle \in Nat /\ time.cycle \in Nat
    BY DEF ContinuumTypeOK
  <2> QED BY <1>2, <2>1, <2>2 DEF NextCycle, clientVars, ContinuumTypeOK, CompletedWasApplied
<1>3. CASE Replan
  <2>1. /\ server' \in [token : 1 .. MaxPlans, applied : SUBSET Slices]
        /\ server'.applied = server.applied
    BY <1>3, ContinuumAssumption DEF Replan, ContinuumTypeOK
  <2> QED BY <1>3, <2>1 DEF Replan, clientVars, ContinuumTypeOK, CompletedWasApplied
<1>4. CASE PlanWaitEnds \/ ReportWaitEnds \/ FetchFails
  BY <1>4 DEF PlanWaitEnds, ReportWaitEnds, FetchFails, ContinuumTypeOK, CompletedWasApplied
<1>5. CASE FetchPlan
  <2>1. server.token \in 0 .. MaxPlans /\ time.cycle \in 0 .. MaxCycles
    BY DEF ContinuumTypeOK
  <2> QED BY <1>5, <2>1 DEF FetchPlan, PlanInForce, MergedProgress, ContinuumTypeOK, CompletedWasApplied
<1>6. CASE SendReport
  <2>1. DueSlices \subseteq Slices
    BY ContinuumAssumption DEF DueSlices, Started, Slices, ContinuumTypeOK
  <2> QED BY <1>6, <2>1 DEF SendReport, ContinuumTypeOK, CompletedWasApplied
<1>7. CASE Accepted
  <2>1. reporting \in Slices /\ server.applied \subseteq Slices
    BY <1>7 DEF Accepted, ContinuumTypeOK
  <2>2. /\ server'.applied = server.applied \cup {reporting} /\ server'.token = server.token
        /\ server' \in [token : 1 .. MaxPlans, applied : SUBSET Slices]
    BY <1>7, <2>1 DEF Accepted, ContinuumTypeOK
  <2>3. TakeAnswer(server'.applied) /\ server'.applied \in SUBSET Slices /\ time' = time
    BY <1>7, <2>1, <2>2 DEF Accepted
  <2>4. /\ plan' \in [token : 0 .. MaxPlans, cycle : 0 .. MaxCycles] /\ plan'.cycle <= time'.cycle
        /\ completed' \subseteq Slices /\ carried' \subseteq Slices /\ CompletedWasApplied'
    BY <2>2, <2>3, AnswerKeeps
  <2> QED BY <1>7, <2>2, <2>4 DEF Accepted, ContinuumTypeOK
<1>8. CASE StalePlan \/ Refused
  <2>1. TakeAnswer(server.applied) /\ server.applied \in SUBSET Slices /\ server' = server /\ time' = time
    BY <1>8 DEF StalePlan, Refused, ContinuumTypeOK
  <2>2. /\ plan' \in [token : 0 .. MaxPlans, cycle : 0 .. MaxCycles] /\ plan'.cycle <= time'.cycle
        /\ completed' \subseteq Slices /\ carried' \subseteq Slices /\ CompletedWasApplied'
    BY <2>1, AnswerKeeps
  <2> QED BY <1>8, <2>2 DEF StalePlan, Refused, ContinuumTypeOK
<1>9. CASE ReportFails
  <2>1. reporting \in Slices /\ server.applied \subseteq Slices
    BY <1>9 DEF ReportFails, ContinuumTypeOK
  <2>2. /\ server.applied \subseteq server'.applied
        /\ server' \in [token : 1 .. MaxPlans, applied : SUBSET Slices]
    BY <1>9, <2>1 DEF ReportFails, ContinuumTypeOK
  <2> QED BY <1>9, <2>2 DEF ReportFails, AfterFailure, ContinuumTypeOK, CompletedWasApplied
<1>10. CASE UNCHANGED continuumVars
  BY <1>10 DEF continuumVars, clientVars, ContinuumTypeOK, CompletedWasApplied
<1> QED BY <1>1, <1>2, <1>3, <1>4, <1>5, <1>6, <1>7, <1>8, <1>9, <1>10 DEF ContinuumNext

\* The invariant of the assessment.
LEMMA AssessmentInvariant == ContinuumSpec => []AssessmentInv
BY AssessmentInit, AssessmentStep, PTL DEF ContinuumSpec

\* ContinuumTypeOK: plan, progress and report keep their types.
THEOREM ContinuumTypes == ContinuumSpec => []ContinuumTypeOK
<1>1. AssessmentInv => ContinuumTypeOK
  BY DEF AssessmentInv
<1> QED BY <1>1, AssessmentInvariant, PTL

\* CompletedWasApplied: the client never takes a slice of the present cycle for
\* done that the server does not have, except what it carried over.
THEOREM CompletedIsApplied == ContinuumSpec => []CompletedWasApplied
<1>1. AssessmentInv => CompletedWasApplied
  BY DEF AssessmentInv
<1> QED BY <1>1, AssessmentInvariant, PTL
-----------------------------------------------------------------------------
(* Autoscale: hosts are recruited in the order of the list                 *)

\* The first hosts of the list, however many
FirstHosts == {1 .. k : k \in 0 .. RecruitHosts}

\* The inductive invariant.  Hosts are recruited in the order of the list, so
\* that two controllers that know nothing of each other ask for the same ones;
\* and while a tick goes on, its node has fewer than it then called for.
ScaleInv ==
  /\ controllers \subseteq ScalingNodes /\ signals \in [ScalingNodes -> 0 .. 6]
  /\ tick \in [ScalingNodes -> [requested : 0 .. RecruitHosts, left : 0 .. PerTick]]
  /\ recruited \in [ScalingNodes -> FirstHosts] /\ joined \in FirstHosts
  /\ reboots \in 0 .. MaxReboots /\ peak \in 0 .. RecruitHosts
  /\ \A n \in ScalingNodes : recruited[n] \subseteq joined
  /\ joined \subseteq 1 .. peak
  /\ \A n \in ScalingNodes :
       tick[n] # Done => recruited[n] # 1 .. tick[n].requested /\ tick[n].requested <= peak
                         /\ recruited[n] \subseteq 1 .. tick[n].requested

\* The first k hosts are k hosts.
LEMMA PrefixSize ==
  ASSUME NEW k \in 0 .. RecruitHosts
  PROVE  IsFiniteSet(1 .. k) /\ Cardinality(1 .. k) = k
<1>1. RecruitHosts \in Nat
  BY AutoscaleAssumption
<1>2. k \in Nat /\ 1 \in Int /\ k \in Int
  BY <1>1
<1>3. Cardinality(1 .. k) = IF 1 > k THEN 0 ELSE k - 1 + 1
  BY <1>2, FS_Interval
<1> QED BY <1>2, <1>3, FS_Interval

\* NextHost continues the prefix.
LEMMA NextContinues ==
  ASSUME NEW k \in 0 .. RecruitHosts, NEW n \in ScalingNodes, recruited[n] = 1 .. k
  PROVE  /\ NextHost(n) = IF k < RecruitHosts THEN {k + 1} ELSE {}
         /\ (1 .. k) \cup {k + 1} = 1 .. k + 1
BY AutoscaleAssumption DEF NextHost, Hosts

\* At first no host is recruited.
LEMMA ScaleInvInit == ScaleInit => ScaleInv
<1> SUFFICES ASSUME ScaleInit PROVE ScaleInv
  OBVIOUS
<1>1. {} = 1 .. 0 /\ {} \in FirstHosts
  BY AutoscaleAssumption DEF FirstHosts
<1> QED BY <1>1, AutoscaleAssumption DEF ScaleInit, ScaleInv, Done

\* A host that joins is one that the node's tick still calls for.
LEMMA JoinKeeps ==
  ASSUME ScaleInv, NEW n \in ScalingNodes, tick[n] # Done, NEW h \in NextHost(n)
  PROVE  \E k \in 1 .. RecruitHosts :
           /\ recruited[n] \cup {h} = 1 .. k /\ k <= tick[n].requested
           /\ joined \cup {h} \in FirstHosts /\ recruited[n] \cup {h} \subseteq joined \cup {h}
           /\ joined \cup {h} \subseteq 1 .. peak
<1>1. PICK k \in 0 .. RecruitHosts : recruited[n] = 1 .. k
  BY DEF ScaleInv, FirstHosts
<1>2. PICK j \in 0 .. RecruitHosts : joined = 1 .. j
  BY DEF ScaleInv, FirstHosts
<1>3. h = k + 1 /\ k < RecruitHosts /\ (1 .. k) \cup {h} = 1 .. k + 1
  BY <1>1, NextContinues
<1>4. RecruitHosts \in Nat /\ peak \in 0 .. RecruitHosts /\ tick[n].requested \in 0 .. RecruitHosts
  BY AutoscaleAssumption DEF ScaleInv
<1>5. k <= j
  <2>1. 1 .. k \subseteq 1 .. j
    BY <1>1, <1>2 DEF ScaleInv
  <2> QED BY <1>4, <2>1
<1>6. k < tick[n].requested /\ tick[n].requested <= peak
  <2>1. 1 .. k # 1 .. tick[n].requested /\ 1 .. k \subseteq 1 .. tick[n].requested /\ tick[n].requested <= peak
    BY <1>1 DEF ScaleInv
  <2> QED BY <1>4, <2>1
<1>7. joined \cup {h} \in FirstHosts
  <2>1. CASE k = j
    BY <1>1, <1>2, <1>3, <1>4, <2>1 DEF FirstHosts
  <2>2. CASE k < j
    <3>1. joined \cup {h} = joined
      BY <1>2, <1>3, <1>4, <2>2
    <3> QED BY <1>2, <3>1 DEF FirstHosts
  <2> QED BY <1>4, <1>5, <2>1, <2>2
<1>8. joined \cup {h} \subseteq 1 .. peak
  <2>1. h \in 1 .. peak
    BY <1>3, <1>4, <1>6
  <2> QED BY <2>1 DEF ScaleInv
<1>9. k + 1 \in 1 .. RecruitHosts /\ k + 1 <= tick[n].requested
  BY <1>3, <1>4, <1>6
<1> QED BY <1>1, <1>2, <1>3, <1>7, <1>8, <1>9 DEF ScaleInv

\* Every step recruits the next host of the list, or none.
LEMMA ScaleInvStep == ScaleInv /\ [ScaleNext]_scaleVars => ScaleInv'
<1> SUFFICES ASSUME ScaleInv, [ScaleNext]_scaleVars PROVE ScaleInv'
  OBVIOUS
<1>a. RecruitHosts \in Nat /\ PerTick \in Nat /\ PerTick >= 1 /\ MaxReboots \in Nat
      /\ SignalCounts \subseteq 0 .. 6
  BY AutoscaleAssumption
<1>1. ASSUME NEW nodes \in SUBSET ScalingNodes, Elect(nodes) PROVE ScaleInv'
  BY <1>1 DEF Elect, ScaleInv
<1>2. ASSUME NEW n \in ScalingNodes, NEW count \in SignalCounts, Press(n, count) PROVE ScaleInv'
  BY <1>2, <1>a DEF Press, ScaleInv
<1>3. ASSUME NEW n \in ScalingNodes, EvaluateTelemetry(n) PROVE ScaleInv'
  <2> DEFINE requested == Called(signals[n])
  <2>1. requested \in 0 .. RecruitHosts
    <3>1. signals[n] \in Nat
      <4>1. signals \in [ScalingNodes -> 0 .. 6]
        BY DEF ScaleInv
      <4> QED BY <4>1
    <3>2. 1 + (signals[n] - 1) \div 2 \in Nat \/ signals[n] = 0
      BY <3>1
    <3> QED BY <1>a, <3>1, <3>2 DEF Called
  <2> HIDE DEF requested
  <2>2. PICK k \in 0 .. RecruitHosts : recruited[n] = 1 .. k
    BY DEF ScaleInv, FirstHosts
  <2>3. k < requested
    BY <1>3, <2>2, PrefixSize DEF EvaluateTelemetry, Missing, requested
  <2>4. /\ tick' = [tick EXCEPT ![n] = [requested |-> requested, left |-> PerTick]]
        /\ peak' = IF requested > peak THEN requested ELSE peak
        /\ UNCHANGED <<controllers, signals, recruited, joined, reboots>>
    BY <1>3 DEF EvaluateTelemetry, requested
  <2>5. peak' \in 0 .. RecruitHosts /\ peak' >= peak /\ peak' >= requested /\ 1 .. peak \subseteq 1 .. peak'
    BY <1>a, <2>1, <2>4 DEF ScaleInv
  <2>6. /\ tick' \in [ScalingNodes -> [requested : 0 .. RecruitHosts, left : 0 .. PerTick]]
        /\ tick'[n].requested = requested /\ \A m \in ScalingNodes \ {n} : tick'[m] = tick[m]
    BY <1>a, <2>1, <2>4 DEF ScaleInv
  <2>7. 1 .. k # 1 .. requested /\ 1 .. k \subseteq 1 .. requested
    BY <1>a, <2>1, <2>3
  <2>8. ASSUME NEW m \in ScalingNodes, tick'[m] # Done
        PROVE  /\ recruited'[m] # 1 .. tick'[m].requested /\ tick'[m].requested <= peak'
               /\ recruited'[m] \subseteq 1 .. tick'[m].requested
    <3>1. CASE m = n
      BY <2>2, <2>4, <2>5, <2>6, <2>7, <3>1
    <3>2. CASE m # n
      <4>1. tick[m].requested \in 0 .. RecruitHosts /\ peak \in 0 .. RecruitHosts
        BY DEF ScaleInv
      <4>2. /\ recruited[m] # 1 .. tick[m].requested /\ tick[m].requested <= peak
            /\ recruited[m] \subseteq 1 .. tick[m].requested
        BY <2>6, <2>8, <3>2 DEF ScaleInv
      <4> QED BY <1>a, <2>4, <2>5, <2>6, <3>2, <4>1, <4>2
    <3> QED BY <3>1, <3>2
  <2> QED BY <2>4, <2>5, <2>6, <2>8 DEF ScaleInv
<1>4. ASSUME NEW n \in ScalingNodes, Accept(n) PROVE ScaleInv'
  <2>1. PICK h \in NextHost(n) :
          /\ joined' = joined \cup {h}
          /\ recruited' = [recruited EXCEPT ![n] = @ \cup {h}]
          /\ tick' = [tick EXCEPT ![n] =
                        IF Cardinality(recruited'[n]) < @.requested /\ @.left > 1
                          THEN [requested |-> @.requested, left |-> @.left - 1] ELSE Done]
    BY <1>4 DEF Accept
  <2>2. tick[n] # Done
    BY <1>4 DEF Accept
  <2>3. PICK k \in 1 .. RecruitHosts :
          /\ recruited[n] \cup {h} = 1 .. k /\ k <= tick[n].requested
          /\ joined' \in FirstHosts /\ recruited[n] \cup {h} \subseteq joined'
          /\ joined' \subseteq 1 .. peak
    BY <2>1, <2>2, JoinKeeps
  <2>4. /\ recruited'[n] = 1 .. k /\ \A m \in ScalingNodes \ {n} : recruited'[m] = recruited[m]
        /\ recruited' \in [ScalingNodes -> FirstHosts]
    <3>1. 1 .. k \in FirstHosts
      BY <1>a DEF FirstHosts
    <3> QED BY <2>1, <2>3, <3>1 DEF ScaleInv
  <2>5. /\ tick' \in [ScalingNodes -> [requested : 0 .. RecruitHosts, left : 0 .. PerTick]]
        /\ \A m \in ScalingNodes \ {n} : tick'[m] = tick[m]
        /\ tick'[n] # Done => k < tick'[n].requested /\ tick'[n].requested = tick[n].requested
    <3>1. Cardinality(recruited'[n]) = k
      BY <1>a, <2>4, PrefixSize
    <3>2. Done \in [requested : 0 .. RecruitHosts, left : 0 .. PerTick]
      BY <1>a DEF Done
    <3>3. tick \in [ScalingNodes -> [requested : 0 .. RecruitHosts, left : 0 .. PerTick]]
      BY DEF ScaleInv
    <3> DEFINE next == IF k < tick[n].requested /\ tick[n].left > 1
                         THEN [requested |-> tick[n].requested, left |-> tick[n].left - 1] ELSE Done
    <3>4. tick' = [tick EXCEPT ![n] = next]
      BY <2>1, <3>1
    <3>5. /\ next \in [requested : 0 .. RecruitHosts, left : 0 .. PerTick]
          /\ next # Done => k < next.requested /\ next.requested = tick[n].requested
      BY <1>a, <3>2, <3>3
    <3> HIDE DEF next
    <3> QED BY <3>3, <3>4, <3>5
  <2>6. ASSUME NEW m \in ScalingNodes, tick'[m] # Done
        PROVE  /\ recruited'[m] # 1 .. tick'[m].requested /\ tick'[m].requested <= peak
               /\ recruited'[m] \subseteq 1 .. tick'[m].requested
    <3>1. CASE m = n
      <4>1. tick'[n].requested = tick[n].requested /\ k < tick[n].requested
            /\ tick[n].requested \in Nat /\ tick[n].requested <= peak
        BY <2>2, <2>5, <2>6, <3>1 DEF ScaleInv
      <4>2. 1 .. k # 1 .. tick[n].requested /\ 1 .. k \subseteq 1 .. tick[n].requested
        BY <1>a, <4>1
      <4> QED BY <2>4, <3>1, <4>1, <4>2
    <3>2. CASE m # n
      BY <2>4, <2>5, <2>6, <3>2 DEF ScaleInv
    <3> QED BY <3>1, <3>2
  <2>7. \A m \in ScalingNodes : recruited'[m] \subseteq joined'
    BY <2>1, <2>3, <2>4 DEF ScaleInv
  <2> QED BY <1>4, <2>3, <2>4, <2>5, <2>6, <2>7 DEF Accept, ScaleInv
<1>5. ASSUME NEW n \in ScalingNodes, Fail(n) PROVE ScaleInv'
  <2>1. Done \in [requested : 0 .. RecruitHosts, left : 0 .. PerTick]
    BY <1>a DEF Done
  <2>2. /\ tick' \in [ScalingNodes -> [requested : 0 .. RecruitHosts, left : 0 .. PerTick]]
        /\ tick'[n] = Done /\ \A m \in ScalingNodes \ {n} : tick'[m] = tick[m]
    BY <1>5, <2>1 DEF Fail, ScaleInv
  <2>3. joined' \in FirstHosts /\ joined \subseteq joined' /\ joined' \subseteq 1 .. peak
    <3>1. PICK k \in 0 .. RecruitHosts : recruited[n] = 1 .. k
      BY DEF ScaleInv, FirstHosts
    <3>2. \/ joined' = joined
          \/ \E h \in NextHost(n) : joined' = joined \cup {h}
      <4>1. NextHost(n) = {} \/ NextHost(n) = {k + 1}
        BY <3>1, NextContinues
      <4> QED BY <1>5, <4>1 DEF Fail
    <3>3. tick[n] # Done
      BY <1>5 DEF Fail
    <3>4. \A h \in NextHost(n) : joined \cup {h} \in FirstHosts /\ joined \cup {h} \subseteq 1 .. peak
      BY <3>3, JoinKeeps
    <3>5. joined \in FirstHosts /\ joined \subseteq 1 .. peak
      BY DEF ScaleInv
    <3> QED BY <3>2, <3>4, <3>5
  <2> QED BY <1>5, <2>2, <2>3 DEF Fail, AfterRefusal, ScaleInv
<1>6. ASSUME NEW n \in ScalingNodes, Reboot(n) PROVE ScaleInv'
  <2>1. Done \in [requested : 0 .. RecruitHosts, left : 0 .. PerTick]
    BY <1>a DEF Done
  <2>2. /\ tick' \in [ScalingNodes -> [requested : 0 .. RecruitHosts, left : 0 .. PerTick]]
        /\ tick'[n] = Done /\ \A m \in ScalingNodes \ {n} : tick'[m] = tick[m]
    BY <1>6, <2>1 DEF Reboot, ScaleInv
  <2>3. {} \in FirstHosts
    <3>1. {} = 1 .. 0
      OBVIOUS
    <3> QED BY <1>a, <3>1 DEF FirstHosts
  <2>4. /\ recruited' \in [ScalingNodes -> FirstHosts] /\ recruited'[n] = {}
        /\ \A m \in ScalingNodes \ {n} : recruited'[m] = recruited[m]
    BY <1>6, <2>3 DEF Reboot, ScaleInv
  <2>5. reboots' \in 0 .. MaxReboots
    BY <1>6, <1>a DEF Reboot, ScaleInv
  <2> QED BY <1>6, <2>2, <2>4, <2>5 DEF Reboot, ScaleInv
<1>7. CASE UNCHANGED scaleVars
  BY <1>7 DEF scaleVars, ScaleInv
<1> QED BY <1>1, <1>2, <1>3, <1>4, <1>5, <1>6, <1>7 DEF ScaleNext

\* The invariant of the autoscalers.
LEMMA ScaleInvariant == ScaleSpec => []ScaleInv
BY ScaleInvInit, ScaleInvStep, PTL DEF ScaleSpec

\* ScaleTypeOK: the state of the autoscalers keeps its type.
THEOREM ScaleTypes == ScaleSpec => []ScaleTypeOK
<1>1. ScaleInv => ScaleTypeOK
  <2> SUFFICES ASSUME ScaleInv PROVE ScaleTypeOK
    OBVIOUS
  <2>1. joined \subseteq Hosts
    BY AutoscaleAssumption DEF ScaleInv, FirstHosts, Hosts
  <2>2. recruited \in [ScalingNodes -> SUBSET joined]
    BY DEF ScaleInv
  <2> QED BY <2>1, <2>2 DEF ScaleInv, ScaleTypeOK
<1> QED BY <1>1, ScaleInvariant, PTL

\* NoMoreThanCalledFor: for any number of nodes, controllers at a time and
\* restarts, no more hosts have joined than some controller called for at once.
THEOREM NoMoreJoin == ScaleSpec => []NoMoreThanCalledFor
<1>1. ScaleInv => NoMoreThanCalledFor
  <2> SUFFICES ASSUME ScaleInv PROVE NoMoreThanCalledFor
    OBVIOUS
  <2>1. PICK j \in 0 .. RecruitHosts : joined = 1 .. j
    BY DEF ScaleInv, FirstHosts
  <2>2. RecruitHosts \in Nat /\ peak \in 0 .. RecruitHosts /\ 1 .. j \subseteq 1 .. peak
    BY <2>1, AutoscaleAssumption DEF ScaleInv
  <2>3. j <= peak
    BY <2>2
  <2> QED BY <2>1, <2>3, PrefixSize DEF NoMoreThanCalledFor
<1> QED BY <1>1, ScaleInvariant, PTL
-----------------------------------------------------------------------------
(* The services together                                                   *)


\* A behaviour of the services is a behaviour of each of them: a step of one
\* leaves the state of the others alone.
LEMMA EachService == ServicesSpec => Spec /\ BanSpec /\ GuardSpec /\ ContinuumSpec /\ ScaleSpec
<1>1. ServicesInit => Init /\ BanInit /\ GuardInit /\ ContinuumInit /\ ScaleInit
  BY DEF ServicesInit
<1> DEFINE steps == [ServicesNext]_<<part, vars, banVars, guardVars, continuumVars, scaleVars>>
<1>2. steps => [Next]_vars /\ [BanNext]_banVars
  BY DEF ServicesNext
<1>3. steps => [GuardNext]_guardVars /\ [ContinuumNext]_continuumVars /\ [ScaleNext]_scaleVars
  BY DEF ServicesNext
<1> QED
  BY <1>1, <1>2, <1>3, PTL
  DEF ServicesSpec, Spec, BanSpec, GuardSpec, ContinuumSpec, ScaleSpec

\* ServicesTypeOK: every service keeps its type, whichever of them is exercised.
THEOREM ServicesTypes == ServicesSpec => []ServicesTypeOK
BY EachService, GovernanceTypes, BanTypes, GuardTypes, ContinuumTypes, ScaleTypes, PTL DEF ServicesTypeOK
=============================================================================
