------------------------- MODULE DistributionProofs -------------------------
(***************************************************************************)
(* Theorems of how cores and releases spread: of Threat, for any loaders,  *)
(* subjects, limits and order of delivery; of Update, for any processes,   *)
(* releases, offers and failures, with a supervisor or without; and of     *)
(* MCDistribution, which puts both beside the transfers of LoaderProofs.   *)
(***************************************************************************)
EXTENDS MCDistribution, LoaderProofs, FiniteSetTheorems

-----------------------------------------------------------------------------
(* Threat                                                                  *)

\* Everything a loader knows, has written, says or is believed to have said about its
\* own experience is something it has met.
Sincere ==
  /\ \A l \in Loaders : Known(local[l]) \subseteq met[l] /\ Known(savedThreats[l]) \subseteq met[l]
  /\ \A a \in gossip : Known(a.entries) \subseteq met[a.from]
  /\ \A l, r \in Loaders : Known(remote[l][r].entries) \subseteq met[r]
  /\ \A l \in Loaders : Known(remote[l][l].entries) = {}

SincereInv == ThreatTypeOK /\ Sincere

\* What was written of x is in e, or e holds SavedEntries others at least as risky.
Outranked(e, risk) == Cardinality({y \in Subjects : e[y].risk >= risk}) >= SavedEntries
Kept(e, l) ==
  \A x \in Subjects : sealed[l][x] > 0 => e[x].risk > 0 \/ Outranked(e, sealed[l][x])
KeptInv == ThreatTypeOK /\ \A l \in Loaders : Kept(local[l], l) /\ Kept(savedThreats[l], l)
-----------------------------------------------------------------------------
(* Type correctness *)

LEMMA EntryTypes ==
  /\ NoEntry \in Entries /\ Unknown \in [Subjects -> Entries]
  /\ NoReport \in [ts : Nat, entries : [Subjects -> Entries]]
  /\ Known(Unknown) = {}
BY DEF Entries, NoEntry, Unknown, NoReport, Known

LEMMA OnlyTypes ==
  ASSUME NEW e \in [Subjects -> Entries], NEW S
  PROVE  Only(e, S) \in [Subjects -> Entries] /\ Known(Only(e, S)) = S \cap Known(e)
<1>1. NoEntry \in Entries /\ NoEntry.risk = 0
  BY DEF Entries, NoEntry
<1> QED BY <1>1 DEF Only, Known

LEMMA CleanedType ==
  ASSUME ThreatTypeOK, NEW l \in Loaders
  PROVE  /\ Cleaned(l) \in [Loaders -> [ts : Nat, entries : [Subjects -> Entries]]]
         /\ \A r \in Loaders : Known(Cleaned(l)[r].entries) \subseteq Known(remote[l][r].entries)
<1>1. \A r \in Loaders : remote[l][r] \in [ts : Nat, entries : [Subjects -> Entries]]
  BY DEF ThreatTypeOK
<1>2. \A r \in Loaders : \/ Cleaned(l)[r] = NoReport
                         \/ Cleaned(l)[r] = remote[l][r]
  BY DEF Cleaned
<1>3. Known(NoReport.entries) = {}
  BY EntryTypes DEF NoReport
<1>4. \A r \in Loaders : Cleaned(l)[r] \in [ts : Nat, entries : [Subjects -> Entries]]
  BY <1>1, <1>2, EntryTypes
<1>5. \A r \in Loaders : Known(Cleaned(l)[r].entries) \subseteq Known(remote[l][r].entries)
  BY <1>2, <1>3
<1>6. Cleaned(l) = [r \in Loaders |-> Cleaned(l)[r]]
  BY DEF Cleaned
<1> QED BY <1>4, <1>5, <1>6

LEMMA ThreatTypeInit == ThreatInit => ThreatTypeOK
BY EntryTypes, ThreatTimeAssumption DEF ThreatInit, ThreatTypeOK

LEMMA ThreatTypeStep == ThreatTypeOK /\ [ThreatNext]_threatVars => ThreatTypeOK'
<1> SUFFICES ASSUME ThreatTypeOK, [ThreatNext]_threatVars PROVE ThreatTypeOK'
  OBVIOUS
<1> USE DEF ThreatTypeOK
<1>1. ASSUME NEW l \in Loaders, NEW x \in Subjects, NEW risk \in Risks, Incident(l, x, risk)
      PROVE  ThreatTypeOK'
  <2>1. time \in Nat /\ risk \in 1 .. 100
    BY RisksAssumption, ThreatTimeAssumption
  <2>2. local' \in [Loaders -> [Subjects -> Entries]]
    <3> DEFINE now == local[l][x].risk + risk
               e == [risk |-> IF now > 100 THEN 100 ELSE now, last |-> time]
    <3>1. local[l] \in [Subjects -> Entries] /\ local[l][x].risk \in 0 .. 100
      BY DEF Entries
    <3>2. now \in Nat
      BY <3>1, <2>1
    <3>3. e \in Entries
      <4> HIDE DEF now
      <4> QED BY <3>2, <2>1 DEF Entries
    <3>4. local' = [local EXCEPT ![l] = [local[l] EXCEPT ![x] = e]]
      BY <1>1 DEF Incident
    <3> QED
      <4> HIDE DEF e
      <4> QED BY <3>1, <3>3, <3>4
  <2>3. remote' \in [Loaders -> [Loaders -> [ts : Nat, entries : [Subjects -> Entries]]]]
    BY <1>1, CleanedType DEF Incident
  <2> QED BY <1>1, <2>2, <2>3 DEF Incident
<1>2. ASSUME NEW l \in Loaders, Persist(l) PROVE ThreatTypeOK'
  <2>1. CASE UNCHANGED <<savedThreats, sealed>>
    BY <1>2, <2>1 DEF Persist
  <2>2. CASE /\ \E S \in Worst(local[l], SavedEntries) :
                  savedThreats' = [savedThreats EXCEPT ![l] = Only(local[l], S)]
             /\ sealed' = [sealed EXCEPT ![l] =
                  [x \in Subjects |-> IF x \in Known(local[l]) THEN local[l][x].risk ELSE @[x]]]
    <3>1. savedThreats' \in [Loaders -> [Subjects -> Entries]]
      <4>1. PICK S \in Worst(local[l], SavedEntries) :
              savedThreats' = [savedThreats EXCEPT ![l] = Only(local[l], S)]
        BY <2>2
      <4>2. Only(local[l], S) \in [Subjects -> Entries]
        BY OnlyTypes
      <4> QED BY <4>1, <4>2
    <3>2. \A x \in Subjects : local[l][x].risk \in 0 .. 100 /\ sealed[l][x] \in 0 .. 100
      BY DEF Entries
    <3>3. sealed' \in [Loaders -> [Subjects -> 0 .. 100]]
      BY <2>2, <3>2
    <3> QED BY <1>2, <3>1, <3>3 DEF Persist
  <2> QED BY <1>2, <2>1, <2>2 DEF Persist
<1>3. ASSUME NEW l \in Loaders, AnnounceThreats(l) PROVE ThreatTypeOK'
  <2>1. remote' \in [Loaders -> [Loaders -> [ts : Nat, entries : [Subjects -> Entries]]]]
    BY <1>3, CleanedType DEF AnnounceThreats
  <2>2. gossip' \subseteq [from : Loaders, ts : Nat, entries : [Subjects -> Entries]]
    <3>1. PICK S \in Worst(local[l], AnnouncedEntries) :
            gossip' = gossip \cup {[from |-> l, ts |-> time, entries |-> Only(local[l], S)]}
      BY <1>3 DEF AnnounceThreats
    <3>2. time \in Nat
      BY ThreatTimeAssumption
    <3>3. local[l] \in [Subjects -> Entries]
      OBVIOUS
    <3>4. Only(local[l], S) \in [Subjects -> Entries]
      BY <3>3, OnlyTypes
    <3> QED BY <3>1, <3>2, <3>4
  <2> QED BY <1>3, <2>1, <2>2 DEF AnnounceThreats, threatHistory
<1>4. ASSUME NEW l \in Loaders, NEW a \in gossip, IngestRemote(l, a) PROVE ThreatTypeOK'
  <2>0. /\ a \in [from : Loaders, ts : Nat, entries : [Subjects -> Entries]]
        /\ [ts |-> a.ts, entries |-> a.entries] \in [ts : Nat, entries : [Subjects -> Entries]]
    OBVIOUS
  <2>1. Cleaned(l) \in [Loaders -> [ts : Nat, entries : [Subjects -> Entries]]]
    BY CleanedType
  <2>2. [Cleaned(l) EXCEPT ![a.from] = [ts |-> a.ts, entries |-> a.entries]]
          \in [Loaders -> [ts : Nat, entries : [Subjects -> Entries]]]
    BY <2>0, <2>1
  <2>3. remote' \in [Loaders -> [Loaders -> [ts : Nat, entries : [Subjects -> Entries]]]]
    BY <1>4, <2>2 DEF IngestRemote
  <2> QED BY <1>4, <2>3 DEF IngestRemote, threatHistory
<1>5. ASSUME NEW l \in Loaders, RestartLoader(l) PROVE ThreatTypeOK'
  BY <1>5, EntryTypes DEF RestartLoader, threatHistory
<1>6. CASE ThreatTick
  BY <1>6, ThreatTimeAssumption DEF ThreatTick, threatHistory
<1>7. CASE UNCHANGED threatVars
  BY <1>7 DEF threatVars
<1> QED BY <1>1, <1>2, <1>3, <1>4, <1>5, <1>6, <1>7 DEF ThreatNext
-----------------------------------------------------------------------------
(* Hearsay *)

LEMMA SincereInit == ThreatInit => Sincere
BY EntryTypes DEF ThreatInit, Sincere, NoReport

LEMMA SincereStep == SincereInv /\ [ThreatNext]_threatVars => Sincere'
<1> SUFFICES ASSUME ThreatTypeOK, Sincere, [ThreatNext]_threatVars PROVE Sincere'
  BY DEF SincereInv
<1> USE DEF Sincere
<1>0. /\ local \in [Loaders -> [Subjects -> Entries]]
      /\ remote \in [Loaders -> [Loaders -> [ts : Nat, entries : [Subjects -> Entries]]]]
      /\ savedThreats \in [Loaders -> [Subjects -> Entries]]
      /\ met \in [Loaders -> SUBSET Subjects]
      /\ gossip \subseteq [from : Loaders, ts : Nat, entries : [Subjects -> Entries]]
  BY DEF ThreatTypeOK
<1>a. \A l, r \in Loaders : /\ Known(Cleaned(l)[r].entries) \subseteq met[r]
                            /\ Known(Cleaned(l)[l].entries) = {}
  BY CleanedType
<1>1. ASSUME NEW l \in Loaders, NEW x \in Subjects, NEW risk \in Risks, Incident(l, x, risk)
      PROVE  Sincere'
  <2>1. /\ \A k \in Loaders : met[k] \subseteq met'[k]
        /\ x \in met'[l]
    BY <1>0, <1>1 DEF Incident
  <2>2. \A k \in Loaders : Known(local'[k]) \subseteq Known(local[k]) \cup (IF k = l THEN {x} ELSE {})
    BY <1>0, <1>1 DEF Incident, Known
  <2>3. \A k \in Loaders : remote'[k] = IF k = l THEN Cleaned(l) ELSE remote[k]
    BY <1>0, <1>1 DEF Incident
  <2>4. UNCHANGED <<savedThreats, gossip>>
    BY <1>1 DEF Incident
  <2>5. \A k, r \in Loaders : Known(remote'[k][r].entries) \subseteq met'[r]
    BY <1>a, <2>1, <2>3
  <2>6. \A k \in Loaders : Known(remote'[k][k].entries) = {}
    BY <1>a, <2>3
  <2>7. \A k \in Loaders : Known(local'[k]) \subseteq met'[k]
    BY <2>1, <2>2
  <2>8. \A a \in gossip : Known(a.entries) \subseteq met'[a.from]
    BY <1>0, <2>1
  <2> QED BY <2>1, <2>4, <2>5, <2>6, <2>7, <2>8
<1>2. ASSUME NEW l \in Loaders, Persist(l) PROVE Sincere'
  <2>1. CASE UNCHANGED savedThreats
    BY <1>2, <2>1 DEF Persist
  <2>2. CASE \E S \in Worst(local[l], SavedEntries) :
               savedThreats' = [savedThreats EXCEPT ![l] = Only(local[l], S)]
    <3>1. PICK S \in Worst(local[l], SavedEntries) :
            savedThreats' = [savedThreats EXCEPT ![l] = Only(local[l], S)]
      BY <2>2
    <3>2. local[l] \in [Subjects -> Entries]
      BY <1>0
    <3>3. Known(Only(local[l], S)) \subseteq Known(local[l])
      BY <3>2, OnlyTypes
    <3>4. \A k \in Loaders : Known(savedThreats'[k]) \subseteq met[k]
      BY <1>0, <3>1, <3>3
    <3>5. UNCHANGED <<local, remote, gossip, met>>
      BY <1>2 DEF Persist
    <3> QED BY <3>4, <3>5
  <2> QED BY <1>2, <2>1, <2>2 DEF Persist
<1>3. ASSUME NEW l \in Loaders, AnnounceThreats(l) PROVE Sincere'
  <2>1. PICK S \in Worst(local[l], AnnouncedEntries) :
          gossip' = gossip \cup {[from |-> l, ts |-> time, entries |-> Only(local[l], S)]}
    BY <1>3 DEF AnnounceThreats
  <2>2. local[l] \in [Subjects -> Entries]
    BY <1>0
  <2>3. Known(Only(local[l], S)) \subseteq met[l]
    BY <2>2, OnlyTypes
  <2>4. \A a \in gossip' : Known(a.entries) \subseteq met[a.from]
    BY <2>1, <2>3
  <2>5. \A k \in Loaders : remote'[k] = IF k = l THEN Cleaned(l) ELSE remote[k]
    BY <1>0, <1>3 DEF AnnounceThreats
  <2>6. UNCHANGED <<local, savedThreats, met>>
    BY <1>3 DEF AnnounceThreats, threatHistory
  <2>7. \A k, r \in Loaders : Known(remote'[k][r].entries) \subseteq met[r]
    BY <1>a, <2>5
  <2>8. \A k \in Loaders : Known(remote'[k][k].entries) = {}
    BY <1>a, <2>5
  <2> QED BY <2>4, <2>6, <2>7, <2>8
<1>4. ASSUME NEW l \in Loaders, NEW a \in gossip, IngestRemote(l, a) PROVE Sincere'
  <2>1. a.from \in Loaders /\ a.from # l /\ Known(a.entries) \subseteq met[a.from]
    BY <1>0, <1>4 DEF IngestRemote
  <2>2. /\ Cleaned(l) \in [Loaders -> [ts : Nat, entries : [Subjects -> Entries]]]
    BY CleanedType
  <2>3. \A k, r \in Loaders : remote'[k][r] =
          IF k = l THEN IF r = a.from THEN [ts |-> a.ts, entries |-> a.entries] ELSE Cleaned(l)[r]
          ELSE remote[k][r]
    BY <1>0, <1>4, <2>1, <2>2 DEF IngestRemote
  <2>4. UNCHANGED <<local, savedThreats, gossip, met>>
    BY <1>4 DEF IngestRemote, threatHistory
  <2>5. \A k, r \in Loaders : Known(remote'[k][r].entries) \subseteq met[r]
    BY <1>a, <2>1, <2>3
  <2>6. \A k \in Loaders : Known(remote'[k][k].entries) = {}
    BY <1>a, <2>1, <2>3
  <2> QED BY <2>4, <2>5, <2>6
<1>5. ASSUME NEW l \in Loaders, RestartLoader(l) PROVE Sincere'
  <2>1. Known(NoReport.entries) = {}
    BY EntryTypes DEF NoReport
  <2>2. \A k, r \in Loaders : remote'[k][r] = IF k = l THEN NoReport ELSE remote[k][r]
    BY <1>0, <1>5 DEF RestartLoader
  <2>3. \A k \in Loaders : local'[k] = IF k = l THEN savedThreats[l] ELSE local[k]
    BY <1>0, <1>5 DEF RestartLoader
  <2>4. UNCHANGED <<savedThreats, gossip, met>>
    BY <1>5 DEF RestartLoader, threatHistory
  <2> QED BY <2>1, <2>2, <2>3, <2>4
<1>6. CASE ThreatTick
  BY <1>6 DEF ThreatTick, threatHistory
<1>7. CASE UNCHANGED threatVars
  BY <1>7 DEF threatVars
<1> QED BY <1>1, <1>2, <1>3, <1>4, <1>5, <1>6, <1>7 DEF ThreatNext

LEMMA SincereReporters ==
  ASSUME SincereInv, NEW l \in Loaders, NEW x \in Subjects, Condemned(l, x)
  PROVE  x \in met[l] \/ Cardinality({r \in Loaders \ {l} : x \in met[r]}) >= ReporterQuorum
<1> DEFINE Others == {r \in Loaders \ {l} : x \in met[r]}
<1>1. CASE local[l][x].risk >= BlockFrom
  <2>0. local[l][x] \in Entries
    BY DEF SincereInv, ThreatTypeOK
  <2>1. local[l][x].risk > 0
    BY <1>1, <2>0, RisksAssumption DEF Entries
  <2> QED BY <2>1 DEF SincereInv, Sincere, Known
<1>2. CASE Cardinality(Reporters(l, x)) >= ReporterQuorum
  <2>1. Reporters(l, x) \subseteq Others
    <3> SUFFICES ASSUME NEW r \in Loaders, Cleaned(l)[r].entries[x].risk >= BlockFrom
                 PROVE  r \in Others
      BY DEF Reporters
    <3>1. ThreatTypeOK /\ Sincere
      BY DEF SincereInv
    <3>2. Cleaned(l)[r] \in [ts : Nat, entries : [Subjects -> Entries]]
      BY <3>1, CleanedType
    <3>3. Cleaned(l)[r].entries[x].risk \in 0 .. 100
      BY <3>2 DEF Entries
    <3>4. x \in Known(Cleaned(l)[r].entries)
      BY <3>3, RisksAssumption DEF Known
    <3>5. x \in Known(remote[l][r].entries)
      BY <3>1, <3>4, CleanedType
    <3> QED BY <3>1, <3>5 DEF Sincere
  <2>2. IsFiniteSet(Others) /\ IsFiniteSet(Reporters(l, x))
    BY LoadersAssumption, FS_Subset DEF Reporters
  <2>3. Cardinality(Reporters(l, x)) <= Cardinality(Others)
    BY <2>1, <2>2, FS_Subset
  <2>4. Cardinality(Reporters(l, x)) \in Nat /\ Cardinality(Others) \in Nat
    BY <2>2, FS_CardinalityType
  <2> QED BY <1>2, <2>3, <2>4, ReportersAssumption
<1> QED BY <1>1, <1>2 DEF Condemned

\* Type correctness of the threat memory.
THEOREM ThreatTypes == ThreatSpec => []ThreatTypeOK
BY ThreatTypeInit, ThreatTypeStep, PTL DEF ThreatSpec

\* No provider and no artifact is refused on fewer than ReporterQuorum experiences of
\* others (provider_assessment, artifact_assessment, build_announcement).
THEOREM HearsaySafe == ThreatSpec => []HearsayRestsOnIncidents
<1>1. ThreatInit => SincereInv
  BY ThreatTypeInit, SincereInit DEF SincereInv
<1>2. SincereInv /\ [ThreatNext]_threatVars => SincereInv'
  BY ThreatTypeStep, SincereStep DEF SincereInv
<1>3. SincereInv => HearsayRestsOnIncidents
  BY SincereReporters DEF HearsayRestsOnIncidents
<1> QED BY <1>1, <1>2, <1>3, PTL DEF ThreatSpec
-----------------------------------------------------------------------------
(* Experience *)

LEMMA KeptInit == ThreatInit => \A l \in Loaders : Kept(local[l], l) /\ Kept(savedThreats[l], l)
BY DEF ThreatInit, Kept

\* what is at least as risky in e is so in an f that is nowhere milder
LEMMA OutrankedGrows ==
  ASSUME NEW e \in [Subjects -> Entries], NEW f \in [Subjects -> Entries],
         \A x \in Subjects : f[x].risk >= e[x].risk,
         NEW risk \in 0 .. 100, Outranked(e, risk)
  PROVE  Outranked(f, risk)
<1> DEFINE E == {y \in Subjects : e[y].risk >= risk}
           F == {y \in Subjects : f[y].risk >= risk}
<1>1. \A x \in Subjects : e[x].risk \in Int /\ f[x].risk \in Int
  BY DEF Entries
<1>2. E \subseteq F
  BY <1>1
<1>3. IsFiniteSet(F) /\ IsFiniteSet(E)
  BY LoadersAssumption, FS_Subset
<1>4. Cardinality(E) <= Cardinality(F) /\ Cardinality(E) \in Nat /\ Cardinality(F) \in Nat
  BY <1>2, <1>3, FS_Subset, FS_CardinalityType
<1> QED BY <1>4, EntriesAssumption DEF Outranked

\* the entries that fill the file outrank whatever was left out of it
LEMMA WorstOutranks ==
  ASSUME NEW e \in [Subjects -> Entries], NEW S \in Worst(e, SavedEntries),
         S # Known(e), NEW risk \in 1 .. 100,
         \/ \E x \in Known(e) \ S : e[x].risk = risk
         \/ Outranked(e, risk)
  PROVE  Outranked(Only(e, S), risk)
<1> DEFINE E == {y \in Subjects : e[y].risk >= risk}
           F == {y \in Subjects : Only(e, S)[y].risk >= risk}
<1>1. /\ S \subseteq Known(e) /\ S \subseteq Subjects /\ Cardinality(S) = SavedEntries
      /\ \A x \in S, y \in Known(e) \ S : ~Worse(e[y], e[x])
  BY DEF Worst, Known
<1>2. \A x \in Subjects : e[x].risk \in 0 .. 100 /\ e[x].last \in Nat
  BY DEF Entries
<1>3. IsFiniteSet(S) /\ IsFiniteSet(E) /\ IsFiniteSet(F)
  BY <1>1, LoadersAssumption, FS_Subset
<1>4. \A s \in S : e[s].risk >= risk
  <2> SUFFICES ASSUME NEW s \in S, e[s].risk < risk PROVE FALSE
    BY <1>1, <1>2
  <2>1. CASE \E x \in Known(e) \ S : e[x].risk = risk
    BY <1>1, <1>2, <2>1 DEF Worse, Known
  <2>2. CASE Outranked(e, risk)
    <3>1. E \subseteq Known(e)
      BY <1>2 DEF Known
    <3>2. E \subseteq S
      <4> SUFFICES ASSUME NEW y \in E, y \notin S PROVE FALSE
        OBVIOUS
      <4>1. Worse(e[y], e[s])
        BY <1>1, <1>2 DEF Worse
      <4> QED BY <1>1, <3>1, <4>1
    <3>3. Cardinality(E) <= Cardinality(S) /\ (Cardinality(E) = Cardinality(S) => E = S)
      BY <1>3, <3>2, FS_Subset
    <3>4. Cardinality(E) >= SavedEntries /\ Cardinality(E) \in Nat
      BY <1>3, <2>2, FS_CardinalityType DEF Outranked
    <3>5. E = S
      BY <1>1, <3>3, <3>4, EntriesAssumption
    <3> QED BY <3>5, <1>1, <1>2
  <2> QED BY <2>1, <2>2
<1>5. S \subseteq F
  BY <1>1, <1>4 DEF Only
<1>6. Cardinality(S) <= Cardinality(F)
  BY <1>3, <1>5, FS_Subset
<1> QED BY <1>1, <1>6 DEF Outranked

LEMMA KeptStep ==
  KeptInv /\ [ThreatNext]_threatVars
    => (\A l \in Loaders : Kept(local[l], l) /\ Kept(savedThreats[l], l))'
<1> SUFFICES ASSUME ThreatTypeOK, \A l \in Loaders : Kept(local[l], l) /\ Kept(savedThreats[l], l),
                    [ThreatNext]_threatVars, NEW k \in Loaders
             PROVE  Kept(local[k], k)' /\ Kept(savedThreats[k], k)'
  BY DEF KeptInv
<1>0. /\ local \in [Loaders -> [Subjects -> Entries]]
      /\ savedThreats \in [Loaders -> [Subjects -> Entries]]
      /\ sealed \in [Loaders -> [Subjects -> 0 .. 100]]
      /\ time \in Nat
  BY ThreatTimeAssumption DEF ThreatTypeOK
<1>1. ASSUME NEW l \in Loaders, NEW x \in Subjects, NEW risk \in Risks, Incident(l, x, risk)
      PROVE  Kept(local[k], k)' /\ Kept(savedThreats[k], k)'
  <2>1. local' \in [Loaders -> [Subjects -> Entries]]
    BY ThreatTypeStep, <1>1 DEF ThreatTypeOK, ThreatNext
  <2>2. \A y \in Subjects : local'[k][y].risk >= local[k][y].risk
    <3> DEFINE now == local[l][x].risk + risk
               e == [risk |-> IF now > 100 THEN 100 ELSE now, last |-> time]
    <3>1. \A y \in Subjects : local[k][y].risk \in 0 .. 100 /\ local[l][x].risk \in 0 .. 100
      BY <1>0 DEF Entries
    <3>2. e.risk >= local[l][x].risk
      BY <3>1, RisksAssumption
    <3>3. local' = [local EXCEPT ![l] = [local[l] EXCEPT ![x] = e]]
      BY <1>1 DEF Incident
    <3> HIDE DEF e
    <3>4. \A y \in Subjects : local'[k][y] = IF k = l /\ y = x THEN e ELSE local[k][y]
      BY <1>0, <3>3
    <3> QED BY <3>1, <3>2, <3>4
  <2>3. UNCHANGED <<savedThreats, sealed>>
    BY <1>1 DEF Incident
  <2>4. \A y \in Subjects : Outranked(local[k], sealed[k][y]) => Outranked(local'[k], sealed[k][y])
    <3> SUFFICES ASSUME NEW y \in Subjects, Outranked(local[k], sealed[k][y])
                 PROVE  Outranked(local'[k], sealed[k][y])
      OBVIOUS
    <3>1. local[k] \in [Subjects -> Entries] /\ local'[k] \in [Subjects -> Entries]
      BY <1>0, <2>1
    <3>2. sealed[k][y] \in 0 .. 100
      BY <1>0
    <3> QED BY <2>2, <3>1, <3>2, OutrankedGrows
  <2>5. \A y \in Subjects : local[k][y].risk > 0 => local'[k][y].risk > 0
    <3>1. \A y \in Subjects : local[k][y].risk \in 0 .. 100 /\ local'[k][y].risk \in 0 .. 100
      BY <1>0, <2>1 DEF Entries
    <3> QED BY <2>2, <3>1
  <2>6. Kept(local[k], k)'
    BY <2>3, <2>4, <2>5 DEF Kept, Outranked
  <2> QED BY <2>3, <2>6 DEF Kept, Outranked
<1>2. ASSUME NEW l \in Loaders, Persist(l)
      PROVE  Kept(local[k], k)' /\ Kept(savedThreats[k], k)'
  <2>1. CASE UNCHANGED <<savedThreats, sealed>>
    BY <1>2, <2>1 DEF Persist, Kept, Outranked
  <2>2. CASE /\ \E S \in Worst(local[l], SavedEntries) :
                  savedThreats' = [savedThreats EXCEPT ![l] = Only(local[l], S)]
             /\ sealed' = [sealed EXCEPT ![l] =
                  [x \in Subjects |-> IF x \in Known(local[l]) THEN local[l][x].risk ELSE @[x]]]
    <3>1. PICK S \in Worst(local[l], SavedEntries) :
            savedThreats' = [savedThreats EXCEPT ![l] = Only(local[l], S)]
      BY <2>2
    <3>2. local' = local
      BY <1>2 DEF Persist
    <3>3. CASE k # l
      BY <1>0, <2>2, <3>1, <3>2, <3>3 DEF Kept, Outranked
    <3>4. CASE k = l
      <4>1. \A x \in Subjects : sealed'[k][x] =
              IF x \in Known(local[k]) THEN local[k][x].risk ELSE sealed[k][x]
        BY <1>0, <2>2, <3>4
      <4>2. savedThreats'[k] = Only(local[k], S)
        BY <1>0, <3>1, <3>4
      <4>3. local[k] \in [Subjects -> Entries]
        BY <1>0
      <4>4. Kept(local[k], k)'
        BY <3>2, <4>1 DEF Kept, Outranked, Known
      <4>5. ASSUME NEW x \in Subjects, sealed'[k][x] > 0
            PROVE  savedThreats'[k][x].risk > 0 \/ Outranked(savedThreats'[k], sealed'[k][x])
        <5>1. sealed'[k][x] \in 1 .. 100
          <6>1. sealed[k][x] \in 0 .. 100 /\ local[k][x].risk \in 0 .. 100
            BY <1>0 DEF Entries
          <6> QED BY <4>1, <4>5, <6>1
        <5>2. CASE x \in S
          <6>1. S \subseteq Known(local[k])
            BY <3>1, <3>4 DEF Worst
          <6> QED BY <4>2, <5>2, <6>1 DEF Only, Known
        <5>3. CASE x \notin S
          <6>1. \/ x \in Known(local[k]) \ S /\ local[k][x].risk = sealed'[k][x]
                \/ x \notin Known(local[k]) /\ Outranked(local[k], sealed'[k][x])
            BY <4>1, <4>5, <5>3 DEF Kept, Known
          <6>2. CASE S = Known(local[k])
            <7>1. Outranked(local[k], sealed'[k][x])
              BY <5>3, <6>1, <6>2
            <7>2. \A y \in Subjects : Only(local[k], S)[y].risk >= local[k][y].risk
              BY <4>3, <6>2 DEF Only, Known, Entries, NoEntry
            <7>3. Only(local[k], S) \in [Subjects -> Entries]
              BY <4>3, OnlyTypes
            <7> QED BY <4>2, <4>3, <5>1, <7>1, <7>2, <7>3, OutrankedGrows
          <6>3. CASE S # Known(local[k])
            BY <3>1, <3>4, <4>2, <4>3, <5>1, <6>1, <6>3, WorstOutranks
          <6> QED BY <6>2, <6>3
        <5> QED BY <5>2, <5>3
      <4> QED BY <4>4, <4>5 DEF Kept, Outranked
    <3> QED BY <3>3, <3>4
  <2> QED BY <1>2, <2>1, <2>2 DEF Persist
<1>3. CASE \E l \in Loaders : AnnounceThreats(l) \/ \E a \in gossip : IngestRemote(l, a)
  BY ZenonT(60), <1>3 DEF AnnounceThreats, IngestRemote, threatHistory, Kept, Outranked
<1>4. ASSUME NEW l \in Loaders, RestartLoader(l)
      PROVE  Kept(local[k], k)' /\ Kept(savedThreats[k], k)'
  BY <1>0, <1>4 DEF RestartLoader, threatHistory, Kept, Outranked
<1>5. CASE ThreatTick \/ UNCHANGED threatVars
  BY <1>5 DEF ThreatTick, threatHistory, threatVars, Kept, Outranked
<1> QED BY <1>1, <1>2, <1>3, <1>4, <1>5 DEF ThreatNext

\* What was met and written outlives every restart (from_config, persisted_from_state),
\* except where the file is full of what is at least as risky.
THEOREM ExperienceKept == ThreatSpec => []ExperienceIsKept
<1>1. ThreatInit => KeptInv
  BY ThreatTypeInit, KeptInit DEF KeptInv
<1>2. KeptInv /\ [ThreatNext]_threatVars => KeptInv'
  BY ThreatTypeStep, KeptStep DEF KeptInv
<1>3. KeptInv => ExperienceIsKept
  BY DEF KeptInv, Kept, Outranked, ExperienceIsKept
<1> QED BY <1>1, <1>2, <1>3, PTL DEF ThreatSpec
-----------------------------------------------------------------------------
(* Update: nothing replaces an agent but one that was ready                *)

LEMMA TypeInit == UpdateInit => UpdateTypeOK
<1> SUFFICES ASSUME UpdateInit PROVE UpdateTypeOK
  OBVIOUS
<1>1. Unborn \in ProcessRecord /\ [Unborn EXCEPT !.phase = "starting", !.runs = Installed] \in ProcessRecord
  BY DEF Unborn, ProcessRecord, Phases
<1>2. 1 \in Processes
  BY UpdateAssumption DEF Processes
<1>3. process \in [Processes -> ProcessRecord]
  BY <1>1 DEF UpdateInit
<1>4. manager \in [Processes -> ManagerRecord]
  BY DEF UpdateInit, IdleManager, ManagerRecord, ManagerSteps
<1>5. supervisor \in SupervisorRecord
  BY <1>2 DEF UpdateInit, SupervisorRecord
<1> QED BY <1>3, <1>4, <1>5 DEF UpdateInit, UpdateTypeOK

LEMMA StartedType ==
  ASSUME UpdateTypeOK, NEW n \in Processes, NEW from \in {"installed", "next"},
         NEW owner \in Processes \cup {NoProcess}, Started(n, from, owner), Executable(from)
  PROVE process' \in [Processes -> ProcessRecord]
<1>1. (IF from = "next" THEN nextBinary ELSE Installed) \in Releases \cup {Installed}
  BY DEF Executable
<1> QED BY <1>1 DEF Started, UpdateTypeOK, ProcessRecord, Phases

LEMMA PhaseType ==
  ASSUME UpdateTypeOK, NEW p, NEW phase \in Phases, InPhase(p, phase)
  PROVE process' \in [Processes -> ProcessRecord]
BY DEF InPhase, UpdateTypeOK, ProcessRecord

LEMMA ResignType ==
  ASSUME UpdateTypeOK, NEW p, Resign(p)
  PROVE manager' \in [Processes -> ManagerRecord]
BY DEF Resign, IdleManager, UpdateTypeOK, ManagerRecord, ManagerSteps

LEMMA ManagerType ==
  ASSUME UpdateTypeOK, NEW p, NEW step \in ManagerSteps, Manager(p, step)
  PROVE manager' \in [Processes -> ManagerRecord]
BY DEF Manager, UpdateTypeOK, ManagerRecord

LEMMA TypeStep == ASSUME UpdateTypeOK, [UpdateNext]_updateVars PROVE UpdateTypeOK'
<1> USE UpdateAssumption DEF UpdateTypeOK
<1>1. ASSUME NEW r \in Releases, OfferPapers(r) PROVE UpdateTypeOK'
  BY <1>1 DEF OfferPapers, updateHistory
<1>2. ASSUME NEW r \in Releases, OfferBundle(r) PROVE UpdateTypeOK'
  BY <1>2 DEF OfferBundle, updateHistory
<1>3. ASSUME NEW p \in Processes, BeginCheck(p) PROVE UpdateTypeOK'
  <2>1. manager' \in [Processes -> ManagerRecord]
    BY <1>3 DEF BeginCheck, ManagerRecord, ManagerSteps, IdleManager
  <2> QED BY <1>3, <2>1 DEF BeginCheck, managerFrame
<1>4. ASSUME NEW p \in Processes, VerifyBundle(p) PROVE UpdateTypeOK'
  <2>1. manager' \in [Processes -> ManagerRecord]
    BY <1>4, ManagerType, ResignType DEF VerifyBundle, ManagerSteps
  <2> QED BY <1>4, <2>1 DEF VerifyBundle, managerFrame
<1>5. ASSUME NEW p \in Processes, OpenNext(p) PROVE UpdateTypeOK'
  <2>1. manager' \in [Processes -> ManagerRecord]
    BY <1>5, ResignType DEF OpenNext, ManagerRecord, ManagerSteps
  <2> QED BY <1>5, <2>1 DEF OpenNext, managerFrame
<1>6. ASSUME NEW p \in Processes, CopyNext(p) PROVE UpdateTypeOK'
  <2>1. manager' \in [Processes -> ManagerRecord]
    BY <1>6, ManagerType, ResignType DEF CopyNext, ManagerSteps
  <2>2. nextBinary' \in Releases \cup {Nothing, Torn}
    BY <1>6 DEF CopyNext, ManagerRecord
  <2> QED BY <1>6, <2>1, <2>2 DEF CopyNext, managerFrame
<1>7. ASSUME NEW p \in Processes, RequestHandoff(p) PROVE UpdateTypeOK'
  <2>1. manager' \in [Processes -> ManagerRecord]
    BY <1>7, ManagerType DEF RequestHandoff, ManagerSteps
  <2>2. requestFile' \in Releases \cup {Nothing}
    BY <1>7 DEF RequestHandoff, ManagerRecord
  <2> QED BY <1>7, <2>1, <2>2 DEF RequestHandoff, managerFrame
<1>8. ASSUME NEW p \in Processes, ArchiveUpdate(p) PROVE UpdateTypeOK'
  <2>1. manager' \in [Processes -> ManagerRecord]
    BY <1>8, ResignType DEF ArchiveUpdate
  <2> QED BY <1>8, <2>1 DEF ArchiveUpdate, managerFrame
<1>9. ASSUME NEW p \in Processes, SpawnSuccessor(p) PROVE UpdateTypeOK'
  <2>1. process' \in [Processes -> ProcessRecord]
    BY <1>9, StartedType DEF SpawnSuccessor
  <2>2. manager' \in [Processes -> ManagerRecord]
    BY <1>9, ResignType DEF SpawnSuccessor, ManagerRecord, ManagerSteps
  <2> QED BY <1>9, <2>1, <2>2 DEF SpawnSuccessor, managerFrame
<1>10. ASSUME NEW p \in Processes, SeeReady(p) PROVE UpdateTypeOK'
  <2>1. manager' \in [Processes -> ManagerRecord]
    BY <1>10, ManagerType DEF SeeReady, ManagerSteps
  <2> QED BY <1>10, <2>1 DEF SeeReady, managerFrame
<1>11. ASSUME NEW p \in Processes, GiveUpWaiting(p) PROVE UpdateTypeOK'
  <2>1. manager' \in [Processes -> ManagerRecord]
    BY <1>11, ResignType DEF GiveUpWaiting
  <2> QED BY <1>11, <2>1 DEF GiveUpWaiting, managerFrame
<1>12. ASSUME NEW p \in Processes, HandOver(p) PROVE UpdateTypeOK'
  <2>1. process' \in [Processes -> ProcessRecord]
    BY <1>12 DEF HandOver, ProcessRecord, Phases
  <2>2. manager' \in [Processes -> ManagerRecord]
    BY <1>12, ResignType DEF HandOver
  <2> QED BY <1>12, <2>1, <2>2 DEF HandOver, managerFrame
<1>13. ASSUME NEW p \in Processes, BecomeReady(p) PROVE UpdateTypeOK'
  <2>1. process' \in [Processes -> ProcessRecord]
    BY <1>13, PhaseType DEF BecomeReady, Phases
  <2>2. readyFile' \in [Processes -> Processes \cup {NoProcess}]
    BY <1>13 DEF BecomeReady
  <2> QED BY <1>13, <2>1, <2>2 DEF BecomeReady, processFrame
<1>14. ASSUME NEW p \in Processes, NoticeStop(p) PROVE UpdateTypeOK'
  <2>1. process' \in [Processes -> ProcessRecord]
    BY <1>14, PhaseType DEF NoticeStop, Phases
  <2> QED BY <1>14, <2>1 DEF NoticeStop, processFrame
<1>15. ASSUME NEW p \in Processes, TasksEnd(p) PROVE UpdateTypeOK'
  <2>1. process' \in [Processes -> ProcessRecord]
    BY <1>15, PhaseType DEF TasksEnd, Phases
  <2> QED BY <1>15, <2>1 DEF TasksEnd, processFrame
<1>16. ASSUME NEW p \in Processes, ProcessFails(p) PROVE UpdateTypeOK'
  <2>1. process' \in [Processes -> ProcessRecord]
    BY <1>16, PhaseType DEF ProcessFails, Phases
  <2>2. manager' \in [Processes -> ManagerRecord]
    BY <1>16, ResignType DEF ProcessFails
  <2> QED BY <1>16, <2>1, <2>2 DEF ProcessFails, processFrame
<1>17. ASSUME ChildEnded PROVE UpdateTypeOK'
  <2>1. supervisor' \in SupervisorRecord
    BY <1>17 DEF ChildEnded, SupervisorRecord
  <2> QED BY <1>17, <2>1 DEF ChildEnded, supervisorFrame
<1>18. ASSUME RestartChild PROVE UpdateTypeOK'
  <2>1. CASE supervisor' = [supervisor EXCEPT !.at = "ended"] /\ UNCHANGED process
    BY <1>18, <2>1 DEF RestartChild, supervisorFrame, SupervisorRecord
  <2>2. ASSUME NEW n \in Processes, Executable(supervisor.program),
               Started(n, supervisor.program, NoProcess),
               supervisor' = [supervisor EXCEPT !.at = "watch", !.child = n, !.sound = TRUE]
        PROVE UpdateTypeOK'
    <3>1. process' \in [Processes -> ProcessRecord]
      BY <2>2, StartedType DEF SupervisorRecord
    <3> QED BY <1>18, <2>2, <3>1 DEF RestartChild, supervisorFrame, SupervisorRecord
  <2> QED BY <1>18, <2>1, <2>2 DEF RestartChild
<1>19. ASSUME TakeHandoff PROVE UpdateTypeOK'
  <2>1. process' \in [Processes -> ProcessRecord]
    BY <1>19, StartedType DEF TakeHandoff
  <2>2. supervisor' \in SupervisorRecord /\ (supervisor'.at \in {"handoff",
      "closing"} => supervisor'.successor \in Processes)
    BY <1>19 DEF TakeHandoff, SupervisorRecord
  <2> QED BY <1>19, <2>1, <2>2 DEF TakeHandoff, supervisorFrame
<1>20. ASSUME HandoffReady PROVE UpdateTypeOK'
  <2>1. supervisor' \in SupervisorRecord /\ (supervisor'.at \in {"handoff",
      "closing"} => supervisor'.successor \in Processes)
    BY <1>20 DEF HandoffReady, SupervisorRecord, Supervises
  <2>2. stopFiles' \subseteq Processes
    BY <1>20 DEF HandoffReady, SupervisorRecord
  <2> QED BY <1>20, <2>1, <2>2 DEF HandoffReady, supervisorFrame
<1>21. ASSUME HandoffTimesOut PROVE UpdateTypeOK'
  <2>1. process' \in [Processes -> ProcessRecord]
    BY <1>21, PhaseType DEF HandoffTimesOut, Phases
  <2>2. manager' \in [Processes -> ManagerRecord]
    BY <1>21, ResignType DEF HandoffTimesOut
  <2>3. supervisor' \in SupervisorRecord
    BY <1>21 DEF HandoffTimesOut, SupervisorRecord
  <2> QED BY <1>21, <2>1, <2>2, <2>3 DEF HandoffTimesOut, supervisorFrame
<1>22. ASSUME Close PROVE UpdateTypeOK'
  <2>1. process' \in [Processes -> ProcessRecord]
    BY <1>22, PhaseType DEF Close, Phases
  <2>2. manager' \in [Processes -> ManagerRecord]
    BY <1>22, ResignType DEF Close
  <2>3. supervisor.successor \in Processes /\ Alive(supervisor.successor) \in BOOLEAN
    BY <1>22 DEF Close, Supervises, Alive
  <2>4. supervisor' \in SupervisorRecord /\ supervisor'.at = "watch"
    BY <1>22, <2>3 DEF Close, SupervisorRecord
  <2> QED BY <1>22, <2>1, <2>2, <2>4 DEF Close, supervisorFrame
<1>23. CASE UNCHANGED updateVars
  BY <1>23 DEF updateVars, updateFiles, updateHistory
<1> QED
  BY <1>1, <1>2, <1>3, <1>4, <1>5, <1>6, <1>7, <1>8, <1>9, <1>10, <1>11, <1>12, <1>13, <1>14, <1>15, <1>16,
      <1>17, <1>18, <1>19, <1>20, <1>21, <1>22, <1>23
  DEF UpdateNext, CheckOnce, Supervise
-----------------------------------------------------------------------------
(* Readiness: tokens are written by processes that are ready, and a token  *)
(* is only compared with that of a process that was started for it.        *)

ReadinessInv ==
  /\ \A p \in Processes :
       /\ readyFile[p] \in served \cup {NoProcess}
       /\ manager[p].at = "waiting" => manager[p].successor \in Processes
       /\ manager[p].at = "ready" => manager[p].successor \in served
  /\ ReplacedByReady

LEMMA ReadinessStep ==
  ASSUME UpdateTypeOK, ReadinessInv, [UpdateNext]_updateVars
  PROVE ReadinessInv'
<1> USE DEF UpdateTypeOK, ReadinessInv, ReplacedByReady
<1>0. NoProcess \notin Processes
  BY UpdateAssumption DEF Processes, NoProcess
<1>1. ASSUME NEW r \in Releases, OfferPapers(r) PROVE ReadinessInv'
  BY <1>1 DEF OfferPapers, updateHistory
<1>2. ASSUME NEW r \in Releases, OfferBundle(r) PROVE ReadinessInv'
  BY <1>2 DEF OfferBundle, updateHistory
<1>3. ASSUME NEW p \in Processes, BeginCheck(p) PROVE ReadinessInv'
  BY <1>3 DEF BeginCheck, managerFrame, IdleManager
<1>4. ASSUME NEW p \in Processes, VerifyBundle(p) PROVE ReadinessInv'
  BY <1>4 DEF VerifyBundle, managerFrame, Manager, Resign, IdleManager, ManagerRecord
<1>5. ASSUME NEW p \in Processes, OpenNext(p) PROVE ReadinessInv'
  BY <1>5 DEF OpenNext, managerFrame, Resign, IdleManager, ManagerRecord
<1>6. ASSUME NEW p \in Processes, CopyNext(p) PROVE ReadinessInv'
  BY <1>6 DEF CopyNext, managerFrame, Manager, Resign, IdleManager, ManagerRecord
<1>7. ASSUME NEW p \in Processes, RequestHandoff(p) PROVE ReadinessInv'
  BY <1>7 DEF RequestHandoff, managerFrame, Manager, ManagerRecord
<1>8. ASSUME NEW p \in Processes, ArchiveUpdate(p) PROVE ReadinessInv'
  BY <1>8 DEF ArchiveUpdate, managerFrame, Resign, IdleManager
<1>9. ASSUME NEW p \in Processes, SpawnSuccessor(p) PROVE ReadinessInv'
  BY <1>9 DEF SpawnSuccessor, managerFrame, Resign, IdleManager, ManagerRecord
<1>10. ASSUME NEW p \in Processes, SeeReady(p) PROVE ReadinessInv'
  BY <1>10, <1>0 DEF SeeReady, managerFrame, Manager, ReadyToHandOver, ManagerRecord
<1>11. ASSUME NEW p \in Processes, GiveUpWaiting(p) PROVE ReadinessInv'
  BY <1>11 DEF GiveUpWaiting, managerFrame, Resign, IdleManager
<1>12. ASSUME NEW p \in Processes, HandOver(p) PROVE ReadinessInv'
  BY <1>12 DEF HandOver, managerFrame, Resign, IdleManager
<1>13. ASSUME NEW p \in Processes, BecomeReady(p) PROVE ReadinessInv'
  BY <1>13 DEF BecomeReady, processFrame
<1>14. ASSUME NEW p \in Processes, NoticeStop(p) PROVE ReadinessInv'
  BY <1>14 DEF NoticeStop, processFrame
<1>15. ASSUME NEW p \in Processes, TasksEnd(p) PROVE ReadinessInv'
  BY <1>15 DEF TasksEnd, processFrame
<1>16. ASSUME NEW p \in Processes, ProcessFails(p) PROVE ReadinessInv'
  BY <1>16 DEF ProcessFails, processFrame, Resign, IdleManager
<1>17. ASSUME ChildEnded PROVE ReadinessInv'
  BY <1>17 DEF ChildEnded, supervisorFrame
<1>18. ASSUME RestartChild PROVE ReadinessInv'
  BY <1>18 DEF RestartChild, supervisorFrame
<1>19. ASSUME TakeHandoff PROVE ReadinessInv'
  BY <1>19 DEF TakeHandoff, supervisorFrame
<1>20. ASSUME HandoffReady PROVE ReadinessInv'
  BY <1>20, <1>0 DEF HandoffReady, supervisorFrame, Supervises
<1>21. ASSUME HandoffTimesOut PROVE ReadinessInv'
  BY <1>21 DEF HandoffTimesOut, supervisorFrame, Resign, IdleManager
<1>22. ASSUME Close PROVE ReadinessInv'
  BY <1>22 DEF Close, supervisorFrame, Resign, IdleManager
<1>23. CASE UNCHANGED updateVars
  BY <1>23 DEF updateVars, updateFiles, updateHistory
<1> QED
  BY <1>1, <1>2, <1>3, <1>4, <1>5, <1>6, <1>7, <1>8, <1>9, <1>10, <1>11, <1>12, <1>13, <1>14, <1>15, <1>16,
      <1>17, <1>18, <1>19, <1>20, <1>21, <1>22, <1>23
  DEF UpdateNext, CheckOnce, Supervise
-----------------------------------------------------------------------------
(* Restarts: what runs from the staged binary is what that file holds, and *)
(* under a supervisor only the child and its successor can replace it.     *)

RunsNext(p) ==
  /\ process[p].runs = nextBinary /\ nextBinary \in Releases
  /\ \A q \in Processes : manager[q].at # "copying"

RunningIsHeld ==
  \A p \in Processes :
    /\ manager[p].at # "idle" => Alive(p)
    /\ Alive(p) /\ process[p].from = "next" => RunsNext(p)
    /\ process[p].phase # "unborn" /\ process[p].from = "installed" => process[p].runs = Installed

HandingOver == supervisor.at \in {"handoff", "closing"}

Family ==
  /\ \A p \in Processes :
       Alive(p) => p = supervisor.child \/ (HandingOver /\ p = supervisor.successor)
  /\ process[supervisor.child].phase # "unborn"
  /\ HandingOver => /\ process[supervisor.successor].phase # "unborn"
                    /\ process[supervisor.successor].from = "next"
  /\ supervisor.at = "backoff" => Gone(supervisor.child)

ChildIsKept ==
  /\ supervisor.at \in {"watch", "handoff", "closing"} \/ (supervisor.at = "backoff" /\ ~supervisor.asked)
       => supervisor.program = process[supervisor.child].from
  /\ supervisor.at # "ended" /\ supervisor.sound /\ process[supervisor.child].from = "next"
       => RunsNext(supervisor.child)

RestartInv == RunningIsHeld /\ (~alone => Family /\ ChildIsKept)

LEMMA StartedFacts ==
  ASSUME UpdateTypeOK, NEW n \in Processes, NEW from, NEW owner, Started(n, from, owner)
  PROVE  /\ process[n].phase = "unborn"
         /\ process'[n].phase = "starting" /\ process'[n].from = from
         /\ process'[n].runs = IF from = "next" THEN nextBinary ELSE Installed
         /\ \A q \in Processes : q # n => process'[q] = process[q]
BY DEF Started, UpdateTypeOK

LEMMA StartedHeld ==
  ASSUME UpdateTypeOK, RunningIsHeld, NEW n \in Processes, NEW from \in {"installed", "next"}, NEW owner,
         Started(n, from, owner), Executable(from), nextBinary' = nextBinary,
         \A q \in Processes : manager'[q].at = manager[q].at \/ (Alive(q) /\ manager'[q].at # "copying")
  PROVE  RunningIsHeld'
<1> SUFFICES ASSUME NEW q \in Processes
             PROVE  /\ manager'[q].at # "idle" => Alive(q)'
                    /\ Alive(q)' /\ process'[q].from = "next" => RunsNext(q)'
                    /\ process'[q].phase # "unborn" /\ process'[q].from = "installed"
                         => process'[q].runs = Installed
  BY DEF RunningIsHeld
<1>1. /\ process[n].phase = "unborn"
      /\ process'[n].phase = "starting" /\ process'[n].from = from
      /\ process'[n].runs = IF from = "next" THEN nextBinary ELSE Installed
  BY StartedFacts
<1>2. q # n => process'[q] = process[q]
  BY StartedFacts
<1>3. (\A k \in Processes : manager[k].at # "copying") => \A k \in Processes : manager'[k].at # "copying"
  OBVIOUS
<1>4. manager'[q].at # "idle" => Alive(q)'
  BY <1>1, <1>2 DEF RunningIsHeld, Alive
<1>5. CASE q = n
  BY <1>1, <1>3, <1>4, <1>5 DEF RunsNext, Executable
<1>6. CASE q # n
  BY <1>2, <1>3, <1>4, <1>6 DEF RunningIsHeld, RunsNext, Alive
<1> QED BY <1>5, <1>6

LEMMA EndedHeld ==
  ASSUME UpdateTypeOK, RunningIsHeld, NEW k, InPhase(k, "gone"), Resign(k), nextBinary' = nextBinary,
         k \in Processes => process[k].phase # "unborn"
  PROVE  RunningIsHeld'
<1> SUFFICES ASSUME NEW q \in Processes
             PROVE  /\ manager'[q].at # "idle" => Alive(q)'
                    /\ Alive(q)' /\ process'[q].from = "next" => RunsNext(q)'
                    /\ process'[q].phase # "unborn" /\ process'[q].from = "installed"
                         => process'[q].runs = Installed
  BY DEF RunningIsHeld
<1>1. \A m \in Processes : manager'[m].at = IF m = k THEN "idle" ELSE manager[m].at
  BY DEF Resign, IdleManager, UpdateTypeOK
<1>2. /\ process'[q].phase = IF q = k THEN "gone" ELSE process[q].phase
      /\ process'[q].from = process[q].from /\ process'[q].runs = process[q].runs
  BY DEF InPhase, UpdateTypeOK, ProcessRecord
<1>3. CASE q = k
  BY <1>1, <1>2, <1>3 DEF RunningIsHeld, Alive
<1>4. CASE q # k
  BY <1>1, <1>2, <1>4 DEF RunningIsHeld, RunsNext, Alive
<1> QED BY <1>3, <1>4

LEMMA RestartStep ==
  ASSUME UpdateTypeOK, RestartInv, [UpdateNext]_updateVars
  PROVE RestartInv'
<1> USE DEF UpdateTypeOK, RestartInv
<1>1. ASSUME NEW r \in Releases, OfferPapers(r) PROVE RestartInv'
  <2>1. RunningIsHeld'
    BY <1>1
    DEF OfferPapers, updateHistory, RunningIsHeld, RunsNext, Alive
  <2>2. ~alone' => Family'
    BY <1>1
    DEF OfferPapers, updateHistory, Family, HandingOver, Alive, Gone
  <2>3. ~alone' => ChildIsKept'
    BY <1>1
    DEF OfferPapers, updateHistory, ChildIsKept, RunsNext
  <2> QED BY <2>1, <2>2, <2>3
<1>2. ASSUME NEW r \in Releases, OfferBundle(r) PROVE RestartInv'
  <2>1. RunningIsHeld'
    BY <1>2
    DEF OfferBundle, updateHistory, RunningIsHeld, RunsNext, Alive
  <2>2. ~alone' => Family'
    BY <1>2
    DEF OfferBundle, updateHistory, Family, HandingOver, Alive, Gone
  <2>3. ~alone' => ChildIsKept'
    BY <1>2
    DEF OfferBundle, updateHistory, ChildIsKept, RunsNext
  <2> QED BY <2>1, <2>2, <2>3
<1>3. ASSUME NEW p \in Processes, BeginCheck(p) PROVE RestartInv'
  <2>1. RunningIsHeld'
    BY <1>3
    DEF BeginCheck, managerFrame, RunningIsHeld, RunsNext, Alive, IdleManager, ManagerRecord
  <2>2. ~alone' => Family'
    BY <1>3
    DEF BeginCheck, managerFrame, Family, HandingOver, Alive, Gone
  <2>3. ~alone' => ChildIsKept'
    BY <1>3
    DEF BeginCheck, managerFrame, ChildIsKept, RunsNext, IdleManager, ManagerRecord
  <2> QED BY <2>1, <2>2, <2>3
<1>4. ASSUME NEW p \in Processes, VerifyBundle(p) PROVE RestartInv'
  <2>1. RunningIsHeld'
    <3>1. CASE Manager(p, "verified")
      BY <1>4, <3>1 DEF VerifyBundle, managerFrame, RunningIsHeld, RunsNext, Alive, Manager, ManagerRecord
    <3>2. CASE Resign(p)
      BY <1>4, <3>2 DEF VerifyBundle, managerFrame, RunningIsHeld, RunsNext, Alive, Resign, IdleManager
    <3> QED BY <1>4, <3>1, <3>2 DEF VerifyBundle
  <2>2. ~alone' => Family'
    BY <1>4
    DEF VerifyBundle, managerFrame, Family, HandingOver, Alive, Gone
  <2>3. ~alone' => ChildIsKept'
    BY <1>4
    DEF VerifyBundle, managerFrame, ChildIsKept, RunsNext, Manager, Resign, IdleManager, ManagerRecord
  <2> QED BY <2>1, <2>2, <2>3
<1>5. ASSUME NEW p \in Processes, OpenNext(p) PROVE RestartInv'
  <2>1. CASE UNCHANGED nextBinary /\ Resign(p)
    BY <1>5, <2>1 DEF OpenNext, managerFrame, RunningIsHeld, Family, ChildIsKept, RunsNext, HandingOver,
                      Alive, Gone, Resign, IdleManager, ManagerRecord
  <2>2. CASE ~TextBusy /\ manager' = [manager EXCEPT ![p].at = "copying", ![p].held = bundle]
    <3>1. Alive(p) /\ process[p].from # "next"
      BY <1>5, <2>2 DEF OpenNext, RunningIsHeld, TextBusy
    <3>2. RunningIsHeld'
      BY <1>5, <2>2, <3>1 DEF OpenNext, managerFrame, RunningIsHeld, RunsNext, Alive, TextBusy, ManagerRecord
    <3>3. ~alone => Family'
      BY <1>5 DEF OpenNext, managerFrame, Family, HandingOver, Alive, Gone
    <3>4. ~alone => p = supervisor.child
      BY <3>1 DEF Family, HandingOver
    <3>5. ~alone => ChildIsKept'
      BY <1>5, <3>1, <3>4 DEF OpenNext, managerFrame, ChildIsKept
    <3> QED BY <1>5, <3>2, <3>3, <3>5 DEF OpenNext, managerFrame
  <2> QED BY <1>5, <2>1, <2>2 DEF OpenNext
<1>6. ASSUME NEW p \in Processes, CopyNext(p) PROVE RestartInv'
  <2>1. RunningIsHeld'
    BY <1>6
    DEF CopyNext, managerFrame, RunningIsHeld, RunsNext, Alive, Manager, Resign, IdleManager
  <2>2. ~alone' => Family'
    BY <1>6
    DEF CopyNext, managerFrame, Family, HandingOver, Alive, Gone
  <2>3. ~alone' => ChildIsKept'
    BY <1>6
    DEF CopyNext, managerFrame, ChildIsKept, RunsNext, Manager, Resign, IdleManager, RunningIsHeld, Family,
        HandingOver
  <2> QED BY <2>1, <2>2, <2>3
<1>7. ASSUME NEW p \in Processes, RequestHandoff(p) PROVE RestartInv'
  <2>1. RunningIsHeld'
    BY <1>7
    DEF RequestHandoff, managerFrame, RunningIsHeld, RunsNext, Alive, Manager
  <2>2. ~alone' => Family'
    BY <1>7
    DEF RequestHandoff, managerFrame, Family, HandingOver, Alive, Gone
  <2>3. ~alone' => ChildIsKept'
    BY <1>7
    DEF RequestHandoff, managerFrame, ChildIsKept, RunsNext, Manager
  <2> QED BY <2>1, <2>2, <2>3
<1>8. ASSUME NEW p \in Processes, ArchiveUpdate(p) PROVE RestartInv'
  <2>1. RunningIsHeld'
    BY <1>8
    DEF ArchiveUpdate, managerFrame, RunningIsHeld, RunsNext, Alive, Resign, IdleManager
  <2>2. ~alone' => Family'
    BY <1>8
    DEF ArchiveUpdate, managerFrame, Family, HandingOver, Alive, Gone
  <2>3. ~alone' => ChildIsKept'
    BY <1>8
    DEF ArchiveUpdate, managerFrame, ChildIsKept, RunsNext, Resign, IdleManager
  <2> QED BY <2>1, <2>2, <2>3
<1>9. ASSUME NEW p \in Processes, SpawnSuccessor(p) PROVE RestartInv'
  <2>1. CASE UNCHANGED process /\ Resign(p)
    BY <1>9, <2>1 DEF SpawnSuccessor, managerFrame, RunningIsHeld, RunsNext, Alive, Resign, IdleManager,
                      ManagerRecord
  <2>2. ASSUME NEW n \in Processes, Executable("next"), Started(n, "next", p),
               manager' = [manager EXCEPT ![p].at = "waiting", ![p].successor = n]
        PROVE RunningIsHeld'
    <3>1. Alive(p)
      BY <1>9 DEF SpawnSuccessor, RunningIsHeld
    <3>2. \A q \in Processes : manager'[q].at = manager[q].at \/ (Alive(q) /\ manager'[q].at # "copying")
      BY <2>2, <3>1 DEF ManagerRecord
    <3> QED BY <1>9, <2>2, <3>2, StartedHeld DEF SpawnSuccessor
  <2> QED BY <1>9, <2>1, <2>2 DEF SpawnSuccessor, managerFrame
<1>10. ASSUME NEW p \in Processes, SeeReady(p) PROVE RestartInv'
  <2>1. RunningIsHeld'
    BY <1>10
    DEF SeeReady, managerFrame, RunningIsHeld, RunsNext, Alive, Manager
  <2>2. ~alone' => Family'
    BY <1>10
    DEF SeeReady, managerFrame, Family, HandingOver, Alive, Gone
  <2>3. ~alone' => ChildIsKept'
    BY <1>10
    DEF SeeReady, managerFrame, ChildIsKept, RunsNext, Manager
  <2> QED BY <2>1, <2>2, <2>3
<1>11. ASSUME NEW p \in Processes, GiveUpWaiting(p) PROVE RestartInv'
  <2>1. RunningIsHeld'
    BY <1>11
    DEF GiveUpWaiting, managerFrame, RunningIsHeld, RunsNext, Alive, Resign, IdleManager
  <2>2. ~alone' => Family'
    BY <1>11
    DEF GiveUpWaiting, managerFrame, Family, HandingOver, Alive, Gone
  <2>3. ~alone' => ChildIsKept'
    BY <1>11
    DEF GiveUpWaiting, managerFrame, ChildIsKept, RunsNext, Resign, IdleManager
  <2> QED BY <2>1, <2>2, <2>3
<1>12. ASSUME NEW p \in Processes, HandOver(p) PROVE RestartInv'
  <2>1. RunningIsHeld'
    BY <1>12
    DEF HandOver, managerFrame, RunningIsHeld, RunsNext, Alive, Resign, IdleManager
  <2>2. ~alone' => Family'
    BY <1>12
    DEF HandOver, managerFrame, Family, HandingOver, Alive, Gone, RunningIsHeld
  <2>3. ~alone' => ChildIsKept'
    BY <1>12
    DEF HandOver, managerFrame, ChildIsKept, RunsNext, Resign, IdleManager
  <2> QED BY <2>1, <2>2, <2>3
<1>13. ASSUME NEW p \in Processes, BecomeReady(p) PROVE RestartInv'
  <2>1. RunningIsHeld'
    BY <1>13
    DEF BecomeReady, processFrame, RunningIsHeld, RunsNext, Alive, InPhase
  <2>2. ~alone' => Family'
    BY <1>13
    DEF BecomeReady, processFrame, Family, HandingOver, Alive, Gone, InPhase
  <2>3. ~alone' => ChildIsKept'
    BY <1>13
    DEF BecomeReady, processFrame, ChildIsKept, RunsNext, InPhase
  <2> QED BY <2>1, <2>2, <2>3
<1>14. ASSUME NEW p \in Processes, NoticeStop(p) PROVE RestartInv'
  <2>1. RunningIsHeld'
    BY <1>14
    DEF NoticeStop, processFrame, RunningIsHeld, RunsNext, Alive, InPhase
  <2>2. ~alone' => Family'
    BY <1>14
    DEF NoticeStop, processFrame, Family, HandingOver, Alive, Gone, InPhase
  <2>3. ~alone' => ChildIsKept'
    BY <1>14
    DEF NoticeStop, processFrame, ChildIsKept, RunsNext, InPhase
  <2> QED BY <2>1, <2>2, <2>3
<1>15. ASSUME NEW p \in Processes, TasksEnd(p) PROVE RestartInv'
  <2>1. RunningIsHeld'
    BY <1>15
    DEF TasksEnd, processFrame, RunningIsHeld, RunsNext, Alive, InPhase
  <2>2. ~alone' => Family'
    BY <1>15
    DEF TasksEnd, processFrame, Family, HandingOver, Alive, Gone, InPhase
  <2>3. ~alone' => ChildIsKept'
    BY <1>15
    DEF TasksEnd, processFrame, ChildIsKept, RunsNext, InPhase
  <2> QED BY <2>1, <2>2, <2>3
<1>16. ASSUME NEW p \in Processes, ProcessFails(p) PROVE RestartInv'
  <2>1. RunningIsHeld'
    BY <1>16, EndedHeld DEF ProcessFails, processFrame, Alive
  <2>2. ~alone' => Family'
    BY <1>16
    DEF ProcessFails, processFrame, Family, HandingOver, Alive, Gone, InPhase
  <2>3. ~alone' => ChildIsKept'
    BY <1>16
    DEF ProcessFails, processFrame, ChildIsKept, RunsNext, Resign, InPhase, IdleManager
  <2> QED BY <2>1, <2>2, <2>3
<1>17. ASSUME ChildEnded PROVE RestartInv'
  <2>1. RunningIsHeld'
    BY <1>17
    DEF ChildEnded, supervisorFrame, RunningIsHeld, RunsNext, Alive, Supervises, SupervisorRecord
  <2>2. ~alone' => Family'
    BY <1>17
    DEF ChildEnded, supervisorFrame, Family, HandingOver, Alive, Gone, Supervises, SupervisorRecord
  <2>3. ~alone' => ChildIsKept'
    BY <1>17
    DEF ChildEnded, supervisorFrame, ChildIsKept, RunsNext, Supervises, SupervisorRecord
  <2> QED BY <2>1, <2>2, <2>3
<1>18. ASSUME RestartChild PROVE RestartInv'
  <2>1. CASE supervisor' = [supervisor EXCEPT !.at = "ended"] /\ UNCHANGED process
    BY <1>18, <2>1 DEF RestartChild, supervisorFrame, RunningIsHeld, Family, ChildIsKept, RunsNext,
                       HandingOver, Alive, Gone, Supervises, SupervisorRecord
  <2>2. ASSUME NEW n \in Processes, Executable(supervisor.program),
               Started(n, supervisor.program, NoProcess),
               supervisor' = [supervisor EXCEPT !.at = "watch", !.child = n, !.sound = TRUE]
        PROVE RestartInv'
    <3>1. /\ supervisor'.at = "watch" /\ supervisor'.child = n
          /\ supervisor'.program = supervisor.program
          /\ supervisor.program \in {"installed", "next"}
      BY <2>2 DEF SupervisorRecord
    <3>2. RunningIsHeld'
      BY <1>18, <2>2, <3>1, StartedHeld DEF RestartChild, supervisorFrame
    <3>3. /\ process'[n].phase = "starting" /\ process'[n].from = supervisor.program
          /\ process'[n].runs = IF supervisor.program = "next" THEN nextBinary ELSE Installed
          /\ \A q \in Processes : q # n => process'[q] = process[q]
      BY <2>2, StartedFacts
    <3>4. supervisor.at = "backoff" /\ ~alone /\ Gone(supervisor.child)
      BY <1>18 DEF RestartChild, Supervises, Family
    <3>5. Family'
      BY <3>1, <3>3, <3>4 DEF Family, HandingOver, Alive, Gone
    <3>6. ChildIsKept'
      BY <1>18, <2>2, <3>1, <3>3 DEF RestartChild, supervisorFrame, ChildIsKept, RunsNext, Executable
    <3> QED BY <3>2, <3>5, <3>6
  <2> QED BY <1>18, <2>1, <2>2 DEF RestartChild
<1>19. ASSUME TakeHandoff PROVE RestartInv'
  <2>1. CASE UNCHANGED <<process, supervisor>>
    BY <1>19, <2>1 DEF TakeHandoff, supervisorFrame, RunningIsHeld, Family, ChildIsKept, RunsNext,
                       HandingOver, Alive, Gone
  <2>2. ASSUME NEW n \in Processes, Executable("next"), Started(n, "next", n),
               supervisor' = [supervisor EXCEPT !.at = "handoff", !.successor = n]
        PROVE RestartInv'
    <3>1. /\ supervisor'.at = "handoff" /\ supervisor'.successor = n
          /\ supervisor'.child = supervisor.child /\ supervisor'.program = supervisor.program
          /\ supervisor'.sound = supervisor.sound /\ supervisor.at = "watch" /\ ~alone
      BY <1>19, <2>2 DEF SupervisorRecord, TakeHandoff, Supervises
    <3>2. supervisor.child \in Processes /\ supervisor.child # n
      BY <2>2, <3>1, StartedFacts DEF Family, SupervisorRecord
    <3>3. RunningIsHeld'
      BY <1>19, <2>2, StartedHeld DEF TakeHandoff, supervisorFrame
    <3>4. /\ process'[n].phase = "starting" /\ process'[n].from = "next"
          /\ \A q \in Processes : q # n => process'[q] = process[q]
      BY <2>2, StartedFacts
    <3>5. Family'
      BY <2>2, <3>1, <3>2, <3>4 DEF Family, HandingOver, Alive, Gone
    <3>6. RunsNext(supervisor.child) => RunsNext(supervisor.child)'
      BY <1>19, <3>1, <3>2, <3>4 DEF TakeHandoff, supervisorFrame, RunsNext
    <3>7. ChildIsKept'
      BY <3>1, <3>2, <3>4, <3>6 DEF ChildIsKept
    <3> QED BY <3>3, <3>5, <3>7
  <2> QED BY <1>19, <2>1, <2>2 DEF TakeHandoff
<1>20. ASSUME HandoffReady PROVE RestartInv'
  <2>1. RunningIsHeld'
    BY <1>20
    DEF HandoffReady, supervisorFrame, RunningIsHeld, RunsNext, Alive, Supervises, SupervisorRecord
  <2>2. ~alone' => Family'
    BY <1>20
    DEF HandoffReady, supervisorFrame, Family, HandingOver, Alive, Gone, Supervises, SupervisorRecord
  <2>3. ~alone' => ChildIsKept'
    BY <1>20
    DEF HandoffReady, supervisorFrame, ChildIsKept, RunsNext, Supervises, SupervisorRecord
  <2> QED BY <2>1, <2>2, <2>3
<1>21. ASSUME HandoffTimesOut PROVE RestartInv'
  <2>1. RunningIsHeld'
    BY <1>21, EndedHeld DEF HandoffTimesOut, supervisorFrame, Supervises, Family, HandingOver
  <2>2. ~alone' => Family'
    BY <1>21
    DEF HandoffTimesOut, supervisorFrame, Family, HandingOver, Alive, Gone, InPhase, Supervises,
        SupervisorRecord
  <2>3. ~alone' => ChildIsKept'
    BY <1>21
    DEF HandoffTimesOut, supervisorFrame, ChildIsKept, RunsNext, Resign, InPhase, Supervises, IdleManager,
        SupervisorRecord
  <2> QED BY <2>1, <2>2, <2>3
<1>22. ASSUME Close PROVE RestartInv'
  <2>1. RunningIsHeld'
    BY <1>22, EndedHeld DEF Close, supervisorFrame, Supervises, Family
  <2>2. ~alone' => Family'
    BY <1>22
    DEF Close, supervisorFrame, Family, HandingOver, Alive, Gone, InPhase, Supervises, SupervisorRecord
  <2>3. ~alone' => ChildIsKept'
    BY <1>22
    DEF Close, supervisorFrame, ChildIsKept, RunsNext, Resign, InPhase, Supervises, IdleManager,
        SupervisorRecord, RunningIsHeld, Family, HandingOver, Alive
  <2> QED BY <2>1, <2>2, <2>3
<1>23. CASE UNCHANGED updateVars
  BY <1>23 DEF updateVars, updateFiles, updateHistory, RunningIsHeld, Family, ChildIsKept, RunsNext,
      HandingOver, Alive, Gone
<1> QED
  BY <1>1, <1>2, <1>3, <1>4, <1>5, <1>6, <1>7, <1>8, <1>9, <1>10, <1>11, <1>12, <1>13, <1>14, <1>15, <1>16,
      <1>17, <1>18, <1>19, <1>20, <1>21, <1>22, <1>23
  DEF UpdateNext, CheckOnce, Supervise
-----------------------------------------------------------------------------
UpdateInv == UpdateTypeOK /\ ReadinessInv /\ RestartInv

LEMMA UpdateInvInit == UpdateInit => UpdateInv
<1> SUFFICES ASSUME UpdateInit PROVE UpdateInv
  OBVIOUS
<1>1. UpdateTypeOK
  BY TypeInit
<1>2. ReadinessInv
  BY DEF UpdateInit, ReadinessInv, ReplacedByReady, IdleManager
<1>3. 1 \in Processes
  BY UpdateAssumption DEF Processes
<1>4. RunningIsHeld
  BY DEF UpdateInit, RunningIsHeld, RunsNext, Alive, Unborn, IdleManager
<1>5. Family /\ ChildIsKept
  BY <1>3 DEF UpdateInit, Family, ChildIsKept, HandingOver, Alive, Gone, Unborn
<1> QED BY <1>1, <1>2, <1>4, <1>5 DEF UpdateInv, RestartInv

LEMMA UpdateInvStep == ASSUME UpdateInv, [UpdateNext]_updateVars PROVE UpdateInv'
BY TypeStep, ReadinessStep, RestartStep DEF UpdateInv

\* The inductive invariant: tokens are those of processes that have been ready, the
\* staged binary is what runs from it, and only the family of the supervisor lives.
THEOREM UpdateSafe == UpdateSpec => []UpdateInv
<1>1. UpdateInv /\ [UpdateNext]_updateVars => UpdateInv'
  BY UpdateInvStep
<1> QED BY UpdateInvInit, <1>1, PTL DEF UpdateSpec

\* Type correctness of files, processes, managers and supervisor.
THEOREM UpdateTypes == UpdateSpec => []UpdateTypeOK
<1>1. UpdateInv => UpdateTypeOK
  BY DEF UpdateInv
<1> QED BY UpdateSafe, <1>1, PTL

\* Nobody is replaced by a process that was never ready (update.rs:287, supervisor.rs:151).
THEOREM ReplacementWasReady == UpdateSpec => []ReplacedByReady
<1>1. UpdateInv => ReplacedByReady
  BY DEF UpdateInv, ReadinessInv
<1> QED BY UpdateSafe, <1>1, PTL

\* A restart leaves the backoff only by RestartChild, with a staged binary that nobody
\* has touched since the child was taken on (supervisor.rs:81).
LEMMA RestartIsSame ==
  ASSUME UpdateInv, [UpdateNext]_updateVars,
         supervisor.at = "backoff", supervisor'.at # "backoff", ~supervisor.asked, supervisor.sound
  PROVE  supervisor'.at = "watch" /\ process'[supervisor'.child].runs = process[supervisor.child].runs
<1> USE DEF UpdateInv, UpdateTypeOK
<1>1. RestartChild
  <2>1. supervisor' # supervisor
    OBVIOUS
  <2>2. ~Supervises("watch") /\ ~Supervises("handoff") /\ ~Supervises("closing")
    BY DEF Supervises
  <2>3. ASSUME NEW p \in Processes,
               \/ BeginCheck(p) \/ CheckOnce(p) \/ BecomeReady(p) \/ NoticeStop(p) \/ TasksEnd(p)
               \/ ProcessFails(p)
        PROVE  FALSE
    BY <2>1, <2>3 DEF BeginCheck, CheckOnce, VerifyBundle, OpenNext, CopyNext, RequestHandoff, ArchiveUpdate,
       SpawnSuccessor, SeeReady, GiveUpWaiting, HandOver, BecomeReady, NoticeStop, TasksEnd, ProcessFails,
       managerFrame, processFrame
  <2>4. ASSUME NEW r \in Releases, OfferPapers(r) \/ OfferBundle(r) PROVE FALSE
    BY <2>1, <2>4 DEF OfferPapers, OfferBundle
  <2>5. Supervise
    BY <2>1, <2>3, <2>4 DEF UpdateNext, updateVars
  <2> QED BY <2>2, <2>5 DEF Supervise, ChildEnded, TakeHandoff, HandoffReady, HandoffTimesOut, Close
<1>2. ~alone /\ Family /\ ChildIsKept /\ RunningIsHeld
  BY <1>1 DEF RestartChild, Supervises, RestartInv
<1>3. /\ supervisor.program = process[supervisor.child].from
      /\ process[supervisor.child].phase # "unborn"
      /\ supervisor.child \in Processes /\ supervisor.program \in {"installed", "next"}
  BY <1>2 DEF ChildIsKept, Family, SupervisorRecord
<1>4. supervisor.program = "next" => RunsNext(supervisor.child)
  BY <1>2, <1>3 DEF ChildIsKept
<1>5. supervisor.program = "installed" => process[supervisor.child].runs = Installed
  BY <1>2, <1>3 DEF RunningIsHeld
<1>6. Executable(supervisor.program)
  BY <1>3, <1>4 DEF Executable, RunsNext
<1>7. PICK n \in Processes : /\ Started(n, supervisor.program, NoProcess)
                             /\ supervisor' = [supervisor EXCEPT !.at = "watch", !.child = n, !.sound = TRUE]
  BY <1>1, <1>6 DEF RestartChild
<1>8. process'[n].runs = IF supervisor.program = "next" THEN nextBinary ELSE Installed
  BY <1>7, StartedFacts
<1>9. supervisor'.at = "watch" /\ supervisor'.child = n
  BY <1>7 DEF SupervisorRecord
<1> QED BY <1>3, <1>4, <1>5, <1>8, <1>9 DEF RunsNext

\* A supervised child that lived when it was taken on is restarted with its own release.
THEOREM RestartsKeepRelease == UpdateSpec => RestartKeepsRelease
<1>1. UpdateInv /\ [UpdateNext]_updateVars =>
        [(supervisor.at = "backoff" /\ supervisor'.at # "backoff" /\ ~supervisor.asked /\ supervisor.sound) =>
           /\ supervisor'.at = "watch"
           /\ process'[supervisor'.child].runs = process[supervisor.child].runs]_updateVars
  BY RestartIsSame
<1> QED BY UpdateSafe, <1>1, PTL DEF UpdateSpec, RestartKeepsRelease
-----------------------------------------------------------------------------
(* Transfer, threat memory and update                                      *)


\* A step of one topic leaves the state of the others alone.
LEMMA EachTopic == DistributionSpec => TransferSpec /\ ThreatSpec /\ UpdateSpec
<1>1. DistributionInit => TransferInit /\ ThreatInit /\ UpdateInit
  BY DEF DistributionInit
<1>2. [DistributionNext]_<<topic, vars, tvars, threatVars, updateVars>> =>
        [TransferNext]_<<vars, tvars>> /\ [ThreatNext]_threatVars /\ [UpdateNext]_updateVars
  BY DEF DistributionNext
<1> QED BY <1>1, <1>2, PTL DEF DistributionSpec, TransferSpec, ThreatSpec, UpdateSpec

\* DistributionTypeOK: transfers, threat memories and updates keep their types.
THEOREM DistributionTypes == ASSUME Reliable PROVE DistributionSpec => []DistributionTypeOK
<1>1. TransferSpec => []TransferTypeOK
  BY TransferTypes
<1> QED BY <1>1, EachTopic, ThreatTypes, UpdateTypes, PTL DEF DistributionTypeOK
=============================================================================
