-------------------------------- MODULE Threat --------------------------------
(***************************************************************************)
(* The threat memory of the loaders (loader_threat.rs): each loader keeps  *)
(* the incidents it has met with providers and artifacts, saves the worst  *)
(* of them, announces its worst over lossy gossip, and refuses what it met *)
(* itself or what at least two other loaders report.                       *)
(*                                                                         *)
(* The code keeps providers and artifacts in two maps, both in the same    *)
(* way; a subject is either.  Risks are hundredths.  All calls of one      *)
(* loader are made by its main task, one after the other.                  *)
(***************************************************************************)
EXTENDS Integers, FiniteSets

CONSTANTS
  Loaders, Subjects,
  Risks,               \* of one incident: 60, 75 and 100
  BlockFrom,           \* PROVIDER_, ARTIFACT_ and REMOTE_BLOCK_THRESHOLD
  ReporterQuorum,      \* REMOTE_REPORTER_BLOCK_QUORUM
  SavedEntries,        \* MAX_PERSISTED_LOCAL_ENTRIES
  AnnouncedEntries,    \* max_entries of build_announcement
  RemoteTtl,           \* ttl_ms
  ThreatHorizon,       \* bound: the clock
  MaxIncidents,        \* bound: incidents
  MaxMishaps           \* bound: restarts and failed writes

ASSUME LoadersAssumption == IsFiniteSet(Loaders) /\ IsFiniteSet(Subjects)
ASSUME RisksAssumption == Risks \subseteq 1 .. 100 /\ BlockFrom \in 1 .. 100
ASSUME ReportersAssumption == ReporterQuorum \in Nat /\ ReporterQuorum >= 2
ASSUME EntriesAssumption == SavedEntries \in Nat /\ AnnouncedEntries \in Nat
ASSUME ThreatTimeAssumption == RemoteTtl \in Nat /\ ThreatHorizon \in Nat

VARIABLES
  local,        \* per loader: its entry on each subject
  remote,       \* per loader and reporter: the last announcement
  savedThreats, \* tracey-loader.threats.state.json
  unsaved,      \* the loader is about to write what it has changed
  gossip,       \* announcements sent: they arrive late, again or never
  time, incidents, mishaps,
  met,          \* history: the subjects each loader has had an incident with
  sealed        \* history: the risk of each as last written to disk

threatVars == <<local, remote, savedThreats, unsaved, gossip, time, incidents, mishaps, met, sealed>>
threatHistory == <<met, sealed>>

Entries == [risk : 0 .. 100, last : Nat]
NoEntry == [risk |-> 0, last |-> 0]
Unknown == [x \in Subjects |-> NoEntry]
NoReport == [ts |-> 0, entries |-> Unknown]
Known(entries) == {x \in Subjects : entries[x].risk > 0}
Only(entries, S) == [x \in Subjects |-> IF x \in S THEN entries[x] ELSE NoEntry]

ThreatInit ==
  /\ local = [l \in Loaders |-> Unknown]
  /\ remote = [l \in Loaders |-> [r \in Loaders |-> NoReport]]
  /\ savedThreats = [l \in Loaders |-> Unknown]
  /\ unsaved = [l \in Loaders |-> FALSE]
  /\ gossip = {} /\ time = 0 /\ incidents = 0 /\ mishaps = 0
  /\ met = [l \in Loaders |-> {}]
  /\ sealed = [l \in Loaders |-> [x \in Subjects |-> 0]]
-----------------------------------------------------------------------------
\* cleanup_state, at the start of every call
Cleaned(l) ==
  [r \in Loaders |-> IF time - remote[l][r].ts > RemoteTtl THEN NoReport ELSE remote[l][r]]

\* the order of build_announcement and persisted_from_state
Worse(e, f) == e.risk > f.risk \/ (e.risk = f.risk /\ e.last > f.last)

\* mutant: the mildest first
WorstAscending(entries, n) ==
  {S \in SUBSET Known(entries) :
     /\ Cardinality(S) <= n
     /\ S = Known(entries) \/ Cardinality(S) = n
     /\ \A x \in S, y \in Known(entries) \ S : ~Worse(entries[x], entries[y])}

\* the first n entries in that order, whatever the order of equals
Worst(entries, n) ==
  {S \in SUBSET Known(entries) :
     /\ Cardinality(S) <= n
     /\ S = Known(entries) \/ Cardinality(S) = n
     /\ \A x \in S, y \in Known(entries) \ S : ~Worse(entries[y], entries[x])}

\* record_incident: the risk of a subject only grows
Incident(l, x, risk) ==
  /\ ~unsaved[l] /\ incidents < MaxIncidents
  /\ incidents' = incidents + 1
  /\ local' = [local EXCEPT ![l][x] =
       [risk |-> IF @.risk + risk > 100 THEN 100 ELSE @.risk + risk, last |-> time]]
  /\ remote' = [remote EXCEPT ![l] = Cleaned(l)]
  /\ met' = [met EXCEPT ![l] = @ \cup {x}]
  /\ unsaved' = [unsaved EXCEPT ![l] = TRUE]
  /\ UNCHANGED <<savedThreats, gossip, time, mishaps, sealed>>

\* persist_payloads: an atomic write, whose failure is only logged
Persist(l) ==
  /\ unsaved[l] /\ unsaved' = [unsaved EXCEPT ![l] = FALSE]
  /\ \/ /\ \E S \in Worst(local[l], SavedEntries) :
             savedThreats' = [savedThreats EXCEPT ![l] = Only(local[l], S)]
        /\ sealed' = [sealed EXCEPT ![l] =
             [x \in Subjects |-> IF x \in Known(local[l]) THEN local[l][x].risk ELSE @[x]]]
        /\ UNCHANGED mishaps
     \/ /\ mishaps < MaxMishaps /\ mishaps' = mishaps + 1
        /\ UNCHANGED <<savedThreats, sealed>>
  /\ UNCHANGED <<local, remote, gossip, time, incidents, met>>

\* mutant: hearsay is passed on
AnnounceHearsay(l) ==
  /\ ~unsaved[l] /\ Known(local[l]) # {}
  /\ LET heard == [x \in Subjects |->
                     IF local[l][x].risk > 0 THEN local[l][x]
                     ELSE IF \E r \in Loaders : Cleaned(l)[r].entries[x].risk > 0
                          THEN [risk |-> 100, last |-> time] ELSE NoEntry] IN
     gossip' = gossip \cup {[from |-> l, ts |-> time, entries |-> heard]}
  /\ remote' = [remote EXCEPT ![l] = Cleaned(l)]
  /\ UNCHANGED <<local, savedThreats, unsaved, time, incidents, mishaps, threatHistory>>

\* build_announcement: nothing that others have reported is passed on
AnnounceThreats(l) ==
  /\ ~unsaved[l] /\ Known(local[l]) # {}
  /\ \E S \in Worst(local[l], AnnouncedEntries) :
       gossip' = gossip \cup {[from |-> l, ts |-> time, entries |-> Only(local[l], S)]}
  /\ remote' = [remote EXCEPT ![l] = Cleaned(l)]
  /\ UNCHANGED <<local, savedThreats, unsaved, time, incidents, mishaps, threatHistory>>

\* a datagram arrives: another loader's, not expired; it replaces what that
\* loader has reported before, or after
IngestRemote(l, a) ==
  /\ ~unsaved[l] /\ a.from # l /\ time - a.ts <= RemoteTtl
  /\ remote' = [remote EXCEPT ![l] =
                  [Cleaned(l) EXCEPT ![a.from] = [ts |-> a.ts, entries |-> a.entries]]]
  /\ unsaved' = [unsaved EXCEPT ![l] = TRUE]
  /\ UNCHANGED <<local, savedThreats, gossip, time, incidents, mishaps, threatHistory>>

\* from_config of a new process, which persists what it has read
RestartLoader(l) ==
  /\ mishaps < MaxMishaps /\ mishaps' = mishaps + 1
  /\ local' = [local EXCEPT ![l] = savedThreats[l]]
  /\ remote' = [remote EXCEPT ![l] = [r \in Loaders |-> NoReport]]
  /\ unsaved' = [unsaved EXCEPT ![l] = TRUE]
  /\ UNCHANGED <<savedThreats, gossip, time, incidents, threatHistory>>

ThreatTick ==
  /\ time < ThreatHorizon /\ time' = time + 1
  /\ UNCHANGED <<local, remote, savedThreats, unsaved, gossip, incidents, mishaps, threatHistory>>

ThreatNext ==
  \/ \E l \in Loaders :
       \/ \E x \in Subjects, risk \in Risks : Incident(l, x, risk)
       \/ Persist(l) \/ AnnounceThreats(l) \/ RestartLoader(l)
       \/ \E a \in gossip : IngestRemote(l, a)
  \/ ThreatTick

ThreatSpec == ThreatInit /\ [][ThreatNext]_threatVars
-----------------------------------------------------------------------------
(* Properties *)

\* provider_assessment and artifact_assessment
Reporters(l, x) == {r \in Loaders : Cleaned(l)[r].entries[x].risk >= BlockFrom}
Condemned(l, x) == local[l][x].risk >= BlockFrom \/ Cardinality(Reporters(l, x)) >= ReporterQuorum

ThreatTypeOK ==
  /\ local \in [Loaders -> [Subjects -> Entries]]
  /\ remote \in [Loaders -> [Loaders -> [ts : Nat, entries : [Subjects -> Entries]]]]
  /\ savedThreats \in [Loaders -> [Subjects -> Entries]]
  /\ unsaved \in [Loaders -> BOOLEAN]
  /\ gossip \subseteq [from : Loaders, ts : Nat, entries : [Subjects -> Entries]]
  /\ time \in 0 .. ThreatHorizon
  /\ met \in [Loaders -> SUBSET Subjects]
  /\ sealed \in [Loaders -> [Subjects -> 0 .. 100]]

\* A loader refuses a provider or an artifact only if it had an incident with it itself,
\* or if two other loaders had: reports of reports, of the loader's own among them, and
\* repeated, late or outdated reports never make up the quorum.
HearsayRestsOnIncidents ==
  \A l \in Loaders, x \in Subjects :
    Condemned(l, x) => \/ x \in met[l]
                       \/ Cardinality({r \in Loaders \ {l} : x \in met[r]}) >= ReporterQuorum

\* What a loader has met and written is never forgotten, over any restarts and failed
\* writes, unless as many others as the file holds are at least as risky.
ExperienceIsKept ==
  \A l \in Loaders, x \in Subjects :
    sealed[l][x] > 0 =>
      \/ local[l][x].risk > 0
      \/ Cardinality({y \in Subjects : local[l][y].risk >= sealed[l][x]}) >= SavedEntries
=============================================================================
