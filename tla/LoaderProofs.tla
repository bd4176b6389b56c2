---------------------------- MODULE LoaderProofs ----------------------------
(***************************************************************************)
(* Proofs about module Loader, and about the fetches of module             *)
(* PeerTransfer, which run beside every step of it.                        *)
(***************************************************************************)
EXTENDS PeerTransfer, TLAPS

\* No I/O error while a promoted core is read again or a previous one is put
\* back, and tracey.next does not change under a request being applied.
Reliable == "readback" \notin Faults /\ "restore" \notin Faults /\ "overlap" \notin Faults

\* Three files of one core are that core's triple.
LEMMA TripleOfFiles ==
  ASSUME NEW t \in Files, NEW c, t["bin"] = c, t["meta"] = c, t["sig"] = c
  PROVE  t = Triple(c)
BY DEF Files, Triple, Parts

\* A triple verifies when it is of a core, and no other one does.
LEMMA VerifiesTriple ==
  ASSUME NEW c \in Cores
  PROVE  /\ Triple(c) \in Files /\ Verifies(Triple(c))
         /\ \A f \in Parts : Triple(c)[f] = c
         /\ \A d : Triple(c) = Triple(d) => c = d
BY CoresAssumption DEF Files, Triple, Parts, Verifies

\* The first start of the loader, with seeded or with signed files.
LEMMA InitInv == Init => LoaderInv
<1> SUFFICES ASSUME Init PROVE LoaderInv
  OBVIOUS
<1>1. TypeOK
  BY DEF Init, TypeOK, Files, Triple, Parts, Steps
<1>2. JobInv /\ CurrentInv /\ CopyInv /\ FilesInv /\ StagedInv /\ MarkerInv
  BY DEF Init, JobInv, CurrentInv, CopyInv, FilesInv, StagedInv, MarkerInv, Applying, Steady,
         ApplySteps, RollingBack, SnapshotSteps, PromoteSteps, RestoreSteps
<1> QED
  BY <1>1, <1>2 DEF LoaderInv

\* load_or_seed_active_core and load_pending_rollback establish what the main
\* loop relies on from any files a crash may have left.
LEMMA BootInv == Reliable /\ LoaderInv /\ Boot => LoaderInv'
<1> SUFFICES ASSUME Reliable, LoaderInv, Boot PROVE LoaderInv'
  OBVIOUS
<1> USE CoresAssumption
    DEF LoaderInv, Reliable, Applying, Steady, disk, world, procs, threats, memory,
        Steps, SnapshotSteps, PromoteSteps, RestoreSteps, ApplySteps, RollingBack
<1>1. CASE BootVerified
  BY <1>1 DEF BootVerified, TypeOK, JobInv, CurrentInv, CopyInv, FilesInv, StagedInv, MarkerInv,
              Verifies, Triple, Parts, Files
<1>2. CASE BootSeed
  BY <1>2 DEF BootSeed, TypeOK, JobInv, CurrentInv, CopyInv, FilesInv, StagedInv, MarkerInv,
              Parts, Files
<1>3. CASE BootSeedSignature
  <2>1. /\ cur' \in Files /\ current' \in Cores
        /\ cur'["bin"] = current' /\ cur'["meta"] = current' /\ cur'["sig"] = current'
    BY <1>3 DEF BootSeedSignature, TypeOK, FilesInv, Files, Parts
  <2>2. cur' = Triple(current')
    BY <2>1, TripleOfFiles
  <2>3. TypeOK'
    BY <1>3, <2>1 DEF BootSeedSignature, TypeOK
  <2>4. JobInv' /\ CurrentInv' /\ CopyInv'
    BY <1>3, <2>1 DEF BootSeedSignature, JobInv, CurrentInv, CopyInv
  <2>5. FilesInv' /\ StagedInv' /\ MarkerInv'
    BY <1>3, <2>2 DEF BootSeedSignature, FilesInv, StagedInv, MarkerInv
  <2> QED
    BY <2>3, <2>4, <2>5
<1>4. CASE Recover
  <2>1. TypeOK'
    BY <1>4 DEF Recover, LoaderEnds, SpawnCurrent, TypeOK, Files, Parts, MarkerApplies
  <2>2. JobInv'
    BY <1>4 DEF Recover, LoaderEnds, SpawnCurrent, TypeOK, JobInv, MarkerApplies
  <2>3. CurrentInv'
    BY <1>4 DEF Recover, LoaderEnds, SpawnCurrent, CurrentInv, JobInv, MarkerApplies
  <2>4. CopyInv'
    BY <1>4 DEF Recover, LoaderEnds, SpawnCurrent, CopyInv, JobInv, MarkerApplies
  <2>5. FilesInv'
    BY <1>4 DEF Recover, LoaderEnds, SpawnCurrent, FilesInv, MarkerApplies
  <2>6. StagedInv'
    BY <1>4 DEF Recover, LoaderEnds, SpawnCurrent, StagedInv, MarkerApplies
  <2>7. MarkerInv'
    BY <1>4 DEF Recover, LoaderEnds, SpawnCurrent, MarkerInv, JobInv, MarkerApplies
  <2> QED
    BY <2>1, <2>2, <2>3, <2>4, <2>5, <2>6, <2>7
<1> QED
  BY <1>1, <1>2, <1>3, <1>4 DEF Boot

\* The main loop's own decisions: expiry, the exit of the child, its respawn.
LEMMA MainLoopInv == Reliable /\ LoaderInv /\ MainLoop => LoaderInv'
<1> SUFFICES ASSUME Reliable, LoaderInv, MainLoop PROVE LoaderInv'
  OBVIOUS
<1> USE CoresAssumption, PeersAssumption
    DEF LoaderInv, Reliable, Applying, Steady, disk, world, procs, threats, memory, Idle,
        Steps, SnapshotSteps, PromoteSteps, RestoreSteps, ApplySteps, RollingBack
<1>1. CASE Stabilize
  <2>1. TypeOK'
    BY <1>1 DEF Stabilize, TypeOK
  <2>2. JobInv'
    BY <1>1 DEF Stabilize, JobInv, TypeOK, Jobs, Markers
  <2>3. CurrentInv'
    BY <1>1 DEF Stabilize, CurrentInv, JobInv, TypeOK, Jobs, Markers
  <2>4. CopyInv'
    BY <1>1 DEF Stabilize, CopyInv, CurrentInv, JobInv, TypeOK, Files, Parts, Jobs, Markers
  <2>5. FilesInv'
    BY <1>1 DEF Stabilize, FilesInv, CurrentInv, CopyInv, StagedInv, JobInv, TypeOK, Files,
                Parts, Jobs, Markers
  <2>6. StagedInv'
    BY <1>1 DEF Stabilize, StagedInv, JobInv, Jobs, TypeOK
  <2>7. MarkerInv'
    BY <1>1 DEF Stabilize, MarkerInv, JobInv, CurrentInv, TypeOK, Pending
  <2> QED
    BY <2>1, <2>2, <2>3, <2>4, <2>5, <2>6, <2>7
<1>2. CASE ChildExitInProbation
  <2>1. TypeOK'
    BY <1>2 DEF ChildExitInProbation, Blamed, TypeOK, JobInv, Files, Parts, Jobs, Markers
  <2>2. JobInv'
    BY <1>2 DEF ChildExitInProbation, Blamed, JobInv, TypeOK, Jobs, Markers
  <2>3. CurrentInv'
    BY <1>2 DEF ChildExitInProbation, Blamed, CurrentInv, JobInv, TypeOK, Jobs, Markers
  <2>4. CopyInv'
    BY <1>2 DEF ChildExitInProbation, Blamed, CopyInv, CurrentInv, JobInv, TypeOK, Files, Parts, Jobs,
                Markers
  <2>5. FilesInv'
    BY <1>2 DEF ChildExitInProbation, Blamed, FilesInv, CurrentInv, CopyInv, StagedInv, JobInv, TypeOK,
                Files, Parts, Jobs, Markers
  <2>6. StagedInv'
    BY <1>2 DEF ChildExitInProbation, Blamed, StagedInv, JobInv, Jobs, TypeOK
  <2>7. MarkerInv'
    BY <1>2 DEF ChildExitInProbation, Blamed, MarkerInv, JobInv, CurrentInv, TypeOK, Pending
  <2> QED
    BY <2>1, <2>2, <2>3, <2>4, <2>5, <2>6, <2>7
<1>3. CASE ChildExit
  <2>1. TypeOK'
    <3>1. CASE TakeRequest("respawn")
      <4>1. /\ request' \in Cores \cup {None} /\ pc' \in Steps /\ job' \in Jobs \cup {None}
        BY <1>3, <3>1 DEF ChildExit, TakeRequest, TypeOK, JobInv, Jobs
      <4> QED
        BY <1>3, <4>1 DEF ChildExit, TypeOK
    <3>2. CASE request = None /\ pc' = "respawn" /\ UNCHANGED <<request, job>>
      BY <1>3, <3>2 DEF ChildExit, TypeOK
    <3> QED
      BY <1>3, <3>1, <3>2 DEF ChildExit
  <2>2. JobInv'
    <3>1. rollback' = None
      BY <1>3 DEF ChildExit, CurrentInv, TypeOK
    <3> QED
      BY <1>3, <3>1 DEF ChildExit, TakeRequest, JobInv, TypeOK, Jobs
  <2>3. CurrentInv'
    BY <1>3 DEF ChildExit, TakeRequest, CurrentInv, JobInv, TypeOK, Jobs, Markers
  <2>4. CopyInv'
    BY <1>3 DEF ChildExit, TakeRequest, CopyInv, CurrentInv, JobInv, TypeOK, Files, Parts, Jobs,
                Markers
  <2>5. FilesInv'
    BY <1>3 DEF ChildExit, TakeRequest, FilesInv, CurrentInv, CopyInv, StagedInv, JobInv,
                TypeOK, Files, Parts, Jobs, Markers
  <2>6. StagedInv'
    BY <1>3 DEF ChildExit, TakeRequest, StagedInv, JobInv, Jobs, TypeOK
  <2>7. MarkerInv'
    BY <1>3 DEF ChildExit, TakeRequest, MarkerInv, JobInv, CurrentInv, TypeOK, Pending
  <2> QED
    BY <2>1, <2>2, <2>3, <2>4, <2>5, <2>6, <2>7
<1>4. CASE Respawn
  <2>1. TypeOK'
    <3>1. CASE LoaderEnds
      BY <1>4, <3>1 DEF Respawn, LoaderEnds, TypeOK
    <3>2. CASE SpawnCurrent /\ pc' = "idle"
      BY <1>4, <3>2 DEF Respawn, LoaderEnds, SpawnCurrent, TypeOK, Files, Parts
    <3> QED
      BY <1>4, <3>1, <3>2 DEF Respawn
  <2>2. JobInv'
    BY <1>4 DEF Respawn, SpawnCurrent, LoaderEnds, JobInv, TypeOK, Jobs, Markers
  <2>3. CurrentInv'
    BY <1>4 DEF Respawn, SpawnCurrent, LoaderEnds, CurrentInv, JobInv, TypeOK, Jobs, Markers
  <2>4. CopyInv'
    BY <1>4 DEF Respawn, SpawnCurrent, LoaderEnds, CopyInv, CurrentInv, JobInv, TypeOK, Files,
                Parts, Jobs, Markers
  <2>5. FilesInv'
    BY <1>4 DEF Respawn, SpawnCurrent, LoaderEnds, FilesInv, CurrentInv, CopyInv, StagedInv,
                JobInv, TypeOK, Files, Parts, Jobs, Markers
  <2>6. StagedInv'
    BY <1>4 DEF Respawn, SpawnCurrent, LoaderEnds, StagedInv, JobInv, Jobs, TypeOK
  <2>7. MarkerInv'
    BY <1>4 DEF Respawn, SpawnCurrent, LoaderEnds, MarkerInv, JobInv, CurrentInv, TypeOK, Pending
  <2> QED
    BY <2>1, <2>2, <2>3, <2>4, <2>5, <2>6, <2>7
<1> QED
  BY <1>1, <1>2, <1>3, <1>4 DEF MainLoop

\* Taking a supervisor request or a peer's core starts a job on a steady loader.
LEMMA TickInv == Reliable /\ LoaderInv /\ (RequestTick \/ SyncTick) => LoaderInv'
<1> SUFFICES ASSUME Reliable, LoaderInv, (RequestTick \/ SyncTick) PROVE LoaderInv'
  OBVIOUS
<1> USE CoresAssumption, PeersAssumption
    DEF LoaderInv, Reliable, Applying, Steady, disk, world, procs, threats, memory, Idle,
        Steps, SnapshotSteps, PromoteSteps, RestoreSteps, ApplySteps, RollingBack
<1>1. CASE RequestTick
  <2>1. TypeOK'
    BY <1>1 DEF RequestTick, TakeRequest, TypeOK, JobInv, Files, Parts, Jobs, Markers
  <2>2. JobInv'
    BY <1>1 DEF RequestTick, TakeRequest, JobInv, TypeOK, Jobs, Markers
  <2>3. CurrentInv'
    BY <1>1 DEF RequestTick, TakeRequest, CurrentInv, JobInv, TypeOK, Jobs, Markers
  <2>4. CopyInv'
    BY <1>1 DEF RequestTick, TakeRequest, CopyInv, CurrentInv, JobInv, TypeOK, Files, Parts,
                Jobs, Markers
  <2>5. FilesInv'
    BY <1>1 DEF RequestTick, TakeRequest, FilesInv, CurrentInv, CopyInv, StagedInv, JobInv,
                TypeOK, Files, Parts, Jobs, Markers
  <2>6. StagedInv'
    BY <1>1 DEF RequestTick, TakeRequest, StagedInv, JobInv, Jobs, TypeOK
  <2>7. MarkerInv'
    BY <1>1 DEF RequestTick, TakeRequest, MarkerInv, JobInv, CurrentInv, TypeOK, Pending
  <2> QED
    BY <2>1, <2>2, <2>3, <2>4, <2>5, <2>6, <2>7
<1>2. CASE SyncTick
  <2>1. TypeOK'
    <3>1. PICK p \in Peers, served \in Cores \cup {None} :
            SyncFromPeer(p, served) /\ peers[p] # None
      BY <1>2 DEF SyncTick, BestPeers, Candidates
    <3>2. peers[p] \in Cores
      BY <3>1 DEF TypeOK
    <3>3. CASE Suspicious(p, served)
      BY <1>2, <3>1, <3>2, <3>3 DEF SyncTick, SyncFromPeer, TypeOK
    <3>4. CASE ~Suspicious(p, served)
      <4>1. served \in Cores
        BY <3>4 DEF Suspicious
      <4>2. job' \in Jobs /\ pc' \in Steps /\ UNCHANGED threats
        BY <1>2, <3>1, <3>4, <4>1 DEF SyncFromPeer, SyncTick, JobInv, Jobs
      <4> QED
        BY <1>2, <4>2 DEF SyncTick, TypeOK
    <3> QED
      BY <3>3, <3>4
  <2>2. JobInv'
    <3>1. PICK p \in Peers, served \in Cores \cup {None} :
            SyncFromPeer(p, served) /\ peers[p] # None
      BY <1>2 DEF SyncTick, BestPeers, Candidates
    <3>2. peers[p] \in Cores
      BY <3>1 DEF TypeOK
    <3>3. CASE Suspicious(p, served)
      BY <1>2, <3>1, <3>3 DEF SyncTick, SyncFromPeer, JobInv
    <3>4. CASE ~Suspicious(p, served)
      <4>1. served \in Cores
        BY <3>4 DEF Suspicious
      <4>2. job' \in Jobs /\ job'.cause = "apply" /\ pc' = "snap_bin"
        BY <1>2, <3>1, <3>4, <4>1 DEF SyncFromPeer, SyncTick, JobInv, Jobs
      <4> QED
        BY <1>2, <4>2 DEF SyncTick, JobInv
    <3> QED
      BY <3>3, <3>4
  <2>3. CurrentInv'
    BY <1>2 DEF SyncTick, SyncFromPeer, CurrentInv, JobInv, TypeOK, Jobs, Markers
  <2>4. CopyInv'
    BY <1>2 DEF SyncTick, SyncFromPeer, CopyInv, CurrentInv, JobInv, TypeOK, Files, Parts, Jobs,
                Markers
  <2>5. FilesInv'
    BY <1>2 DEF SyncTick, SyncFromPeer, FilesInv, CurrentInv, CopyInv, StagedInv, JobInv,
                TypeOK, Files, Parts, Jobs, Markers
  <2>6. StagedInv'
    <3>1. PICK p \in Peers, served \in Cores \cup {None} :
            SyncFromPeer(p, served) /\ peers[p] # None
      BY <1>2 DEF SyncTick, BestPeers, Candidates
    <3>2. peers[p] \in Cores
      BY <3>1 DEF TypeOK
    <3>3. pc' = "idle" \/ job'.peer = p
      BY <1>2, <3>1 DEF SyncTick, SyncFromPeer
    <3> QED
      BY <1>2, <3>3 DEF SyncTick, StagedInv
  <2>7. MarkerInv'
    BY <1>2 DEF SyncTick, SyncFromPeer, MarkerInv, JobInv, CurrentInv, TypeOK, Pending
  <2> QED
    BY <2>1, <2>2, <2>3, <2>4, <2>5, <2>6, <2>7
<1> QED
  BY <1>1, <1>2

\* apply_fetched_core up to the promoted signature, with its failures.
LEMMA ActivateInv ==
  Reliable /\ LoaderInv /\ (SnapshotCurrent \/ SpawnNext \/ AwaitReady \/ Promote) => LoaderInv'
<1> SUFFICES ASSUME Reliable, LoaderInv,
                    SnapshotCurrent \/ SpawnNext \/ AwaitReady \/ Promote
             PROVE  LoaderInv'
  OBVIOUS
<1> USE CoresAssumption, PeersAssumption
    DEF LoaderInv, Reliable, Applying, Steady, disk, world, procs, threats, memory, Idle,
        Steps, SnapshotSteps, PromoteSteps, RestoreSteps, ApplySteps, RollingBack
<1>1. CASE SnapshotCurrent
  <2>1. TypeOK'
    BY <1>1 DEF SnapshotCurrent, Snapshot, Return, TypeOK, JobInv, Files, Parts, Jobs, Markers
  <2>2. JobInv'
    BY <1>1 DEF SnapshotCurrent, Snapshot, Return, JobInv, TypeOK, Jobs, Markers
  <2>3. CurrentInv'
    BY <1>1 DEF SnapshotCurrent, Snapshot, Return, CurrentInv, JobInv, TypeOK, Jobs, Markers
  <2>4. CopyInv'
    <3>1. CASE Snapshot("bin", "snap_bin", "snap_meta")
      <4>1. cur["bin"] = job.previous
        BY <3>1 DEF Snapshot, FilesInv, CurrentInv, Triple, Parts
      <4> QED
        BY <3>1, <4>1 DEF Snapshot, Return, CopyInv, JobInv, TypeOK, Files, Parts, Jobs
    <3>2. CASE Snapshot("meta", "snap_meta", "snap_sig")
      BY <3>2 DEF Snapshot, Return, CopyInv, CurrentInv, JobInv, TypeOK, Files, Parts, Jobs
    <3>3. CASE Snapshot("sig", "snap_sig", "spawn")
      <4>1. CASE pc' = "spawn"
        <5>1. /\ rb' \in Files /\ rb'["bin"] = job'.previous
              /\ rb'["meta"] = job'.previous /\ rb'["sig"] = job'.previous
          BY <3>3, <4>1 DEF Snapshot, Return, CopyInv, CurrentInv, JobInv, TypeOK, Files, Parts,
                            Jobs
        <5>2. rb' = Triple(job'.previous)
          BY <5>1, TripleOfFiles
        <5> QED
          BY <3>3, <4>1, <5>2 DEF Snapshot, CopyInv, JobInv
      <4>2. CASE pc' # "spawn"
        BY <3>3, <4>2 DEF Snapshot, Return, CopyInv, JobInv, Jobs
      <4> QED
        BY <4>1, <4>2
    <3> QED
      BY <1>1, <3>1, <3>2, <3>3 DEF SnapshotCurrent
  <2>5. FilesInv'
    BY <1>1 DEF SnapshotCurrent, Snapshot, Return, FilesInv, CurrentInv, CopyInv, StagedInv,
                JobInv, TypeOK, Files, Parts, Jobs, Markers
  <2>6. StagedInv'
    BY <1>1 DEF SnapshotCurrent, Snapshot, Return, StagedInv, JobInv, Jobs, TypeOK
  <2>7. MarkerInv'
    BY <1>1 DEF SnapshotCurrent, Snapshot, Return, MarkerInv, JobInv, CurrentInv, TypeOK, Pending
  <2> QED
    BY <2>1, <2>2, <2>3, <2>4, <2>5, <2>6, <2>7
<1>2. CASE SpawnNext
  <2>1. TypeOK'
    <3>1. job \in Jobs /\ job.core \in Cores /\ job.peer \in Peers \cup {None}
          /\ job.back \in Steps
      BY <1>2 DEF SpawnNext, JobInv, Jobs
    <3>2. /\ pc' \in Steps /\ job' \in Jobs \cup {None} /\ next' \in Cores \cup {None}
          /\ blockedCores' \subseteq Cores /\ blockedPeers' \subseteq Peers
          /\ cleaning' \in BOOLEAN
      BY <1>2, <3>1 DEF SpawnNext, HandoffFailure, Blamed, StagedBinary, Return, TypeOK
    <3> QED
      BY <1>2, <3>2 DEF SpawnNext, TypeOK
  <2>2. JobInv'
    BY <1>2 DEF SpawnNext, HandoffFailure, Blamed, StagedBinary, Return, JobInv, TypeOK, Jobs, Markers
  <2>3. CurrentInv'
    BY <1>2 DEF SpawnNext, HandoffFailure, Blamed, StagedBinary, Return, CurrentInv, JobInv, TypeOK,
                Jobs, Markers
  <2>4. CopyInv'
    BY <1>2 DEF SpawnNext, HandoffFailure, Blamed, StagedBinary, Return, CopyInv, CurrentInv, JobInv,
                TypeOK, Files, Parts, Jobs, Markers
  <2>5. FilesInv'
    BY <1>2 DEF SpawnNext, HandoffFailure, Blamed, StagedBinary, Return, FilesInv, CurrentInv, CopyInv,
                StagedInv, JobInv, TypeOK, Files, Parts, Jobs, Markers
  <2>6. StagedInv'
    BY <1>2 DEF SpawnNext, HandoffFailure, Blamed, StagedBinary, Return, StagedInv, JobInv, Jobs, TypeOK
  <2>7. MarkerInv'
    BY <1>2 DEF SpawnNext, HandoffFailure, Blamed, StagedBinary, Return, MarkerInv, JobInv, CurrentInv,
                TypeOK, Pending
  <2> QED
    BY <2>1, <2>2, <2>3, <2>4, <2>5, <2>6, <2>7
<1>3. CASE AwaitReady
  <2>1. TypeOK'
    <3>1. job \in Jobs /\ job.core \in Cores /\ job.peer \in Peers \cup {None}
          /\ job.back \in Steps
      BY <1>3 DEF AwaitReady, JobInv, Jobs
    <3> QED
      BY ZenonT(60), <1>3, <3>1 DEF AwaitReady, HandoffFailure, Blamed, Return, TypeOK
  <2>2. JobInv'
    BY <1>3 DEF AwaitReady, HandoffFailure, Blamed, Return, JobInv, TypeOK, Jobs, Markers
  <2>3. CurrentInv'
    BY <1>3 DEF AwaitReady, HandoffFailure, Blamed, Return, CurrentInv, JobInv, TypeOK, Jobs, Markers
  <2>4. CopyInv'
    BY <1>3 DEF AwaitReady, HandoffFailure, Blamed, Return, CopyInv, CurrentInv, JobInv, TypeOK, Files,
                Parts, Jobs, Markers
  <2>5. FilesInv'
    BY <1>3 DEF AwaitReady, HandoffFailure, Blamed, Return, FilesInv, CurrentInv, CopyInv, StagedInv,
                JobInv, TypeOK, Files, Parts, Jobs, Markers
  <2>6. StagedInv'
    BY <1>3 DEF AwaitReady, HandoffFailure, Blamed, Return, StagedInv, JobInv, Jobs, TypeOK
  <2>7. MarkerInv'
    BY <1>3 DEF AwaitReady, HandoffFailure, Blamed, Return, MarkerInv, JobInv, CurrentInv, TypeOK, Pending
  <2> QED
    BY <2>1, <2>2, <2>3, <2>4, <2>5, <2>6, <2>7
<1>4. CASE RemoveCurrent
  <2>1. TypeOK'
    BY <1>4 DEF RemoveCurrent, PromoteFrame, TypeOK, JobInv, Files, Parts, Jobs, Markers
  <2>2. JobInv'
    BY <1>4 DEF RemoveCurrent, PromoteFrame, JobInv, TypeOK, Jobs, Markers
  <2>3. CurrentInv'
    BY <1>4 DEF RemoveCurrent, PromoteFrame, CurrentInv, JobInv, TypeOK, Jobs, Markers
  <2>4. CopyInv'
    BY <1>4 DEF RemoveCurrent, PromoteFrame, CopyInv, CurrentInv, JobInv, TypeOK, Files, Parts,
                Jobs, Markers
  <2>5. FilesInv'
    BY <1>4 DEF RemoveCurrent, PromoteFrame, FilesInv, CurrentInv, CopyInv, StagedInv, JobInv,
                TypeOK, Files, Parts, Jobs, Markers
  <2>6. StagedInv'
    BY <1>4 DEF RemoveCurrent, PromoteFrame, StagedInv, JobInv, Jobs, TypeOK
  <2>7. MarkerInv'
    BY <1>4 DEF RemoveCurrent, PromoteFrame, MarkerInv, JobInv, CurrentInv, TypeOK, Pending
  <2> QED
    BY <2>1, <2>2, <2>3, <2>4, <2>5, <2>6, <2>7
<1>5. CASE RenameStaged
  <2>1. TypeOK'
    <3>1. job \in Jobs /\ StagedBinary \in Cores \cup {None}
      BY <1>5 DEF RenameStaged, StagedBinary, JobInv, Jobs, TypeOK
    <3>2. cur' \in Files /\ staged' \in Cores \cup {None} /\ next' \in Cores \cup {None}
      BY <1>5, <3>1 DEF RenameStaged, PromotionFailure, TypeOK, Files, Parts
    <3>3. cleaning' \in BOOLEAN
      BY <1>5 DEF RenameStaged, PromotionFailure, TypeOK
    <3> QED
      BY <1>5, <3>2, <3>3 DEF RenameStaged, PromoteFrame, PromotionFailure, TypeOK
  <2>2. JobInv'
    BY <1>5 DEF RenameStaged, PromoteFrame, PromotionFailure, StagedBinary, JobInv, TypeOK,
                Jobs, Markers
  <2>3. CurrentInv'
    BY <1>5 DEF RenameStaged, PromoteFrame, PromotionFailure, StagedBinary, CurrentInv, JobInv,
                TypeOK, Jobs, Markers
  <2>4. CopyInv'
    BY <1>5 DEF RenameStaged, PromoteFrame, PromotionFailure, StagedBinary, CopyInv, CurrentInv,
                JobInv, TypeOK, Files, Parts, Jobs, Markers
  <2>5. FilesInv'
    BY <1>5 DEF RenameStaged, PromoteFrame, PromotionFailure, StagedBinary, FilesInv,
                CurrentInv, CopyInv, StagedInv, JobInv, TypeOK, Files, Parts, Jobs, Markers
  <2>6. StagedInv'
    BY <1>5 DEF RenameStaged, PromoteFrame, PromotionFailure, StagedBinary, StagedInv, JobInv,
                Jobs, TypeOK
  <2>7. MarkerInv'
    BY <1>5 DEF RenameStaged, PromoteFrame, PromotionFailure, StagedBinary, MarkerInv, JobInv,
                CurrentInv, TypeOK, Pending
  <2> QED
    BY <2>1, <2>2, <2>3, <2>4, <2>5, <2>6, <2>7
<1>6. CASE WritePromoted("meta", "meta", "sig")
  <2>1. TypeOK'
    <3>1. job.core \in Cores
      BY <1>6 DEF WritePromoted, JobInv, Jobs
    <3>2. cur' \in Files /\ next' \in Cores \cup {None} /\ staged' = staged /\ pc' \in Steps
      BY <1>6, <3>1 DEF WritePromoted, PromotionFailure, TypeOK, Files, Parts
    <3>3. cleaning' \in BOOLEAN
      BY <1>6 DEF WritePromoted, PromotionFailure, TypeOK
    <3> QED
      BY <1>6, <3>2, <3>3 DEF WritePromoted, PromoteFrame, TypeOK
  <2>2. JobInv'
    BY <1>6 DEF WritePromoted, PromoteFrame, PromotionFailure, JobInv, TypeOK, Jobs, Markers
  <2>3. CurrentInv'
    BY <1>6 DEF WritePromoted, PromoteFrame, PromotionFailure, CurrentInv, JobInv, TypeOK, Jobs,
                Markers
  <2>4. CopyInv'
    BY <1>6 DEF WritePromoted, PromoteFrame, PromotionFailure, CopyInv, CurrentInv, JobInv,
                TypeOK, Files, Parts, Jobs, Markers
  <2>5. FilesInv'
    BY <1>6 DEF WritePromoted, PromoteFrame, PromotionFailure, FilesInv, CurrentInv, CopyInv,
                StagedInv, JobInv, TypeOK, Files, Parts, Jobs, Markers
  <2>6. StagedInv'
    BY <1>6 DEF WritePromoted, PromoteFrame, PromotionFailure, StagedInv, JobInv, Jobs, TypeOK
  <2>7. MarkerInv'
    BY <1>6 DEF WritePromoted, PromoteFrame, PromotionFailure, MarkerInv, JobInv, CurrentInv,
                TypeOK, Pending
  <2> QED
    BY <2>1, <2>2, <2>3, <2>4, <2>5, <2>6, <2>7
<1>7. CASE WritePromoted("sig", "sig", "readback")
  <2>1. TypeOK'
    <3>1. job.core \in Cores
      BY <1>7 DEF WritePromoted, JobInv, Jobs
    <3>2. cur' \in Files /\ next' \in Cores \cup {None} /\ staged' = staged /\ pc' \in Steps
      BY <1>7, <3>1 DEF WritePromoted, PromotionFailure, TypeOK, Files, Parts
    <3>3. cleaning' \in BOOLEAN
      BY <1>7 DEF WritePromoted, PromotionFailure, TypeOK
    <3> QED
      BY <1>7, <3>2, <3>3 DEF WritePromoted, PromoteFrame, TypeOK
  <2>2. JobInv'
    BY <1>7 DEF WritePromoted, PromoteFrame, PromotionFailure, JobInv, TypeOK, Jobs, Markers
  <2>3. CurrentInv'
    BY <1>7 DEF WritePromoted, PromoteFrame, PromotionFailure, CurrentInv, JobInv, TypeOK, Jobs,
                Markers
  <2>4. CopyInv'
    BY <1>7 DEF WritePromoted, PromoteFrame, PromotionFailure, CopyInv, CurrentInv, JobInv,
                TypeOK, Files, Parts, Jobs, Markers
  <2>5. FilesInv'
    <3>1. CASE pc' = "readback"
      <4>1. /\ cur' \in Files /\ cur'["bin"] = job'.core
            /\ cur'["meta"] = job'.core /\ cur'["sig"] = job'.core
        BY <1>7, <3>1 DEF WritePromoted, PromoteFrame, PromotionFailure, FilesInv, JobInv, Jobs,
                          TypeOK, Files, Parts
      <4>2. cur' = Triple(job'.core)
        BY <4>1, TripleOfFiles
      <4> QED
        BY <3>1, <4>2 DEF FilesInv
    <3>2. CASE pc' # "readback"
      BY <1>7, <3>2 DEF WritePromoted, PromotionFailure, FilesInv
    <3> QED
      BY <3>1, <3>2
  <2>6. StagedInv'
    BY <1>7 DEF WritePromoted, PromoteFrame, PromotionFailure, StagedInv, JobInv, Jobs, TypeOK
  <2>7. MarkerInv'
    BY <1>7 DEF WritePromoted, PromoteFrame, PromotionFailure, MarkerInv, JobInv, CurrentInv,
                TypeOK, Pending
  <2> QED
    BY <2>1, <2>2, <2>3, <2>4, <2>5, <2>6, <2>7
<1> QED
  BY <1>1, <1>2, <1>3, <1>4, <1>5, <1>6, <1>7 DEF Promote

\* apply_fetched_core from the readback of the promoted core to its end.
LEMMA FinishInv ==
  Reliable /\ LoaderInv /\ (Readback \/ WriteMarker \/ SetCurrent \/ SetRollback) => LoaderInv'
<1> SUFFICES ASSUME Reliable, LoaderInv,
                    Readback \/ WriteMarker \/ SetCurrent \/ SetRollback
             PROVE  LoaderInv'
  OBVIOUS
<1> USE CoresAssumption, PeersAssumption
    DEF LoaderInv, Reliable, Applying, Steady, disk, world, procs, threats, memory, Idle,
        Steps, SnapshotSteps, PromoteSteps, RestoreSteps, ApplySteps, RollingBack
<1>1. CASE Readback
  <2>1. TypeOK'
    <3>1. job \in Jobs /\ job.back \in Steps
      BY <1>1 DEF Readback, JobInv, Jobs
    <3>2. /\ pc' \in Steps /\ job' \in Jobs \cup {None} /\ next' \in Cores \cup {None}
          /\ stray' \in BOOLEAN
      BY <1>1, <3>1 DEF Readback, Return, TypeOK
    <3> QED
      BY <1>1, <3>2 DEF Readback, TypeOK
  <2>2. JobInv'
    BY <1>1 DEF Readback, Return, JobInv, TypeOK, Jobs, Markers
  <2>3. CurrentInv'
    BY <1>1 DEF Readback, Return, CurrentInv, JobInv, TypeOK, Jobs, Markers
  <2>4. CopyInv'
    BY <1>1 DEF Readback, Return, CopyInv, CurrentInv, JobInv, TypeOK, Files, Parts, Jobs, Markers
  <2>5. FilesInv'
    BY <1>1 DEF Readback, Return, FilesInv, CurrentInv, CopyInv, StagedInv, JobInv, TypeOK,
                Files, Parts, Jobs, Markers
  <2>6. StagedInv'
    BY <1>1 DEF Readback, Return, StagedInv, JobInv, Jobs, TypeOK
  <2>7. MarkerInv'
    BY <1>1 DEF Readback, Return, MarkerInv, JobInv, CurrentInv, TypeOK, Pending
  <2> QED
    BY <2>1, <2>2, <2>3, <2>4, <2>5, <2>6, <2>7
<1>2. CASE WriteMarker
  <2>1. TypeOK'
    <3>1. Pending \in Markers
      BY <1>2 DEF WriteMarker, Pending, JobInv, Jobs, Markers
    <3> QED
      BY ZenonT(60), <1>2, <3>1 DEF WriteMarker, TypeOK
  <2>2. JobInv'
    BY <1>2 DEF WriteMarker, JobInv, TypeOK, Jobs, Markers
  <2>3. CurrentInv'
    BY <1>2 DEF WriteMarker, CurrentInv, JobInv, TypeOK, Jobs, Markers
  <2>4. CopyInv'
    BY <1>2 DEF WriteMarker, CopyInv, CurrentInv, JobInv, TypeOK, Files, Parts, Jobs, Markers
  <2>5. FilesInv'
    BY <1>2 DEF WriteMarker, FilesInv, CurrentInv, CopyInv, StagedInv, JobInv, TypeOK, Files,
                Parts, Jobs, Markers
  <2>6. StagedInv'
    BY <1>2 DEF WriteMarker, StagedInv, JobInv, Jobs, TypeOK
  <2>7. MarkerInv'
    BY <1>2 DEF WriteMarker, MarkerInv, JobInv, CurrentInv, TypeOK, Pending
  <2> QED
    BY <2>1, <2>2, <2>3, <2>4, <2>5, <2>6, <2>7
<1>3. CASE SetCurrent
  <2>1. TypeOK'
    BY <1>3 DEF SetCurrent, TypeOK, JobInv, Files, Parts, Jobs, Markers
  <2>2. JobInv'
    BY <1>3 DEF SetCurrent, JobInv, TypeOK, Jobs, Markers
  <2>3. CurrentInv'
    BY <1>3 DEF SetCurrent, CurrentInv, JobInv, TypeOK, Jobs, Markers
  <2>4. CopyInv'
    BY <1>3 DEF SetCurrent, CopyInv, CurrentInv, JobInv, TypeOK, Files, Parts, Jobs, Markers
  <2>5. FilesInv'
    BY <1>3 DEF SetCurrent, FilesInv, CurrentInv, CopyInv, StagedInv, JobInv, TypeOK, Files,
                Parts, Jobs, Markers
  <2>6. StagedInv'
    BY <1>3 DEF SetCurrent, StagedInv, JobInv, Jobs, TypeOK
  <2>7. MarkerInv'
    BY <1>3 DEF SetCurrent, MarkerInv, JobInv, CurrentInv, TypeOK, Pending
  <2> QED
    BY <2>1, <2>2, <2>3, <2>4, <2>5, <2>6, <2>7
<1>4. CASE SetRollback
  <2>1. TypeOK'
    <3>1. Pending \in Markers
      BY <1>4 DEF SetRollback, Pending, JobInv, Jobs, Markers
    <3> QED
      BY <1>4, <3>1 DEF SetRollback, Return, TypeOK
  <2>2. JobInv'
    BY <1>4 DEF SetRollback, Return, JobInv, TypeOK, Jobs, Markers
  <2>3. CurrentInv'
    <3>1. rollback'.failed = current'
      BY <1>4 DEF SetRollback, Pending, CurrentInv
    <3> QED
      BY <1>4, <3>1 DEF SetRollback, Return, CurrentInv
  <2>4. CopyInv'
    <3>1. rb' = Triple(rollback'.previous)
      BY <1>4 DEF SetRollback, Pending, CopyInv
    <3> QED
      BY <1>4, <3>1 DEF SetRollback, Return, CopyInv
  <2>5. FilesInv'
    BY <1>4 DEF SetRollback, Return, FilesInv, CurrentInv, CopyInv, StagedInv, JobInv, TypeOK,
                Files, Parts, Jobs, Markers
  <2>6. StagedInv'
    BY <1>4 DEF SetRollback, Return, StagedInv, JobInv, Jobs, TypeOK
  <2>7. MarkerInv'
    BY <1>4 DEF SetRollback, Return, MarkerInv, JobInv, CurrentInv, TypeOK, Pending
  <2> QED
    BY <2>1, <2>2, <2>3, <2>4, <2>5, <2>6, <2>7
<1> QED
  BY <1>1, <1>2, <1>3, <1>4

\* restore_previous_core and what its two callers do after it.
LEMMA RestoreInv ==
  Reliable /\ LoaderInv /\ (RestorePrevious \/ Reload \/ Reactivate \/ ClearRollback) => LoaderInv'
<1> SUFFICES ASSUME Reliable, LoaderInv,
                    RestorePrevious \/ Reload \/ Reactivate \/ ClearRollback
             PROVE  LoaderInv'
  OBVIOUS
<1> USE CoresAssumption, PeersAssumption
    DEF LoaderInv, Reliable, Applying, Steady, disk, world, procs, threats, memory, Idle,
        Steps, SnapshotSteps, PromoteSteps, RestoreSteps, ApplySteps, RollingBack
<1>1. CASE Restore("bin", "rest_bin", "rest_meta")
  <2>1. TypeOK'
    <3>1. rb["bin"] \in Cores
      BY <1>1 DEF Restore, CopyInv, JobInv, Jobs, Triple, Parts
    <3>2. cur' \in Files /\ pc' = "rest_meta"
      BY <1>1, <3>1 DEF Restore, TypeOK, Files, Parts
    <3> QED
      BY <1>1, <3>1, <3>2 DEF Restore, TypeOK
  <2>2. JobInv'
    BY <1>1 DEF Restore, RestoreFailure, Return, LoaderEnds, JobInv, TypeOK, Jobs, Markers
  <2>3. CurrentInv'
    BY <1>1 DEF Restore, RestoreFailure, Return, LoaderEnds, CurrentInv, JobInv, TypeOK, Jobs,
                Markers
  <2>4. CopyInv'
    BY <1>1 DEF Restore, RestoreFailure, Return, LoaderEnds, CopyInv, CurrentInv, JobInv,
                TypeOK, Files, Parts, Jobs, Markers
  <2>5. FilesInv'
    <3>1. rb["bin"] = job.previous /\ job.previous \in Cores
      BY <1>1 DEF Restore, CopyInv, JobInv, Jobs, Triple, Parts
    <3>2. cur'["bin"] = job'.previous /\ pc' = "rest_meta"
      BY <1>1, <3>1 DEF Restore, TypeOK, Files, Parts
    <3> QED
      BY <3>2 DEF FilesInv
  <2>6. StagedInv'
    <3>1. rb["bin"] \in Cores
      BY <1>1 DEF Restore, CopyInv, JobInv, Jobs, Triple, Parts
    <3> QED
      BY <1>1, <3>1 DEF Restore, StagedInv
  <2>7. MarkerInv'
    BY <1>1 DEF Restore, RestoreFailure, Return, LoaderEnds, MarkerInv, JobInv, CurrentInv,
                TypeOK, Pending
  <2> QED
    BY <2>1, <2>2, <2>3, <2>4, <2>5, <2>6, <2>7
<1>2. CASE Restore("meta", "rest_meta", "rest_sig")
  <2>1. TypeOK'
    BY <1>2 DEF Restore, RestoreFailure, Return, LoaderEnds, TypeOK, JobInv, Files, Parts, Jobs,
                Markers
  <2>2. JobInv'
    BY <1>2 DEF Restore, RestoreFailure, Return, LoaderEnds, JobInv, TypeOK, Jobs, Markers
  <2>3. CurrentInv'
    BY <1>2 DEF Restore, RestoreFailure, Return, LoaderEnds, CurrentInv, JobInv, TypeOK, Jobs,
                Markers
  <2>4. CopyInv'
    BY <1>2 DEF Restore, RestoreFailure, Return, LoaderEnds, CopyInv, CurrentInv, JobInv,
                TypeOK, Files, Parts, Jobs, Markers
  <2>5. FilesInv'
    BY <1>2 DEF Restore, RestoreFailure, Return, LoaderEnds, FilesInv, CurrentInv, CopyInv,
                StagedInv, JobInv, TypeOK, Files, Parts, Jobs, Markers
  <2>6. StagedInv'
    BY <1>2 DEF Restore, RestoreFailure, Return, LoaderEnds, StagedInv, JobInv, Jobs, TypeOK
  <2>7. MarkerInv'
    BY <1>2 DEF Restore, RestoreFailure, Return, LoaderEnds, MarkerInv, JobInv, CurrentInv,
                TypeOK, Pending
  <2> QED
    BY <2>1, <2>2, <2>3, <2>4, <2>5, <2>6, <2>7
<1>3. CASE Restore("sig", "rest_sig", "reload")
  <2>1. TypeOK'
    BY <1>3 DEF Restore, RestoreFailure, Return, LoaderEnds, TypeOK, JobInv, Files, Parts, Jobs,
                Markers
  <2>2. JobInv'
    BY <1>3 DEF Restore, RestoreFailure, Return, LoaderEnds, JobInv, TypeOK, Jobs, Markers
  <2>3. CurrentInv'
    BY <1>3 DEF Restore, RestoreFailure, Return, LoaderEnds, CurrentInv, JobInv, TypeOK, Jobs,
                Markers
  <2>4. CopyInv'
    BY <1>3 DEF Restore, RestoreFailure, Return, LoaderEnds, CopyInv, CurrentInv, JobInv,
                TypeOK, Files, Parts, Jobs, Markers
  <2>5. FilesInv'
    <3>1. /\ cur' \in Files /\ cur'["bin"] = job'.previous
          /\ cur'["meta"] = job'.previous /\ cur'["sig"] = job'.previous /\ pc' = "reload"
      BY <1>3 DEF Restore, FilesInv, JobInv, Jobs, TypeOK, Files, Parts
    <3>2. cur' = Triple(job'.previous)
      BY <3>1, TripleOfFiles
    <3> QED
      BY <3>1, <3>2 DEF FilesInv
  <2>6. StagedInv'
    BY <1>3 DEF Restore, RestoreFailure, Return, LoaderEnds, StagedInv, JobInv, Jobs, TypeOK
  <2>7. MarkerInv'
    BY <1>3 DEF Restore, RestoreFailure, Return, LoaderEnds, MarkerInv, JobInv, CurrentInv,
                TypeOK, Pending
  <2> QED
    BY <2>1, <2>2, <2>3, <2>4, <2>5, <2>6, <2>7
<1>4. CASE Reload
  <2>1. TypeOK'
    <3>1. cur = Triple(job.previous) /\ job.previous \in Cores
      BY <1>4 DEF Reload, FilesInv, JobInv, Jobs
    <3>2. Verifies(cur) /\ cur["bin"] = job.previous
      BY <3>1, VerifiesTriple DEF Parts
    <3>3. pc' = "reactivate" /\ current' = job.previous /\ UNCHANGED <<job, rollback, disk>>
      BY <1>4, <3>2 DEF Reload
    <3> QED
      BY <1>4, <3>1, <3>2, <3>3 DEF Reload, TypeOK
  <2>2. JobInv'
    <3>1. cur = Triple(job.previous) /\ job.previous \in Cores
      BY <1>4 DEF Reload, FilesInv, JobInv, Jobs
    <3>2. Verifies(cur) /\ cur["bin"] = job.previous
      BY <3>1, VerifiesTriple DEF Parts
    <3>3. pc' = "reactivate" /\ current' = job.previous /\ UNCHANGED <<job, rollback, disk>>
      BY <1>4, <3>2 DEF Reload
    <3> QED
      BY <1>4, <3>1, <3>2, <3>3 DEF Reload, JobInv
  <2>3. CurrentInv'
    <3>1. cur = Triple(job.previous) /\ job.previous \in Cores
      BY <1>4 DEF Reload, FilesInv, JobInv, Jobs
    <3>2. Verifies(cur) /\ cur["bin"] = job.previous
      BY <3>1, VerifiesTriple DEF Parts
    <3>3. pc' = "reactivate" /\ current' = job.previous /\ UNCHANGED <<job, rollback, disk>>
      BY <1>4, <3>2 DEF Reload
    <3> QED
      BY <1>4, <3>1, <3>2, <3>3 DEF Reload, CurrentInv
  <2>4. CopyInv'
    BY <1>4 DEF Reload, RestoreFailure, Return, LoaderEnds, Verifies, CopyInv, CurrentInv,
                JobInv, TypeOK, Files, Parts, Jobs, Markers
  <2>5. FilesInv'
    BY <1>4 DEF Reload, RestoreFailure, Return, LoaderEnds, Verifies, FilesInv, CurrentInv,
                CopyInv, StagedInv, JobInv, TypeOK, Files, Parts, Jobs, Markers
  <2>6. StagedInv'
    <3>1. cur = Triple(job.previous) /\ job.previous \in Cores
      BY <1>4 DEF Reload, FilesInv, JobInv, Jobs
    <3>2. Verifies(cur) /\ cur["bin"] = job.previous
      BY <3>1, VerifiesTriple DEF Parts
    <3>3. pc' = "reactivate" /\ current' = job.previous /\ UNCHANGED <<job, rollback, disk>>
      BY <1>4, <3>2 DEF Reload
    <3> QED
      BY <1>4, <3>1, <3>2, <3>3 DEF Reload, StagedInv
  <2>7. MarkerInv'
    BY <1>4 DEF Reload, RestoreFailure, Return, LoaderEnds, Verifies, MarkerInv, JobInv,
                CurrentInv, TypeOK, Pending
  <2> QED
    BY <2>1, <2>2, <2>3, <2>4, <2>5, <2>6, <2>7
<1>5. CASE Reactivate
  <2>1. TypeOK'
    BY ZenonT(60), <1>5 DEF Reactivate, SpawnCurrent, Return, TypeOK, JobInv, Files, Parts, Jobs, Markers
  <2>2. JobInv'
    BY <1>5 DEF Reactivate, SpawnCurrent, Return, JobInv, TypeOK, Jobs, Markers
  <2>3. CurrentInv'
    BY <1>5 DEF Reactivate, SpawnCurrent, Return, CurrentInv, JobInv, TypeOK, Jobs, Markers
  <2>4. CopyInv'
    BY <1>5 DEF Reactivate, SpawnCurrent, Return, CopyInv, CurrentInv, JobInv, TypeOK, Files,
                Parts, Jobs, Markers
  <2>5. FilesInv'
    BY <1>5 DEF Reactivate, SpawnCurrent, Return, FilesInv, CurrentInv, CopyInv, StagedInv,
                JobInv, TypeOK, Files, Parts, Jobs, Markers
  <2>6. StagedInv'
    BY <1>5 DEF Reactivate, SpawnCurrent, Return, StagedInv, JobInv, Jobs, TypeOK
  <2>7. MarkerInv'
    BY <1>5 DEF Reactivate, SpawnCurrent, Return, MarkerInv, JobInv, CurrentInv, TypeOK, Pending
  <2> QED
    BY <2>1, <2>2, <2>3, <2>4, <2>5, <2>6, <2>7
<1>6. CASE ClearRollback
  <2>1. TypeOK'
    BY <1>6 DEF ClearRollback, SpawnCurrent, Return, TypeOK, JobInv, Files, Parts, Jobs, Markers
  <2>2. JobInv'
    BY <1>6 DEF ClearRollback, SpawnCurrent, Return, JobInv, TypeOK, Jobs, Markers
  <2>3. CurrentInv'
    BY <1>6 DEF ClearRollback, SpawnCurrent, Return, CurrentInv, JobInv, TypeOK, Jobs, Markers
  <2>4. CopyInv'
    BY <1>6 DEF ClearRollback, SpawnCurrent, Return, CopyInv, CurrentInv, JobInv, TypeOK, Files,
                Parts, Jobs, Markers
  <2>5. FilesInv'
    BY <1>6 DEF ClearRollback, SpawnCurrent, Return, FilesInv, CurrentInv, CopyInv, StagedInv,
                JobInv, TypeOK, Files, Parts, Jobs, Markers
  <2>6. StagedInv'
    BY <1>6 DEF ClearRollback, SpawnCurrent, Return, StagedInv, JobInv, Jobs, TypeOK
  <2>7. MarkerInv'
    <3>1. marker = None
      BY <1>6 DEF ClearRollback, MarkerInv
    <3> QED
      BY <1>6, <3>1 DEF ClearRollback, Return, MarkerInv
  <2> QED
    BY <2>1, <2>2, <2>3, <2>4, <2>5, <2>6, <2>7
<1> QED
  BY <1>1, <1>2, <1>3, <1>4, <1>5, <1>6 DEF RestorePrevious


\* A crash, an exit, the clock, the update manager and announcements.
LEMMA WorldInv ==
  ASSUME Reliable, LoaderInv,
         \/ \E p \in Peers, c \in Cores \cup {None} : Announce(p, c)
         \/ Crash \/ CoreExits \/ WindowElapses \/ Cleanup
         \/ \E c \in Cores : StageBinary(c)
         \/ WriteRequest \/ AbandonStaging
  PROVE  LoaderInv'
<1> USE CoresAssumption, PeersAssumption
    DEF LoaderInv, Reliable, Applying, Steady, disk, world, procs, threats, memory, Idle,
        Steps, SnapshotSteps, PromoteSteps, RestoreSteps, ApplySteps, RollingBack
<1>1. CASE \E p \in Peers, c \in Cores \cup {None} : Announce(p, c)
  <2>1. TypeOK'
    BY <1>1 DEF Announce, TypeOK, JobInv, Files, Parts, Jobs, Markers
  <2>2. JobInv'
    BY <1>1 DEF Announce, JobInv, TypeOK, Jobs, Markers
  <2>3. CurrentInv'
    BY <1>1 DEF Announce, CurrentInv, JobInv, TypeOK, Jobs, Markers
  <2>4. CopyInv'
    BY <1>1 DEF Announce, CopyInv, CurrentInv, JobInv, TypeOK, Files, Parts, Jobs, Markers
  <2>5. FilesInv'
    BY <1>1 DEF Announce, FilesInv, CurrentInv, CopyInv, StagedInv, JobInv, TypeOK, Files,
                Parts, Jobs, Markers
  <2>6. StagedInv'
    BY <1>1 DEF Announce, StagedInv, JobInv, Jobs, TypeOK
  <2>7. MarkerInv'
    BY <1>1 DEF Announce, MarkerInv, JobInv, CurrentInv, TypeOK, Pending
  <2> QED
    BY <2>1, <2>2, <2>3, <2>4, <2>5, <2>6, <2>7
<1>2. CASE Crash
  <2>1. TypeOK'
    BY <1>2 DEF Crash, LoaderEnds, TypeOK, JobInv, Files, Parts, Jobs, Markers
  <2>2. JobInv'
    BY <1>2 DEF Crash, LoaderEnds, JobInv, TypeOK, Jobs, Markers
  <2>3. CurrentInv'
    BY <1>2 DEF Crash, LoaderEnds, CurrentInv, JobInv, TypeOK, Jobs, Markers
  <2>4. CopyInv'
    BY <1>2 DEF Crash, LoaderEnds, CopyInv, CurrentInv, JobInv, TypeOK, Files, Parts, Jobs,
                Markers
  <2>5. FilesInv'
    BY <1>2 DEF Crash, LoaderEnds, FilesInv, CurrentInv, CopyInv, StagedInv, JobInv, TypeOK,
                Files, Parts, Jobs, Markers
  <2>6. StagedInv'
    BY <1>2 DEF Crash, LoaderEnds, StagedInv, JobInv, Jobs, TypeOK
  <2>7. MarkerInv'
    BY <1>2 DEF Crash, LoaderEnds, MarkerInv, JobInv, CurrentInv, TypeOK, Pending
  <2> QED
    BY <2>1, <2>2, <2>3, <2>4, <2>5, <2>6, <2>7
<1>3. CASE CoreExits
  <2>1. TypeOK'
    <3>1. child' \in {child, None} /\ next' \in {next, None} /\ stray' \in {stray, FALSE}
      BY <1>3, Zenon DEF CoreExits
    <3>2. child' \in Cores \cup {None} /\ next' \in Cores \cup {None} /\ stray' \in BOOLEAN
      BY <3>1 DEF TypeOK
    <3>3. UNCHANGED <<disk, memory, staging, expired, condemned>>
      BY <1>3, Zenon DEF CoreExits
    <3> QED
      BY <3>2, <3>3 DEF TypeOK
  <2>2. JobInv'
    BY <1>3 DEF CoreExits, JobInv, TypeOK, Jobs, Markers
  <2>3. CurrentInv'
    BY <1>3 DEF CoreExits, CurrentInv, JobInv, TypeOK, Jobs, Markers
  <2>4. CopyInv'
    BY <1>3 DEF CoreExits, CopyInv, CurrentInv, JobInv, TypeOK, Files, Parts, Jobs, Markers
  <2>5. FilesInv'
    BY <1>3 DEF CoreExits, FilesInv, CurrentInv, CopyInv, StagedInv, JobInv, TypeOK, Files,
                Parts, Jobs, Markers
  <2>6. StagedInv'
    BY <1>3 DEF CoreExits, StagedInv, JobInv, Jobs, TypeOK
  <2>7. MarkerInv'
    BY <1>3 DEF CoreExits, MarkerInv, JobInv, CurrentInv, TypeOK, Pending
  <2> QED
    BY <2>1, <2>2, <2>3, <2>4, <2>5, <2>6, <2>7
<1>4. CASE WindowElapses
  <2>1. TypeOK'
    BY <1>4 DEF WindowElapses, TypeOK, JobInv, Files, Parts, Jobs, Markers
  <2>2. JobInv'
    BY <1>4 DEF WindowElapses, JobInv, TypeOK, Jobs, Markers
  <2>3. CurrentInv'
    BY <1>4 DEF WindowElapses, CurrentInv, JobInv, TypeOK, Jobs, Markers
  <2>4. CopyInv'
    BY <1>4 DEF WindowElapses, CopyInv, CurrentInv, JobInv, TypeOK, Files, Parts, Jobs, Markers
  <2>5. FilesInv'
    BY <1>4 DEF WindowElapses, FilesInv, CurrentInv, CopyInv, StagedInv, JobInv, TypeOK, Files,
                Parts, Jobs, Markers
  <2>6. StagedInv'
    BY <1>4 DEF WindowElapses, StagedInv, JobInv, Jobs, TypeOK
  <2>7. MarkerInv'
    BY <1>4 DEF WindowElapses, MarkerInv, JobInv, CurrentInv, TypeOK, Pending
  <2> QED
    BY <2>1, <2>2, <2>3, <2>4, <2>5, <2>6, <2>7
<1>5. CASE Cleanup
  <2>1. TypeOK'
    <3>1. /\ cleaning' = FALSE /\ staged' = None
          /\ UNCHANGED <<cur, rb, marker, request, threats, pc, job, current, rollback, peers, world>>
      BY <1>5, Zenon DEF Cleanup
    <3>2. cleaning' \in BOOLEAN /\ staged' \in Cores \cup {None}
      BY <3>1
    <3> QED
      BY <3>1, <3>2 DEF TypeOK
  <2>2. JobInv'
    BY <1>5 DEF Cleanup, JobInv, TypeOK, Jobs, Markers
  <2>3. CurrentInv'
    BY <1>5 DEF Cleanup, CurrentInv, JobInv, TypeOK, Jobs, Markers
  <2>4. CopyInv'
    BY <1>5 DEF Cleanup, CopyInv, CurrentInv, JobInv, TypeOK, Files, Parts, Jobs, Markers
  <2>5. FilesInv'
    BY <1>5 DEF Cleanup, FilesInv, CurrentInv, CopyInv, StagedInv, JobInv, TypeOK, Files, Parts,
                Jobs, Markers
  <2>6. StagedInv'
    BY <1>5 DEF Cleanup, StagedInv, JobInv, Jobs, TypeOK
  <2>7. MarkerInv'
    BY <1>5 DEF Cleanup, MarkerInv, JobInv, CurrentInv, TypeOK, Pending
  <2> QED
    BY <2>1, <2>2, <2>3, <2>4, <2>5, <2>6, <2>7
<1>6. CASE \E c \in Cores : StageBinary(c)
  <2>1. TypeOK'
    BY <1>6 DEF StageBinary, TypeOK, JobInv, Files, Parts, Jobs, Markers
  <2>2. JobInv'
    BY <1>6 DEF StageBinary, JobInv, TypeOK, Jobs, Markers
  <2>3. CurrentInv'
    BY <1>6 DEF StageBinary, CurrentInv, JobInv, TypeOK, Jobs, Markers
  <2>4. CopyInv'
    BY <1>6 DEF StageBinary, CopyInv, CurrentInv, JobInv, TypeOK, Files, Parts, Jobs, Markers
  <2>5. FilesInv'
    BY <1>6 DEF StageBinary, FilesInv, CurrentInv, CopyInv, StagedInv, JobInv, TypeOK, Files,
                Parts, Jobs, Markers
  <2>6. StagedInv'
    BY <1>6 DEF StageBinary, StagedInv, JobInv, Jobs, TypeOK
  <2>7. MarkerInv'
    BY <1>6 DEF StageBinary, MarkerInv, JobInv, CurrentInv, TypeOK, Pending
  <2> QED
    BY <2>1, <2>2, <2>3, <2>4, <2>5, <2>6, <2>7
<1>7. CASE WriteRequest
  <2>1. TypeOK'
    BY <1>7 DEF WriteRequest, TypeOK, JobInv, Files, Parts, Jobs, Markers
  <2>2. JobInv'
    BY <1>7 DEF WriteRequest, JobInv, TypeOK, Jobs, Markers
  <2>3. CurrentInv'
    BY <1>7 DEF WriteRequest, CurrentInv, JobInv, TypeOK, Jobs, Markers
  <2>4. CopyInv'
    BY <1>7 DEF WriteRequest, CopyInv, CurrentInv, JobInv, TypeOK, Files, Parts, Jobs, Markers
  <2>5. FilesInv'
    BY <1>7 DEF WriteRequest, FilesInv, CurrentInv, CopyInv, StagedInv, JobInv, TypeOK, Files,
                Parts, Jobs, Markers
  <2>6. StagedInv'
    BY <1>7 DEF WriteRequest, StagedInv, JobInv, Jobs, TypeOK
  <2>7. MarkerInv'
    BY <1>7 DEF WriteRequest, MarkerInv, JobInv, CurrentInv, TypeOK, Pending
  <2> QED
    BY <2>1, <2>2, <2>3, <2>4, <2>5, <2>6, <2>7
<1>8. CASE AbandonStaging
  <2>1. TypeOK'
    BY <1>8 DEF AbandonStaging, TypeOK, JobInv, Files, Parts, Jobs, Markers
  <2>2. JobInv'
    BY <1>8 DEF AbandonStaging, JobInv, TypeOK, Jobs, Markers
  <2>3. CurrentInv'
    BY <1>8 DEF AbandonStaging, CurrentInv, JobInv, TypeOK, Jobs, Markers
  <2>4. CopyInv'
    BY <1>8 DEF AbandonStaging, CopyInv, CurrentInv, JobInv, TypeOK, Files, Parts, Jobs, Markers
  <2>5. FilesInv'
    BY <1>8 DEF AbandonStaging, FilesInv, CurrentInv, CopyInv, StagedInv, JobInv, TypeOK, Files,
                Parts, Jobs, Markers
  <2>6. StagedInv'
    BY <1>8 DEF AbandonStaging, StagedInv, JobInv, Jobs, TypeOK
  <2>7. MarkerInv'
    BY <1>8 DEF AbandonStaging, MarkerInv, JobInv, CurrentInv, TypeOK, Pending
  <2> QED
    BY <2>1, <2>2, <2>3, <2>4, <2>5, <2>6, <2>7
<1> QED
  BY <1>1, <1>2, <1>3, <1>4, <1>5, <1>6, <1>7, <1>8

-----------------------------------------------------------------------------
\* The inductive step: every action of the loader and of what runs beside it.
LEMMA NextInv == ASSUME Reliable, LoaderInv, [Next]_vars PROVE LoaderInv'
<1>1. CASE Boot
  BY <1>1, BootInv
<1>2. CASE MainLoop
  BY <1>2, MainLoopInv
<1>3. CASE RequestTick \/ SyncTick
  BY <1>3, TickInv
<1>4. CASE Apply
  BY <1>4, ActivateInv, FinishInv, RestoreInv DEF Apply
<1>5. CASE UNCHANGED vars
  BY <1>5 DEF vars, disk, memory, world, procs, threats, LoaderInv, TypeOK, JobInv, CurrentInv,
              CopyInv, FilesInv, StagedInv, MarkerInv, Applying, Steady, Pending
<1> QED
  BY <1>1, <1>2, <1>3, <1>4, <1>5, WorldInv DEF Next

\* In a reliable environment every reachable state of the loader satisfies the
\* inductive invariant, wherever the process crashes.
THEOREM LoaderSafe == ASSUME Reliable PROVE Spec => []LoaderInv
<1>1. Init => LoaderInv
  BY InitInv
<1>2. LoaderInv /\ [Next]_vars => LoaderInv'
  BY NextInv
<1> QED
  BY <1>1, <1>2, PTL DEF Spec

\* Type correctness of the loader's state.
THEOREM LoaderTypes == ASSUME Reliable PROVE Spec => []TypeOK
<1>1. LoaderInv => TypeOK
  BY DEF LoaderInv
<1> QED
  BY <1>1, LoaderSafe, PTL

\* A pending rollback always has its complete previous core on disk, whenever
\* the loader crashes and whatever promotion fails (rollback_after_crash).
THEOREM ProbationRecoverable == ASSUME Reliable PROVE Spec => []ProbationIsRecoverable
<1>1. LoaderInv => ProbationIsRecoverable
  BY DEF LoaderInv, ProbationIsRecoverable, CopyInv, CurrentInv, JobInv, Steady, ApplySteps,
         SnapshotSteps, PromoteSteps, RestoreSteps, RollingBack
<1> QED
  BY <1>1, LoaderSafe, PTL

\* Whenever the main loop decides, the files under current/ verify and are the
\* core shared memory names, and the marker a restart would find is the one of
\* the pending rollback or none.
THEOREM DiskAgrees == ASSUME Reliable PROVE Spec => []DiskAgreesWithMemory
<1>1. LoaderInv => DiskAgreesWithMemory
  BY DEF LoaderInv, DiskAgreesWithMemory, FilesInv, MarkerInv, Steady
<1> QED
  BY <1>1, LoaderSafe, PTL

\* The steps that replace one active core by another, and what they replace it by.
LEMMA CurrentChanges ==
  ASSUME LoaderInv, [Next]_vars, current' # current, current # None, current' # None
  PROVE  \/ pc = "set_current" /\ current' = job.core
         \/ pc = "reload" /\ job.cause = "crash" /\ rollback # None
             /\ current' = rollback.previous
<1> USE DEF disk, world, procs, threats
<1>1. CASE Boot
  BY <1>1 DEF Boot, BootVerified, BootSeed, BootSeedSignature, Recover, LoaderEnds, LoaderInv,
              JobInv
<1>2. CASE MainLoop
  BY <1>2 DEF MainLoop, Stabilize, ChildExitInProbation, ChildExit, Respawn, LoaderEnds
<1>3. CASE RequestTick \/ SyncTick
  BY <1>3 DEF RequestTick, SyncTick
<1>4. CASE SnapshotCurrent \/ SpawnNext \/ AwaitReady \/ Promote \/ Readback \/ WriteMarker
  BY <1>4 DEF SnapshotCurrent, Snapshot, SpawnNext, AwaitReady, Promote, RemoveCurrent,
              RenameStaged, WritePromoted, PromoteFrame, Readback, WriteMarker
<1>5. CASE SetCurrent
  BY <1>5 DEF SetCurrent
<1>6. CASE SetRollback \/ RestorePrevious \/ Reactivate \/ ClearRollback
  BY <1>6 DEF SetRollback, RestorePrevious, Restore, RestoreFailure, LoaderEnds, Reactivate,
              ClearRollback
<1>7. CASE Reload
  <2>1. pc = "reload" /\ job \in Jobs /\ cur = Triple(job.previous)
    BY <1>7 DEF Reload, LoaderInv, JobInv, FilesInv, RollingBack
  <2>2. current' = job.previous
    BY <1>7, <2>1, VerifiesTriple DEF Reload, Jobs, Parts, RestoreFailure, LoaderEnds
  <2>3. job.cause = "crash"
    BY <2>1, <2>2 DEF LoaderInv, CurrentInv, Jobs
  <2> QED
    BY <2>1, <2>2, <2>3 DEF LoaderInv, JobInv, RollingBack
<1>8. CASE \E p \in Peers, c \in Cores \cup {None} : Announce(p, c)
  BY <1>8 DEF Announce
<1>9. CASE Crash \/ CoreExits \/ WindowElapses \/ Cleanup
  BY <1>9 DEF Crash, LoaderEnds, CoreExits, WindowElapses, Cleanup, memory
<1>10. CASE (\E c \in Cores : StageBinary(c)) \/ WriteRequest \/ AbandonStaging
  BY <1>10 DEF StageBinary, WriteRequest, AbandonStaging, memory
<1>11. CASE UNCHANGED vars
  BY <1>11 DEF vars, memory
<1> QED
  BY <1>1, <1>2, <1>3, <1>4, <1>5, <1>6, <1>7, <1>8, <1>9, <1>10, <1>11 DEF Next, Apply

\* An active core is replaced only when it is complete in the rollback copy, or
\* by the previous core of the pending rollback.
THEOREM ReplacedIsKept == ASSUME Reliable PROVE Spec => ReplacedCoreIsKept
<1>1. ASSUME LoaderInv, [Next]_vars
      PROVE  [ (current # None /\ current' # None) =>
                 \/ rb = Triple(current)
                 \/ rollback # None /\ current' = rollback.previous ]_<<current>>
  <2>1. CASE pc = "set_current"
    BY <1>1, <2>1 DEF LoaderInv, CopyInv, CurrentInv, ApplySteps, SnapshotSteps
  <2>2. CASE pc # "set_current"
    BY <1>1, <2>2, CurrentChanges
  <2> QED
    BY <2>1, <2>2
<1> QED
  BY <1>1, LoaderSafe, PTL DEF Spec, ReplacedCoreIsKept

\* What peer sync checked long before activation is still true at activation.
LEMMA UpgradeStep ==
  ASSUME LoaderInv, UpgradeInv, [Next]_vars
  PROVE  UpgradeInv'
<1> USE PeersAssumption
    DEF disk, world, procs, threats, memory, ApplySteps, RollingBack, SnapshotSteps,
        PromoteSteps, RestoreSteps
<1>1. CASE Boot
  BY <1>1 DEF Boot, BootVerified, BootSeed, BootSeedSignature, Recover, LoaderEnds, UpgradeInv
<1>2. CASE Stabilize \/ ChildExit \/ Respawn
  BY <1>2 DEF Stabilize, Idle, ChildExit, TakeRequest, Respawn, LoaderEnds, UpgradeInv
<1>3. CASE ChildExitInProbation
  BY <1>3 DEF ChildExitInProbation, Blamed, UpgradeInv
<1>4. CASE RequestTick
  BY <1>4 DEF RequestTick, Idle, TakeRequest, UpgradeInv
<1>5. CASE SyncTick
  <2>1. PICK p \in Peers, served \in Cores \cup {None} :
          /\ SyncFromPeer(p, served)
          /\ Version[peers[p]] > Version[current] /\ peers[p] \notin blockedCores
    BY <1>5 DEF SyncTick, BestPeers, Candidates
  <2>2. CASE Suspicious(p, served)
    BY <1>5, <2>1, <2>2 DEF SyncTick, Idle, SyncFromPeer, UpgradeInv
  <2>3. CASE ~Suspicious(p, served)
    <3>1. Distributable(served) /\ served = peers[p] /\ Version[served] > Version[current]
      BY <2>1, <2>3 DEF Suspicious, SyncFromPeer
    <3>2. /\ job' = [core |-> served, previous |-> current, peer |-> p,
                     back |-> "idle", cause |-> "apply"]
          /\ pc' = "snap_bin" /\ UNCHANGED <<threats, condemned>>
      BY <1>5, <2>1, <2>3 DEF SyncTick, SyncFromPeer
    <3> QED
      BY <2>1, <3>1, <3>2 DEF UpgradeInv, Distributable
  <2> QED
    BY <2>2, <2>3
<1>6. CASE SnapshotCurrent \/ SpawnNext \/ AwaitReady
  BY <1>6 DEF SnapshotCurrent, Snapshot, SpawnNext, AwaitReady, HandoffFailure, Blamed, Return,
              UpgradeInv,
              LoaderInv, JobInv, Jobs, Distributable
<1>7. CASE Promote
  BY <1>7 DEF Promote, RemoveCurrent, RenameStaged, WritePromoted, PromotionFailure, PromoteFrame,
              UpgradeInv, LoaderInv, JobInv, Distributable
<1>8. CASE Readback \/ WriteMarker \/ SetCurrent \/ SetRollback
  BY <1>8 DEF Readback, WriteMarker, SetCurrent, SetRollback, Return, UpgradeInv, LoaderInv,
              JobInv, Jobs, Distributable
<1>9. CASE RestorePrevious \/ Reload \/ Reactivate
  BY <1>9 DEF RestorePrevious, Restore, RestoreFailure, Reload, Reactivate, LoaderEnds, Return,
              UpgradeInv, LoaderInv, JobInv, Jobs
<1>10. CASE ClearRollback
  BY <1>10 DEF ClearRollback, Return, UpgradeInv, LoaderInv, JobInv
<1>11. CASE \E p \in Peers, c \in Cores \cup {None} : Announce(p, c)
  BY <1>11 DEF Announce, Idle, UpgradeInv
<1>12. CASE Crash \/ CoreExits \/ WindowElapses \/ Cleanup
  BY <1>12 DEF Crash, LoaderEnds, CoreExits, WindowElapses, Cleanup, UpgradeInv, Distributable
<1>13. CASE (\E c \in Cores : StageBinary(c)) \/ WriteRequest \/ AbandonStaging
  BY <1>13 DEF StageBinary, WriteRequest, AbandonStaging, UpgradeInv, Distributable
<1>14. CASE UNCHANGED vars
  BY <1>14 DEF vars, UpgradeInv, Distributable
<1> QED
  BY <1>1, <1>2, <1>3, <1>4, <1>5, <1>6, <1>7, <1>8, <1>9, <1>10, <1>11, <1>12, <1>13, <1>14
  DEF Next, MainLoop, Apply

\* Peer sync only ever activates a newer production core that no crash rollback
\* has removed, in this run of the loader or an earlier one.
THEOREM PeerSyncUpgrades == ASSUME Reliable PROVE Spec => PeerSyncOnlyUpgrades
<1>1. Init => UpgradeInv
  BY DEF Init, UpgradeInv, RollingBack, RestoreSteps, ApplySteps, SnapshotSteps, PromoteSteps
<1>2. LoaderInv /\ UpgradeInv /\ [Next]_vars => UpgradeInv'
  BY UpgradeStep
<1>3. ASSUME LoaderInv, UpgradeInv, [Next]_vars
      PROVE  [ (pc = "set_current" /\ job.peer # None /\ current' # None) =>
                 /\ Version[current'] > Version[current]
                 /\ Distributable(current')
                 /\ current' \notin condemned ]_<<current>>
  <2> SUFFICES ASSUME pc = "set_current", job.peer # None, current' # None, current' # current
               PROVE  /\ Version[current'] > Version[current]
                      /\ Distributable(current') /\ current' \notin condemned
    OBVIOUS
  <2>1. current = job.previous /\ current # None
    BY <1>3, CoresAssumption DEF LoaderInv, CurrentInv, JobInv, ApplySteps, SnapshotSteps,
       PromoteSteps
  <2>2. current' = job.core
    BY <1>3, <2>1, CurrentChanges
  <2> QED
    BY <1>3, <2>1, <2>2 DEF UpgradeInv, ApplySteps, Distributable
<1> QED
  BY <1>1, <1>2, <1>3, LoaderSafe, PTL DEF Spec, PeerSyncOnlyUpgrades

\* A promotion that no I/O error disturbs does not fail: the binary it moves is
\* still the one it verified.
LEMMA PromotionSucceeds ==
  ASSUME LoaderInv, Promote, Reliable, "promote" \notin Faults
  PROVE  ~PromotionFailure /\ UNCHANGED next
<1>1. job \in Jobs /\ job.core # None
  BY CoresAssumption
  DEF Promote, RemoveCurrent, RenameStaged, WritePromoted, LoaderInv, JobInv, Jobs, ApplySteps,
      PromoteSteps
<1>2. CASE RemoveCurrent
  BY <1>2 DEF RemoveCurrent, PromotionFailure
<1>3. CASE RenameStaged
  <2>1. StagedBinary = job.core
    BY <1>3 DEF RenameStaged, StagedBinary, LoaderInv, StagedInv, Applying
  <2> QED
    BY <1>1, <1>3, <2>1 DEF RenameStaged, PromotionFailure
<1>4. CASE WritePromoted("meta", "meta", "sig")
  BY <1>4 DEF WritePromoted, PromotionFailure
<1>5. CASE WritePromoted("sig", "sig", "readback")
  BY <1>5 DEF WritePromoted, PromotionFailure
<1> QED
  BY <1>2, <1>3, <1>4, <1>5 DEF Promote

\* Every step hands the managed process on or starts one where none is alive.
LEMMA ProcessStep ==
  ASSUME Reliable, "promote" \notin Faults, LoaderInv, ProcessInv, [Next]_vars
  PROVE  ProcessInv'
<1> USE DEF disk, world, procs, threats, memory, HandedOver, RollingBack, SnapshotSteps,
            PromoteSteps, RestoreSteps
<1>1. CASE BootVerified \/ BootSeed \/ BootSeedSignature
  BY <1>1 DEF BootVerified, BootSeed, BootSeedSignature, ProcessInv
<1>2. CASE Recover
  <2>1. cur["bin"] = current
    BY <1>2 DEF Recover, LoaderInv, FilesInv, Triple, Parts
  <2> QED
    BY <1>2, <2>1 DEF Recover, SpawnCurrent, LoaderEnds, ProcessInv
<1>3. CASE Stabilize
  BY <1>3 DEF Stabilize, Idle, ProcessInv
<1>4. CASE ChildExitInProbation
  BY <1>4 DEF ChildExitInProbation, Idle, ProcessInv
<1>5. CASE ChildExit
  BY <1>5 DEF ChildExit, Idle, TakeRequest, ProcessInv
<1>6. CASE Respawn
  <2>1. cur["bin"] = current
    BY <1>6 DEF Respawn, LoaderInv, FilesInv, Triple, Parts
  <2> QED
    BY <1>6, <2>1 DEF Respawn, SpawnCurrent, LoaderEnds, ProcessInv
<1>7. CASE RequestTick
  BY <1>7 DEF RequestTick, Idle, TakeRequest, ProcessInv
<1>8. CASE SyncTick
  <2>1. PICK p \in Peers, served \in Cores \cup {None} : SyncFromPeer(p, served)
    BY <1>8 DEF SyncTick, BestPeers, Candidates
  <2> QED
    BY <1>8, <2>1 DEF SyncTick, Idle, SyncFromPeer, ProcessInv
<1>9. CASE SnapshotCurrent
  <2>1. job.back \in {"idle", "respawn"}
    BY <1>9 DEF SnapshotCurrent, Snapshot, LoaderInv, JobInv, Jobs, ApplySteps
  <2> QED
    BY <1>9, <2>1 DEF SnapshotCurrent, Snapshot, Return, ProcessInv
<1>10. CASE SpawnNext
  <2>1. job.back \in {"idle", "respawn"} /\ StagedBinary = job.core
    BY <1>10 DEF SpawnNext, StagedBinary, LoaderInv, StagedInv, Applying, JobInv, Jobs, ApplySteps
  <2> QED
    BY <1>10, <2>1 DEF SpawnNext, HandoffFailure, Return, ProcessInv
<1>11. CASE AwaitReady
  <2>1. job.back \in {"idle", "respawn"}
    BY <1>11 DEF AwaitReady, LoaderInv, JobInv, Jobs, ApplySteps
  <2> QED
    BY <1>11, <2>1 DEF AwaitReady, HandoffFailure, Return, ProcessInv
<1>12. CASE Promote
  <2>1. UNCHANGED <<next, child, stray, job, current>>
    BY <1>12, PromotionSucceeds
    DEF Promote, RemoveCurrent, RenameStaged, WritePromoted, PromoteFrame
  <2>2. pc \in PromoteSteps /\ pc' \in HandedOver
    BY <1>12, PromotionSucceeds DEF Promote, RemoveCurrent, RenameStaged, WritePromoted
  <2> QED
    BY <2>1, <2>2 DEF ProcessInv
<1>13. CASE Readback
  <2>1. pc = "readback" /\ pc' = "mark" /\ UNCHANGED <<job, next, stray, child, current>>
    BY <1>13 DEF Readback, Reliable, LoaderInv, FilesInv
  <2> QED
    BY <2>1 DEF ProcessInv
<1>14. CASE WriteMarker \/ SetCurrent
  BY <1>14 DEF WriteMarker, SetCurrent, ProcessInv
<1>15. CASE SetRollback
  <2>1. current = job.core
    BY <1>15 DEF SetRollback, LoaderInv, CurrentInv
  <2> QED
    BY <1>15, <2>1 DEF SetRollback, Return, ProcessInv
<1>16. CASE RestorePrevious
  BY <1>16 DEF RestorePrevious, Restore, RestoreFailure, LoaderEnds, ProcessInv
<1>17. CASE Reload
  BY <1>17 DEF Reload, RestoreFailure, LoaderEnds, ProcessInv
<1>18. CASE Reactivate
  BY <1>18 DEF Reactivate, ProcessInv
<1>19. CASE ClearRollback
  <2>1. cur["bin"] = current
    BY <1>19 DEF ClearRollback, LoaderInv, FilesInv, CurrentInv, Triple, Parts
  <2> QED
    BY <1>19, <2>1 DEF ClearRollback, SpawnCurrent, Return, ProcessInv
<1>20. CASE \E p \in Peers, c \in Cores \cup {None} : Announce(p, c)
  BY <1>20 DEF Announce, Idle, ProcessInv
<1>21. CASE Crash
  BY <1>21 DEF Crash, LoaderEnds, ProcessInv
<1>22. CASE CoreExits
  BY <1>22 DEF CoreExits, ProcessInv
<1>23. CASE WindowElapses \/ Cleanup
  BY <1>23 DEF WindowElapses, Cleanup, ProcessInv
<1>24. CASE (\E c \in Cores : StageBinary(c)) \/ WriteRequest \/ AbandonStaging
  BY <1>24 DEF StageBinary, WriteRequest, AbandonStaging, ProcessInv
<1>25. CASE UNCHANGED vars
  BY <1>25 DEF vars, ProcessInv
<1> QED
  BY <1>1, <1>2, <1>3, <1>4, <1>5, <1>6, <1>7, <1>8, <1>9, <1>10, <1>11, <1>12, <1>13, <1>14,
     <1>15, <1>16, <1>17, <1>18, <1>19, <1>20, <1>21, <1>22, <1>23, <1>24, <1>25
  DEF Next, Boot, MainLoop, Apply

\* Where promotions meet no I/O error no core process is ever lost track of, and
\* the one the loader manages is the active core, however handoffs, exits,
\* crashes and snapshots interleave.
THEOREM ManagesOneCore ==
  ASSUME Reliable, "promote" \notin Faults PROVE Spec => []OneManagedCore
<1>1. Init => ProcessInv
  BY DEF Init, ProcessInv, HandedOver, RollingBack, SnapshotSteps, PromoteSteps, RestoreSteps
<1>2. LoaderInv /\ ProcessInv /\ [Next]_vars => ProcessInv'
  BY ProcessStep
<1>3. ProcessInv => OneManagedCore
  BY DEF ProcessInv, OneManagedCore, HandedOver, PromoteSteps
<1> QED
  BY <1>1, <1>2, <1>3, LoaderSafe, PTL DEF Spec

-----------------------------------------------------------------------------
(* Fetches by a peer *)

\* A loader that applies nothing keeps its active core until it goes down.
LEMMA NoJobKeepsCore ==
  ASSUME LoaderInv, [Next]_vars, job = None, pc \notin {"down", "seed_sig"}, pc' # "down"
  PROVE  /\ UNCHANGED current
         /\ pc' \notin {"down", "seed_sig"} /\ (pc' = "recover" => pc = "recover")
<1>1. pc \in {"recover", "idle", "respawn"}
  BY NoJobAssumption
  DEF LoaderInv, TypeOK, JobInv, Steps, ApplySteps, RollingBack, SnapshotSteps, PromoteSteps,
      RestoreSteps
<1> USE DEF disk, world, memory
<1>2. CASE Boot
  BY <1>1, <1>2 DEF Boot, BootVerified, BootSeed, BootSeedSignature, Recover, LoaderEnds
<1>3. CASE MainLoop
  BY <1>1, <1>3 DEF MainLoop, Stabilize, ChildExitInProbation, ChildExit, TakeRequest, Respawn,
                    Idle, LoaderEnds
<1>4. CASE RequestTick \/ SyncTick
  <2>1. UNCHANGED current
    BY <1>4 DEF RequestTick, SyncTick
  <2>2. pc' \in {"idle", "snap_bin"}
    BY <1>4 DEF RequestTick, SyncTick, TakeRequest, SyncFromPeer, Idle
  <2> QED
    BY <2>1, <2>2
<1>5. ~Apply
  BY <1>1 DEF Apply, SnapshotCurrent, Snapshot, SpawnNext, AwaitReady, Promote, RemoveCurrent,
              RenameStaged, WritePromoted, Readback, WriteMarker, SetCurrent, SetRollback,
              RestorePrevious, Restore, Reload, Reactivate, ClearRollback
<1>6. CASE \E p \in Peers, c \in Cores \cup {None} : Announce(p, c)
  BY <1>1, <1>6 DEF Announce
<1>7. CASE Crash \/ CoreExits \/ WindowElapses \/ Cleanup
  BY <1>1, <1>7 DEF Crash, LoaderEnds, CoreExits, WindowElapses, Cleanup
<1>8. CASE (\E c \in Cores : StageBinary(c)) \/ WriteRequest \/ AbandonStaging
  BY <1>1, <1>8 DEF StageBinary, WriteRequest, AbandonStaging
<1>9. CASE UNCHANGED vars
  BY <1>1, <1>9 DEF vars
<1> QED
  BY <1>2, <1>3, <1>4, <1>5, <1>6, <1>7, <1>8, <1>9 DEF Next

\* Only a loader that boots has the steps of a boot before it.
LEMMA BootsFromDown ==
  ASSUME LoaderInv, [Next]_vars, pc \notin {"down", "seed_sig", "recover"}, pc' # "down"
  PROVE  pc' \notin {"seed_sig", "recover"}
<1> USE DEF disk, world, memory
<1>1. CASE Boot
  BY <1>1 DEF Boot, BootVerified, BootSeed, BootSeedSignature, Recover
<1>2. CASE MainLoop
  BY <1>2 DEF MainLoop, Stabilize, ChildExitInProbation, ChildExit, TakeRequest, Respawn,
              Idle, LoaderEnds
<1>3. CASE RequestTick \/ SyncTick
  BY <1>3 DEF RequestTick, SyncTick, TakeRequest, SyncFromPeer, Idle
<1>4. CASE Apply
  <2>1. job \in Jobs => job.back \in {"idle", "respawn"}
    BY DEF Jobs
  <2>2. pc \in ApplySteps \cup RollingBack => job \in Jobs
    BY DEF LoaderInv, JobInv
  <2>3. CASE SnapshotCurrent \/ SpawnNext \/ AwaitReady
    BY <2>1, <2>2, <2>3
    DEF SnapshotCurrent, Snapshot, SpawnNext, AwaitReady, HandoffFailure, Return, ApplySteps,
        SnapshotSteps
  <2>4. CASE Promote \/ Readback \/ WriteMarker \/ SetCurrent \/ SetRollback
    BY <2>1, <2>2, <2>4
    DEF Promote, RemoveCurrent, RenameStaged, WritePromoted, PromotionFailure, Readback,
        WriteMarker, SetCurrent, SetRollback, Return, ApplySteps, PromoteSteps
  <2>5. CASE RestorePrevious \/ Reload \/ Reactivate \/ ClearRollback
    BY <2>1, <2>2, <2>5
    DEF RestorePrevious, Restore, RestoreFailure, LoaderEnds, Reload, Reactivate, ClearRollback,
        Return, RollingBack, RestoreSteps
  <2> QED
    BY <1>4, <2>3, <2>4, <2>5 DEF Apply
<1>5. CASE \E p \in Peers, c \in Cores \cup {None} : Announce(p, c)
  BY <1>5 DEF Announce
<1>6. CASE Crash \/ CoreExits \/ WindowElapses \/ Cleanup
  BY <1>6 DEF Crash, LoaderEnds, CoreExits, WindowElapses, Cleanup
<1>7. CASE (\E c \in Cores : StageBinary(c)) \/ WriteRequest \/ AbandonStaging
  BY <1>7 DEF StageBinary, WriteRequest, AbandonStaging
<1>8. CASE UNCHANGED vars
  BY <1>8 DEF vars
<1> QED
  BY <1>1, <1>2, <1>3, <1>4, <1>5, <1>6, <1>7, <1>8 DEF Next

\* The state of a fetch has its type.
FetchTypes ==
  /\ handler \in [Parts -> HandlerSteps]
  /\ reply \in [Parts -> Cores \cup {None}]
  /\ verdict \in Verdicts /\ rolledOut \in BOOLEAN /\ active \subseteq Cores

LEMMA FetchTypesStep ==
  ASSUME LoaderInv, LoaderInv', FetchTypes, [TransferNext]_<<vars, tvars>>
  PROVE  FetchTypes'
<1> USE DEF FetchTypes, HandlerSteps, history
<1>1. current \in Cores \cup {None} /\ current' \in Cores \cup {None}
  BY DEF LoaderInv, TypeOK
<1>2. CASE ProviderStep
  BY <1>1, <1>2 DEF ProviderStep
<1>3. CASE \E f \in Parts : Admit(f) \/ ReadActive(f)
  BY <1>1, <1>3 DEF Admit, ReadActive, Answer
<1>4. CASE ReadBundle
  <2>1. cur["bin"] \in Cores \cup {None}
    BY DEF LoaderInv, TypeOK, Files, Parts
  <2> QED
    BY <1>4, <2>1 DEF ReadBundle, Answer
<1>5. CASE Conclude
  BY <1>5 DEF Conclude, Verdicts
<1>6. CASE FetchAgain
  BY <1>1, <1>6 DEF FetchAgain, Verdicts
<1>7. CASE UNCHANGED <<vars, tvars>>
  BY <1>7 DEF tvars
<1> QED
  BY <1>2, <1>3, <1>4, <1>5, <1>6, <1>7 DEF TransferNext, Transfer

\* A step of the provider leaves an answered core active, unless it is seen to
\* replace it or takes the unanswered requests down with it.
LEMMA ProviderFetchStep ==
  ASSUME LoaderInv, LoaderInv', FetchTypes, FetchInv, ProviderStep
  PROVE  FetchInv'
<1> USE DEF FetchTypes, HandlerSteps
<1>1. /\ Next /\ UNCHANGED <<reply, verdict>>
      /\ rolledOut' = (rolledOut \/ job' # None)
      /\ active' = active \cup ({current'} \ {None})
  BY DEF ProviderStep
<1>2. handler' = handler \/ (pc' = "down" /\ handler' = [f \in Parts |-> "done"])
  BY DEF ProviderStep
<1>3. current' # None => current' \in active'
  BY <1>1
<1>4. ASSUME NEW f \in Parts, handler'[f] \in {"admitted", "reading"}
      PROVE  pc' \notin {"down", "seed_sig", "recover"}
  <2>1. handler' = handler /\ (pc' = "down" => pc = "down")
    BY <1>4 DEF ProviderStep
  <2>2. pc \notin {"down", "seed_sig", "recover"}
    BY <1>4, <2>1 DEF FetchInv
  <2> QED
    BY <1>1, <2>1, <2>2, BootsFromDown
<1>5. \A f \in Parts : reply'[f] # None => handler'[f] = "done"
  BY <1>1, <1>2 DEF FetchInv
<1>6. reply'["meta"] # None => reply'["meta"] \in active'
  BY <1>1 DEF FetchInv
<1>7. ASSUME ~rolledOut'
      PROVE  /\ job' = None
             /\ \A f, g \in Parts : reply'[f] # None /\ handler'[g] # "done" => reply'[f] = current'
             /\ \A f, g \in Parts : reply'[f] # None /\ reply'[g] # None => reply'[f] = reply'[g]
  <2>1. ~rolledOut /\ job = None /\ job' = None
    BY <1>1, <1>7 DEF FetchInv
  <2>2. ASSUME NEW f \in Parts, NEW g \in Parts, reply'[f] # None, handler'[g] # "done"
        PROVE  reply'[f] = current'
    <3>1. handler' = handler /\ (pc' = "down" => pc = "down")
      BY <2>2 DEF ProviderStep
    <3>2. reply[f] = current /\ current # None
      BY <1>1, <2>1, <2>2, <3>1 DEF FetchInv
    <3>3. pc \notin {"down", "seed_sig"}
      BY <3>2 DEF LoaderInv, JobInv
    <3> QED
      BY <1>1, <2>1, <3>1, <3>2, <3>3, NoJobKeepsCore
  <2>3. \A f, g \in Parts : reply'[f] # None /\ reply'[g] # None => reply'[f] = reply'[g]
    BY <1>1, <2>1 DEF FetchInv
  <2> QED
    BY <2>1, <2>2, <2>3
<1>8. SuspicionNeedsRollout' /\ VerifiedWasActive'
  BY <1>1 DEF FetchInv, SuspicionNeedsRollout, VerifiedWasActive
<1>9. verdict' # "fetching" => \A f \in Parts : handler'[f] = "done"
  BY <1>1, <1>2 DEF FetchInv
<1> QED
  BY <1>3, <1>4, <1>5, <1>6, <1>7, <1>8, <1>9 DEF FetchInv

\* An answer that is the active core, or an error, agrees with the others.
LEMMA AnswerKeeps ==
  ASSUME FetchTypes, FetchInv, NEW f \in Parts, NEW c,
         Answer(f, c), handler[f] # "done", UNCHANGED <<vars, verdict, history>>,
         f = "meta" \/ ~rolledOut => c \in {None, current}
  PROVE  FetchInv'
<1> USE DEF FetchTypes, history
<1>1. UNCHANGED <<pc, job, current, verdict, rolledOut, active>> /\ verdict = "fetching"
  BY DEF vars, memory, FetchInv
<1>2. /\ handler' = [handler EXCEPT ![f] = "done"] /\ reply' = [reply EXCEPT ![f] = c]
  BY DEF Answer
<1>3. \A g \in Parts : handler'[g] # "done" => g # f /\ handler[g] # "done"
  BY <1>2
<1>4. \A g \in Parts : reply'[g] = IF g = f THEN c ELSE reply[g]
  BY <1>2
<1>5. ASSUME ~rolledOut, NEW g \in Parts, reply'[g] # None
      PROVE  reply'[g] = current
  BY <1>4, <1>5 DEF FetchInv
<1>6. \A g \in Parts : reply'[g] # None => handler'[g] = "done"
  BY <1>2, <1>4 DEF FetchInv
<1>7. reply'["meta"] # None => reply'["meta"] \in active
  BY <1>4 DEF FetchInv, Parts
<1> QED
  BY <1>1, <1>2, <1>3, <1>5, <1>6, <1>7 DEF FetchInv, SuspicionNeedsRollout, VerifiedWasActive

\* The handlers answer with the active core, from memory or from disk.
LEMMA HandlerFetchStep ==
  ASSUME LoaderInv, FetchTypes, FetchInv,
         (\E f \in Parts : Admit(f) \/ ReadActive(f)) \/ ReadBundle
  PROVE  FetchInv'
<1>1. ASSUME NEW f \in Parts, NEW step \in {"admitted", "reading"},
             handler' = [handler EXCEPT ![f] = step], handler[f] # "done",
             pc \notin {"down", "seed_sig", "recover"},
             UNCHANGED <<reply, vars, verdict, history>>
      PROVE  FetchInv'
  <2>1. UNCHANGED <<pc, job, current, reply, verdict, rolledOut, active>> /\ verdict = "fetching"
    BY <1>1 DEF vars, memory, history, FetchInv
  <2>2. \A g \in Parts : handler'[g] = IF g = f THEN step ELSE handler[g]
    BY <1>1 DEF FetchTypes
  <2> QED
    BY <1>1, <2>1, <2>2 DEF FetchInv, SuspicionNeedsRollout, VerifiedWasActive
<1>2. ASSUME NEW f \in Parts, Admit(f) PROVE FetchInv'
  <2>1. CASE Answer(f, None)
    BY <1>2, <2>1, AnswerKeeps DEF Admit
  <2>2. CASE Distributes /\ handler' = [handler EXCEPT ![f] = "admitted"] /\ UNCHANGED reply
    BY <1>1, <1>2, <2>2 DEF Admit, Distributes
  <2> QED
    BY <1>2, <2>1, <2>2 DEF Admit
<1>3. ASSUME NEW f \in Parts, ReadActive(f) PROVE FetchInv'
  <2>1. handler[f] = "admitted" /\ pc \notin {"down", "seed_sig", "recover"}
    BY <1>3 DEF ReadActive, FetchInv
  <2>2. CASE Answer(f, None) \/ Answer(f, current)
    BY <1>3, <2>1, <2>2, AnswerKeeps DEF ReadActive
  <2>3. CASE handler' = [handler EXCEPT ![f] = "reading"] /\ UNCHANGED reply
    BY <1>1, <1>3, <2>1, <2>3 DEF ReadActive
  <2> QED
    BY <1>3, <2>2, <2>3 DEF ReadActive
<1>4. CASE ReadBundle
  <2>1. handler["bin"] = "reading" /\ "bin" \in Parts
    BY <1>4 DEF ReadBundle, Parts
  <2>2. pc \notin {"down", "seed_sig", "recover"}
    BY <2>1 DEF FetchInv
  <2>3. ~rolledOut => cur["bin"] = current
    <3>1. ~rolledOut => pc \in {"idle", "respawn"}
      BY <2>2, NoJobAssumption
      DEF FetchInv, LoaderInv, TypeOK, JobInv, Steps, ApplySteps, RollingBack, SnapshotSteps,
          PromoteSteps, RestoreSteps
    <3>2. ~rolledOut => cur = Triple(current)
      BY <3>1 DEF LoaderInv, FilesInv
    <3>3. Triple(current)["bin"] = current
      BY <2>1 DEF Triple
    <3> QED
      BY <3>2, <3>3
  <2> QED
    BY <1>4, <2>1, <2>3, AnswerKeeps DEF ReadBundle
<1> QED
  BY <1>2, <1>3, <1>4

\* The fetching peer's verdict, and its next fetch.
LEMMA VerdictFetchStep ==
  ASSUME LoaderInv, FetchTypes, FetchInv, Conclude \/ FetchAgain
  PROVE  FetchInv'
<1> USE DEF FetchTypes, history, vars, memory
<1>1. CASE Conclude
  <2>1. UNCHANGED <<pc, job, current, handler, reply, rolledOut, active>>
    BY <1>1 DEF Conclude
  <2>2. \A f \in Parts : handler[f] = "done"
    BY <1>1 DEF Conclude
  <2>3. verdict' = "verified" => reply["bin"] \in active
    <3>1. SUFFICES ASSUME verdict' = "verified" PROVE reply["bin"] \in active
      OBVIOUS
    <3>2. Verifies(reply)
      BY <1>1, <3>1 DEF Conclude
    <3>3. reply["meta"] = reply["bin"] /\ reply["bin"] # None
      BY <3>2 DEF Verifies, Triple, Parts
    <3> QED
      BY <3>3 DEF FetchInv
  <2>4. verdict' = "suspicious" => rolledOut
    <3>1. SUFFICES ASSUME verdict' = "suspicious", ~rolledOut PROVE FALSE
      OBVIOUS
    <3>2. (\A f \in Parts : reply[f] # None) /\ ~Verifies(reply)
      BY <1>1, <3>1 DEF Conclude
    <3>3. reply["meta"] = reply["bin"] /\ reply["sig"] = reply["bin"]
      BY <3>1, <3>2 DEF FetchInv, Parts
    <3>4. reply = Triple(reply["bin"])
      BY <3>3, TripleOfFiles DEF Files
    <3> QED
      BY <3>2, <3>4 DEF Verifies, Parts
  <2> QED
    BY <2>1, <2>2, <2>3, <2>4 DEF FetchInv, SuspicionNeedsRollout, VerifiedWasActive
<1>2. CASE FetchAgain
  <2>1. /\ handler' = [f \in Parts |-> "arriving"] /\ reply' = [f \in Parts |-> None]
        /\ verdict' = "fetching" /\ rolledOut' = (job # None)
        /\ active' = {current} \ {None} /\ UNCHANGED <<pc, job, current>>
    BY <1>2 DEF FetchAgain
  <2>2. reply'["meta"] = None
    BY <2>1 DEF Parts
  <2> QED
    BY <2>1, <2>2 DEF FetchInv, SuspicionNeedsRollout, VerifiedWasActive
<1> QED
  BY <1>1, <1>2

\* The invariant of a fetch beside any step of the provider.
LEMMA FetchStep ==
  ASSUME LoaderInv, LoaderInv', FetchTypes, FetchInv, [TransferNext]_<<vars, tvars>>
  PROVE  FetchInv'
<1>1. CASE UNCHANGED <<vars, tvars>>
  BY <1>1 DEF vars, memory, tvars, history, FetchInv, SuspicionNeedsRollout, VerifiedWasActive
<1> QED
  BY <1>1, ProviderFetchStep, HandlerFetchStep, VerdictFetchStep DEF TransferNext, Transfer

\* In a reliable environment a fetch, however its three requests interleave with
\* the loader's steps and its crashes, keeps its invariant.
THEOREM FetchSafe ==
  ASSUME Reliable PROVE TransferSpec => [](LoaderInv /\ FetchTypes /\ FetchInv)
<1>1. TransferInit => LoaderInv /\ FetchTypes /\ FetchInv
  <2> SUFFICES ASSUME TransferInit PROVE FetchTypes /\ FetchInv
    BY InitInv DEF TransferInit
  <2> QED
    BY DEF TransferInit, Init, FetchTypes, HandlerSteps, Verdicts, FetchInv, Parts,
           SuspicionNeedsRollout, VerifiedWasActive
<1>2. ASSUME LoaderInv, FetchTypes, FetchInv, [TransferNext]_<<vars, tvars>>
      PROVE  LoaderInv' /\ FetchTypes' /\ FetchInv'
  <2>1. [Next]_vars
    BY <1>2 DEF TransferNext, ProviderStep, Transfer, Admit, ReadActive, ReadBundle, Conclude,
                FetchAgain, tvars
  <2>2. LoaderInv'
    BY <1>2, <2>1, NextInv
  <2> QED
    BY <1>2, <2>2, FetchTypesStep, FetchStep
<1> QED
  BY <1>1, <1>2, PTL DEF TransferSpec

\* Type correctness of the provider and of a fetch from it.
THEOREM TransferTypes == ASSUME Reliable PROVE TransferSpec => []TransferTypeOK
<1>1. LoaderInv /\ FetchTypes => TransferTypeOK
  BY DEF LoaderInv, FetchTypes, TransferTypeOK
<1> QED
  BY <1>1, FetchSafe, PTL

\* What a fetch accepts was the provider's active core while it was fetched.
THEOREM FetchedWasActive == ASSUME Reliable PROVE TransferSpec => []VerifiedWasActive
<1>1. FetchInv => VerifiedWasActive
  BY DEF FetchInv
<1> QED
  BY <1>1, FetchSafe, PTL

\* A provider comes under suspicion only while it replaces its core.
THEOREM SteadyIsUnsuspected == ASSUME Reliable PROVE TransferSpec => []SuspicionNeedsRollout
<1>1. FetchInv => SuspicionNeedsRollout
  BY DEF FetchInv
<1> QED
  BY <1>1, FetchSafe, PTL
=============================================================================
