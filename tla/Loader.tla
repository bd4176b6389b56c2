------------------------------- MODULE Loader -------------------------------
(***************************************************************************)
(* The Tracey loader (src/src/loader.rs): the process that owns the core   *)
(* binary on disk, starts the core as a child, replaces it by a peer's or  *)
(* by a staged update, keeps the replaced core as a rollback copy while    *)
(* the new one is in its probation window, and restores it when the new    *)
(* one exits inside that window.                                           *)
(*                                                                         *)
(* One step of this module is one write to disk, one write to shared       *)
(* memory or one wait of the loader's main task, so that a crash of the    *)
(* process, the exit of a child and the work of the update manager inside  *)
(* the child fall between any two of them.                                 *)
(*                                                                         *)
(* A core stands for its bytes, its metadata and its signature at once: a  *)
(* file that holds core c is the file that was produced for c, and a       *)
(* triple of files passes update::verify_signed_artifacts exactly when the *)
(* three are of one core.                                                  *)
(***************************************************************************)
EXTENDS Naturals, FiniteSets

CONSTANTS
  Cores,          \* the core builds in circulation
  Version,        \* the order compare_versions gives them
  Channel,        \* their release channel
  LocalChannel,   \* config.update.local_channel
  Peers,          \* the other loaders heard on the gossip socket
  Faults,         \* which of FaultKinds may happen
  None            \* no core, no peer, no file, no marker

FaultKinds ==
  {"crash",       \* the loader process ends (SIGTERM, power, integrity error)
   "snapshot",    \* I/O error while the rollback copy is written
   "promote",     \* I/O error while the new core is moved into place
   "readback",    \* I/O error while the promoted core is read again
   "marker",      \* I/O error while the rollback marker is written
   "restore",     \* I/O error while the previous core is put back
   "overlap"}     \* tracey.next changes while the loader is applying a request

Channels == {"production", "development"}

ASSUME CoresAssumption   == None \notin Cores
ASSUME VersionAssumption == Version \in [Cores -> Nat]
ASSUME ChannelAssumption == Channel \in [Cores -> Channels] /\ LocalChannel \in Channels
ASSUME PeersAssumption   == None \notin Peers
ASSUME FaultsAssumption  == Faults \subseteq FaultKinds

VARIABLES
  \* files under the loader's state directory and the update directory
  cur,            \* current/tracey-core, its metadata and its signature
  rb,             \* the rollback copy, its metadata and its signature
  marker,         \* the rollback marker
  staged,         \* tracey.next, the binary the update manager staged
  request,        \* tracey.supervisor.request.json
  blockedCores,   \* artifacts the threat state recommends to block
  blockedPeers,   \* providers the threat state recommends to block
  \* memory of the loader process
  pc,             \* where the main task is
  job,            \* the core being applied
  current,        \* LoaderSharedState.current
  rollback,       \* LoaderSharedState.rollback
  peers,          \* the distributable core each peer announced last
  cleaning,       \* a spawned cleanup_staged_core that has not run yet
  \* processes and the clock
  child,          \* the core the managed child executes, None once it exited
  next,           \* the core the child being handed over to executes
  stray,          \* a core process no loader handle refers to is alive
  staging,        \* the update manager between stage_binary and its request
  expired,        \* the marker is older than rollback_window_ms
  condemned       \* history: cores a crash rollback has been completed for

threats == <<blockedCores, blockedPeers>>
disk    == <<cur, rb, marker, staged, request, threats>>
memory  == <<pc, job, current, rollback, peers, cleaning>>
procs   == <<child, next, stray>>
world   == <<procs, staging, expired, condemned>>
vars    == <<disk, memory, world>>

Parts    == {"bin", "meta", "sig"}
Files    == [Parts -> Cores \cup {None}]
Markers  == [failed : Cores, previous : Cores, peer : Peers \cup {None}]
\* previous is the core the rollback copy is for, back is where control returns
\* when apply_fetched_core fails, cause why the previous core is being restored.
Jobs     == [core : Cores, previous : Cores, peer : Peers \cup {None},
             back : {"idle", "respawn"}, cause : {"apply", "crash"}]

\* The absence of a job is no job.
ASSUME NoJobAssumption == None \notin Jobs

SnapshotSteps == {"snap_bin", "snap_meta", "snap_sig"}
PromoteSteps  == {"remove", "rename", "meta", "sig"}
RestoreSteps  == {"rest_bin", "rest_meta", "rest_sig"}
Steps == {"down", "seed_sig", "recover", "idle", "respawn"}
           \cup SnapshotSteps \cup {"spawn", "ready"} \cup PromoteSteps
           \cup {"readback", "mark", "set_current", "set_rollback"}
           \cup RestoreSteps \cup {"reload", "reactivate", "clear"}

Triple(c)    == [f \in Parts |-> c]
Verifies(t)  == t["bin"] # None /\ t = Triple(t["bin"])
Distributable(c) == Channel[c] = "production"

\* The binary the loader spawns and promotes: a fetched core has a file of its
\* own, named by version and digest; a supervisor request names tracey.next.
StagedBinary == IF job.peer # None THEN job.core ELSE staged

-----------------------------------------------------------------------------
(* Startup *)

Init ==
  /\ \E c \in Cores : /\ Channel[c] = LocalChannel
                      /\ cur \in {Triple(c), [Triple(None) EXCEPT !["bin"] = c]}
  /\ rb = Triple(None) /\ marker = None /\ staged = None /\ request = None
  /\ blockedCores = {} /\ blockedPeers = {}
  /\ pc = "down" /\ job = None /\ current = None /\ rollback = None
  /\ peers = [p \in Peers |-> None] /\ cleaning = FALSE
  /\ child = None /\ next = None /\ stray = FALSE /\ staging = None
  /\ expired = FALSE /\ condemned = {}

\* load_or_seed_active_core with metadata and signature present; a triple that
\* does not verify makes run_loader return, and the loader stays down.
BootVerified ==
  /\ pc = "down" /\ Verifies(cur)
  /\ current' = cur["bin"]
  /\ pc' = "recover"
  /\ UNCHANGED <<disk, job, rollback, peers, cleaning, world>>

\* load_or_seed_active_core without metadata or signature: sign what is there.
BootSeed ==
  /\ pc = "down" /\ cur["bin"] # None
  /\ cur["meta"] = None \/ cur["sig"] = None
  /\ cur' = [cur EXCEPT !["meta"] = cur["bin"]]
  /\ pc' = "seed_sig"
  /\ UNCHANGED <<rb, marker, staged, request, threats>>
  /\ UNCHANGED <<job, current, rollback, peers, cleaning, world>>

BootSeedSignature ==
  /\ pc = "seed_sig"
  /\ cur' = [cur EXCEPT !["sig"] = cur["bin"]]
  /\ current' = cur["bin"]
  /\ pc' = "recover"
  /\ UNCHANGED <<rb, marker, staged, request, threats>>
  /\ UNCHANGED <<job, rollback, peers, cleaning, world>>

\* load_pending_rollback: the marker is of use only while its window is open,
\* it names the active core, and the rollback copy is the core it names.
MarkerApplies ==
  marker # None /\ ~expired /\ marker.failed = current

SpawnCurrent ==
  /\ child' = cur["bin"]
  /\ stray' = (stray \/ child # None)

\* run_loader returns or the process dies: its memory is gone, and the service
\* manager stops every process of the unit before it starts the loader again.
LoaderEnds ==
  /\ pc' = "down" /\ job' = None /\ current' = None /\ rollback' = None
  /\ peers' = [p \in Peers |-> None] /\ cleaning' = FALSE
  /\ child' = None /\ next' = None /\ stray' = FALSE /\ staging' = None

\* The marker is kept or dropped, then spawn_core_child starts the core. A
\* rollback copy that does not verify is an error that ends the loader.
Recover ==
  /\ pc = "recover"
  /\ \/ MarkerApplies /\ ~Verifies(rb) /\ LoaderEnds /\ UNCHANGED <<marker, expired>>
     \/ /\ \/ MarkerApplies /\ rb = Triple(marker.previous)
              /\ rollback' = marker /\ UNCHANGED <<marker, expired>>
           \/ /\ MarkerApplies => Verifies(rb) /\ rb # Triple(marker.previous)
              /\ marker' = None /\ expired' = FALSE /\ UNCHANGED rollback
        /\ pc' = "idle" /\ SpawnCurrent
        /\ UNCHANGED <<job, current, peers, cleaning, next, staging>>
  /\ UNCHANGED <<cur, rb, staged, request, threats, condemned>>

-----------------------------------------------------------------------------
(* The main loop, waiting in select! *)

Idle == pc = "idle"

\* Mutant: whether a probation is over is looked up in the marker file.
StabilizeByMarkerFile ==
  /\ Idle /\ marker # None /\ expired
  /\ marker' = None /\ rollback' = None /\ expired' = FALSE
  /\ UNCHANGED <<cur, rb, staged, request, threats, pc, job, current, peers, cleaning>>
  /\ UNCHANGED <<procs, staging, condemned>>

\* stabilize_rollout_if_ready, at every announce, sync and stability tick.
Stabilize ==
  /\ Idle /\ rollback # None /\ expired
  /\ marker' = None /\ rollback' = None /\ expired' = FALSE
  /\ UNCHANGED <<cur, rb, staged, request, threats, pc, job, current, peers, cleaning>>
  /\ UNCHANGED <<procs, staging, condemned>>

\* Mutant: the source of a core that came from no peer is blamed too.
BlamedSource(p) == {p}

\* The provider an incident is about, if the core came from one.
Blamed(p) == {p} \ {None}

\* rollback_after_crash, first part: the child of a core in probation exited.
\* The incident is persisted before anything is restored.
ChildExitInProbation ==
  /\ Idle /\ child = None /\ rollback # None /\ ~expired
  /\ current = rollback.failed
  /\ blockedCores' = blockedCores \cup {current}
  /\ blockedPeers' = blockedPeers \cup Blamed(rollback.peer)
  /\ job' = [core |-> current, previous |-> rollback.previous, peer |-> rollback.peer,
             back |-> "idle", cause |-> "crash"]
  /\ pc' = "rest_bin"
  /\ UNCHANGED <<cur, rb, marker, staged, request, current, rollback, peers, cleaning, world>>

\* read_update_request removes the file it read; apply_supervisor_request then
\* wants the local channel and a staged binary that verifies.
TakeRequest(back) ==
  /\ request # None
  /\ "overlap" \notin Faults => ~cleaning
  /\ request' = None
  /\ IF Channel[request] = LocalChannel /\ staged = request
       THEN /\ pc' = "snap_bin"
            /\ job' = [core |-> request, previous |-> current, peer |-> None,
                      back |-> back, cause |-> "apply"]
       ELSE pc' = back /\ UNCHANGED job

\* The child exited and no rollback applies: an expired probation is cleared,
\* a waiting request is applied, and otherwise (or after the request failed)
\* the active core is started again.
ChildExit ==
  /\ Idle /\ child = None
  /\ rollback # None => expired \/ current # rollback.failed
  /\ IF rollback # None /\ expired
       THEN marker' = None /\ rollback' = None /\ expired' = FALSE
       ELSE UNCHANGED <<marker, rollback, expired>>
  /\ \/ TakeRequest("respawn")
     \/ request = None /\ pc' = "respawn" /\ UNCHANGED <<request, job>>
  /\ UNCHANGED <<cur, rb, staged, threats, current, peers, cleaning>>
  /\ UNCHANGED <<procs, staging, condemned>>

\* Mutant: the loop continues after the backoff without a new child.
RespawnForgotten ==
  /\ pc = "respawn" /\ pc' = "idle"
  /\ UNCHANGED <<disk, job, current, rollback, peers, cleaning, world>>

\* After the backoff: a binary that is gone cannot be spawned, which ends the
\* loader; a child handle that is overwritten leaves its process running.
Respawn ==
  /\ pc = "respawn"
  /\ \/ cur["bin"] = None /\ LoaderEnds
     \/ /\ cur["bin"] # None
        /\ pc' = "idle" /\ SpawnCurrent
        /\ UNCHANGED <<job, current, rollback, peers, cleaning, next, staging>>
  /\ UNCHANGED <<disk, expired, condemned>>

\* request_tick.
RequestTick ==
  /\ Idle /\ rollback = None
  /\ TakeRequest("idle")
  /\ UNCHANGED <<cur, rb, marker, staged, threats, current, rollback, peers, cleaning, world>>

\* An announcement that verifies replaces what its peer announced before; one
\* that is not distributable, and one older than the ttl, is no candidate.
Announce(p, c) ==
  /\ Idle /\ peers[p] # c
  /\ peers' = [peers EXCEPT ![p] = c]
  /\ UNCHANGED <<disk, pc, job, current, rollback, cleaning, world>>

\* Mutant: the blocklist of artifacts is not consulted.
CandidatesByProvider(shunned) ==
  {p \in Peers \ shunned : /\ peers[p] # None
                           /\ Version[peers[p]] > Version[current]
                           /\ p \notin blockedPeers}

\* choose_best_peer, for the peers and artifacts no quorum of remote reports
\* recommends to block.
Candidates(shunned) ==
  {p \in Peers \ shunned : /\ peers[p] # None
                           /\ Version[peers[p]] > Version[current]
                           /\ p \notin blockedPeers
                           /\ peers[p] \notin blockedCores}

BestPeers(shunned) ==
  {p \in Candidates(shunned) : \A q \in Candidates(shunned) :
                                  Version[peers[p]] >= Version[peers[q]]}

\* What is wrong with the artifacts p serves: they do not verify (None), they
\* are not a production core, or a newer core than the one p announced.
Suspicious(p, served) ==
  \/ served = None
  \/ /\ served # None
     /\ \/ ~Distributable(served)
        \/ Version[served] > Version[current] /\ served # peers[p]

\* sync_tick: fetch from the best peer what it serves, which need not be what it
\* announced, and apply it if it is newer and nothing is wrong with it. A
\* transport error changes nothing.
SyncFromPeer(p, served) ==
  \/ /\ Suspicious(p, served)
     /\ blockedPeers' = blockedPeers \cup {p}
     /\ blockedCores' = blockedCores \cup {IF served = None THEN peers[p] ELSE served}
     /\ UNCHANGED <<pc, job>>
  \/ /\ ~Suspicious(p, served) /\ Version[served] > Version[current]
     /\ pc' = "snap_bin"
     /\ job' = [core |-> served, previous |-> current, peer |-> p,
                back |-> "idle", cause |-> "apply"]
     /\ UNCHANGED threats

SyncTick ==
  /\ Idle /\ rollback = None
  /\ LocalChannel = "production" /\ Distributable(current)
  /\ \E shunned \in SUBSET Peers : \E p \in BestPeers(shunned) :
       \E served \in Cores \cup {None} : SyncFromPeer(p, served)
  /\ UNCHANGED <<cur, rb, marker, staged, request, current, rollback, peers, cleaning, world>>

-----------------------------------------------------------------------------
(* apply_fetched_core *)

\* Give up: the handler returns its error to the main loop.
Return(step) == pc' = step /\ job' = None

\* snapshot_current_for_rollback copies the binary from disk and the metadata
\* and signature from memory.
Snapshot(f, from, to) ==
  /\ pc = from
  /\ \/ /\ rb' = [rb EXCEPT ![f] = IF f = "bin" THEN cur["bin"] ELSE current]
        /\ pc' = to /\ UNCHANGED job
     \/ /\ "snapshot" \in Faults
        /\ Return(job.back) /\ UNCHANGED rb
  /\ UNCHANGED <<cur, marker, staged, request, threats, current, rollback, peers, cleaning, world>>

\* Mutant: only the binary is copied.
SnapshotBinaryOnly == Snapshot("bin", "snap_bin", "spawn")

SnapshotCurrent ==
  \/ Snapshot("bin", "snap_bin", "snap_meta")
  \/ Snapshot("meta", "snap_meta", "snap_sig")
  \/ Snapshot("sig", "snap_sig", "spawn")

\* Mutant: a core that never reports ready is left running.
HandoffFailureWithoutKill ==
  /\ blockedCores' = blockedCores \cup {job.core}
  /\ blockedPeers' = blockedPeers \cup Blamed(job.peer)
  /\ cleaning' = (cleaning \/ job.peer = None)
  /\ UNCHANGED next
  /\ Return(job.back)

\* A core that cannot be spawned or never reports ready is an incident, and its
\* staged binary is removed by a task nobody waits for.
HandoffFailure ==
  /\ blockedCores' = blockedCores \cup {job.core}
  /\ blockedPeers' = blockedPeers \cup Blamed(job.peer)
  /\ cleaning' = (cleaning \/ job.peer = None)
  /\ next' = None
  /\ Return(job.back)

\* perform_handoff: spawn the next core from the staged binary ...
SpawnNext ==
  /\ pc = "spawn"
  /\ \/ /\ StagedBinary # None
        /\ next' = StagedBinary /\ pc' = "ready"
        /\ UNCHANGED <<job, threats, cleaning>>
     \/ StagedBinary = None /\ HandoffFailure
  /\ UNCHANGED <<cur, rb, marker, staged, request, current, rollback, peers>>
  /\ UNCHANGED <<child, stray, staging, expired, condemned>>

\* ... and wait until it reports ready, then stop the old child; or until the
\* handoff times out, then kill the new one.
AwaitReady ==
  /\ pc = "ready"
  /\ \/ /\ next # None
        /\ child' = None /\ pc' = "remove"
        /\ UNCHANGED <<job, threats, cleaning, next>>
     \/ HandoffFailure /\ UNCHANGED child
  /\ UNCHANGED <<cur, rb, marker, staged, request, current, rollback, peers>>
  /\ UNCHANGED <<stray, staging, expired, condemned>>

\* Mutant: the new child is stopped and nothing is put back.
PromotionFailureWithoutRestore ==
  /\ next' = None
  /\ cleaning' = (cleaning \/ job.peer = None)
  /\ pc' = job.back
  /\ UNCHANGED <<cur, staged>>

\* A promotion that fails stops the new child and puts the previous core back.
PromotionFailure ==
  /\ next' = None
  /\ cleaning' = (cleaning \/ job.peer = None)
  /\ pc' = "rest_bin"
  /\ UNCHANGED <<cur, staged>>

PromoteFrame ==
  /\ UNCHANGED <<rb, marker, request, threats, job, current, rollback, peers>>
  /\ UNCHANGED <<child, stray, staging, expired, condemned>>

\* promote_fetched_core: remove the current binary, ...
RemoveCurrent ==
  /\ pc = "remove"
  /\ cur' = [cur EXCEPT !["bin"] = None]
  /\ pc' = "rename"
  /\ UNCHANGED <<staged, cleaning, next>> /\ PromoteFrame

\* ... move the staged binary into its place, ...
RenameStaged ==
  /\ pc = "rename"
  /\ \/ /\ StagedBinary # None
        /\ cur' = [cur EXCEPT !["bin"] = StagedBinary]
        /\ staged' = IF job.peer = None THEN None ELSE staged
        /\ pc' = "meta" /\ UNCHANGED <<cleaning, next>>
     \/ (StagedBinary = None \/ "promote" \in Faults) /\ PromotionFailure
  /\ PromoteFrame

\* ... then write its metadata and its signature.
WritePromoted(f, from, to) ==
  /\ pc = from
  /\ \/ /\ cur' = [cur EXCEPT ![f] = job.core]
        /\ pc' = to /\ UNCHANGED <<staged, cleaning, next>>
     \/ "promote" \in Faults /\ PromotionFailure
  /\ PromoteFrame

Promote ==
  \/ RemoveCurrent
  \/ RenameStaged
  \/ WritePromoted("meta", "meta", "sig")
  \/ WritePromoted("sig", "sig", "readback")

\* The promoted triple is read again and verified. An error is returned as it
\* is: nothing is restored, and the handle of the new child is dropped.
Readback ==
  /\ pc = "readback"
  /\ \/ cur = Triple(job.core) /\ pc' = "mark" /\ UNCHANGED <<job, next, stray>>
     \/ /\ cur # Triple(job.core) \/ "readback" \in Faults
        /\ Return(job.back)
        /\ next' = None /\ stray' = (stray \/ next # None)
  /\ UNCHANGED <<disk, current, rollback, peers, cleaning>>
  /\ UNCHANGED <<child, staging, expired, condemned>>

\* Mutant: the previous core is looked up in shared memory when it is needed.
PendingFromMemory == [failed |-> job.core, previous |-> current, peer |-> job.peer]

Pending == [failed |-> job.core, previous |-> job.previous, peer |-> job.peer]

\* write_rollback_marker; when it fails the rollback stays in memory only. The
\* window opens now.
WriteMarker ==
  /\ pc = "mark"
  /\ marker' = Pending \/ ("marker" \in Faults /\ UNCHANGED marker)
  /\ expired' = FALSE
  /\ pc' = "set_current"
  /\ UNCHANGED <<cur, rb, staged, request, threats, job, current, rollback, peers, cleaning>>
  /\ UNCHANGED <<procs, staging, condemned>>

\* The two writes to shared memory, each under a lock of its own; with the
\* second the new child takes the place of the old one.
SetCurrent ==
  /\ pc = "set_current"
  /\ current' = job.core
  /\ pc' = "set_rollback"
  /\ UNCHANGED <<disk, job, rollback, peers, cleaning, world>>

SetRollback ==
  /\ pc = "set_rollback"
  /\ rollback' = Pending
  /\ child' = next /\ next' = None
  /\ Return("idle")
  /\ UNCHANGED <<disk, current, peers, cleaning, stray, staging, expired, condemned>>

-----------------------------------------------------------------------------
(* restore_previous_core *)

\* apply_fetched_core returns the error to the main loop; rollback_after_crash
\* returns it from run_loader.
RestoreFailure ==
  \/ /\ job.cause = "apply" /\ Return(job.back)
     /\ UNCHANGED <<current, rollback, peers, cleaning, procs, staging>>
  \/ job.cause = "crash" /\ LoaderEnds

\* The binary comes from the rollback copy on disk, the rest from memory.
Restore(f, from, to) ==
  /\ pc = from
  /\ \/ /\ f = "bin" => rb["bin"] # None
        /\ cur' = [cur EXCEPT ![f] = IF f = "bin" THEN rb["bin"] ELSE job.previous]
        /\ pc' = to
        /\ UNCHANGED <<job, current, rollback, peers, cleaning, procs, staging>>
     \/ /\ "restore" \in Faults \/ (f = "bin" /\ rb["bin"] = None)
        /\ RestoreFailure /\ UNCHANGED cur
  /\ UNCHANGED <<rb, marker, staged, request, threats, expired, condemned>>

RestorePrevious ==
  \/ Restore("bin", "rest_bin", "rest_meta")
  \/ Restore("meta", "rest_meta", "rest_sig")
  \/ Restore("sig", "rest_sig", "reload")

\* The restored files are loaded and verified before they become current.
Reload ==
  /\ pc = "reload"
  /\ \/ /\ Verifies(cur)
        /\ current' = cur["bin"] /\ pc' = "reactivate"
        /\ UNCHANGED <<job, rollback, peers, cleaning, procs, staging>>
     \/ ~Verifies(cur) /\ RestoreFailure
  /\ UNCHANGED <<disk, expired, condemned>>

\* After a failed promotion the previous core is spawned and the error returned;
\* after a crash the marker is removed first.
Reactivate ==
  /\ pc = "reactivate"
  /\ \/ /\ job.cause = "apply"
        /\ SpawnCurrent /\ Return(job.back)
        /\ UNCHANGED <<marker, expired>>
     \/ /\ job.cause = "crash"
        /\ marker' = None /\ expired' = FALSE
        /\ pc' = "clear" /\ UNCHANGED <<job, child, stray>>
  /\ UNCHANGED <<cur, rb, staged, request, threats, current, rollback, peers, cleaning>>
  /\ UNCHANGED <<next, staging, condemned>>

ClearRollback ==
  /\ pc = "clear"
  /\ rollback' = None /\ condemned' = condemned \cup {job.core}
  /\ SpawnCurrent /\ Return("idle")
  /\ UNCHANGED <<disk, current, peers, cleaning, next, staging, expired>>

-----------------------------------------------------------------------------
(* What happens beside the main task *)

Crash ==
  /\ "crash" \in Faults /\ pc # "down"
  /\ LoaderEnds
  /\ UNCHANGED <<disk, expired, condemned>>

CoreExits ==
  /\ \/ child # None /\ child' = None /\ UNCHANGED <<next, stray>>
     \/ next # None /\ next' = None /\ UNCHANGED <<child, stray>>
     \/ stray /\ stray' = FALSE /\ UNCHANGED <<child, next>>
  /\ UNCHANGED <<disk, memory, staging, expired, condemned>>

\* rollback_marker_expired becomes true.
WindowElapses ==
  /\ ~expired /\ (marker # None \/ rollback # None)
  /\ expired' = TRUE
  /\ UNCHANGED <<disk, memory, procs, staging, condemned>>

\* cleanup_staged_core, spawned by a failed apply of a supervisor request.
Cleanup ==
  /\ cleaning /\ cleaning' = FALSE
  /\ staged' = None
  /\ UNCHANGED <<cur, rb, marker, request, threats, pc, job, current, rollback, peers, world>>

CoreAlive == child # None \/ next # None \/ stray

Applying(steps) == pc \in steps /\ job.peer = None

\* UpdateManager::check_once in a core that runs: stage_binary copies a verified
\* bundle of the local channel over tracey.next, which the kernel refuses while
\* that file is being executed; write_update_request follows.
StageBinary(c) ==
  /\ CoreAlive /\ staging = None /\ Channel[c] = LocalChannel
  /\ ~(next # None /\ Applying({"ready", "remove", "rename"}))
  /\ "overlap" \notin Faults => ~Applying(SnapshotSteps \cup {"spawn", "ready", "remove", "rename"})
  /\ staged' = c /\ staging' = c
  /\ UNCHANGED <<cur, rb, marker, request, threats, memory, procs, expired, condemned>>

WriteRequest ==
  /\ staging # None /\ CoreAlive
  /\ request' = staging /\ staging' = None
  /\ UNCHANGED <<cur, rb, marker, staged, threats, memory, procs, expired, condemned>>

\* The core that staged is stopped before it wrote its request.
AbandonStaging ==
  /\ staging # None /\ staging' = None
  /\ UNCHANGED <<disk, memory, procs, expired, condemned>>

-----------------------------------------------------------------------------
Boot == BootVerified \/ BootSeed \/ BootSeedSignature \/ Recover

Apply == \/ SnapshotCurrent \/ SpawnNext \/ AwaitReady \/ Promote
         \/ Readback \/ WriteMarker \/ SetCurrent \/ SetRollback
         \/ RestorePrevious \/ Reload \/ Reactivate \/ ClearRollback

MainLoop == Stabilize \/ ChildExitInProbation \/ ChildExit \/ Respawn

Next ==
  \/ Boot \/ MainLoop \/ RequestTick \/ SyncTick \/ Apply
  \/ \E p \in Peers, c \in Cores \cup {None} : Announce(p, c)
  \/ Crash \/ CoreExits \/ WindowElapses \/ Cleanup
  \/ \E c \in Cores : StageBinary(c)
  \/ WriteRequest \/ AbandonStaging

Spec == Init /\ [][Next]_vars

\* The service manager starts the loader, the main task goes on while it has a
\* statement to execute or an exited child or a due tick to handle, a spawned
\* cleanup runs, and time passes. Nothing makes peers announce, cores exit or update managers stage.
FairSpec ==
  /\ Spec /\ WF_vars(Boot) /\ WF_vars(MainLoop) /\ WF_vars(Apply)
  /\ WF_vars(WindowElapses) /\ WF_vars(Cleanup)

-----------------------------------------------------------------------------
(* Properties *)

TypeOK ==
  /\ cur \in Files /\ rb \in Files
  /\ marker \in Markers \cup {None}
  /\ staged \in Cores \cup {None} /\ request \in Cores \cup {None}
  /\ blockedCores \subseteq Cores /\ blockedPeers \subseteq Peers
  /\ pc \in Steps /\ job \in Jobs \cup {None}
  /\ current \in Cores \cup {None} /\ rollback \in Markers \cup {None}
  /\ peers \in [Peers -> Cores \cup {None}] /\ cleaning \in BOOLEAN
  /\ child \in Cores \cup {None} /\ next \in Cores \cup {None}
  /\ stray \in BOOLEAN /\ staging \in Cores \cup {None}
  /\ expired \in BOOLEAN /\ condemned \subseteq Cores

\* The points at which the main loop decides what to do.
Steady == pc \in {"idle", "respawn"}

\* While a rollback is pending, whatever crashed or failed before, the rollback
\* copy is the complete previous core, the one rollback_after_crash will put
\* back, and the active core is the one the marker names as failed. (The marker,
\* the copy and shared memory are written in steps of their own.)
ProbationIsRecoverable ==
  rollback # None =>
    /\ rb = Triple(rollback.previous)
    /\ Steady => current = rollback.failed

\* Whenever the main loop decides, the three files under current/ are one core
\* and the one shared memory names: what is served to peers, spawned after an
\* exit and loaded after a restart is the same core.  And a restart resumes no
\* probation but the one it left: a marker on disk is the one of the pending
\* rollback in memory (which may have none, when it could not be written).
DiskAgreesWithMemory ==
  Steady => /\ cur = Triple(current)
            /\ marker \in {None, rollback}

\* Without I/O errors the loader never loses track of a core process, and the
\* one it manages is the core it believes to be active.
OneManagedCore ==
  /\ ~stray
  /\ pc = "idle" => next = None /\ child \in {None, current}

\* A core that becomes active by peer sync is newer than the one it replaces, a
\* production core, and none that a crash rollback has removed before, across
\* restarts too: version and blocklist are looked at long before activation.
PeerSyncOnlyUpgrades ==
  [][ (pc = "set_current" /\ job.peer # None /\ current' # None) =>
        /\ Version[current'] > Version[current]
        /\ Distributable(current')
        /\ current' \notin condemned ]_<<current>>

\* The active core is replaced only by one whose predecessor is complete in the
\* rollback copy, or by the previous core of the pending rollback.
ReplacedCoreIsKept ==
  [][ (current # None /\ current' # None) =>
        \/ rb = Triple(current)
        \/ rollback # None /\ current' = rollback.previous ]_<<current>>

\* The inductive invariant behind these: what each step may rely on.
ApplySteps == SnapshotSteps \cup PromoteSteps \cup
              {"spawn", "ready", "readback", "mark", "set_current", "set_rollback"}
RollingBack == RestoreSteps \cup {"reload", "reactivate", "clear"}

\* A job is at hand exactly while one is needed, and whose rollback is pending.
JobInv ==
  /\ pc \in ApplySteps \cup RollingBack => job \in Jobs
  /\ pc \in ApplySteps => job.cause = "apply"
  /\ pc = "clear" => job.cause = "crash"
  /\ IF pc \in {"down", "seed_sig"} THEN current = None ELSE current \in Cores
  /\ pc \notin {"idle"} \cup RollingBack => rollback = None
  /\ pc \in RollingBack /\ job.cause = "apply" => rollback = None
  /\ pc \in RollingBack /\ job.cause = "crash" =>
        /\ rollback \in Markers /\ rollback # None
        /\ rollback.failed = job.core /\ rollback.previous = job.previous

\* The active core in memory through the steps of a job.
CurrentInv ==
  /\ pc = "idle" /\ rollback # None => current = rollback.failed
  /\ pc \in ApplySteps \ {"set_rollback"} => current = job.previous
  /\ pc = "set_rollback" => current = job.core
  /\ pc \in {"reactivate", "clear"} => current = job.previous
  /\ pc \in RestoreSteps \cup {"reload"} =>
        current = (IF job.cause = "apply" THEN job.previous ELSE job.core)

\* The rollback copy fills up file by file and then stays what it is for.
CopyInv ==
  /\ rollback # None => rb = Triple(rollback.previous)
  /\ pc \in {"snap_meta", "snap_sig"} => rb["bin"] = job.previous
  /\ pc = "snap_sig" => rb["meta"] = job.previous
  /\ pc \in (ApplySteps \ SnapshotSteps) \cup RollingBack => rb = Triple(job.previous)

\* The files under current/ are in step with the promotion or the restoring.
FilesInv ==
  /\ pc = "seed_sig" => cur["bin"] \in Cores /\ cur["meta"] = cur["bin"]
  /\ pc \in {"recover", "idle", "respawn", "spawn", "ready", "remove"} \cup SnapshotSteps =>
        cur = Triple(current)
  /\ pc \in {"meta", "sig"} => cur["bin"] = job.core
  /\ pc = "sig" => cur["meta"] = job.core
  /\ pc \in {"readback", "mark", "set_current", "set_rollback"} => cur = Triple(job.core)
  /\ pc \in {"rest_meta", "rest_sig"} => cur["bin"] = job.previous
  /\ pc = "rest_sig" => cur["meta"] = job.previous
  /\ pc \in {"reload", "reactivate", "clear"} => cur = Triple(job.previous)

\* The staged binary stays the verified one until it has been moved.
StagedInv ==
  Applying(SnapshotSteps \cup {"spawn", "ready", "remove", "rename"}) =>
    staged = job.core /\ ~cleaning

\* The marker on disk is of the rollback at hand.
MarkerInv ==
  /\ Steady => marker \in {None, rollback}
  /\ pc \in (ApplySteps \ {"set_current", "set_rollback"}) \cup {"clear"} => marker = None
  /\ pc \in {"set_current", "set_rollback"} => marker \in {None, Pending}
  /\ pc \in RollingBack => marker \in {None, rollback}

\* What a core that comes from a peer was checked for stays true until it is
\* active, and an incident is on record before its core is removed.
UpgradeInv ==
  /\ condemned \subseteq blockedCores
  /\ pc \in RollingBack /\ job.cause = "crash" => job.core \in blockedCores
  /\ pc \in ApplySteps /\ job.peer # None =>
        /\ Version[job.core] > Version[job.previous]
        /\ Distributable(job.core) /\ job.core \notin condemned

\* The process the loader manages through the steps of a job, where no promotion
\* fails: the old child until the handoff, the new one after it, none in between.
HandedOver == PromoteSteps \cup {"readback", "mark", "set_current", "set_rollback"}
ProcessInv ==
  /\ ~stray
  /\ pc \in RollingBack => job.cause = "crash"
  /\ IF pc \in HandedOver \cup {"ready"} THEN next \in {None, job.core} ELSE next = None
  /\ pc \in HandedOver \cup RollingBack \cup {"down", "seed_sig", "recover", "respawn"} => child = None
  /\ pc \in SnapshotSteps \cup {"spawn", "ready"} /\ job.back = "respawn" => child = None
  /\ pc \in SnapshotSteps \cup {"idle", "spawn", "ready"} => child \in {None, current}

LoaderInv ==
  /\ TypeOK /\ JobInv /\ CurrentInv /\ CopyInv /\ FilesInv /\ StagedInv /\ MarkerInv

\* A loader that is down can start again: its active core verifies, or lacks the
\* metadata or signature that a first start adds.
Restartable ==
  pc = "down" =>
    /\ cur["bin"] # None
    /\ None \in {cur["meta"], cur["sig"]} \/ Verifies(cur)

\* Probation ends, by expiry or by rollback.
ProbationEnds == (rollback # None) ~> (rollback = None)

\* A core that exited is followed by another one, unless the loader is down.
ServiceResumes == (pc = "idle" /\ child = None) ~> (CoreAlive \/ pc = "down")
=============================================================================
