----------------------------- MODULE MCRecording -----------------------------
(***************************************************************************)
(* From an event to its record: the swarm that decides, the storage that   *)
(* keeps what it is told and the export that counts it.  The three meet    *)
(* only in bounded channels, whose senders and receivers each module has   *)
(* of its own, so a behaviour exercises one of them, chosen in its initial *)
(* state, while the others rest in an initial state (as in MCServices).    *)
(***************************************************************************)
EXTENDS MCSwarm, Storage, Export

VARIABLE subject

MCFirstViews ==
  {[n \in ExportNodes |-> 2], [n \in ExportNodes |-> IF n = 1 THEN 2 ELSE NoExporter],
   [n \in ExportNodes |-> IF n = 1 THEN NoExporter ELSE 1]}

Idle(part) == subject # part

RecordingInit ==
  /\ subject \in {"swarm", "storage", "export"}
  /\ Init /\ StorageInit /\ ExportInit
  /\ Idle("swarm") => role = MCSole
  /\ Idle("storage") => limit = 0 /\ Archives = {}
  /\ Idle("export") => exporterOf = [n \in ExportNodes |-> 2]

RecordingNext ==
  /\ \/ ~Idle("swarm") /\ Next /\ UNCHANGED <<storageVars, exportVars>>
     \/ ~Idle("storage") /\ StorageNext /\ UNCHANGED <<vars, exportVars>>
     \/ ~Idle("export") /\ ExportNext /\ UNCHANGED <<vars, storageVars>>
  /\ UNCHANGED subject

\* Fairness, StorageFairness and ExportFairness, asked of the behaviours that exercise them
RecordingFairness ==
  /\ \A a \in Agents : WF_vars(~Idle("swarm") /\ (Assess(a) \/ Lag(a) \/ Send(a)))
  /\ WF_vars(~Idle("swarm") /\ (IngestAsFollower \/ IngestAsLeader))
  /\ \A i \in Ids : WF_vars(~Idle("swarm") /\ Age(i))
  /\ WF_vars(~Idle("swarm") /\ FlushExpired)
  /\ SF_storageVars(~Idle("storage") /\ ReceiveRecord)
  /\ WF_storageVars(~Idle("storage") /\ AdmitBlocked)
  /\ WF_storageVars(~Idle("storage") /\ Housekeeping)
  /\ \A n \in ExportNodes : /\ WF_exportVars(~Idle("export") /\ ReadRole(n, "flush"))
                            /\ WF_exportVars(~Idle("export") /\ ExportWork(n))
  /\ WF_exportVars(~Idle("export") /\ \E call \in calls : IngestWork(call))

RecordingSpec ==
  RecordingInit /\ [][RecordingNext]_<<subject, vars, storageVars, exportVars>> /\ RecordingFairness

RecordingTypeOK == SwarmTypeOK /\ StorageTypeOK /\ ExportTypeOK
=============================================================================
