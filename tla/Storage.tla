------------------------------- MODULE Storage -------------------------------
(***************************************************************************)
(* The JSONL storage pipeline (storage.rs): tasks of the agent send        *)
(* records over a bounded channel to one worker, which buffers them,       *)
(* writes them to the active file and keeps the files within bounds by     *)
(* rotation into numbered archives or by compaction in place.              *)
(*                                                                         *)
(* A file is the sequence of its records; one record counts as one byte.   *)
(* The writer holds an open file, not a name: it follows renames, and      *)
(* writes to nowhere once its file was replaced or removed.                *)
(***************************************************************************)
EXTENDS Integers, Sequences, SequencesExt, FiniteSetsExt

CONSTANTS
  NoFile,          \* no such file
  Summary,         \* the log_summary line that compaction writes
  Senders,         \* tasks that record something
  Capacity,        \* of the channel
  BufferSize,      \* of the BufWriter
  MaxBytes, Budget, RetainLines, Limits,  \* max_bytes, max_total_bytes, retain_lines, rotate_archives
  MaxRecords,      \* bound: records sent
  MaxStorageFaults, \* bound: failed operations
  MaxRestarts,     \* bound: starts of the process after the first
  StorageFaults    \* subset of {"write", "io", "crash"}

\* A record is its number, so the summary is none; one configuration allows the most archives.
ASSUME StorageAssumption ==
  /\ Capacity \in Nat /\ BufferSize \in Nat \ {0} /\ RetainLines \in Nat /\ MaxRecords \in Nat
  /\ Limits \subseteq Nat /\ \E l \in Limits : \A k \in Limits : l >= k
  /\ Summary = 0 /\ NoFile \notin Seq(0 .. MaxRecords)

VARIABLES
  queue, blocked,  \* the channel and the tasks that wait for room in it
  sent,            \* records sent so far; a record is its number
  buffer,          \* the records of the BufWriter
  files,           \* 0 is the active file, i > 0 archive i
  handle,          \* the file the writer holds open
  limit,           \* rotate_archives
  stage, shifting,   \* what the worker does next, and at which archive
  storageFaults, restarts

storageVars == <<queue, blocked, sent, buffer, files, handle, limit, stage,
                 shifting, storageFaults, restarts>>

MaxArchive == Max(Limits) + 1
Slots == 0 .. MaxArchive
Gone == -1
Exists(i) == files[i] # NoFile
Archives == {i \in Slots \ {0} : Exists(i)}
Bytes(i) == IF Exists(i) THEN Len(files[i]) ELSE 0
TotalBytes == MapThenSumSet(Bytes, Slots)
Blocked(s) == \E i \in DOMAIN blocked : blocked[i].by = s

StorageTypeOK ==
  /\ queue \in Seq(1 .. MaxRecords) /\ Len(queue) <= Capacity
  /\ blocked \in Seq([by : Senders, record : 1 .. MaxRecords])
  /\ buffer \in Seq(1 .. MaxRecords) /\ Len(buffer) <= BufferSize
  /\ \A i \in Slots : Exists(i) => files[i] \in Seq(0 .. MaxRecords)
  /\ handle \in Slots \cup {Gone}
  /\ stage \in {"serve", "flush", "excess", "measure", "oldest", "shift",
                "compact", "reopen", "budget", "stopped"}

StorageInit ==
  /\ queue = <<>> /\ blocked = <<>> /\ sent = 0 /\ buffer = <<>>
  /\ limit \in Limits
  \* an archive beyond the limit is left by an earlier configuration
  /\ files \in {[i \in Slots |-> IF i = 0 THEN <<>> ELSE IF i \in old THEN <<Summary>> ELSE NoFile]
                  : old \in {{}, {MaxArchive}}}
  /\ handle = 0
  /\ stage = "flush" /\ shifting = 0
  /\ storageFaults = 0 /\ restarts = 0
-----------------------------------------------------------------------------
(* Senders: record_event, record_decision and their like *)

Record(s) ==
  /\ sent < MaxRecords /\ ~Blocked(s)
  /\ sent' = sent + 1
  /\ \/ stage = "stopped" /\ UNCHANGED <<queue, blocked>>
     \/ /\ stage # "stopped" /\ blocked = <<>> /\ Len(queue) < Capacity
        /\ queue' = Append(queue, sent + 1) /\ UNCHANGED blocked
     \/ /\ stage # "stopped" /\ (blocked # <<>> \/ Len(queue) = Capacity)
        /\ blocked' = Append(blocked, [by |-> s, record |-> sent + 1])
        /\ UNCHANGED queue
  /\ UNCHANGED <<buffer, files, handle, limit, stage, shifting, storageFaults, restarts>>

\* the channel admits its waiters in their order
AdmitBlocked ==
  /\ blocked # <<>> /\ Len(queue) < Capacity
  /\ queue' = Append(queue, Head(blocked).record) /\ blocked' = Tail(blocked)
  /\ UNCHANGED <<sent, buffer, files, handle, limit, stage, shifting, storageFaults, restarts>>
-----------------------------------------------------------------------------
(* The worker: records *)

Written(lines) == IF handle = Gone THEN files ELSE [files EXCEPT ![handle] = @ \o lines]

ReceiveRecord ==
  /\ stage = "serve" /\ queue # <<>>
  /\ queue' = Tail(queue)
  /\ \/ /\ Len(buffer) < BufferSize
        /\ buffer' = Append(buffer, Head(queue)) /\ UNCHANGED files
     \/ /\ Len(buffer) = BufferSize
        /\ buffer' = <<Head(queue)>> /\ files' = Written(buffer)
  /\ UNCHANGED <<blocked, sent, handle, limit, stage, shifting, storageFaults, restarts>>

\* mutant: the receiver outlives the worker's loop
StopKeepingChannel(disk) ==
  /\ stage' = "stopped" /\ files' = disk /\ buffer' = <<>>
  /\ UNCHANGED <<queue, blocked, sent, handle, limit, shifting, restarts>>

\* the worker ends; dropping the receiver fails the sends that wait
StopWorker(disk) ==
  /\ stage' = "stopped" /\ files' = disk
  /\ queue' = <<>> /\ blocked' = <<>> /\ buffer' = <<>>
  /\ UNCHANGED <<sent, handle, limit, shifting, restarts>>

WriteFails ==
  /\ stage = "serve" /\ queue # <<>> /\ Len(buffer) = BufferSize
  /\ "write" \in StorageFaults /\ storageFaults < MaxStorageFaults
  /\ storageFaults' = storageFaults + 1
  /\ \E disk \in {files, Written(buffer)} : StopWorker(disk)

ShutdownStorage == stage = "serve" /\ StopWorker(Written(buffer)) /\ UNCHANGED storageFaults
-----------------------------------------------------------------------------
(* The worker: maybe_compact, at the start and at every compact tick *)

Goto(next) == stage' = next /\ UNCHANGED <<queue, blocked, sent, limit, storageFaults, restarts>>

WithoutFile(i) == [files EXCEPT ![i] = NoFile]
HandleAfterRemoval(i) == IF handle = i THEN Gone ELSE handle
Rename(i, j) ==
  /\ files' = [files EXCEPT ![i] = NoFile, ![j] = files[i]]
  /\ handle' = IF handle = i THEN j ELSE HandleAfterRemoval(j)

CompactTick == stage = "serve" /\ Goto("flush") /\ UNCHANGED <<buffer, files, handle, shifting>>

FlushWriter ==
  /\ stage = "flush" /\ Goto("excess")
  /\ files' = Written(buffer) /\ buffer' = <<>>
  /\ UNCHANGED <<handle, shifting>>

PruneExcess ==
  /\ stage = "excess"
  /\ LET excess == {i \in Archives : i > limit} IN
     \/ excess = {} /\ Goto("measure") /\ UNCHANGED <<files, handle>>
     \/ /\ excess # {} /\ Goto("excess")
        /\ files' = WithoutFile(Min(excess)) /\ handle' = HandleAfterRemoval(Min(excess))
  /\ UNCHANGED <<buffer, shifting>>

Measure ==
  /\ stage = "measure"
  /\ \/ ~Exists(0) /\ Goto("serve")
     \/ Exists(0) /\ Bytes(0) <= MaxBytes /\ Goto("budget")
     \/ Exists(0) /\ Bytes(0) > MaxBytes /\ Goto(IF limit > 0 THEN "oldest" ELSE "compact")
  /\ UNCHANGED <<buffer, files, handle, shifting>>

RemoveOldest ==
  /\ stage = "oldest" /\ Goto("shift")
  /\ files' = WithoutFile(limit) /\ handle' = HandleAfterRemoval(limit)
  /\ shifting' = limit - 1
  /\ UNCHANGED buffer

\* archives move up by one, the oldest first and the active file last
ShiftArchives ==
  /\ stage = "shift" /\ Goto(IF shifting = 0 THEN "reopen" ELSE "shift")
  /\ IF Exists(shifting) THEN Rename(shifting, shifting + 1) ELSE UNCHANGED <<files, handle>>
  /\ shifting' = IF shifting = 0 THEN 0 ELSE shifting - 1
  /\ UNCHANGED buffer

\* compact_log: the newest retain_lines lines below a summary of the others
Compact ==
  /\ stage = "compact" /\ Goto("reopen")
  /\ LET lines == files[0] IN
     IF Len(lines) <= RetainLines
     THEN UNCHANGED <<files, handle>>
     ELSE /\ files' = [files EXCEPT ![0] =
                         <<Summary>> \o SubSeq(lines, Len(lines) - RetainLines + 1, Len(lines))]
          /\ handle' = HandleAfterRemoval(0)
  /\ UNCHANGED <<buffer, shifting>>

Reopen ==
  /\ stage = "reopen" /\ Goto("budget")
  /\ files' = [files EXCEPT ![0] = IF Exists(0) THEN @ ELSE <<>>]
  /\ handle' = 0 /\ buffer' = <<>>
  /\ UNCHANGED shifting

\* mutant: the archive with the lowest number first
PruneBudgetYoungest ==
  /\ stage = "budget"
  /\ \/ /\ TotalBytes <= Budget \/ Archives = {}
        /\ Goto("serve") /\ UNCHANGED <<files, handle>>
     \/ /\ TotalBytes > Budget /\ Archives # {} /\ Goto("budget")
        /\ files' = WithoutFile(Min(Archives)) /\ handle' = HandleAfterRemoval(Min(Archives))
  /\ UNCHANGED <<buffer, shifting>>

PruneBudget ==
  /\ stage = "budget"
  /\ \/ /\ TotalBytes <= Budget \/ Archives = {}
        /\ Goto("serve") /\ UNCHANGED <<files, handle>>
     \/ /\ TotalBytes > Budget /\ Archives # {} /\ Goto("budget")
        /\ files' = WithoutFile(Max(Archives)) /\ handle' = HandleAfterRemoval(Max(Archives))
  /\ UNCHANGED <<buffer, shifting>>

\* any of these operations may fail: the rest of this housekeeping is left out
HousekeepingFails ==
  /\ stage \notin {"serve", "stopped"}
  /\ "io" \in StorageFaults /\ storageFaults < MaxStorageFaults
  /\ storageFaults' = storageFaults + 1 /\ stage' = "serve"
  /\ UNCHANGED <<queue, blocked, sent, buffer, files, handle, limit, shifting, restarts>>

Housekeeping == \/ FlushWriter \/ PruneExcess \/ Measure \/ RemoveOldest \/ ShiftArchives
                \/ Compact \/ Reopen \/ PruneBudget \/ HousekeepingFails
-----------------------------------------------------------------------------
\* Storage::new of a new process
RestartStorage ==
  /\ stage = "stopped" \/ "crash" \in StorageFaults
  /\ restarts < MaxRestarts /\ restarts' = restarts + 1
  /\ queue' = <<>> /\ blocked' = <<>> /\ buffer' = <<>>
  /\ files' = [files EXCEPT ![0] = IF Exists(0) THEN @ ELSE <<>>]
  /\ handle' = 0 /\ stage' = "flush" /\ shifting' = 0
  /\ UNCHANGED <<sent, limit, storageFaults>>

StorageNext ==
  \/ \E s \in Senders : Record(s)
  \/ AdmitBlocked \/ ReceiveRecord \/ WriteFails \/ ShutdownStorage \/ CompactTick \/ Housekeeping \/ RestartStorage

\* select! takes its ready branches in random order, so receiving is not starved
\* by the ticks; the runtime polls a task that was woken.
StorageFairness ==
  SF_storageVars(ReceiveRecord) /\ WF_storageVars(AdmitBlocked) /\ WF_storageVars(Housekeeping)

StorageSpec == StorageInit /\ [][StorageNext]_storageVars /\ StorageFairness
-----------------------------------------------------------------------------
(* Properties *)

\* the records of a file, which has a summary only at its head
RecordsOf(file) == IF file # <<>> /\ Head(file) = Summary THEN Tail(file) ELSE file
Lines(i) == IF Exists(i) THEN RecordsOf(files[i]) ELSE <<>>
OnDisk == FlattenSeq([k \in 1 .. limit + 1 |-> Lines(limit + 1 - k)])
Buffered == IF handle = Gone THEN <<>> ELSE buffer

RL == INSTANCE RecordLog WITH
        Records <- 1 .. MaxRecords, log <- OnDisk \o Buffered, durable <- Len(OnDisk)

\* The files, archives and buffer together are a record log (module RecordLog), however
\* rotation, compaction, failed operations, crashes and restarts fall among the writes.
ImplementsRecordLog == RL!LogSpec

\* Every task that waits for room in the channel goes on (storage.rs:101), also when
\* the worker ends because a write failed or the agent shuts down.
SendersProceed == \A s \in Senders : Blocked(s) ~> ~Blocked(s)
=============================================================================
