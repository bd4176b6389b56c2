------------------------------- MODULE LogWatch -------------------------------
(***************************************************************************)
(* How TraceyBan follows a log file (src/src/tracey_ban.rs): the worker    *)
(* that reads what was appended since its offset, the channel of its       *)
(* detections, the runtime task that counts them against one address, and  *)
(* the state file that keeps offsets and bans, but no counts.              *)
(*                                                                         *)
(* A line is written at once, or its head first and its tail later, with   *)
(* polls in between; lengths, offsets and positions count such halves.     *)
(* All failures are within find_time_ms of each other, the firewall        *)
(* accepts the ban and nothing lifts it: those are TraceyBan's.            *)
(***************************************************************************)
EXTENDS Naturals, Sequences, FiniteSets

CONSTANTS
  LineKinds,       \* what is logged, see AllLineKinds
  FailuresToBan,   \* max_retry
  DetectionSlots,  \* the capacity of the detection channel
  LogFaults,       \* which of "rotate", "cut", "stop", "crash", "torn" may happen
  MaxLines         \* bound: the lines ever logged

\* Three failures, which match as a whole: of the first the head matches by
\* itself, of the second the tail, of the third neither.  The text of an
\* unreadable line is not UTF-8.
AllLineKinds == {"head", "tail", "whole", "unreadable"}

ASSUME LogAssumption ==
  /\ LineKinds \subseteq AllLineKinds
  /\ FailuresToBan \in Nat \ {0} /\ DetectionSlots \in Nat \ {0}
  /\ LogFaults \subseteq {"rotate", "cut", "stop", "crash", "torn"}
  /\ MaxLines \in Nat

VARIABLES
  log,          \* the lines of the file at the watched path
  halfWritten,  \* the last of them lacks its tail
  oldLog,       \* the lines of the file a pass still reads although it was renamed
  watching,     \* the process runs
  pass,         \* process_log_path under way: [open, at, renamed]
  offset,       \* the entry of offsets for the path
  detections,   \* the number of detections in the channel
  attempts,     \* the length of the failure window
  banned,       \* the address has an active ban
  kept,         \* the state file: [offset, banned]
  logged,       \* history: lines and failures ever logged
  begun,        \* history: where this process began to read
  disturbed     \* history: {"rotated"}, {"recounted"}, both or none

logFile    == <<log, halfWritten, logged>>
logMemory  == <<offset, detections, attempts, banned>>
logVars == <<logFile, oldLog, watching, pass, logMemory, kept, begun, disturbed>>

NoPass == [open |-> FALSE, at |-> 0, renamed |-> FALSE]
Blank == [offset |-> 0, banned |-> FALSE]   \* PersistedState::default

LogInit ==
  /\ log = <<>> /\ halfWritten = FALSE /\ oldLog = <<>>
  /\ logged = [lines |-> 0, failures |-> 0]
  /\ watching = TRUE /\ pass = NoPass
  /\ offset = 0 /\ detections = 0 /\ attempts = 0 /\ banned = FALSE
  /\ kept = Blank
  /\ begun = 0 /\ disturbed = {}

-----------------------------------------------------------------------------
(* The log and its daemon                                                  *)

IsFailure(kind) == kind # "unreadable"

Write(kind, half) ==
  /\ ~halfWritten /\ logged.lines < MaxLines
  /\ log' = Append(log, kind)
  /\ halfWritten' = half
  /\ logged' = [lines |-> logged.lines + 1,
                failures |-> logged.failures + (IF IsFailure(kind) THEN 1 ELSE 0)]
  /\ UNCHANGED <<oldLog, watching, pass, logMemory, kept, begun, disturbed>>

WriteTail ==
  /\ halfWritten /\ halfWritten' = FALSE
  /\ UNCHANGED <<log, logged, oldLog, watching, pass, logMemory, kept, begun, disturbed>>

\* The file is renamed and an empty one takes its place; an open pass goes on
\* in the old one.
Rotate ==
  /\ "rotate" \in LogFaults /\ ~halfWritten /\ log # <<>>
  /\ log' = <<>>
  /\ IF pass.open /\ ~pass.renamed
       THEN oldLog' = log /\ pass' = [pass EXCEPT !.renamed = TRUE]
       ELSE UNCHANGED <<oldLog, pass>>
  /\ disturbed' = disturbed \cup {"rotated"}
  /\ UNCHANGED <<halfWritten, logged, watching, logMemory, kept, begun>>

-----------------------------------------------------------------------------
(* run_log_worker and process_log_path                                     *)

Length == 2 * Len(log) - (IF halfWritten THEN 1 ELSE 0)
Lines == IF pass.renamed THEN oldLog ELSE log
End == IF pass.renamed THEN 2 * Len(oldLog) ELSE Length

\* a file that has become shorter is read from its beginning
PollLog ==
  /\ watching /\ ~pass.open
  /\ pass' = [open |-> TRUE, at |-> IF Length < offset THEN 0 ELSE offset, renamed |-> FALSE]
  /\ UNCHANGED <<logFile, oldLog, watching, logMemory, kept, begun, disturbed>>

\* mutant: a detection that finds the channel full is dropped
DeliverOrDrop(matches) ==
  detections' = IF matches /\ detections < DetectionSlots THEN detections + 1 ELSE detections

\* tx.send waits for a free slot
Deliver(matches) ==
  /\ matches => detections < DetectionSlots
  /\ detections' = IF matches THEN detections + 1 ELSE detections

\* read_line returns all up to the next end of line, or up to the end of the file
Halves == {"head", "tail"}
NextText ==
  IF pass.at % 2 = 1 THEN {"tail"}
  ELSE IF pass.at + 1 = End THEN {"head"} ELSE Halves

ReadLine ==
  LET kind == Lines[pass.at \div 2 + 1]
  IN /\ pass.open /\ pass.at < End
     /\ NextText = Halves => kind # "unreadable"
     /\ Deliver(IsFailure(kind) /\ (NextText = Halves \/ kind \in NextText))
     /\ pass' = [pass EXCEPT !.at = @ + Cardinality(NextText)]
     /\ UNCHANGED <<logFile, oldLog, watching, offset, attempts, banned, kept, begun, disturbed>>

\* What is not UTF-8 ends the pass before the offset is stored: an unreadable
\* line or part of one, and a head that ends within a character.
ReadFails ==
  /\ pass.open /\ pass.at < End
  /\ \/ Lines[pass.at \div 2 + 1] = "unreadable"
     \/ "cut" \in LogFaults /\ NextText = {"head"}
  /\ pass' = NoPass /\ oldLog' = <<>>
  /\ disturbed' = disturbed \cup {"recounted"}
  /\ UNCHANGED <<logFile, watching, logMemory, kept, begun>>

\* mutant: the position of the last end of line is stored
EndOfLastLine == pass.at - (pass.at % 2)

StoredOffset == pass.at

EndPass ==
  /\ pass.open /\ pass.at >= End
  /\ offset' = StoredOffset
  /\ pass' = NoPass /\ oldLog' = <<>>
  /\ UNCHANGED <<logFile, watching, detections, attempts, banned, kept, begun, disturbed>>

-----------------------------------------------------------------------------
(* The runtime task: process_detection, persist_runtime_state, restarts    *)

CountDetection ==
  /\ watching /\ detections > 0
  /\ detections' = detections - 1
  /\ LET enough == attempts + 1 >= FailuresToBan
     IN IF banned THEN UNCHANGED <<attempts, banned>>
        ELSE attempts' = (IF enough THEN 0 ELSE attempts + 1) /\ banned' = enough
  /\ UNCHANGED <<logFile, oldLog, watching, pass, offset, kept, begun, disturbed>>

SaveState == kept' = [offset |-> offset, banned |-> banned]

PersistOffsets ==
  /\ watching /\ SaveState
  /\ UNCHANGED <<logFile, oldLog, watching, pass, logMemory, begun, disturbed>>

\* The process ends, with the pass and with what is in the channel.
EndProcess ==
  /\ watching /\ watching' = FALSE
  /\ pass' = NoPass /\ oldLog' = <<>>
  /\ offset' = 0 /\ detections' = 0 /\ attempts' = 0 /\ banned' = FALSE
  /\ UNCHANGED <<logFile, begun, disturbed>>

StopWatching == "stop" \in LogFaults /\ SaveState /\ EndProcess
CrashWatching == "crash" \in LogFaults /\ UNCHANGED kept /\ EndProcess
\* the state file is written in place: load_state falls back to its default
TearWatching == "torn" \in LogFaults /\ kept' = Blank /\ EndProcess

StartWatching ==
  /\ ~watching /\ watching' = TRUE
  /\ offset' = kept.offset /\ banned' = kept.banned
  /\ begun' = kept.offset
  /\ UNCHANGED <<logFile, oldLog, pass, detections, attempts, kept, disturbed>>

LogNext ==
  \/ \E kind \in LineKinds, half \in BOOLEAN : Write(kind, half)
  \/ WriteTail \/ Rotate
  \/ PollLog \/ ReadLine \/ ReadFails \/ EndPass
  \/ CountDetection \/ PersistOffsets
  \/ StopWatching \/ CrashWatching \/ TearWatching \/ StartWatching

\* The poll interval never stops, a pass over a finite file goes on unless it
\* waits for the channel, and the runtime task receives.
LogSpec == LogInit /\ [][LogNext]_logVars
FairLogSpec ==
  LogSpec /\ WF_logVars(PollLog \/ ReadLine \/ ReadFails \/ EndPass) /\ WF_logVars(CountDetection)

-----------------------------------------------------------------------------
(* Properties                                                              *)

\* The state of the watch; a process that does not run holds none.
LogTypeOK ==
  /\ log \in Seq(LineKinds) /\ oldLog \in Seq(LineKinds)
  /\ halfWritten \in BOOLEAN /\ (halfWritten => log # <<>>)
  /\ pass \in [open : BOOLEAN, at : 0 .. 2 * MaxLines, renamed : BOOLEAN]
  /\ offset \in 0 .. 2 * MaxLines /\ begun \in 0 .. 2 * MaxLines
  /\ kept \in [offset : 0 .. 2 * MaxLines, banned : BOOLEAN]
  /\ logged \in [lines : 0 .. MaxLines, failures : 0 .. MaxLines]
  /\ detections \in 0 .. DetectionSlots /\ attempts \in 0 .. FailuresToBan - 1
  /\ banned \in BOOLEAN /\ watching \in BOOLEAN
  /\ disturbed \subseteq {"rotated", "recounted"}
  /\ ~watching => pass = NoPass /\ detections = 0 /\ attempts = 0 /\ ~banned

\* process_log_path: an address is banned only after max_retry failures of its
\* own, through lines read in halves, rotation, crashes, torn state files and
\* restarts that read again what was read before; the exception are passes that
\* ended at text that is not UTF-8, which read all before it once more.
BanNeedsFailures ==
  banned => logged.failures >= FailuresToBan \/ "recounted" \in disturbed

\* run_log_worker and run_tracey_ban_runtime: max_retry failures that are
\* logged while the process runs lead to the ban, although its channel may fill
\* and lines arrive in halves, unless the process ends, the file is rotated
\* or it cannot be read.  Failures neither half of which matches do not count.
CertainFailures ==
  {k \in 1 .. Length \div 2 : log[k] \in Halves /\ 2 * k - 2 >= begun}

FailuresBan ==
  (watching /\ Cardinality(CertainFailures) >= FailuresToBan)
    ~> (banned \/ ~watching \/ "rotated" \in disturbed \/ \E k \in 1 .. Len(log) : log[k] = "unreadable")
=============================================================================
