------------------------------- MODULE Update --------------------------------
(***************************************************************************)
(* Updates without the loader: the update manager of each agent process    *)
(* (update.rs), the supervisor (supervisor.rs) and what the process itself *)
(* does about readiness and shutdown (shutdown.rs, lib.rs).  An agent      *)
(* verifies a bundle of the update directory and stages it as tracey.next. *)
(* Under a supervisor it asks for a handoff in a file; alone it starts its *)
(* successor itself and stops once that is ready.                          *)
(*                                                                         *)
(* The metadata and the signature of a release are its papers.  Where an   *)
(* operating system refuses to write a binary that runs, or to run one     *)
(* that is being written, so does the model.                               *)
(***************************************************************************)
EXTENDS Naturals, FiniteSets

CONSTANTS
  Releases,
  Nothing,         \* no such file
  Torn,            \* a binary that was not copied to its end
  MaxProcesses,    \* bound: processes ever started
  MaxOffers,       \* bound: files put into the update directory
  MaxFailures      \* bound: processes that end by themselves, and failed copies

ASSUME UpdateAssumption ==
  /\ Releases \subseteq Nat \ {0} /\ Nothing \notin Nat /\ Torn \notin Nat
  /\ MaxProcesses \in Nat \ {0}

VARIABLES
  alone,         \* not supervised
  papers, bundle, nextBinary, requestFile,  \* files of the update directory
  readyFile,     \* handoff files: per owner of the path, the process whose token is in it
  stopFiles,     \* the processes whose shutdown token was written
  process,       \* per process what it runs, from which file, and its phase
  manager,       \* per process its update manager
  supervisor,    \* asked: the restart follows a request; sound: the child lived when it was taken on
  offers, failures,
  \* history
  served,        \* processes that have been ready
  replaced       \* <<p, n>>: p was told to stop in favour of n

updateFiles == <<papers, bundle, nextBinary, requestFile, readyFile, stopFiles>>
updateHistory == <<served, replaced>>
updateVars == <<alone, updateFiles, process, manager, supervisor, offers, failures, updateHistory>>

Installed == 0     \* the release of the executable the first process was started from
NoProcess == 0
Processes == 1 .. MaxProcesses
Phases == {"unborn", "starting", "serving", "told", "stopped", "gone"}
ManagerSteps == {"idle", "papers", "verified", "copying", "staged", "requested", "waiting", "ready"}

Unborn == [phase |-> "unborn", runs |-> Nothing, from |-> "installed", reports |-> NoProcess]
IdleManager == [at |-> "idle", saw |-> Nothing, held |-> Nothing, successor |-> NoProcess]

Alive(p) == process[p].phase \in {"starting", "serving", "told", "stopped"}
Gone(p) == process[p].phase = "gone"
InPhase(p, phase) == process' = [process EXCEPT ![p].phase = phase]
Manager(p, step) == manager' = [manager EXCEPT ![p].at = step]
Resign(p) == manager' = [manager EXCEPT ![p] = IdleManager]

UpdateInit ==
  /\ alone \in BOOLEAN
  /\ papers = Nothing /\ bundle = Nothing /\ nextBinary = Nothing /\ requestFile = Nothing
  /\ readyFile = [p \in Processes |-> NoProcess] /\ stopFiles = {}
  /\ process = [p \in Processes |->
                  IF p = 1 THEN [Unborn EXCEPT !.phase = "starting", !.runs = Installed] ELSE Unborn]
  /\ manager = [p \in Processes |-> IdleManager]
  /\ supervisor = [at |-> "watch", child |-> 1, successor |-> NoProcess, program |-> "installed",
                   asked |-> FALSE, sound |-> TRUE]
  /\ offers = 0 /\ failures = 0
  /\ served = {} /\ replaced = {}
-----------------------------------------------------------------------------
(* Starting a process *)

TextBusy == \E p \in Processes : Alive(p) /\ process[p].from = "next"
Executable(from) ==
  from = "next" => nextBinary \in Releases /\ \A p \in Processes : manager[p].at # "copying"

\* the next process: it reports its readiness in the handoff file of the owner, if any
Started(n, from, owner) ==
  /\ process[n].phase = "unborn" /\ \A k \in 1 .. n - 1 : process[k].phase # "unborn"
  /\ process' = [process EXCEPT ![n] =
       [phase |-> "starting", runs |-> IF from = "next" THEN nextBinary ELSE Installed,
        from |-> from, reports |-> owner]]

\* an operator, or fetch_remote of some process, puts one file after the other
OfferPapers(r) ==
  /\ offers < MaxOffers /\ offers' = offers + 1 /\ papers' = r
  /\ UNCHANGED <<alone, bundle, nextBinary, requestFile, readyFile, stopFiles, process, manager,
                 supervisor, failures, updateHistory>>
OfferBundle(r) ==
  /\ offers < MaxOffers /\ offers' = offers + 1 /\ bundle' = r
  /\ UNCHANGED <<alone, papers, nextBinary, requestFile, readyFile, stopFiles, process, manager,
                 supervisor, failures, updateHistory>>
-----------------------------------------------------------------------------
(* check_once of the update manager of p *)

managerFrame == <<alone, stopFiles, supervisor, offers, served>>

\* shutdown and the poll interval may both be due, and either is taken; the manager
\* does nothing while governance has closed the update gate
BeginCheck(p) ==
  /\ manager[p].at = "idle" /\ process[p].phase \in {"starting", "serving", "told"}
  /\ bundle # Nothing /\ papers # Nothing
  /\ manager' = [manager EXCEPT ![p] = [IdleManager EXCEPT !.at = "papers", !.saw = papers]]
  /\ UNCHANGED <<managerFrame, papers, bundle, nextBinary, requestFile, readyFile, process,
                 failures, replaced>>

VerifyBundle(p) ==
  /\ manager[p].at = "papers"
  /\ IF bundle = manager[p].saw THEN Manager(p, "verified") ELSE Resign(p)
  /\ UNCHANGED <<managerFrame, papers, bundle, nextBinary, requestFile, readyFile, process,
                 failures, replaced>>

\* stage_binary copies what the bundle is by now, in place
OpenNext(p) ==
  /\ manager[p].at = "verified"
  /\ \/ /\ bundle = Nothing \/ TextBusy
        /\ Resign(p) /\ UNCHANGED nextBinary
     \/ /\ bundle # Nothing /\ ~TextBusy
        /\ manager' = [manager EXCEPT ![p].at = "copying", ![p].held = bundle]
        /\ nextBinary' = Torn
  /\ UNCHANGED <<managerFrame, papers, bundle, requestFile, readyFile, process, failures, replaced>>

CopyNext(p) ==
  /\ manager[p].at = "copying"
  /\ \/ /\ nextBinary' = manager[p].held /\ Manager(p, "staged") /\ UNCHANGED failures
     \/ /\ failures < MaxFailures /\ failures' = failures + 1
        /\ Resign(p) /\ UNCHANGED nextBinary
  /\ UNCHANGED <<managerFrame, papers, bundle, requestFile, readyFile, process, replaced>>

\* write_update_request, then archive_update
RequestHandoff(p) ==
  /\ ~alone /\ manager[p].at = "staged"
  /\ requestFile' = manager[p].saw /\ Manager(p, "requested")
  /\ UNCHANGED <<managerFrame, papers, bundle, nextBinary, readyFile, process, failures, replaced>>

ArchiveUpdate(p) ==
  /\ manager[p].at = "requested"
  /\ papers' = Nothing /\ bundle' = Nothing /\ Resign(p)
  /\ UNCHANGED <<managerFrame, nextBinary, requestFile, readyFile, process, failures, replaced>>

\* spawn_new_process; the handoff file is named for p
SpawnSuccessor(p) ==
  /\ alone /\ manager[p].at = "staged"
  /\ \/ /\ ~Executable("next") /\ Resign(p) /\ UNCHANGED process
     \/ /\ Executable("next")
        /\ \E n \in Processes :
             /\ Started(n, "next", p)
             /\ manager' = [manager EXCEPT ![p].at = "waiting", ![p].successor = n]
  /\ UNCHANGED <<managerFrame, papers, bundle, nextBinary, requestFile, readyFile, failures, replaced>>

\* mutant: any contents of the handoff file will do
ReadyToHandOverUntested(p) == readyFile[p] # NoProcess

\* wait_for_handoff: the token must be that of the process just started
ReadyToHandOver(p) == readyFile[p] = manager[p].successor

SeeReady(p) ==
  /\ manager[p].at = "waiting" /\ ReadyToHandOver(p)
  /\ readyFile' = [readyFile EXCEPT ![p] = NoProcess] /\ Manager(p, "ready")
  /\ UNCHANGED <<managerFrame, papers, bundle, nextBinary, requestFile, process, failures, replaced>>

\* the timeout: the process it has started lives on
GiveUpWaiting(p) ==
  /\ manager[p].at = "waiting" /\ Resign(p)
  /\ UNCHANGED <<managerFrame, papers, bundle, nextBinary, requestFile, readyFile, process,
                 failures, replaced>>

\* archive_update, then the shutdown of p's own tasks
HandOver(p) ==
  /\ manager[p].at = "ready" /\ Resign(p)
  /\ papers' = Nothing /\ bundle' = Nothing
  /\ replaced' = replaced \cup {<<p, manager[p].successor>>}
  /\ process' = [process EXCEPT ![p].phase = IF @ = "stopped" THEN @ ELSE "told"]
  /\ UNCHANGED <<managerFrame, nextBinary, requestFile, readyFile, failures>>

CheckOnce(p) ==
  \/ VerifyBundle(p) \/ OpenNext(p) \/ CopyNext(p) \/ RequestHandoff(p) \/ ArchiveUpdate(p)
  \/ SpawnSuccessor(p) \/ SeeReady(p) \/ GiveUpWaiting(p) \/ HandOver(p)
-----------------------------------------------------------------------------
(* The process itself *)

processFrame == <<alone, papers, bundle, nextBinary, requestFile, supervisor, offers, replaced>>

\* signal_handoff_ready, after every task was started
BecomeReady(n) ==
  /\ process[n].phase = "starting" /\ InPhase(n, "serving")
  /\ readyFile' = IF process[n].reports = NoProcess THEN readyFile
                  ELSE [readyFile EXCEPT ![process[n].reports] = n]
  /\ served' = served \cup {n}
  /\ UNCHANGED <<processFrame, stopFiles, manager, failures>>

\* spawn_shutdown_watcher
NoticeStop(n) ==
  /\ n \in stopFiles /\ process[n].phase \in {"starting", "serving"} /\ InPhase(n, "told")
  /\ stopFiles' = stopFiles \ {n}
  /\ UNCHANGED <<processFrame, readyFile, manager, failures, served>>

\* The tasks end; the main function waits for ctrl-c only, so the process stays.
TasksEnd(n) ==
  /\ process[n].phase = "told" /\ manager[n].at = "idle" /\ InPhase(n, "stopped")
  /\ UNCHANGED <<processFrame, readyFile, stopFiles, manager, failures, served>>

ProcessFails(n) ==
  /\ Alive(n) /\ failures < MaxFailures /\ failures' = failures + 1
  /\ InPhase(n, "gone") /\ Resign(n)
  /\ UNCHANGED <<processFrame, readyFile, stopFiles, served>>
-----------------------------------------------------------------------------
(* run_supervisor *)

supervisorFrame == <<alone, papers, bundle, nextBinary, offers, failures, served>>
Supervises(step) == ~alone /\ supervisor.at = step

\* the child has ended: a request is taken, unverified and without a handoff
ChildEnded ==
  /\ Supervises("watch") /\ Gone(supervisor.child)
  /\ supervisor' = [supervisor EXCEPT !.at = "backoff", !.asked = requestFile # Nothing,
                      !.program = IF requestFile # Nothing THEN "next" ELSE @]
  /\ requestFile' = Nothing
  /\ UNCHANGED <<supervisorFrame, readyFile, stopFiles, process, manager, replaced>>

\* spawn_child; its error ends the supervisor
RestartChild ==
  /\ Supervises("backoff")
  /\ \/ /\ Executable(supervisor.program)
        /\ \E n \in Processes :
             /\ Started(n, supervisor.program, NoProcess)
             /\ supervisor' = [supervisor EXCEPT !.at = "watch", !.child = n, !.sound = TRUE]
     \/ /\ ~Executable(supervisor.program) /\ UNCHANGED process
        /\ supervisor' = [supervisor EXCEPT !.at = "ended"]
  /\ UNCHANGED <<supervisorFrame, requestFile, readyFile, stopFiles, manager, replaced>>

\* a tick takes the request; perform_handoff starts the next process
TakeHandoff ==
  /\ Supervises("watch") /\ requestFile # Nothing /\ requestFile' = Nothing
  /\ \/ ~Executable("next") /\ UNCHANGED <<process, supervisor>>
     \/ /\ Executable("next")
        /\ \E n \in Processes :
             /\ Started(n, "next", n)
             /\ supervisor' = [supervisor EXCEPT !.at = "handoff", !.successor = n]
  /\ UNCHANGED <<supervisorFrame, readyFile, stopFiles, manager, replaced>>

HandoffReady ==
  /\ Supervises("handoff")
  /\ LET n == supervisor.successor IN
       /\ readyFile[n] = n /\ readyFile' = [readyFile EXCEPT ![n] = NoProcess]
       /\ replaced' = replaced \cup {<<supervisor.child, n>>}
  /\ stopFiles' = stopFiles \cup {supervisor.child}
  /\ supervisor' = [supervisor EXCEPT !.at = "closing"]
  /\ UNCHANGED <<supervisorFrame, requestFile, process, manager>>

HandoffTimesOut ==
  /\ Supervises("handoff")
  /\ InPhase(supervisor.successor, "gone") /\ Resign(supervisor.successor)
  /\ supervisor' = [supervisor EXCEPT !.at = "watch"]
  /\ UNCHANGED <<supervisorFrame, requestFile, readyFile, stopFiles, replaced>>

\* mutant: the old child is only told to stop
CloseUnwaited ==
  /\ Supervises("closing") /\ UNCHANGED <<process, manager>>
  /\ supervisor' = [supervisor EXCEPT !.at = "watch", !.child = supervisor.successor,
                      !.program = "next", !.sound = Alive(supervisor.successor)]
  /\ UNCHANGED <<supervisorFrame, requestFile, readyFile, stopFiles, replaced>>

\* the old child is waited for, and killed when that takes too long
Close ==
  /\ Supervises("closing")
  /\ InPhase(supervisor.child, "gone") /\ Resign(supervisor.child)
  /\ supervisor' = [supervisor EXCEPT !.at = "watch", !.child = supervisor.successor,
                      !.program = "next", !.sound = Alive(supervisor.successor)]
  /\ UNCHANGED <<supervisorFrame, requestFile, readyFile, stopFiles, replaced>>

Supervise ==
  ChildEnded \/ RestartChild \/ TakeHandoff \/ HandoffReady \/ HandoffTimesOut \/ Close
-----------------------------------------------------------------------------
UpdateNext ==
  \/ \E r \in Releases : OfferPapers(r) \/ OfferBundle(r)
  \/ \E p \in Processes : \/ BeginCheck(p) \/ CheckOnce(p)
                          \/ BecomeReady(p) \/ NoticeStop(p) \/ TasksEnd(p) \/ ProcessFails(p)
  \/ Supervise

\* every task that was started is polled; a process that fails, or a copy, need not
UpdateFairness ==
  /\ \A p \in Processes : /\ WF_updateVars(CheckOnce(p)) /\ WF_updateVars(BecomeReady(p))
                          /\ WF_updateVars(NoticeStop(p)) /\ WF_updateVars(TasksEnd(p))
  /\ WF_updateVars(Supervise)

UpdateSpec == UpdateInit /\ [][UpdateNext]_updateVars
FairUpdateSpec == UpdateSpec /\ UpdateFairness
-----------------------------------------------------------------------------
(* Properties *)

ProcessRecord ==
  [phase : Phases, runs : Releases \cup {Installed, Nothing}, from : {"installed", "next"},
   reports : Processes \cup {NoProcess}]
ManagerRecord ==
  [at : ManagerSteps, saw : Releases \cup {Nothing}, held : Releases \cup {Nothing},
   successor : Processes \cup {NoProcess}]
SupervisorRecord ==
  [at : {"watch", "backoff", "handoff", "closing", "ended"}, child : Processes,
   successor : Processes \cup {NoProcess}, program : {"installed", "next"},
   asked : BOOLEAN, sound : BOOLEAN]

UpdateTypeOK ==
  /\ alone \in BOOLEAN /\ served \subseteq Processes
  /\ papers \in Releases \cup {Nothing} /\ bundle \in Releases \cup {Nothing}
  /\ nextBinary \in Releases \cup {Nothing, Torn} /\ requestFile \in Releases \cup {Nothing}
  /\ readyFile \in [Processes -> Processes \cup {NoProcess}] /\ stopFiles \subseteq Processes
  /\ process \in [Processes -> ProcessRecord] /\ manager \in [Processes -> ManagerRecord]
  /\ supervisor \in SupervisorRecord
  /\ supervisor.at \in {"handoff", "closing"} => supervisor.successor \in Processes

\* No agent stops for a successor that has not been ready itself (update.rs:287,
\* supervisor.rs:151): neither the token of an earlier attempt, written after its
\* timeout, nor a process that has died in the meantime passes for it.
ReplacedByReady == \A pair \in replaced : pair[2] \in served

\* A child that lived when it was taken on and ends without a request is restarted, and
\* with the release it ran (supervisor.rs:81): no agent that was replaced, timed out or
\* killed in the middle of its own update has put another binary, or half of one, in its
\* place.  (One that has died before its predecessor was gone may be lost to that.)
RestartKeepsRelease ==
  [][(supervisor.at = "backoff" /\ supervisor'.at # "backoff" /\ ~supervisor.asked /\ supervisor.sound) =>
       /\ supervisor'.at = "watch"
       /\ process'[supervisor'.child].runs = process[supervisor.child].runs]_updateVars

\* docs/OPERATIONS.md:391: the runtime "waits for hand-off readiness, records
\* update_record, and then shuts the old process down".
ReplacedProcessEnds ==
  \A p, n \in Processes : (<<p, n>> \in replaced) ~> Gone(p)
=============================================================================
