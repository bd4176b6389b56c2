---------------------------- MODULE PeerTransfer ----------------------------
(***************************************************************************)
(* A peer fetches the core of the loader of module Loader: three requests  *)
(* that run concurrently with each other and with every step of the        *)
(* loader's main task (loader_metadata_handler, loader_signature_handler,  *)
(* loader_bundle_handler and fetch_peer_core in src/src/loader.rs).        *)
(***************************************************************************)
EXTENDS Loader

VARIABLES
  handler,    \* where the handler of each of the three requests is
  reply,      \* what it answered; None is an error status
  verdict,    \* what the fetching peer makes of the answers
  rolledOut,  \* history: the provider was replacing its core during the fetch
  active      \* history: the cores that were active during the fetch

history == <<rolledOut, active>>
tvars == <<handler, reply, verdict, history>>

HandlerSteps == {"arriving", "admitted", "reading", "done"}
Verdicts     == {"fetching", "verified", "suspicious", "transport"}

TransferInit ==
  /\ Init
  /\ handler = [f \in Parts |-> "arriving"] /\ reply = [f \in Parts |-> None]
  /\ verdict = "fetching" /\ rolledOut = FALSE /\ active = {}

Answer(f, c) ==
  /\ handler' = [handler EXCEPT ![f] = "done"]
  /\ reply' = [reply EXCEPT ![f] = c]

\* distributable_core, first lock: the policy channel and the pending rollback.
\* A loader that does not run its main loop yet refuses the connection.
Distributes ==
  /\ pc \notin {"down", "seed_sig", "recover"}
  /\ LocalChannel = "production" /\ rollback = None

Admit(f) ==
  /\ handler[f] = "arriving"
  /\ \/ /\ Distributes
        /\ handler' = [handler EXCEPT ![f] = "admitted"] /\ UNCHANGED reply
     \/ ~Distributes /\ Answer(f, None)
  /\ UNCHANGED <<vars, verdict, history>>

\* distributable_core, second lock: the active core. Its metadata and signature
\* are answered from memory, its bundle is read from disk afterwards.
ReadActive(f) ==
  /\ handler[f] = "admitted"
  /\ \/ ~Distributable(current) /\ Answer(f, None)
     \/ /\ f # "bin" /\ Distributable(current)
        /\ Answer(f, current)
     \/ /\ f = "bin" /\ Distributable(current)
        /\ handler' = [handler EXCEPT ![f] = "reading"] /\ UNCHANGED reply
  /\ UNCHANGED <<vars, verdict, history>>

\* Mutant: the bundle is read from the staging path.
ReadStagedBundle ==
  /\ handler["bin"] = "reading"
  /\ Answer("bin", staged)
  /\ UNCHANGED <<vars, verdict, history>>

ReadBundle ==
  /\ handler["bin"] = "reading"
  /\ Answer("bin", cur["bin"])
  /\ UNCHANGED <<vars, verdict, history>>

\* Mutant: the signature of the metadata is verified, the digest of the bundle
\* is not.
ConcludeWithoutDigest ==
  /\ verdict = "fetching" /\ \A f \in Parts : handler[f] = "done"
  /\ verdict' = CASE \E f \in Parts : reply[f] = None -> "transport"
                  [] reply["meta"] = reply["sig"] -> "verified"
                  [] OTHER -> "suspicious"
  /\ UNCHANGED <<vars, handler, reply, history>>

\* fetch_peer_core: an error status is a transport error, and three answers that
\* do not verify together are suspicious.
Conclude ==
  /\ verdict = "fetching" /\ \A f \in Parts : handler[f] = "done"
  /\ verdict' = CASE \E f \in Parts : reply[f] = None -> "transport"
                  [] Verifies(reply) -> "verified"
                  [] OTHER -> "suspicious"
  /\ UNCHANGED <<vars, handler, reply, history>>

\* The next fetch.
FetchAgain ==
  /\ verdict # "fetching"
  /\ handler' = [f \in Parts |-> "arriving"] /\ reply' = [f \in Parts |-> None]
  /\ verdict' = "fetching" /\ rolledOut' = (job # None)
  /\ active' = {current} \ {None}
  /\ UNCHANGED vars

\* The handlers of a loader that ends take their connections with them.
ProviderStep ==
  /\ Next
  /\ rolledOut' = (rolledOut \/ job' # None)
  /\ active' = active \cup ({current'} \ {None})
  /\ IF pc' = "down" /\ pc # "down"
       THEN handler' = [f \in Parts |-> "done"]
       ELSE UNCHANGED handler
  /\ UNCHANGED reply
  /\ UNCHANGED verdict

Transfer ==
  \/ \E f \in Parts : Admit(f) \/ ReadActive(f)
  \/ ReadBundle \/ Conclude \/ FetchAgain

TransferNext == ProviderStep \/ Transfer

TransferSpec == TransferInit /\ [][TransferNext]_<<vars, tvars>>

FairTransferSpec ==
  /\ TransferSpec
  /\ WF_<<vars, tvars>>(Transfer)
  /\ WF_<<vars, tvars>>(ProviderStep /\ (Boot \/ MainLoop \/ Apply))
-----------------------------------------------------------------------------
TransferTypeOK ==
  /\ TypeOK
  /\ handler \in [Parts -> HandlerSteps]
  /\ reply \in [Parts -> Cores \cup {None}]
  /\ verdict \in Verdicts /\ rolledOut \in BOOLEAN /\ active \subseteq Cores

InProbation == rollback # None \/ pc = "set_rollback"

\* A peer that serves the core it has does not come under suspicion: answers
\* that do not verify together mean that the provider was changing its core
\* while it answered. (One suspicion is enough to be blocked by the fetcher.)
SuspicionNeedsRollout == verdict = "suspicious" => rolledOut

\* What a fetch accepts was the provider's active core at some time of the
\* fetch, and never a file on its way in or out: the three requests read memory
\* and disk at three times, and a promotion may fail between them.
VerifiedWasActive == verdict = "verified" => reply["bin"] \in active

\* The inductive invariant behind these: while no job has run during the fetch,
\* an answer that was given is the core that is still active as long as another
\* one is missing.
FetchInv ==
  /\ current # None => current \in active
  /\ \A f \in Parts : handler[f] \in {"admitted", "reading"} =>
        pc \notin {"down", "seed_sig", "recover"}
  /\ \A f \in Parts : reply[f] # None => handler[f] = "done"
  /\ verdict # "fetching" => \A f \in Parts : handler[f] = "done"
  /\ reply["meta"] # None => reply["meta"] \in active
  /\ ~rolledOut =>
        /\ job = None
        /\ \A f, g \in Parts : reply[f] # None /\ handler[g] # "done" => reply[f] = current
        /\ \A f, g \in Parts : reply[f] # None /\ reply[g] # None => reply[f] = reply[g]
  /\ SuspicionNeedsRollout /\ VerifiedWasActive

\* A core in rollback probation is not redistributed.
NoProbationServed ==
  [][ \A f \in Parts : (handler[f] = "admitted" /\ reply'[f] # reply[f])
                          => ~InProbation ]_tvars
=============================================================================
