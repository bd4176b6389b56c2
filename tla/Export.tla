------------------------------- MODULE Export --------------------------------
(***************************************************************************)
(* The delegated Prometheus log export (prometheus_export.rs).  A node     *)
(* that is the elected exporter counts pertinent records in its series;    *)
(* any other node queues its own and forwards them in batches to the       *)
(* exporter it knows of.  Who is the exporter is the result of module      *)
(* Election: here each node's exporterOf changes at any time, and views    *)
(* may disagree.                                                           *)
(***************************************************************************)
EXTENDS Integers, Sequences, SequencesExt, FiniteSetsExt

CONSTANTS
  ExportNodes,
  NoExporter,      \* a node knows of no exporter
  Emitters,        \* the nodes at which pertinent records arise
  FirstViews,      \* the exporters they start with
  MaxQueue, MaxBatch,
  BatchTtl, SeenTtl, SeriesTtl,  \* batch_ttl_ms, four times that, series_ttl_ms
  MaxEmitted,      \* bound: pertinent records
  MaxViews,        \* bound: changes of the nodes' views
  MaxLost,         \* bound: answers that never arrive
  ExportHorizon    \* bound: the clock

ASSUME ExportAssumption ==
  /\ NoExporter \notin ExportNodes /\ Emitters \subseteq ExportNodes
  /\ FirstViews \subseteq [ExportNodes -> ExportNodes \cup {NoExporter}]

\* The clamps of config.rs: a queue and a batch hold a record, and a batch is remembered
\* for at least as long as it is fresh.
ASSUME ExportNumbers ==
  /\ MaxQueue \in Nat \ {0} /\ MaxBatch \in Nat \ {0}
  /\ BatchTtl \in Nat /\ SeenTtl \in Nat /\ SeriesTtl \in Nat /\ BatchTtl <= SeenTtl
  /\ MaxEmitted \in Nat /\ MaxViews \in Nat /\ MaxLost \in Nat /\ ExportHorizon \in Nat

VARIABLES
  exporterOf,            \* the exporter in each node's role
  main,            \* where each node's export task is
  wasExporter,     \* was_leader
  series,          \* per node: record -> [count, last]
  seenBatches,     \* per node: batch -> timestamp
  toForward,         \* per node: records to forward
  calls,           \* requests to /prometheus/ingest
  clock, emitted, born, views, losses,  \* born: the ts_ms of each record
  \* history
  dropped, exported, \* records that were dropped, and that some exporter counted
  lostBatches,     \* batches whose answer was lost, with their last timestamp
  resent           \* records that came again in another batch, or after SeenTtl

exporterVars == <<wasExporter, series, seenBatches>>
exportHistory == <<dropped, exported, lostBatches, resent>>
exportVars == <<exporterOf, main, exporterVars, toForward, calls, clock, emitted, born,
                views, losses, exportHistory>>

Pertinent == 1 .. MaxEmitted
NoCount == [count |-> 0, last |-> 0]
IsExporter(n, v) == v = n

ExportInit ==
  /\ exporterOf \in FirstViews
  /\ main = [n \in ExportNodes |-> [at |-> "idle"]]
  /\ wasExporter = [n \in ExportNodes |-> FALSE]
  /\ series = [n \in ExportNodes |-> [r \in Pertinent |-> NoCount]]
  /\ seenBatches = [n \in ExportNodes |-> {}]
  /\ toForward = [n \in ExportNodes |-> <<>>]
  /\ calls = {} /\ clock = 0 /\ emitted = 0 /\ born = [r \in Pertinent |-> 0] /\ views = 0 /\ losses = 0
  /\ dropped = {} /\ exported = {} /\ lostBatches = {} /\ resent = {}
-----------------------------------------------------------------------------
(* The state of one exporter: every handler reconciles it with the role it *)
(* has read before the lock, and prunes the series.                        *)

Reconciled(n, v) ==
  LET cleared == wasExporter[n] /\ ~IsExporter(n, v) IN
  [counts |-> [r \in Pertinent |->
                 IF cleared \/ clock - series[n][r].last > SeriesTtl THEN NoCount ELSE series[n][r]],
   seen |-> IF cleared THEN {} ELSE seenBatches[n]]

\* apply_record for each of a sequence of records
Counted(counts, recs) ==
  [r \in Pertinent |->
     IF r \in ToSet(recs) THEN [count |-> counts[r].count + 1, last |-> born[r]] ELSE counts[r]]

Hold(n, v, counts, seen) ==
  /\ wasExporter' = [wasExporter EXCEPT ![n] = IsExporter(n, v)]
  /\ series' = [series EXCEPT ![n] = counts]
  /\ seenBatches' = [seenBatches EXCEPT ![n] = seen]

MainIdle(n) == main' = [main EXCEPT ![n] = [at |-> "idle"]]

\* the task reads the role first and takes the lock of its state afterwards
ReadRole(n, purpose) ==
  /\ main[n].at = "idle"
  /\ purpose = "emit" => n \in Emitters /\ emitted < MaxEmitted
  /\ emitted' = IF purpose = "emit" THEN emitted + 1 ELSE emitted
  /\ born' = IF purpose = "emit" THEN [born EXCEPT ![emitted + 1] = clock] ELSE born
  /\ main' = [main EXCEPT ![n] = [at |-> purpose, role |-> exporterOf[n], record |-> emitted']]
  /\ UNCHANGED <<exporterOf, exporterVars, toForward, calls, clock, views, losses, exportHistory>>

\* process_local_record
Process(n) ==
  /\ main[n].at = "emit" /\ MainIdle(n)
  /\ LET v == main[n].role
         r == main[n].record
         now == Reconciled(n, v)
         full == Len(toForward[n]) >= MaxQueue IN
     IF IsExporter(n, v)
     THEN /\ Hold(n, v, Counted(now.counts, <<r>>), now.seen)
          /\ exported' = exported \cup {r} /\ UNCHANGED <<toForward, dropped>>
     ELSE /\ Hold(n, v, now.counts, now.seen)
          /\ toForward' = [toForward EXCEPT ![n] = Append(IF full THEN Tail(@) ELSE @, r)]
          /\ dropped' = IF full THEN dropped \cup {Head(toForward[n])} ELSE dropped
          /\ UNCHANGED exported
  /\ UNCHANGED <<exporterOf, calls, clock, emitted, born, views, losses, lostBatches, resent>>

\* mutant: nothing to forward to oneself
DrainNothing(n) ==
  /\ main[n].at = "flush" /\ IsExporter(n, main[n].role) /\ MainIdle(n)
  /\ LET now == Reconciled(n, n) IN Hold(n, n, now.counts, now.seen)
  /\ UNCHANGED <<exporterOf, calls, clock, emitted, born, views, losses, toForward, exportHistory>>

\* flush_pending of the exporter itself: drain_local_to_series
DrainOwn(n) ==
  /\ main[n].at = "flush" /\ IsExporter(n, main[n].role) /\ MainIdle(n)
  /\ LET now == Reconciled(n, n) IN Hold(n, n, Counted(now.counts, toForward[n]), now.seen)
  /\ exported' = exported \cup ToSet(toForward[n])
  /\ toForward' = [toForward EXCEPT ![n] = <<>>]
  /\ UNCHANGED <<exporterOf, calls, clock, emitted, born, views, losses, dropped, lostBatches, resent>>

\* flush_pending of a follower: peek_batch, then POST without the lock
Forward(n) ==
  /\ main[n].at = "flush" /\ ~IsExporter(n, main[n].role)
  /\ LET v == main[n].role
         now == Reconciled(n, v)
         batch == SubSeq(toForward[n], 1, Min({MaxBatch, Len(toForward[n])}))
         call == [from |-> n, to |-> v, records |-> batch, ts |-> clock, step |-> "sent",
                  awaited |-> TRUE] IN
     /\ Hold(n, v, now.counts, now.seen)
     /\ IF batch = <<>> \/ v = NoExporter
        THEN MainIdle(n) /\ UNCHANGED calls
        ELSE main' = [main EXCEPT ![n] = [at |-> "post"]] /\ calls' = calls \cup {call}
  /\ UNCHANGED <<exporterOf, toForward, clock, emitted, born, views, losses, exportHistory>>
-----------------------------------------------------------------------------
(* POST /prometheus/ingest *)

CallAt(call, step) == calls' = (calls \ {call}) \cup {[call EXCEPT !.step = step]}

\* ingest_http up to the read of the role: the batch is fresh and this node is the exporter
Ingest(call) ==
  /\ call.step = "sent"
  /\ CallAt(call, IF clock - call.ts <= BatchTtl /\ IsExporter(call.to, exporterOf[call.to])
                THEN "admitted" ELSE "refused")
  /\ UNCHANGED <<exporterOf, main, exporterVars, toForward, clock, emitted, born, views, losses, exportHistory>>

BatchId(call) == <<call.from, call.records>>
SeenStill(n) == {s \in Reconciled(n, n).seen : clock - s.ts <= SeenTtl}

IsNew(call) == \A s \in SeenStill(call.to) : s.id # BatchId(call)

\* history: the records of a call that an unanswered one brought before it, in another
\* batch or too long ago to be remembered
Repeated(call) ==
  {r \in ToSet(call.records) : \E b \in lostBatches :
     r \in ToSet(b.records) /\ (b.records # call.records \/ clock - b.ts > SeenTtl)}

\* apply_remote_batch
ApplyBatch(call) ==
  /\ call.step = "admitted" /\ CallAt(call, "accepted")
  /\ LET n == call.to
         now == Reconciled(n, n) IN
     IF IsNew(call)
     THEN /\ Hold(n, n, Counted(now.counts, call.records),
                  SeenStill(n) \cup {[id |-> BatchId(call), ts |-> call.ts]})
          /\ exported' = exported \cup ToSet(call.records) /\ resent' = resent \cup Repeated(call)
     ELSE Hold(n, n, now.counts, SeenStill(n)) /\ UNCHANGED <<exported, resent>>
  /\ UNCHANGED <<exporterOf, main, toForward, clock, emitted, born, views, losses, dropped, lostBatches>>

\* mutant: whatever was answered
CompletedByAnyAnswer(call) == Len(call.records)

\* complete_forward, after a success only
Completed(call) == IF call.step = "accepted" THEN Len(call.records) ELSE 0

AnswerForward(call) ==
  /\ call.step \in {"accepted", "refused"}
  /\ calls' = calls \ {call}
  /\ IF call.awaited
     THEN /\ MainIdle(call.from)
          /\ toForward' = [toForward EXCEPT ![call.from] = SubSeq(@, Completed(call) + 1, Len(@))]
     ELSE UNCHANGED <<main, toForward>>
  /\ UNCHANGED <<exporterOf, exporterVars, clock, emitted, born, views, losses, exportHistory>>

\* the client gives up: the request or its answer is lost, or the request is only late
Lose(call) ==
  /\ call.awaited /\ losses < MaxLost /\ losses' = losses + 1
  /\ MainIdle(call.from)
  /\ \/ calls' = calls \ {call}
     \/ calls' = (calls \ {call}) \cup {[call EXCEPT !.awaited = FALSE]}
  /\ lostBatches' = lostBatches \cup {[records |-> call.records, ts |-> call.ts]}
  /\ UNCHANGED <<exporterOf, exporterVars, toForward, clock, emitted, born, views, dropped, exported, resent>>
-----------------------------------------------------------------------------
(* The election, and time.  A handler between its two locks takes no time  *)
(* that a lifetime could measure.                                          *)

ChangeView(n) ==
  /\ views < MaxViews /\ views' = views + 1
  /\ \E v \in (ExportNodes \cup {NoExporter}) \ {exporterOf[n]} : exporterOf' = [exporterOf EXCEPT ![n] = v]
  /\ UNCHANGED <<main, exporterVars, toForward, calls, clock, emitted, born, losses, exportHistory>>

PassTime ==
  /\ clock < ExportHorizon /\ clock' = clock + 1
  /\ \A call \in calls : call.step # "admitted"
  /\ UNCHANGED <<exporterOf, main, exporterVars, toForward, calls, emitted, born, views, losses, exportHistory>>

ExportWork(n) == Process(n) \/ DrainOwn(n) \/ Forward(n)
IngestWork(call) == Ingest(call) \/ ApplyBatch(call) \/ AnswerForward(call)

ExportNext ==
  \/ \E n \in ExportNodes : \/ \E purpose \in {"emit", "flush"} : ReadRole(n, purpose)
                            \/ ExportWork(n) \/ ChangeView(n)
  \/ \E call \in calls : IngestWork(call) \/ Lose(call)
  \/ PassTime

ExportFairness ==
  /\ \A n \in ExportNodes : WF_exportVars(ReadRole(n, "flush")) /\ WF_exportVars(ExportWork(n))
  /\ WF_exportVars(\E call \in calls : IngestWork(call))

ExportSpec == ExportInit /\ [][ExportNext]_exportVars /\ ExportFairness
-----------------------------------------------------------------------------
(* Properties *)

ExportTypeOK ==
  /\ exporterOf \in [ExportNodes -> ExportNodes \cup {NoExporter}]
  /\ \A n \in ExportNodes : /\ main[n].at \in {"idle", "emit", "flush", "post"}
                            /\ Len(toForward[n]) <= MaxQueue
                            /\ toForward[n] \in Seq(Pertinent)
                            /\ series[n] \in [Pertinent -> [count : Nat, last : 0 .. clock]]
  /\ \A call \in calls : call.step \in {"sent", "admitted", "accepted", "refused"}

InHand == {main[n].record : n \in {m \in ExportNodes : main[m].at = "emit"}}
Queued == UNION {ToSet(toForward[n]) : n \in ExportNodes}

\* A pertinent record waits at its node until some exporter has counted it; only an
\* overflow of the queue drops it, whatever is lost, late, refused or re-elected.  And
\* an exporter counts it twice only if the answer to its batch was lost and the record
\* came again in another batch, or after the batch was forgotten: the batch id is a
\* hash of the records, so that a plain retry is recognised.
RecordsAccountedFor ==
  /\ 1 .. emitted = InHand \cup Queued \cup dropped \cup exported
  /\ \A n \in ExportNodes, r \in Pertinent : series[n][r].count > 1 => r \in resent

AgreedExporter == \E e \in ExportNodes : \A n \in ExportNodes : exporterOf[n] = e

\* Once all nodes agree on an exporter for good, no record stays behind.
PendingReachesExporter == <>[]AgreedExporter => <>[](Queued = {})
=============================================================================
