---------------------------- MODULE ExportProofs ----------------------------
(***************************************************************************)
(* Theorems of Export, for any nodes, changes of the exporter, lost and    *)
(* late answers, sizes of queue and batch and lifetimes.  A record has one *)
(* owner until it is counted; and a record that an exporter has counted    *)
(* and that may still come again comes in the batch the exporter remembers *)
(* unless an answer was lost.                                              *)
(***************************************************************************)
EXTENDS Export, FiniteSetTheorems, SequenceTheorems, TLAPS

Distinct(q) == \A i, j \in 1 .. Len(q) : q[i] = q[j] => i = j

\* The elements of a sequence.
LEMMA Elements ==
  ASSUME NEW S, NEW q \in Seq(S)
  PROVE  /\ Len(q) \in Nat /\ ToSet(q) \subseteq S
         /\ \A x : x \in ToSet(q) <=> \E i \in 1 .. Len(q) : q[i] = x
BY DEF ToSet

\* A record that is queued.
LEMMA AppendElements ==
  ASSUME NEW S, NEW q \in Seq(S), NEW e \in S, NEW p, p = Append(q, e)
  PROVE  /\ p \in Seq(S) /\ Len(p) = Len(q) + 1 /\ ToSet(p) = ToSet(q) \cup {e}
         /\ Distinct(q) /\ e \notin ToSet(q) => Distinct(p)
<1>1. /\ p \in Seq(S) /\ Len(p) = Len(q) + 1 /\ p[Len(q) + 1] = e /\ Len(q) \in Nat
      /\ \A i \in 1 .. Len(q) : p[i] = q[i]
  BY AppendProperties
<1>2. \A x : x \in ToSet(p) <=> \E i \in 1 .. Len(p) : p[i] = x
  BY <1>1, Elements
<1>3. \A x : x \in ToSet(q) <=> \E i \in 1 .. Len(q) : q[i] = x
  BY Elements
<1>4. ToSet(p) = ToSet(q) \cup {e}
  BY <1>1, <1>2, <1>3
<1>5. Distinct(q) /\ e \notin ToSet(q) => Distinct(p)
  BY <1>1, <1>3 DEF Distinct
<1> QED BY <1>1, <1>4, <1>5

\* A queue without its first k records.
LEMMA SuffixElements ==
  ASSUME NEW S, NEW q \in Seq(S), NEW k \in 0 .. Len(q)
  PROVE  /\ SubSeq(q, k + 1, Len(q)) \in Seq(S) /\ SubSeq(q, 1, k) \in Seq(S)
         /\ Len(SubSeq(q, k + 1, Len(q))) = Len(q) - k /\ Len(SubSeq(q, 1, k)) = k
         /\ ToSet(q) = ToSet(SubSeq(q, 1, k)) \cup ToSet(SubSeq(q, k + 1, Len(q)))
         /\ Distinct(q) => Distinct(SubSeq(q, k + 1, Len(q)))
<1> DEFINE p == SubSeq(q, k + 1, Len(q))
           b == SubSeq(q, 1, k)
<1>0. Len(q) \in Nat
  OBVIOUS
<1>1. p \in Seq(S) /\ Len(p) = Len(q) - k /\ \A i \in 1 .. Len(q) - k : p[i] = q[k + i]
  <2>1. /\ p \in Seq(S) /\ Len(p) = IF k + 1 <= Len(q) THEN Len(q) - (k + 1) + 1 ELSE 0
        /\ \A i \in 1 .. Len(q) - (k + 1) + 1 : p[i] = q[k + 1 + i - 1]
    BY <1>0, SubSeqProperties
  <2> HIDE DEF p
  <2> QED BY <1>0, <2>1
<1>2. b \in Seq(S) /\ Len(b) = k /\ \A i \in 1 .. k : b[i] = q[i]
  <2>1. /\ b \in Seq(S) /\ Len(b) = IF 1 <= k THEN k - 1 + 1 ELSE 0
        /\ \A i \in 1 .. k - 1 + 1 : b[i] = q[1 + i - 1]
    BY <1>0, SubSeqProperties
  <2> HIDE DEF b
  <2> QED BY <1>0, <2>1
<1> HIDE DEF p, b
<1>3. \A x : x \in ToSet(p) <=> \E i \in 1 .. Len(p) : p[i] = x
  BY <1>1, Elements
<1>4. \A x : x \in ToSet(b) <=> \E i \in 1 .. Len(b) : b[i] = x
  BY <1>2, Elements
<1>5. \A x : x \in ToSet(q) <=> \E i \in 1 .. Len(q) : q[i] = x
  BY Elements
<1>6. ToSet(q) = ToSet(b) \cup ToSet(p)
  <2>1. ASSUME NEW x \in ToSet(q) PROVE x \in ToSet(b) \cup ToSet(p)
    <3>1. PICK i \in 1 .. Len(q) : q[i] = x
      BY <1>5, <2>1
    <3>2. CASE i <= k
      BY <1>2, <1>4, <3>1, <3>2
    <3>3. CASE i > k
      <4>1. i - k \in 1 .. Len(q) - k /\ p[i - k] = q[k + (i - k)] /\ k + (i - k) = i
        BY <1>0, <1>1, <3>1, <3>3
      <4> QED BY <1>1, <1>3, <3>1, <4>1
    <3> QED BY <1>0, <3>2, <3>3
  <2>2. ASSUME NEW x \in ToSet(b) PROVE x \in ToSet(q)
    BY <1>0, <1>2, <1>4, <1>5
  <2>3. ASSUME NEW x \in ToSet(p) PROVE x \in ToSet(q)
    <3>1. PICK i \in 1 .. Len(q) - k : q[k + i] = x
      BY <1>1, <1>3
    <3> QED BY <1>0, <1>5, <3>1
  <2> QED BY <2>1, <2>2, <2>3
<1>7. Distinct(q) => Distinct(p)
  <2> SUFFICES ASSUME Distinct(q), NEW i \in 1 .. Len(p), NEW j \in 1 .. Len(p), p[i] = p[j] PROVE i = j
    BY DEF Distinct
  <2>1. /\ i \in 1 .. Len(q) - k /\ j \in 1 .. Len(q) - k /\ p[i] = q[k + i] /\ p[j] = q[k + j]
    BY <1>1
  <2>a. k + i \in 1 .. Len(q) /\ k + j \in 1 .. Len(q)
    BY <1>0, <2>1
  <2>2. k + i \in 1 .. Len(q) /\ k + j \in 1 .. Len(q) /\ q[k + i] = q[k + j]
    BY <2>1, <2>a
  <2>3. k + i = k + j
    BY <2>2 DEF Distinct
  <2> QED BY <1>0, <2>1, <2>3
<1> QED BY <1>1, <1>2, <1>6, <1>7 DEF p, b

\* The first k records of a queue are not among the others.
LEMMA PrefixApart ==
  ASSUME NEW S, NEW q \in Seq(S), NEW k \in 0 .. Len(q), Distinct(q)
  PROVE  ToSet(SubSeq(q, 1, k)) \cap ToSet(SubSeq(q, k + 1, Len(q))) = {}
<1> DEFINE p == SubSeq(q, k + 1, Len(q))
           b == SubSeq(q, 1, k)
<1>0. Len(q) \in Nat
  OBVIOUS
<1>1. p \in Seq(S) /\ Len(p) = Len(q) - k /\ \A i \in 1 .. Len(q) - k : p[i] = q[k + i]
  <2>1. /\ p \in Seq(S) /\ Len(p) = IF k + 1 <= Len(q) THEN Len(q) - (k + 1) + 1 ELSE 0
        /\ \A i \in 1 .. Len(q) - (k + 1) + 1 : p[i] = q[k + 1 + i - 1]
    BY <1>0, SubSeqProperties
  <2> HIDE DEF p
  <2> QED BY <1>0, <2>1
<1>2. b \in Seq(S) /\ Len(b) = k /\ \A i \in 1 .. k : b[i] = q[i]
  <2>1. /\ b \in Seq(S) /\ Len(b) = IF 1 <= k THEN k - 1 + 1 ELSE 0
        /\ \A i \in 1 .. k - 1 + 1 : b[i] = q[1 + i - 1]
    BY <1>0, SubSeqProperties
  <2> HIDE DEF b
  <2> QED BY <1>0, <2>1
<1> HIDE DEF p, b
<1> SUFFICES ASSUME NEW x \in ToSet(b), x \in ToSet(p) PROVE FALSE
  BY DEF p, b
<1>3. PICK i \in 1 .. k : q[i] = x
  BY <1>2, Elements
<1>4. PICK j \in 1 .. Len(q) - k : q[k + j] = x
  BY <1>1, Elements
<1>5. i \in 1 .. Len(q) /\ k + j \in 1 .. Len(q)
  BY <1>0
<1>6. i = k + j
  BY <1>3, <1>4, <1>5 DEF Distinct
<1> QED BY <1>0, <1>6

\* A full queue loses its first record.
LEMMA TailElements ==
  ASSUME NEW S, NEW q \in Seq(S), Len(q) > 0
  PROVE  /\ Tail(q) \in Seq(S) /\ Head(q) \in S /\ Len(Tail(q)) = Len(q) - 1
         /\ ToSet(q) = {Head(q)} \cup ToSet(Tail(q))
         /\ Distinct(q) => Distinct(Tail(q))
<1>1. q # <<>> /\ Len(q) \in Nat /\ 1 \in 0 .. Len(q)
  OBVIOUS
<1>2. Tail(q) = SubSeq(q, 2, Len(q)) /\ Head(q) = q[1] /\ Head(q) \in S
  BY <1>1, TailIsSubSeq
<1> DEFINE b == SubSeq(q, 1, 1)
<1>3. /\ Tail(q) \in Seq(S) /\ b \in Seq(S) /\ Len(b) = 1 /\ ToSet(q) = ToSet(b) \cup ToSet(Tail(q))
      /\ Len(Tail(q)) = Len(q) - 1 /\ (Distinct(q) => Distinct(Tail(q)))
  <2>1. 1 + 1 = 2
    OBVIOUS
  <2>2. /\ SubSeq(q, 1 + 1, Len(q)) \in Seq(S) /\ SubSeq(q, 1, 1) \in Seq(S)
        /\ Len(SubSeq(q, 1 + 1, Len(q))) = Len(q) - 1 /\ Len(SubSeq(q, 1, 1)) = 1
        /\ ToSet(q) = ToSet(SubSeq(q, 1, 1)) \cup ToSet(SubSeq(q, 1 + 1, Len(q)))
        /\ Distinct(q) => Distinct(SubSeq(q, 1 + 1, Len(q)))
    BY <1>1, SuffixElements
  <2> QED BY <1>2, <2>1, <2>2
<1>4. b[1] = q[1]
  BY <1>1, SubSeqProperties
<1> HIDE DEF b
<1>5. ToSet(b) = {q[1]}
  BY <1>3, <1>4, Elements
<1> QED BY <1>2, <1>3, <1>5
-----------------------------------------------------------------------------
(* The invariant                                                           *)

MainStates ==
  [at : {"idle", "post"}]
    \cup [at : {"emit"}, role : ExportNodes \cup {NoExporter}, record : 1 .. emitted]
    \cup [at : {"flush"}, role : ExportNodes \cup {NoExporter}, record : 0 .. emitted]

CountRecords == [count : Nat, last : 0 .. clock]

CallRecords ==
  [from : ExportNodes, to : ExportNodes, records : Seq(1 .. emitted), ts : 0 .. clock,
   step : {"sent", "admitted", "accepted", "refused"}, awaited : BOOLEAN]

TypesInv ==
  /\ exporterOf \in [ExportNodes -> ExportNodes \cup {NoExporter}]
  /\ main \in [ExportNodes -> MainStates]
  /\ DOMAIN wasExporter = ExportNodes
  /\ series \in [ExportNodes -> [Pertinent -> CountRecords]]
  /\ seenBatches \in [ExportNodes -> SUBSET [id : ExportNodes \X Seq(Pertinent), ts : Nat]]
  /\ toForward \in [ExportNodes -> Seq(1 .. emitted)]
  /\ \A n \in ExportNodes : Len(toForward[n]) <= MaxQueue
  /\ calls \subseteq CallRecords
  /\ clock \in Nat /\ emitted \in 0 .. MaxEmitted /\ born \in [Pertinent -> 0 .. clock]
  /\ lostBatches \subseteq [records : Seq(Pertinent), ts : Nat]

\* n has r in hand or in its queue; or n has sent it as well.
Holds(n, r) == r \in ToSet(toForward[n]) \/ (main[n].at = "emit" /\ main[n].record = r)
Owns(n, r) == Holds(n, r) \/ \E c \in calls : c.from = n /\ r \in ToSet(c.records)

\* A record has one owner, who queues it once.
OwnedInv ==
  /\ \A n, m \in ExportNodes : \A r \in Pertinent : Owns(n, r) /\ Owns(m, r) => n = m
  /\ \A n \in ExportNodes : /\ Distinct(toForward[n])
                            /\ main[n].at = "emit" => main[n].record \notin ToSet(toForward[n])

\* A call that is awaited carries what its node still has at the head of its queue.
CallsInv ==
  \A c \in calls :
    /\ c.from # c.to
    /\ c.awaited => /\ main[c.from].at = "post" /\ Len(c.records) <= Len(toForward[c.from])
                    /\ c.records = SubSeq(toForward[c.from], 1, Len(c.records))
                    /\ \A d \in calls : c.from = d.from => d.ts <= c.ts /\ (d.awaited => d = c)
    /\ ~c.awaited => [records |-> c.records, ts |-> c.ts] \in lostBatches
    /\ c.step = "admitted" => clock - c.ts <= BatchTtl

\* What was emitted is held, dropped or exported; what was accepted, is remembered or
\* counted was exported.
ExportedInv ==
  /\ \A r \in 1 .. emitted : (\E n \in ExportNodes : Holds(n, r)) \/ r \in dropped \cup exported
  /\ dropped \subseteq 1 .. emitted /\ exported \subseteq 1 .. emitted
  /\ \A c \in calls : c.step = "accepted" => ToSet(c.records) \subseteq exported
  /\ \A n \in ExportNodes : \A s \in seenBatches[n] : ToSet(s.id[2]) \subseteq exported
  /\ \A n \in ExportNodes, r \in Pertinent : series[n][r].count > 0 => r \in exported

\* A call by which n may still count r.
Open(c, n, r) == c.to = n /\ r \in ToSet(c.records) /\ c.step \in {"sent", "admitted"}

\* r cannot come again; or it was counted with the batch b of f at t, which n remembers
\* as long as it is fresh, and r comes with that batch only unless its answer was lost.
Settled(n, r) == (\A m \in ExportNodes : ~Holds(m, r)) /\ \A c \in calls : ~Open(c, n, r)

CameWith(n, r, f, b, t) ==
  /\ f # n /\ r \in ToSet(b)
  /\ [id |-> <<f, b>>, ts |-> t] \in seenBatches[n] \/ clock - t > SeenTtl
  /\ \A c \in calls : Open(c, n, r) =>
       c.from = f /\ ([records |-> b, ts |-> t] \in lostBatches \/ (c.records = b /\ c.ts <= t))
  /\ \A m \in ExportNodes : Holds(m, r) =>
       m = f /\ \/ [records |-> b, ts |-> t] \in lostBatches
                \/ \E c \in calls : /\ c.awaited /\ c.step = "accepted"
                                    /\ c.from = f /\ c.records = b /\ c.ts = t

Once(n, r) ==
  series[n][r].count > 0 /\ r \notin resent =>
    /\ series[n][r].count = 1
    /\ Settled(n, r) \/ \E f \in ExportNodes, b \in Seq(Pertinent), t \in Nat : CameWith(n, r, f, b, t)

OnceInv == \A n \in ExportNodes, r \in Pertinent : Once(n, r)
-----------------------------------------------------------------------------
(* Types                                                                   *)

SeenRecords == [id : ExportNodes \X Seq(Pertinent), ts : Nat]

\* More records and a later time allow more.
LEMMA Growth ==
  ASSUME TypesInv, emitted' \in emitted .. MaxEmitted, clock' \in Nat, clock <= clock'
  PROVE  /\ MainStates \subseteq MainStates' /\ CallRecords \subseteq CallRecords'
         /\ CountRecords \subseteq CountRecords' /\ 0 .. clock \subseteq 0 .. clock'
         /\ 1 .. emitted \subseteq 1 .. emitted'
         /\ Seq(1 .. emitted) \subseteq Seq(1 .. emitted') /\ Seq(1 .. emitted) \subseteq Seq(Pertinent)
<1>1. /\ 1 .. emitted \subseteq 1 .. emitted' /\ 0 .. emitted \subseteq 0 .. emitted'
      /\ 0 .. clock \subseteq 0 .. clock' /\ 1 .. emitted \subseteq Pertinent
  BY ExportNumbers DEF TypesInv, Pertinent
<1>2. Seq(1 .. emitted) \subseteq Seq(1 .. emitted') /\ Seq(1 .. emitted) \subseteq Seq(Pertinent)
  BY <1>1, SeqMonotonic
<1>3. MainStates \subseteq MainStates'
  BY <1>1 DEF MainStates
<1>4. CallRecords \subseteq CallRecords'
  BY <1>1, <1>2 DEF CallRecords
<1>5. CountRecords \subseteq CountRecords'
  BY <1>1 DEF CountRecords
<1> QED BY <1>1, <1>2, <1>3, <1>4, <1>5

\* What reconcile_role leaves: the series and the batches, or neither.
LEMMA ReconciledFacts ==
  ASSUME TypesInv, NEW n \in ExportNodes, NEW v
  PROVE  /\ Reconciled(n, v).counts \in [Pertinent -> CountRecords]
         /\ \A r \in Pertinent : \/ Reconciled(n, v).counts[r] = series[n][r]
                                 \/ Reconciled(n, v).counts[r].count = 0
         /\ Reconciled(n, v).seen \subseteq seenBatches[n]
         /\ \/ Reconciled(n, v).seen = seenBatches[n]
            \/ \A r \in Pertinent : Reconciled(n, v).counts[r].count = 0
         /\ v = n => Reconciled(n, v).seen = seenBatches[n]
<1> DEFINE cleared == wasExporter[n] /\ ~IsExporter(n, v)
           counts == [r \in Pertinent |-> IF cleared \/ clock - series[n][r].last > SeriesTtl
                                          THEN NoCount ELSE series[n][r]]
<1>1. Reconciled(n, v) = [counts |-> counts, seen |-> IF cleared THEN {} ELSE seenBatches[n]]
  BY DEF Reconciled
<1>2. /\ Reconciled(n, v).counts = counts
      /\ Reconciled(n, v).seen = IF cleared THEN {} ELSE seenBatches[n]
  BY <1>1
<1>3. NoCount \in CountRecords /\ NoCount.count = 0
  BY DEF NoCount, CountRecords, TypesInv
<1>4. \A r \in Pertinent : series[n][r] \in CountRecords
  BY DEF TypesInv
<1>5. counts \in [Pertinent -> CountRecords]
  BY <1>3, <1>4
<1>6. \A r \in Pertinent : counts[r] = series[n][r] \/ counts[r].count = 0
  BY <1>3
<1>7. cleared => \A r \in Pertinent : counts[r].count = 0
  BY <1>3
<1>8. v = n => ~cleared
  BY DEF IsExporter
<1> HIDE DEF counts, cleared
<1> QED BY <1>2, <1>5, <1>6, <1>7, <1>8

\* apply_record counts each record of a sequence once.
LEMMA CountedFacts ==
  ASSUME TypesInv, NEW counts \in [Pertinent -> CountRecords], NEW recs
  PROVE  /\ Counted(counts, recs) \in [Pertinent -> CountRecords]
         /\ \A r \in Pertinent : Counted(counts, recs)[r].count =
              IF r \in ToSet(recs) THEN counts[r].count + 1 ELSE counts[r].count
<1>1. \A r \in Pertinent : born[r] \in 0 .. clock /\ counts[r] \in CountRecords /\ counts[r].count \in Nat
  BY DEF TypesInv, CountRecords
<1>2. \A r \in Pertinent : [count |-> counts[r].count + 1, last |-> born[r]] \in CountRecords
  BY <1>1 DEF CountRecords
<1> QED BY <1>1, <1>2 DEF Counted

\* The state of one exporter changes.
LEMMA HoldFacts ==
  ASSUME TypesInv, NEW n \in ExportNodes, NEW v, NEW counts \in [Pertinent -> CountRecords],
         NEW seen \in SUBSET SeenRecords, Hold(n, v, counts, seen)
  PROVE  /\ DOMAIN wasExporter' = ExportNodes
         /\ series' \in [ExportNodes -> [Pertinent -> CountRecords]]
         /\ seenBatches' \in [ExportNodes -> SUBSET SeenRecords]
         /\ series'[n] = counts /\ seenBatches'[n] = seen
         /\ \A m \in ExportNodes \ {n} : series'[m] = series[m] /\ seenBatches'[m] = seenBatches[m]
BY DEF Hold, TypesInv, SeenRecords

\* What a handler of n that counts the records recs does to the exporters' state.
Handled(n, recs) ==
  /\ DOMAIN wasExporter' = ExportNodes
  /\ series' \in [ExportNodes -> [Pertinent -> CountRecords]]
  /\ seenBatches' \in [ExportNodes -> SUBSET SeenRecords]
  /\ \A m \in ExportNodes \ {n} : series'[m] = series[m] /\ seenBatches'[m] = seenBatches[m]
  /\ \A r \in Pertinent : series'[n][r].count \in
       IF r \in recs THEN {1, series[n][r].count + 1} ELSE {0, series[n][r].count}
  /\ \/ \A s \in seenBatches[n] : s \in seenBatches'[n] \/ clock - s.ts > SeenTtl
     \/ \A r \in Pertinent : series'[n][r].count = 0

\* A handler that counts nothing.
LEMMA HandledNone ==
  ASSUME TypesInv, NEW n \in ExportNodes, NEW v,
         Hold(n, v, Reconciled(n, v).counts, Reconciled(n, v).seen)
  PROVE  Handled(n, {}) /\ seenBatches'[n] \subseteq seenBatches[n]
<1> DEFINE counts == Reconciled(n, v).counts
           seen == Reconciled(n, v).seen
<1>1. /\ counts \in [Pertinent -> CountRecords] /\ seen \subseteq seenBatches[n]
      /\ \A r \in Pertinent : counts[r] = series[n][r] \/ counts[r].count = 0
      /\ seen = seenBatches[n] \/ \A r \in Pertinent : counts[r].count = 0
  BY ReconciledFacts
<1> HIDE DEF counts, seen
<1>2. seen \in SUBSET SeenRecords
  BY <1>1 DEF TypesInv, SeenRecords
<1>3. /\ DOMAIN wasExporter' = ExportNodes
      /\ series' \in [ExportNodes -> [Pertinent -> CountRecords]]
      /\ seenBatches' \in [ExportNodes -> SUBSET SeenRecords]
      /\ series'[n] = counts /\ seenBatches'[n] = seen
      /\ \A m \in ExportNodes \ {n} : series'[m] = series[m] /\ seenBatches'[m] = seenBatches[m]
  <2>1. Hold(n, v, counts, seen)
    BY DEF counts, seen
  <2> QED BY <1>1, <1>2, <2>1, HoldFacts
<1> QED BY <1>1, <1>3 DEF Handled

\* A handler that counts a sequence of records, and remembers what it has not forgotten.
LEMMA HandledSome ==
  ASSUME TypesInv, NEW n \in ExportNodes, NEW recs, NEW seen \in SUBSET SeenRecords,
         \A s \in seenBatches[n] : s \in seen \/ clock - s.ts > SeenTtl,
         Hold(n, n, Counted(Reconciled(n, n).counts, recs), seen)
  PROVE  Handled(n, ToSet(recs)) /\ seenBatches'[n] = seen
<1> DEFINE before == Reconciled(n, n).counts
           counts == Counted(before, recs)
<1>1. /\ before \in [Pertinent -> CountRecords]
      /\ \A r \in Pertinent : before[r] = series[n][r] \/ before[r].count = 0
  BY ReconciledFacts
<1> HIDE DEF before
<1>2. /\ counts \in [Pertinent -> CountRecords]
      /\ \A r \in Pertinent :
           counts[r].count = IF r \in ToSet(recs) THEN before[r].count + 1 ELSE before[r].count
  BY <1>1, CountedFacts
<1>3. Hold(n, n, counts, seen)
  BY DEF before
<1> HIDE DEF counts
<1>4. /\ DOMAIN wasExporter' = ExportNodes
      /\ series' \in [ExportNodes -> [Pertinent -> CountRecords]]
      /\ seenBatches' \in [ExportNodes -> SUBSET SeenRecords]
      /\ series'[n] = counts /\ seenBatches'[n] = seen
      /\ \A m \in ExportNodes \ {n} : series'[m] = series[m] /\ seenBatches'[m] = seenBatches[m]
  BY <1>2, <1>3, HoldFacts
<1>5. \A r \in Pertinent : series'[n][r].count \in
        IF r \in ToSet(recs) THEN {1, series[n][r].count + 1} ELSE {0, series[n][r].count}
  <2> SUFFICES ASSUME NEW r \in Pertinent
               PROVE  counts[r].count \in
                        IF r \in ToSet(recs) THEN {1, series[n][r].count + 1} ELSE {0, series[n][r].count}
    BY <1>4
  <2> QED BY <1>1, <1>2
<1> QED BY <1>4, <1>5 DEF Handled

\* The handlers: what each counts.
LEMMA ProcessHandles ==
  ASSUME TypesInv, NEW n \in ExportNodes, Process(n)
  PROVE  /\ Handled(n, IF main[n].role = n THEN {main[n].record} ELSE {})
         /\ seenBatches'[n] \subseteq seenBatches[n]
<1>1. CASE main[n].role = n
  <2>1. Hold(n, n, Counted(Reconciled(n, n).counts, <<main[n].record>>), Reconciled(n, n).seen)
    BY <1>1 DEF Process, IsExporter
  <2>2. Reconciled(n, n).seen = seenBatches[n] /\ seenBatches[n] \in SUBSET SeenRecords
    BY ReconciledFacts DEF TypesInv, SeenRecords
  <2>3. ToSet(<<main[n].record>>) = {main[n].record}
    BY DEF ToSet
  <2>4. Hold(n, n, Counted(Reconciled(n, n).counts, <<main[n].record>>), seenBatches[n])
    BY <2>1, <2>2
  <2>5. Handled(n, ToSet(<<main[n].record>>)) /\ seenBatches'[n] = seenBatches[n]
    BY <2>2, <2>4, HandledSome
  <2> QED BY <1>1, <2>3, <2>5
<1>2. CASE main[n].role # n
  <2>1. Hold(n, main[n].role, Reconciled(n, main[n].role).counts, Reconciled(n, main[n].role).seen)
    BY <1>2 DEF Process, IsExporter
  <2> QED BY <1>2, <2>1, HandledNone
<1> QED BY <1>1, <1>2

LEMMA DrainHandles ==
  ASSUME TypesInv, NEW n \in ExportNodes, DrainOwn(n)
  PROVE  Handled(n, ToSet(toForward[n])) /\ seenBatches'[n] \subseteq seenBatches[n]
<1>1. Hold(n, n, Counted(Reconciled(n, n).counts, toForward[n]), Reconciled(n, n).seen)
  BY DEF DrainOwn
<1>2. Reconciled(n, n).seen = seenBatches[n] /\ seenBatches[n] \in SUBSET SeenRecords
  BY ReconciledFacts DEF TypesInv, SeenRecords
<1> QED BY <1>1, <1>2, HandledSome

LEMMA ForwardHandles ==
  ASSUME TypesInv, NEW n \in ExportNodes, Forward(n)
  PROVE  Handled(n, {}) /\ seenBatches'[n] \subseteq seenBatches[n]
<1>1. Hold(n, main[n].role, Reconciled(n, main[n].role).counts, Reconciled(n, main[n].role).seen)
  BY DEF Forward
<1> QED BY <1>1, HandledNone

Remembered(call) == [id |-> BatchId(call), ts |-> call.ts]

LEMMA ApplyHandles ==
  ASSUME TypesInv, NEW call \in calls, ApplyBatch(call)
  PROVE  /\ Handled(call.to, IF IsNew(call) THEN ToSet(call.records) ELSE {})
         /\ seenBatches'[call.to] \subseteq
              seenBatches[call.to] \cup IF IsNew(call) THEN {Remembered(call)} ELSE {}
         /\ IsNew(call) => Remembered(call) \in seenBatches'[call.to]
<1> DEFINE n == call.to
<1>1. n \in ExportNodes /\ call \in CallRecords /\ Reconciled(n, n).seen = seenBatches[n]
      /\ seenBatches[n] \in SUBSET SeenRecords
  <2>1. call \in CallRecords
    BY DEF TypesInv
  <2>2. n \in ExportNodes
    BY <2>1 DEF CallRecords
  <2> QED BY <2>1, <2>2, ReconciledFacts DEF TypesInv, SeenRecords
<1>2. Remembered(call) \in SeenRecords
  <2>1. call.from \in ExportNodes /\ call.records \in Seq(Pertinent) /\ call.ts \in Nat
    <3>1. call.records \in Seq(1 .. emitted) /\ 1 .. emitted \subseteq Pertinent
      BY <1>1, ExportNumbers DEF CallRecords, TypesInv, Pertinent
    <3> QED BY <1>1, <3>1, SeqMonotonic DEF CallRecords, TypesInv
  <2> QED BY <2>1 DEF Remembered, BatchId, SeenRecords
<1>3. /\ SeenStill(n) \subseteq seenBatches[n]
      /\ \A s \in seenBatches[n] : s \in SeenStill(n) \/ clock - s.ts > SeenTtl
  <2>1. \A s \in seenBatches[n] : s.ts \in Nat
    BY <1>1 DEF SeenRecords
  <2> QED BY <1>1, <2>1, ExportNumbers DEF SeenStill, TypesInv
<1> HIDE DEF n
<1>4. CASE IsNew(call)
  <2> DEFINE seen == SeenStill(n) \cup {Remembered(call)}
  <2>1. Hold(n, n, Counted(Reconciled(n, n).counts, call.records), seen)
    BY <1>4 DEF ApplyBatch, Remembered, n
  <2>2. seen \in SUBSET SeenRecords /\ \A s \in seenBatches[n] : s \in seen \/ clock - s.ts > SeenTtl
    BY <1>1, <1>2, <1>3
  <2> HIDE DEF seen
  <2>3. Handled(n, ToSet(call.records)) /\ seenBatches'[n] = seen
    BY <1>1, <2>1, <2>2, HandledSome
  <2> QED BY <1>3, <1>4, <2>3 DEF seen, n
<1>5. CASE ~IsNew(call)
  <2>1. Hold(n, n, Reconciled(n, n).counts, SeenStill(n))
    BY <1>5 DEF ApplyBatch, n
  <2>2. Counted(Reconciled(n, n).counts, <<>>) = Reconciled(n, n).counts /\ ToSet(<<>>) = {}
    <3>1. ToSet(<<>>) = {}
      BY DEF ToSet
    <3>2. Reconciled(n, n).counts \in [Pertinent -> CountRecords]
      BY <1>1, ReconciledFacts
    <3> QED BY <3>1, <3>2 DEF Counted
  <2>4. SeenStill(n) \in SUBSET SeenRecords
    BY <1>1, <1>3
  <2>5. Hold(n, n, Counted(Reconciled(n, n).counts, <<>>), SeenStill(n))
    BY <2>1, <2>2
  <2>6. Handled(n, ToSet(<<>>)) /\ seenBatches'[n] = SeenStill(n)
    BY <1>1, <1>3, <2>4, <2>5, HandledSome
  <2>3. Handled(n, {}) /\ seenBatches'[n] = SeenStill(n)
    BY <2>2, <2>6
  <2> QED BY <1>3, <1>5, <2>3 DEF n
<1> QED BY <1>4, <1>5

\* The fields of a call.
LEMMA CallFacts ==
  ASSUME TypesInv, NEW c \in calls
  PROVE  /\ c.from \in ExportNodes /\ c.to \in ExportNodes /\ c.awaited \in BOOLEAN
         /\ c.records \in Seq(Pertinent) /\ c.records \in Seq(1 .. emitted)
         /\ ToSet(c.records) \subseteq 1 .. emitted /\ Len(c.records) \in Nat
         /\ c.ts \in Nat /\ c.ts <= clock
         /\ c.step \in {"sent", "admitted", "accepted", "refused"}
<1>1. c \in CallRecords
  BY DEF TypesInv
<1>2. 1 .. emitted \subseteq Pertinent
  BY ExportNumbers DEF TypesInv, Pertinent
<1>3. c.records \in Seq(1 .. emitted)
  BY <1>1 DEF CallRecords
<1>4. c.records \in Seq(Pertinent)
  BY <1>2, <1>3, SeqMonotonic
<1> QED BY <1>1, <1>3, <1>4, Elements DEF CallRecords, TypesInv

\* A follower sends what is at the head of its queue, or nothing.
Batch(n) == SubSeq(toForward[n], 1, Min({MaxBatch, Len(toForward[n])}))
Call(n) == [from |-> n, to |-> main[n].role, records |-> Batch(n), ts |-> clock, step |-> "sent",
            awaited |-> TRUE]

LEMMA ForwardSends ==
  ASSUME TypesInv, NEW n \in ExportNodes, Forward(n)
  PROVE  /\ main[n].at = "flush" /\ main[n].role # n
         /\ \/ main' = [main EXCEPT ![n] = [at |-> "idle"]] /\ calls' = calls
            \/ main' = [main EXCEPT ![n] = [at |-> "post"]] /\ calls' = calls \cup {Call(n)}
               /\ main[n].role \in ExportNodes
         /\ calls' \subseteq CallRecords
         /\ Batch(n) \in Seq(1 .. emitted) /\ ToSet(Batch(n)) \subseteq ToSet(toForward[n])
         /\ Len(Batch(n)) \in Nat /\ Len(Batch(n)) <= Len(toForward[n])
         /\ Batch(n) = SubSeq(toForward[n], 1, Len(Batch(n)))
<1> DEFINE q == toForward[n]
           k == Min({MaxBatch, Len(q)})
<1>1. /\ main[n].at = "flush" /\ main[n].role # n
      /\ IF Batch(n) = <<>> \/ main[n].role = NoExporter
         THEN main' = [main EXCEPT ![n] = [at |-> "idle"]] /\ calls' = calls
         ELSE main' = [main EXCEPT ![n] = [at |-> "post"]] /\ calls' = calls \cup {Call(n)}
  BY DEF Forward, Batch, Call, MainIdle, IsExporter
<1>2. main[n].role \in ExportNodes \cup {NoExporter}
  BY <1>1 DEF TypesInv, MainStates
<1>3. q \in Seq(1 .. emitted) /\ Len(q) \in Nat
  BY DEF TypesInv
<1>4. k \in 0 .. Len(q)
  <2>1. MaxBatch \in Nat
    BY ExportNumbers
  <2>2. k = IF MaxBatch <= Len(q) THEN MaxBatch ELSE Len(q)
    BY <1>3, <2>1 DEF Min
  <2> QED BY <1>3, <2>1, <2>2
<1>5. Batch(n) = SubSeq(q, 1, k)
  BY DEF Batch
<1> HIDE DEF k, q
<1>6. Batch(n) \in Seq(1 .. emitted) /\ Len(Batch(n)) = k /\ ToSet(Batch(n)) \subseteq ToSet(q)
  <2>1. SubSeq(q, 1, k) \in Seq(1 .. emitted)
    BY <1>3, <1>4, SuffixElements
  <2>2. Len(SubSeq(q, 1, k)) = k
    BY <1>3, <1>4, SuffixElements
  <2>3. ToSet(q) = ToSet(SubSeq(q, 1, k)) \cup ToSet(SubSeq(q, k + 1, Len(q)))
    BY <1>3, <1>4, SuffixElements
  <2> QED BY <1>5, <2>1, <2>2, <2>3
<1>7. main[n].role \in ExportNodes => Call(n) \in CallRecords
  BY <1>6 DEF Call, CallRecords, TypesInv
<1>8. /\ main[n].at = "flush" /\ main[n].role # n
      /\ \/ main' = [main EXCEPT ![n] = [at |-> "idle"]] /\ calls' = calls
         \/ main' = [main EXCEPT ![n] = [at |-> "post"]] /\ calls' = calls \cup {Call(n)}
            /\ main[n].role \in ExportNodes
  BY <1>1, <1>2
<1>9. calls' \subseteq CallRecords
  BY <1>7, <1>8 DEF TypesInv
<1>10. /\ Len(Batch(n)) \in Nat /\ Len(Batch(n)) <= Len(q)
       /\ Batch(n) = SubSeq(q, 1, Len(Batch(n)))
  BY <1>3, <1>4, <1>5, <1>6
<1> QED BY <1>6, <1>8, <1>9, <1>10 DEF q

\* An answer that is awaited sets the task free, and takes what was accepted off the queue.
LEMMA AnswerMoves ==
  ASSUME TypesInv, CallsInv, NEW call \in calls, AnswerForward(call)
  PROVE  /\ main' \in [ExportNodes -> MainStates] /\ toForward' \in [ExportNodes -> Seq(1 .. emitted)]
         /\ \A m \in ExportNodes : Len(toForward'[m]) <= MaxQueue
         /\ \A m \in ExportNodes \ {call.from} : main'[m] = main[m] /\ toForward'[m] = toForward[m]
         /\ ~call.awaited => main' = main /\ toForward' = toForward
         /\ call.awaited => main'[call.from].at = "idle"
         /\ \A m \in ExportNodes : /\ ToSet(toForward'[m]) \subseteq ToSet(toForward[m])
                                   /\ Distinct(toForward[m]) => Distinct(toForward'[m])
         /\ \A r \in ToSet(toForward[call.from]) : \/ r \in ToSet(toForward'[call.from])
                                                   \/ call.step = "accepted" /\ r \in ToSet(call.records)
         /\ call.awaited /\ call.step = "accepted" /\ Distinct(toForward[call.from]) =>
              ToSet(toForward'[call.from]) \cap ToSet(call.records) = {}
<1> DEFINE n == call.from
           q == toForward[n]
           k == Completed(call)
           p == SubSeq(q, k + 1, Len(q))
<1>1. n \in ExportNodes /\ Len(call.records) \in Nat /\ call.awaited \in BOOLEAN
  BY CallFacts
<1>2. q \in Seq(1 .. emitted) /\ Len(q) \in Nat /\ Len(q) <= MaxQueue /\ main \in [ExportNodes -> MainStates]
  BY <1>1 DEF TypesInv
<1>3. CASE ~call.awaited
  BY <1>1, <1>2, <1>3 DEF AnswerForward, TypesInv
<1>4. CASE call.awaited
  <2>1. main' = [main EXCEPT ![n] = [at |-> "idle"]] /\ toForward' = [toForward EXCEPT ![n] = p]
    BY <1>4 DEF AnswerForward, MainIdle
  <2>2. Len(call.records) <= Len(q) /\ call.records = SubSeq(q, 1, Len(call.records))
    BY <1>4 DEF CallsInv
  <2>3. k \in 0 .. Len(q) /\ (call.step = "accepted" => SubSeq(q, 1, k) = call.records)
        /\ (call.step # "accepted" => k = 0)
    BY <1>1, <1>2, <2>2 DEF Completed
  <2> HIDE DEF k, q
  <2>4. /\ p \in Seq(1 .. emitted) /\ Len(p) = Len(q) - k /\ (Distinct(q) => Distinct(p))
        /\ ToSet(q) = ToSet(SubSeq(q, 1, k)) \cup ToSet(p)
    <3>1. p \in Seq(1 .. emitted)
      BY <1>2, <2>3, SuffixElements
    <3>2. Len(p) = Len(q) - k
      BY <1>2, <2>3, SuffixElements
    <3>3. ToSet(q) = ToSet(SubSeq(q, 1, k)) \cup ToSet(p)
      BY <1>2, <2>3, SuffixElements
    <3>4. Distinct(q) => Distinct(p)
      BY <1>2, <2>3, SuffixElements
    <3> HIDE DEF p
    <3> QED BY <3>1, <3>2, <3>3, <3>4
  <2>12. Distinct(q) => ToSet(SubSeq(q, 1, k)) \cap ToSet(p) = {}
    BY <1>2, <2>3, PrefixApart
  <2>5. k = 0 => ToSet(SubSeq(q, 1, k)) = {}
    BY <1>2, SubSeqEmpty DEF ToSet
  <2> HIDE DEF p
  <2>6. /\ main' \in [ExportNodes -> MainStates] /\ main'[n].at = "idle" /\ toForward'[n] = p
        /\ toForward' \in [ExportNodes -> Seq(1 .. emitted)]
        /\ \A m \in ExportNodes \ {n} : main'[m] = main[m] /\ toForward'[m] = toForward[m]
    BY <1>1, <2>1, <2>4 DEF TypesInv, MainStates
  <2>7. Len(p) <= MaxQueue
    BY <1>2, <2>3, <2>4, ExportNumbers
  <2>8. \A m \in ExportNodes : Len(toForward'[m]) <= MaxQueue
    BY <2>6, <2>7 DEF TypesInv
  <2>9. \A r \in ToSet(q) : r \in ToSet(p) \/ (call.step = "accepted" /\ r \in ToSet(call.records))
    <3>1. CASE call.step = "accepted"
      BY <2>3, <2>4, <3>1
    <3>2. CASE call.step # "accepted"
      BY <2>3, <2>4, <2>5, <3>2
    <3> QED BY <3>1, <3>2
  <2>10. call.step = "accepted" /\ Distinct(q) => ToSet(p) \cap ToSet(call.records) = {}
    BY <2>3, <2>12
  <2> HIDE DEF n
  <2>11. \A m \in ExportNodes : /\ ToSet(toForward'[m]) \subseteq ToSet(toForward[m])
                                /\ Distinct(toForward[m]) => Distinct(toForward'[m])
    BY <2>4, <2>6 DEF q
  <2> QED BY <1>4, <2>6, <2>8, <2>9, <2>10, <2>11 DEF q, n
<1> QED BY <1>1, <1>3, <1>4

\* The queue of a record that is processed locally: it is counted or queued, and the
\* oldest record of a full queue is dropped.
LEMMA ProcessMoves ==
  ASSUME TypesInv, OwnedInv, NEW n \in ExportNodes, Process(n)
  PROVE  LET r == main[n].record IN
         /\ main[n].at = "emit" /\ r \in 1 .. emitted /\ main' = [main EXCEPT ![n] = [at |-> "idle"]]
         /\ \A m \in ExportNodes \ {n} : toForward'[m] = toForward[m]
         /\ toForward' \in [ExportNodes -> Seq(1 .. emitted)] /\ Len(toForward'[n]) <= MaxQueue
         /\ Distinct(toForward'[n]) /\ ToSet(toForward'[n]) \subseteq ToSet(toForward[n]) \cup {r}
         /\ ToSet(toForward[n]) \cup {r} \subseteq ToSet(toForward'[n]) \cup dropped' \cup exported'
         /\ dropped \subseteq dropped' /\ exported \subseteq exported'
         /\ dropped' \cup exported' \subseteq dropped \cup exported \cup ToSet(toForward[n]) \cup {r}
         /\ main[n].role = n => exported' = exported \cup {r} /\ toForward' = toForward
<1> DEFINE r == main[n].record
           q == toForward[n]
           full == Len(q) >= MaxQueue
           kept == IF full THEN Tail(q) ELSE q
<1>1. /\ main[n].at = "emit" /\ main' = [main EXCEPT ![n] = [at |-> "idle"]]
  BY DEF Process, MainIdle
<1>2. r \in 1 .. emitted
  BY <1>1 DEF TypesInv, MainStates
<1>3. q \in Seq(1 .. emitted) /\ Len(q) \in Nat /\ Len(q) <= MaxQueue /\ Distinct(q) /\ r \notin ToSet(q)
  BY <1>1 DEF TypesInv, OwnedInv
<1>4. /\ kept \in Seq(1 .. emitted) /\ Len(kept) < MaxQueue /\ Len(kept) \in Nat /\ Distinct(kept)
      /\ ToSet(kept) \subseteq ToSet(q) /\ ToSet(q) = ToSet(kept) \cup (IF full THEN {Head(q)} ELSE {})
  <2>1. CASE full
    <3>1. Len(q) > 0 /\ MaxQueue \in Nat
      BY <1>3, <2>1, ExportNumbers
    <3>2. /\ Tail(q) \in Seq(1 .. emitted) /\ Len(Tail(q)) = Len(q) - 1
          /\ ToSet(q) = {Head(q)} \cup ToSet(Tail(q)) /\ Distinct(Tail(q))
      BY <1>3, <3>1, TailElements
    <3> QED BY <1>3, <2>1, <3>1, <3>2
  <2>2. CASE ~full
    BY <1>3, <2>2, ExportNumbers
  <2> QED BY <2>1, <2>2
<1> HIDE DEF kept
<1> DEFINE longer == Append(kept, r)
<1>8. longer = Append(kept, r)
  OBVIOUS
<1> HIDE DEF longer
<1>5. /\ longer \in Seq(1 .. emitted) /\ ToSet(longer) = ToSet(kept) \cup {r}
      /\ Len(longer) = Len(kept) + 1 /\ Distinct(longer)
  <2>1. r \notin ToSet(kept)
    BY <1>3, <1>4
  <2> HIDE DEF r
  <2>2. kept \in Seq(1 .. emitted) /\ r \in 1 .. emitted
    BY <1>2, <1>4
  <2> DEFINE k == Len(kept)
  <2>a. /\ longer \in Seq(1 .. emitted) /\ Len(longer) = k + 1 /\ longer[k + 1] = r /\ k \in Nat
        /\ \A i \in 1 .. k : longer[i] = kept[i]
    BY <1>8, <2>2, AppendProperties
  <2>b. \A x : x \in ToSet(longer) <=> \E i \in 1 .. Len(longer) : longer[i] = x
    BY <2>a, Elements
  <2>c. \A x : x \in ToSet(kept) <=> \E i \in 1 .. k : kept[i] = x
    BY <2>2, Elements
  <2> HIDE DEF k
  <2>3. ToSet(longer) = ToSet(kept) \cup {r}
    BY <2>a, <2>b, <2>c
  <2>4. longer \in Seq(1 .. emitted) /\ Len(longer) = Len(kept) + 1
    BY <1>8, <2>2, AppendElements
  <2>5. Distinct(longer)
    BY <1>4, <1>8, <2>1, <2>2, AppendElements
  <2> QED BY <2>3, <2>4, <2>5
<1>6. CASE main[n].role = n
  <2>1. toForward' = toForward /\ dropped' = dropped /\ exported' = exported \cup {r}
    BY <1>6 DEF Process, IsExporter
  <2> QED BY <1>1, <1>2, <1>3, <2>1 DEF TypesInv
<1>7. CASE main[n].role # n
  <2>1. /\ toForward' = [toForward EXCEPT ![n] = longer] /\ exported' = exported
        /\ dropped' = IF full THEN dropped \cup {Head(q)} ELSE dropped
    BY <1>7 DEF Process, IsExporter, kept, longer
  <2>2. /\ toForward' \in [ExportNodes -> Seq(1 .. emitted)] /\ toForward'[n] = longer
        /\ \A m \in ExportNodes \ {n} : toForward'[m] = toForward[m]
    BY <1>5, <2>1 DEF TypesInv
  <2>3. Len(toForward'[n]) <= MaxQueue
    BY <1>4, <1>5, <2>2, ExportNumbers
  <2> HIDE DEF full, q, r
  <2>4. /\ dropped \subseteq dropped' /\ (full => Head(q) \in dropped')
        /\ dropped' \subseteq dropped \cup (IF full THEN {Head(q)} ELSE {})
    BY <2>1
  <2>5. ToSet(q) \cup {r} \subseteq ToSet(toForward'[n]) \cup dropped'
    BY <1>4, <1>5, <2>2, <2>4
  <2>6. dropped' \subseteq dropped \cup ToSet(q)
    BY <1>4, <2>4
  <2>7. ToSet(toForward'[n]) \subseteq ToSet(q) \cup {r}
    BY <1>4, <1>5, <2>2
  <2> QED BY <1>1, <1>2, <1>5, <1>7, <2>1, <2>2, <2>3, <2>4, <2>5, <2>6, <2>7 DEF q, r
<1> QED BY <1>6, <1>7

\* The types of the state, under every step.
LEMMA TypesStep == TypesInv /\ OwnedInv /\ CallsInv /\ [ExportNext]_exportVars => TypesInv'
<1> SUFFICES ASSUME TypesInv, OwnedInv, CallsInv, [ExportNext]_exportVars PROVE TypesInv'
  OBVIOUS
<1>0. /\ emitted \in Nat /\ emitted <= MaxEmitted /\ MaxEmitted \in Nat /\ clock \in Nat
      /\ [at |-> "idle"] \in MainStates /\ [at |-> "post"] \in MainStates
  BY ExportNumbers DEF TypesInv, MainStates
<1>a. emitted' = emitted /\ clock' = clock =>
        MainStates' = MainStates /\ CallRecords' = CallRecords /\ CountRecords' = CountRecords
  BY DEF MainStates, CallRecords, CountRecords
<1>b. ASSUME NEW n \in ExportNodes, NEW recs, Handled(n, recs), emitted' = emitted, clock' = clock
      PROVE  /\ DOMAIN wasExporter' = ExportNodes
             /\ series' \in [ExportNodes -> [Pertinent -> CountRecords']]
             /\ seenBatches' \in [ExportNodes -> SUBSET [id : ExportNodes \X Seq(Pertinent), ts : Nat]]
  BY <1>a, <1>b DEF Handled, SeenRecords
<1>1. ASSUME NEW n \in ExportNodes, NEW purpose \in {"emit", "flush"}, ReadRole(n, purpose)
      PROVE  TypesInv'
  <2>1. /\ emitted' \in emitted .. MaxEmitted /\ clock' = clock
        /\ purpose = "emit" => emitted' = emitted + 1 /\ emitted' <= MaxEmitted
    BY <1>0, <1>1 DEF ReadRole
  <2>2. /\ MainStates \subseteq MainStates' /\ CallRecords \subseteq CallRecords'
        /\ CountRecords \subseteq CountRecords' /\ Seq(1 .. emitted) \subseteq Seq(1 .. emitted')
    BY <1>0, <2>1, Growth
  <2>3. exporterOf[n] \in ExportNodes \cup {NoExporter}
    BY DEF TypesInv
  <2>4. [at |-> purpose, role |-> exporterOf[n], record |-> emitted'] \in MainStates'
    BY <1>0, <2>1, <2>3 DEF MainStates
  <2>5. main' \in [ExportNodes -> MainStates']
    BY <1>1, <2>2, <2>4 DEF ReadRole, TypesInv
  <2>6. born' \in [Pertinent -> 0 .. clock]
    <3>1. born' = IF purpose = "emit" THEN [born EXCEPT ![emitted + 1] = clock] ELSE born
      BY <1>1 DEF ReadRole
    <3>2. clock \in 0 .. clock /\ born \in [Pertinent -> 0 .. clock]
      BY DEF TypesInv
    <3> QED BY <3>1, <3>2
  <2>7. UNCHANGED <<exporterOf, exporterVars, toForward, calls, clock, exportHistory>>
    BY <1>1 DEF ReadRole
  <2>8. toForward' \in [ExportNodes -> Seq(1 .. emitted')]
    BY <2>2, <2>7 DEF TypesInv
  <2>9. series' \in [ExportNodes -> [Pertinent -> CountRecords']] /\ calls' \subseteq CallRecords'
    BY <2>2, <2>7 DEF TypesInv, exporterVars
  <2> QED BY <1>0, <2>1, <2>5, <2>6, <2>7, <2>8, <2>9 DEF TypesInv, exporterVars, exportHistory
<1>2. ASSUME NEW n \in ExportNodes, Process(n) PROVE TypesInv'
  <2>1. UNCHANGED <<exporterOf, calls, clock, emitted, born, lostBatches>>
    BY <1>2 DEF Process
  <2>2. /\ main' = [main EXCEPT ![n] = [at |-> "idle"]]
        /\ toForward' \in [ExportNodes -> Seq(1 .. emitted)] /\ Len(toForward'[n]) <= MaxQueue
        /\ \A m \in ExportNodes \ {n} : toForward'[m] = toForward[m]
    BY <1>2, ProcessMoves
  <2>3. \E recs : Handled(n, recs)
    BY <1>2, ProcessHandles
  <2>4. main' \in [ExportNodes -> MainStates]
    BY <1>0, <2>2 DEF TypesInv
  <2> QED BY <1>a, <1>b, <2>1, <2>2, <2>3, <2>4 DEF TypesInv
<1>3. ASSUME NEW n \in ExportNodes, DrainOwn(n) PROVE TypesInv'
  <2>1. /\ UNCHANGED <<exporterOf, calls, clock, emitted, born, lostBatches>>
        /\ main' = [main EXCEPT ![n] = [at |-> "idle"]] /\ toForward' = [toForward EXCEPT ![n] = <<>>]
    BY <1>3 DEF DrainOwn, MainIdle
  <2>2. \E recs : Handled(n, recs)
    BY <1>3, DrainHandles
  <2>3. main' \in [ExportNodes -> MainStates]
    BY <1>0, <2>1 DEF TypesInv
  <2>4. /\ toForward' \in [ExportNodes -> Seq(1 .. emitted)]
        /\ \A m \in ExportNodes : Len(toForward'[m]) <= MaxQueue
    BY <2>1, ExportNumbers DEF TypesInv
  <2> QED BY <1>a, <1>b, <2>1, <2>2, <2>3, <2>4 DEF TypesInv
<1>4. ASSUME NEW n \in ExportNodes, Forward(n) PROVE TypesInv'
  <2>1. UNCHANGED <<exporterOf, toForward, clock, emitted, born, exportHistory>>
    BY <1>4 DEF Forward
  <2>2. \E recs : Handled(n, recs)
    BY <1>4, ForwardHandles
  <2>3. main' \in [ExportNodes -> MainStates]
    BY <1>0, <1>4 DEF Forward, MainIdle, TypesInv
  <2>4. calls' \subseteq CallRecords
    BY <1>4, ForwardSends DEF TypesInv
  <2> QED BY <1>a, <1>b, <2>1, <2>2, <2>3, <2>4 DEF TypesInv, exportHistory
<1>5. ASSUME NEW call \in calls, Ingest(call) PROVE TypesInv'
  <2>1. UNCHANGED <<exporterOf, main, exporterVars, toForward, clock, emitted, born, exportHistory>>
    BY <1>5 DEF Ingest
  <2>2. calls' \subseteq CallRecords
    BY <1>5 DEF Ingest, CallAt, TypesInv, CallRecords
  <2> QED BY <1>a, <2>1, <2>2 DEF TypesInv, exporterVars, exportHistory
<1>6. ASSUME NEW call \in calls, ApplyBatch(call) PROVE TypesInv'
  <2>1. UNCHANGED <<exporterOf, main, toForward, clock, emitted, born, lostBatches>>
    BY <1>6 DEF ApplyBatch
  <2>2. calls' \subseteq CallRecords
    BY <1>6 DEF ApplyBatch, CallAt, TypesInv, CallRecords
  <2>3. call.to \in ExportNodes
    BY DEF TypesInv, CallRecords
  <2>4. \E recs : Handled(call.to, recs)
    BY <1>6, ApplyHandles
  <2> QED BY <1>a, <1>b, <2>1, <2>2, <2>3, <2>4 DEF TypesInv
<1>7. ASSUME NEW call \in calls, AnswerForward(call) PROVE TypesInv'
  <2>1. UNCHANGED <<exporterOf, exporterVars, clock, emitted, born, exportHistory>> /\ calls' \subseteq calls
    BY <1>7 DEF AnswerForward
  <2>2. /\ main' \in [ExportNodes -> MainStates] /\ toForward' \in [ExportNodes -> Seq(1 .. emitted)]
        /\ \A m \in ExportNodes : Len(toForward'[m]) <= MaxQueue
    BY <1>7, AnswerMoves
  <2> QED BY <1>a, <2>1, <2>2 DEF TypesInv, exporterVars, exportHistory
<1>8. ASSUME NEW call \in calls, Lose(call) PROVE TypesInv'
  <2>1. UNCHANGED <<exporterOf, exporterVars, toForward, clock, emitted, born, dropped, exported>>
    BY <1>8 DEF Lose
  <2>2. main' \in [ExportNodes -> MainStates] /\ calls' \subseteq CallRecords
    BY <1>0, <1>8 DEF Lose, MainIdle, TypesInv, CallRecords
  <2>3. call.records \in Seq(Pertinent) /\ call.ts \in Nat
    BY CallFacts
  <2>4. lostBatches' \subseteq [records : Seq(Pertinent), ts : Nat]
    BY <1>8, <2>3 DEF Lose, TypesInv
  <2> QED BY <1>a, <2>1, <2>2, <2>4 DEF TypesInv, exporterVars
<1>9. ASSUME NEW n \in ExportNodes, ChangeView(n) PROVE TypesInv'
  BY <1>9, <1>a DEF ChangeView, TypesInv, exporterVars, exportHistory
<1>10. CASE PassTime
  <2>1. clock' = clock + 1 /\ UNCHANGED <<exporterOf, main, exporterVars, toForward, calls, emitted, born, exportHistory>>
    BY <1>10 DEF PassTime
  <2>2. /\ MainStates \subseteq MainStates' /\ CallRecords \subseteq CallRecords'
        /\ CountRecords \subseteq CountRecords' /\ 0 .. clock \subseteq 0 .. clock'
    BY <1>0, <2>1, Growth
  <2>3. series' \in [ExportNodes -> [Pertinent -> CountRecords']]
    BY <2>1, <2>2 DEF TypesInv, exporterVars
  <2>4. main' \in [ExportNodes -> MainStates'] /\ calls' \subseteq CallRecords' /\ born' \in [Pertinent -> 0 .. clock']
    BY <2>1, <2>2 DEF TypesInv
  <2> QED BY <1>0, <2>1, <2>3, <2>4 DEF TypesInv, exporterVars, exportHistory
<1>11. CASE UNCHANGED exportVars
  BY <1>11, <1>a DEF exportVars, exporterVars, exportHistory, TypesInv
<1> QED
  BY <1>1, <1>2, <1>3, <1>4, <1>5, <1>6, <1>7, <1>8, <1>9, <1>10, <1>11
  DEF ExportNext, ExportWork, IngestWork

LEMMA TypesInit == ExportInit => TypesInv
<1> SUFFICES ASSUME ExportInit PROVE TypesInv
  OBVIOUS
<1>1. emitted = 0 /\ clock = 0 /\ calls = {} /\ lostBatches = {} /\ 0 \in 0 .. clock
  BY DEF ExportInit
<1>2. NoCount \in CountRecords /\ [at |-> "idle"] \in MainStates
  BY <1>1 DEF NoCount, CountRecords, MainStates
<1>3. series \in [ExportNodes -> [Pertinent -> CountRecords]] /\ main \in [ExportNodes -> MainStates]
  BY <1>2 DEF ExportInit
<1>4. /\ toForward \in [ExportNodes -> Seq(1 .. emitted)]
      /\ \A n \in ExportNodes : Len(toForward[n]) <= MaxQueue
  BY ExportNumbers DEF ExportInit
<1>5. born \in [Pertinent -> 0 .. clock]
  BY <1>1 DEF ExportInit
<1>6. /\ exporterOf \in [ExportNodes -> ExportNodes \cup {NoExporter}]
      /\ DOMAIN wasExporter = ExportNodes
      /\ seenBatches \in [ExportNodes -> SUBSET [id : ExportNodes \X Seq(Pertinent), ts : Nat]]
  BY ExportAssumption DEF ExportInit
<1> QED BY <1>1, <1>3, <1>4, <1>5, <1>6, ExportNumbers DEF TypesInv
-----------------------------------------------------------------------------
(* Owners                                                                  *)

\* A step moves a record from hand to queue at most: what a node holds it held before,
\* or it has just emitted it.
Held ==
  \A m \in ExportNodes :
    /\ Distinct(toForward'[m])
    /\ main'[m].at = "emit" => main'[m].record \notin ToSet(toForward'[m])
    /\ \A r \in Pertinent : Holds(m, r)' =>
         Holds(m, r) \/ (main'[m] # main[m] /\ r = emitted + 1 /\ emitted' = emitted + 1)

\* The calls after a step were there before, or one of them is the new batch of a node
\* that has no other on the way.
From(c) ==
  \/ \E d \in calls : d.from = c.from /\ d.to = c.to /\ d.records = c.records /\ d.ts = c.ts
  \/ \E n \in ExportNodes : c = Call(n) /\ main[n].at = "flush" /\ ToSet(c.records) \subseteq ToSet(toForward[n])

\* A replaced call keeps its batch.
LEMMA StepKeeps ==
  ASSUME TypesInv, NEW call \in calls, NEW step, CallAt(call, step)
  PROVE  \A c \in calls' : \/ c \in calls \ {call}
                           \/ /\ c.from = call.from /\ c.to = call.to /\ c.records = call.records
                              /\ c.ts = call.ts /\ c.awaited = call.awaited /\ c.step = step
BY DEF CallAt, TypesInv, CallRecords

LEMMA LoseKeeps ==
  ASSUME TypesInv, NEW call \in calls, Lose(call)
  PROVE  \A c \in calls' : \/ c \in calls \ {call}
                           \/ /\ c.from = call.from /\ c.to = call.to /\ c.records = call.records
                              /\ c.ts = call.ts /\ c.awaited = FALSE /\ c.step = call.step
BY DEF Lose, TypesInv, CallRecords

LEMMA CallsFrom ==
  TypesInv /\ OwnedInv /\ CallsInv /\ [ExportNext]_exportVars => \A c \in calls' : From(c)
<1> SUFFICES ASSUME TypesInv, CallsInv, [ExportNext]_exportVars, NEW c \in calls' PROVE From(c)
  OBVIOUS
<1>1. ASSUME calls' \subseteq calls PROVE From(c)
  BY <1>1 DEF From
<1>2. ASSUME NEW n \in ExportNodes, NEW purpose \in {"emit", "flush"}, ReadRole(n, purpose)
      PROVE  From(c)
  BY <1>1, <1>2 DEF ReadRole
<1>3. ASSUME NEW n \in ExportNodes, Process(n) \/ DrainOwn(n) \/ ChangeView(n) PROVE From(c)
  BY <1>1, <1>3 DEF Process, DrainOwn, ChangeView
<1>4. ASSUME NEW n \in ExportNodes, Forward(n) PROVE From(c)
  <2>1. /\ main[n].at = "flush" /\ calls' \subseteq calls \cup {Call(n)}
        /\ ToSet(Batch(n)) \subseteq ToSet(toForward[n])
    BY <1>4, ForwardSends
  <2>2. Call(n).records = Batch(n)
    BY DEF Call
  <2> QED BY <2>1, <2>2 DEF From
<1>5. ASSUME NEW call \in calls, Ingest(call) \/ ApplyBatch(call) PROVE From(c)
  <2>1. \E step : CallAt(call, step)
    BY <1>5 DEF Ingest, ApplyBatch
  <2> QED BY <2>1, StepKeeps DEF From
<1>6. ASSUME NEW call \in calls, AnswerForward(call) PROVE From(c)
  BY <1>1, <1>6 DEF AnswerForward
<1>7. ASSUME NEW call \in calls, Lose(call) PROVE From(c)
  BY <1>7, LoseKeeps DEF From
<1>8. CASE PassTime \/ UNCHANGED exportVars
  BY <1>1, <1>8 DEF PassTime, exportVars
<1> QED
  BY <1>2, <1>3, <1>4, <1>5, <1>6, <1>7, <1>8 DEF ExportNext, ExportWork, IngestWork

LEMMA HeldStep == TypesInv /\ OwnedInv /\ CallsInv /\ [ExportNext]_exportVars => Held
<1> SUFFICES ASSUME TypesInv, OwnedInv, CallsInv, [ExportNext]_exportVars PROVE Held
  OBVIOUS
<1>0. \A m \in ExportNodes : /\ main[m] \in MainStates /\ toForward[m] \in Seq(1 .. emitted)
                             /\ Distinct(toForward[m])
                             /\ main[m].at = "emit" => main[m].record \notin ToSet(toForward[m])
  BY DEF TypesInv, OwnedInv
<1>a. ASSUME toForward' = toForward,
             \A m \in ExportNodes : main'[m] = main[m] \/ main'[m].at # "emit"
      PROVE  Held
  BY <1>0, <1>a DEF Held, Holds
<1>1. ASSUME NEW n \in ExportNodes, NEW purpose \in {"emit", "flush"}, ReadRole(n, purpose)
      PROVE  Held
  <2>1. /\ main[n].at = "idle" /\ toForward' = toForward
        /\ main' = [main EXCEPT ![n] = [at |-> purpose, role |-> exporterOf[n], record |-> emitted']]
        /\ purpose = "emit" => emitted' = emitted + 1
    BY <1>1 DEF ReadRole
  <2>2. CASE purpose = "flush"
    <3>1. main'[n].at = "flush" /\ \A m \in ExportNodes \ {n} : main'[m] = main[m]
      BY <2>1, <2>2 DEF TypesInv
    <3> QED BY <1>a, <2>1, <3>1
  <2>3. CASE purpose = "emit"
    <3>1. /\ main'[n].at = "emit" /\ main'[n].record = emitted + 1 /\ emitted' = emitted + 1
          /\ main'[n] # main[n] /\ \A m \in ExportNodes \ {n} : main'[m] = main[m]
      BY <2>1, <2>3 DEF TypesInv
    <3>2. emitted + 1 \notin ToSet(toForward[n])
      <4>1. ToSet(toForward[n]) \subseteq 1 .. emitted
        BY <1>0, Elements
      <4> QED BY <4>1, ExportNumbers DEF TypesInv
    <3> QED BY <1>0, <2>1, <3>1, <3>2 DEF Held, Holds
  <2> QED BY <2>2, <2>3
<1>2. ASSUME NEW n \in ExportNodes, Process(n) PROVE Held
  <2>1. /\ main[n].at = "emit" /\ main' = [main EXCEPT ![n] = [at |-> "idle"]]
        /\ \A m \in ExportNodes \ {n} : toForward'[m] = toForward[m]
        /\ Distinct(toForward'[n])
        /\ ToSet(toForward'[n]) \subseteq ToSet(toForward[n]) \cup {main[n].record}
    BY <1>2, ProcessMoves
  <2>2. main'[n].at = "idle" /\ \A m \in ExportNodes \ {n} : main'[m] = main[m]
    BY <2>1 DEF TypesInv
  <2> QED BY <1>0, <2>1, <2>2 DEF Held, Holds
<1>3. ASSUME NEW n \in ExportNodes, DrainOwn(n) PROVE Held
  <2>1. main' = [main EXCEPT ![n] = [at |-> "idle"]] /\ toForward' = [toForward EXCEPT ![n] = <<>>]
    BY <1>3 DEF DrainOwn, MainIdle
  <2>2. /\ main'[n].at = "idle" /\ \A m \in ExportNodes \ {n} : main'[m] = main[m]
        /\ toForward'[n] = <<>> /\ \A m \in ExportNodes \ {n} : toForward'[m] = toForward[m]
    BY <2>1 DEF TypesInv
  <2>3. Distinct(<<>>) /\ ToSet(<<>>) = {}
    BY DEF Distinct, ToSet
  <2> QED BY <1>0, <2>2, <2>3 DEF Held, Holds
<1>4. ASSUME NEW n \in ExportNodes, Forward(n) PROVE Held
  <2>1. \/ main' = [main EXCEPT ![n] = [at |-> "idle"]]
        \/ main' = [main EXCEPT ![n] = [at |-> "post"]]
    BY <1>4, ForwardSends
  <2>2. \A m \in ExportNodes : main'[m] = main[m] \/ main'[m].at # "emit"
    BY <2>1 DEF TypesInv
  <2>3. toForward' = toForward
    BY <1>4 DEF Forward
  <2> QED BY <1>a, <2>2, <2>3
<1>5. ASSUME NEW call \in calls, Ingest(call) \/ ApplyBatch(call) PROVE Held
  BY <1>a, <1>5 DEF Ingest, ApplyBatch
<1>6. ASSUME NEW call \in calls, AnswerForward(call) PROVE Held
  <2>1. call.from \in ExportNodes /\ call.awaited \in BOOLEAN
    BY CallFacts
  <2>2. /\ \A m \in ExportNodes : /\ ToSet(toForward'[m]) \subseteq ToSet(toForward[m])
                                  /\ Distinct(toForward[m]) => Distinct(toForward'[m])
        /\ \A m \in ExportNodes : main'[m] = main[m] \/ main'[m].at # "emit"
    <3>1. /\ \A m \in ExportNodes \ {call.from} : main'[m] = main[m]
          /\ ~call.awaited => main' = main
          /\ call.awaited => main'[call.from].at = "idle"
      BY <1>6, AnswerMoves
    <3>2. \A m \in ExportNodes : /\ ToSet(toForward'[m]) \subseteq ToSet(toForward[m])
                                 /\ Distinct(toForward[m]) => Distinct(toForward'[m])
      BY <1>6, AnswerMoves
    <3> QED BY <2>1, <3>1, <3>2
  <2> QED BY <1>0, <2>2 DEF Held, Holds
<1>7. ASSUME NEW call \in calls, Lose(call) PROVE Held
  <2>1. main' = [main EXCEPT ![call.from] = [at |-> "idle"]] /\ toForward' = toForward
    BY <1>7 DEF Lose, MainIdle
  <2>2. \A m \in ExportNodes : main'[m] = main[m] \/ main'[m].at # "emit"
    BY <2>1 DEF TypesInv
  <2> QED BY <1>a, <2>1, <2>2
<1>8. ASSUME NEW n \in ExportNodes, ChangeView(n) PROVE Held
  BY <1>a, <1>8 DEF ChangeView
<1>9. CASE PassTime \/ UNCHANGED exportVars
  BY <1>a, <1>9 DEF PassTime, exportVars
<1> QED
  BY <1>1, <1>2, <1>3, <1>4, <1>5, <1>6, <1>7, <1>8, <1>9 DEF ExportNext, ExportWork, IngestWork

LEMMA OwnedStep ==
  TypesInv /\ OwnedInv /\ CallsInv /\ [ExportNext]_exportVars => OwnedInv'
<1> SUFFICES ASSUME TypesInv, OwnedInv, CallsInv, [ExportNext]_exportVars PROVE OwnedInv'
  OBVIOUS
<1>1. Held /\ \A c \in calls' : From(c)
  BY HeldStep, CallsFrom
<1> DEFINE New(m, r) == main'[m] # main[m] /\ r = emitted + 1 /\ emitted' = emitted + 1
<1>2. ASSUME NEW m \in ExportNodes, NEW r \in Pertinent, Owns(m, r)' PROVE Owns(m, r) \/ New(m, r)
  <2>1. CASE Holds(m, r)'
    BY <1>1, <2>1 DEF Held, Owns
  <2>2. ASSUME NEW c \in calls', c.from = m, r \in ToSet(c.records) PROVE Owns(m, r)
    <3>1. CASE \E d \in calls : d.from = c.from /\ d.records = c.records
      BY <2>2, <3>1 DEF Owns
    <3>2. ASSUME NEW n \in ExportNodes, c = Call(n), ToSet(c.records) \subseteq ToSet(toForward[n])
          PROVE  Owns(m, r)
      <4>1. c.from = n
        BY <3>2 DEF Call
      <4> QED BY <2>2, <3>2, <4>1 DEF Owns, Holds
    <3> QED BY <1>1, <2>2, <3>1, <3>2 DEF From
  <2> QED BY <1>2, <2>1, <2>2 DEF Owns
<1>3. ASSUME NEW m \in ExportNodes PROVE ~Owns(m, emitted + 1)
  <2>1. emitted \in Nat
    BY DEF TypesInv
  <2>2. toForward[m] \in Seq(1 .. emitted) /\ main[m] \in MainStates
    BY DEF TypesInv
  <2>3. ToSet(toForward[m]) \subseteq 1 .. emitted
    BY <2>2, Elements
  <2>4. main[m].at = "emit" => main[m].record \in 1 .. emitted
    BY <2>2 DEF MainStates
  <2>5. \A c \in calls : ToSet(c.records) \subseteq 1 .. emitted
    BY CallFacts
  <2> QED BY <2>1, <2>3, <2>4, <2>5 DEF Owns, Holds
<1>4. ASSUME NEW m \in ExportNodes, NEW n \in ExportNodes, main'[m] # main[m], main'[n] # main[n]
      PROVE  m = n
  <2>1. ASSUME NEW k \in ExportNodes, \A j \in ExportNodes \ {k} : main'[j] = main[j] PROVE m = n
    BY <1>4, <2>1
  <2>2. ASSUME NEW k \in ExportNodes, NEW s, main' = [main EXCEPT ![k] = s] PROVE m = n
    <3>1. \A j \in ExportNodes \ {k} : main'[j] = main[j]
      BY <2>2 DEF TypesInv
    <3> QED BY <2>1, <3>1
  <2>3. ASSUME NEW k \in ExportNodes, NEW purpose \in {"emit", "flush"}, ReadRole(k, purpose) PROVE m = n
    BY <2>2, <2>3 DEF ReadRole
  <2>4. ASSUME NEW k \in ExportNodes, Process(k) \/ DrainOwn(k) PROVE m = n
    BY <2>2, <2>4 DEF Process, DrainOwn, MainIdle
  <2>5. ASSUME NEW k \in ExportNodes, Forward(k) PROVE m = n
    <3>1. \/ main' = [main EXCEPT ![k] = [at |-> "idle"]]
          \/ main' = [main EXCEPT ![k] = [at |-> "post"]]
      BY <2>5, ForwardSends
    <3> QED BY <2>2, <3>1
  <2>6. ASSUME NEW call \in calls, Ingest(call) \/ ApplyBatch(call) PROVE m = n
    BY <1>4, <2>6 DEF Ingest, ApplyBatch
  <2>7. ASSUME NEW call \in calls, AnswerForward(call) PROVE m = n
    <3>1. call.from \in ExportNodes
      BY CallFacts
    <3>2. \A j \in ExportNodes \ {call.from} : main'[j] = main[j]
      BY <2>7, AnswerMoves
    <3> QED BY <2>1, <3>1, <3>2
  <2>8. ASSUME NEW call \in calls, Lose(call) PROVE m = n
    <3>1. call.from \in ExportNodes
      BY CallFacts
    <3> QED BY <2>2, <2>8, <3>1 DEF Lose, MainIdle
  <2>9. ASSUME main' = main PROVE m = n
    BY <1>4, <2>9
  <2>10. ASSUME NEW k \in ExportNodes, ChangeView(k) PROVE m = n
    BY <2>9, <2>10 DEF ChangeView
  <2>11. CASE PassTime \/ UNCHANGED exportVars
    BY <2>9, <2>11 DEF PassTime, exportVars
  <2> QED
    BY <2>3, <2>4, <2>5, <2>6, <2>7, <2>8, <2>10, <2>11 DEF ExportNext, ExportWork, IngestWork
<1>5. \A n, m \in ExportNodes : \A r \in Pertinent : Owns(n, r)' /\ Owns(m, r)' => n = m
  <2> SUFFICES ASSUME NEW n \in ExportNodes, NEW m \in ExportNodes, NEW r \in Pertinent,
                      Owns(n, r)', Owns(m, r)'
               PROVE  n = m
    OBVIOUS
  <2>1. (Owns(n, r) \/ New(n, r)) /\ (Owns(m, r) \/ New(m, r))
    BY <1>2
  <2>2. CASE Owns(n, r) /\ Owns(m, r)
    BY <2>2 DEF OwnedInv
  <2>3. CASE New(n, r) /\ New(m, r)
    BY <1>4, <2>3
  <2> QED BY <1>3, <2>1, <2>2, <2>3
<1>6. \A n \in ExportNodes : /\ Distinct(toForward'[n])
                             /\ main'[n].at = "emit" => main'[n].record \notin ToSet(toForward'[n])
  BY <1>1 DEF Held
<1> QED BY <1>5, <1>6 DEF OwnedInv, Distinct
-----------------------------------------------------------------------------
(* Calls                                                                   *)

CallOK(c) ==
  /\ c.from # c.to
  /\ c.awaited => /\ main[c.from].at = "post" /\ Len(c.records) <= Len(toForward[c.from])
                  /\ c.records = SubSeq(toForward[c.from], 1, Len(c.records))
                  /\ \A d \in calls : c.from = d.from => d.ts <= c.ts /\ (d.awaited => d = c)
  /\ ~c.awaited => [records |-> c.records, ts |-> c.ts] \in lostBatches
  /\ c.step = "admitted" => clock - c.ts <= BatchTtl

\* The calls of a node whose task and queue did not change, when none was added.
LEMMA CallKept ==
  ASSUME CallsInv, NEW c \in calls, clock' = clock \/ c.step # "admitted", lostBatches \subseteq lostBatches',
         c.awaited => /\ main'[c.from] = main[c.from] /\ toForward'[c.from] = toForward[c.from]
                      /\ \A d \in calls' : d.from = c.from => d.ts <= c.ts /\ (d.awaited => d = c)
  PROVE  CallOK(c)'
BY DEF CallsInv, CallOK

LEMMA CallsStep ==
  TypesInv /\ OwnedInv /\ CallsInv /\ [ExportNext]_exportVars => CallsInv'
<1> SUFFICES ASSUME TypesInv, OwnedInv, CallsInv, [ExportNext]_exportVars PROVE \A c \in calls' : CallOK(c)'
  BY DEF CallsInv, CallOK
<1>0. \A c \in calls : CallOK(c)
  BY DEF CallsInv, CallOK
<1>a. ASSUME NEW n \in ExportNodes, main[n].at # "post", calls' = calls, clock' = clock,
             lostBatches' = lostBatches,
             \A m \in ExportNodes \ {n} : main'[m] = main[m] /\ toForward'[m] = toForward[m]
      PROVE  \A c \in calls' : CallOK(c)'
  <2> SUFFICES ASSUME NEW c \in calls PROVE CallOK(c)'
    BY <1>a
  <2>1. c.from \in ExportNodes
    BY CallFacts
  <2>2. c.awaited => c.from # n /\ \A d \in calls : d.from = c.from => d.ts <= c.ts /\ (d.awaited => d = c)
    BY <1>a DEF CallsInv
  <2> QED BY <1>a, <2>1, <2>2, CallKept
<1>1. ASSUME NEW n \in ExportNodes, NEW purpose \in {"emit", "flush"}, ReadRole(n, purpose)
      PROVE  \A c \in calls' : CallOK(c)'
  <2>1. /\ main[n].at = "idle" /\ calls' = calls /\ clock' = clock /\ lostBatches' = lostBatches
        /\ main' = [main EXCEPT ![n] = [at |-> purpose, role |-> exporterOf[n], record |-> emitted']]
        /\ toForward' = toForward
    BY <1>1 DEF ReadRole, exportHistory
  <2>2. \A m \in ExportNodes \ {n} : main'[m] = main[m] /\ toForward'[m] = toForward[m]
    BY <2>1 DEF TypesInv
  <2> QED BY <1>a, <2>1, <2>2
<1>2. ASSUME NEW n \in ExportNodes, Process(n) PROVE \A c \in calls' : CallOK(c)'
  <2>1. /\ main[n].at = "emit" /\ main' = [main EXCEPT ![n] = [at |-> "idle"]]
        /\ \A m \in ExportNodes \ {n} : toForward'[m] = toForward[m]
    BY <1>2, ProcessMoves
  <2>2. \A m \in ExportNodes \ {n} : main'[m] = main[m] /\ toForward'[m] = toForward[m]
    BY <2>1 DEF TypesInv
  <2> QED BY <1>2, <1>a, <2>1, <2>2 DEF Process
<1>3. ASSUME NEW n \in ExportNodes, DrainOwn(n) PROVE \A c \in calls' : CallOK(c)'
  <2>1. /\ main[n].at = "flush" /\ main' = [main EXCEPT ![n] = [at |-> "idle"]]
        /\ toForward' = [toForward EXCEPT ![n] = <<>>]
    BY <1>3 DEF DrainOwn, MainIdle
  <2>2. \A m \in ExportNodes \ {n} : main'[m] = main[m] /\ toForward'[m] = toForward[m]
    BY <2>1 DEF TypesInv
  <2> QED BY <1>3, <1>a, <2>1, <2>2 DEF DrainOwn
<1>4. ASSUME NEW n \in ExportNodes, Forward(n) PROVE \A c \in calls' : CallOK(c)'
  <2>1. /\ main[n].at = "flush" /\ main[n].role # n
        /\ \/ main' = [main EXCEPT ![n] = [at |-> "idle"]] /\ calls' = calls
           \/ main' = [main EXCEPT ![n] = [at |-> "post"]] /\ calls' = calls \cup {Call(n)}
        /\ Len(Batch(n)) <= Len(toForward[n]) /\ Batch(n) = SubSeq(toForward[n], 1, Len(Batch(n)))
    BY <1>4, ForwardSends
  <2>2. toForward' = toForward /\ clock' = clock /\ lostBatches' = lostBatches
    BY <1>4 DEF Forward, exportHistory
  <2>3. \A m \in ExportNodes \ {n} : main'[m] = main[m] /\ toForward'[m] = toForward[m]
    BY <2>1, <2>2 DEF TypesInv
  <2>4. CASE calls' = calls
    BY <1>a, <2>1, <2>2, <2>3, <2>4
  <2>5. CASE main' = [main EXCEPT ![n] = [at |-> "post"]] /\ calls' = calls \cup {Call(n)}
    <3>1. /\ Call(n).from = n /\ Call(n).to = main[n].role /\ Call(n).records = Batch(n)
          /\ Call(n).ts = clock /\ Call(n).step = "sent" /\ Call(n).awaited = TRUE
      BY DEF Call
    <3>2. main'[n].at = "post"
      BY <2>5 DEF TypesInv
    <3>3. \A d \in calls : d.ts <= clock /\ (d.from = n => ~d.awaited)
      <4> SUFFICES ASSUME NEW d \in calls PROVE d.ts <= clock /\ (d.from = n => ~d.awaited)
        OBVIOUS
      <4>1. d.ts <= clock
        BY CallFacts
      <4>2. d.from = n => ~d.awaited
        BY <2>1 DEF CallsInv
      <4> QED BY <4>1, <4>2
    <3>4. ASSUME NEW c, c = Call(n) PROVE CallOK(c)'
      <4>1. \A d \in calls' : d.from = n => d.ts <= clock /\ (d.awaited => d = Call(n))
        BY <2>5, <3>1, <3>3 DEF TypesInv
      <4> HIDE DEF Call
      <4>2. Call(n).from # Call(n).to /\ Call(n).awaited /\ Call(n).step # "admitted"
        BY <2>1, <3>1
      <4>3. /\ main'[n].at = "post" /\ Len(Call(n).records) <= Len(toForward'[n])
            /\ Call(n).records = SubSeq(toForward'[n], 1, Len(Call(n).records))
        BY <2>1, <2>2, <3>1, <3>2
      <4> QED BY <3>1, <3>4, <4>1, <4>2, <4>3 DEF CallOK
    <3>5. ASSUME NEW c \in calls PROVE CallOK(c)'
      <4>1. c.from \in ExportNodes
        BY CallFacts
      <4>2. c.awaited => c.from # n /\ \A d \in calls : d.from = c.from => d.ts <= c.ts /\ (d.awaited => d = c)
        BY <3>3 DEF CallsInv
      <4>3. c.awaited => \A d \in calls' : d.from = c.from => d.ts <= c.ts /\ (d.awaited => d = c)
        BY <2>5, <3>1, <4>2
      <4> QED BY <2>2, <2>3, <4>1, <4>2, <4>3, CallKept
    <3>6. calls' = calls \cup {Call(n)}
      BY <2>5
    <3> HIDE DEF Call
    <3> QED BY <3>4, <3>5, <3>6
  <2> QED BY <2>1, <2>4, <2>5
<1>5. ASSUME NEW call \in calls, Ingest(call) \/ ApplyBatch(call) PROVE \A c \in calls' : CallOK(c)'
  <2>1. /\ UNCHANGED <<main, toForward, clock, lostBatches>>
        /\ \E step : CallAt(call, step) /\ (step = "admitted" => clock - call.ts <= BatchTtl)
    BY <1>5 DEF Ingest, ApplyBatch, exportHistory
  <2>2. PICK step : CallAt(call, step) /\ (step = "admitted" => clock - call.ts <= BatchTtl)
    BY <2>1
  <2>3. \A c \in calls' : \/ c \in calls \ {call}
                          \/ /\ c.from = call.from /\ c.to = call.to /\ c.records = call.records
                             /\ c.ts = call.ts /\ c.awaited = call.awaited /\ c.step = step
    BY <2>2, StepKeeps
  <2>4. calls' = (calls \ {call}) \cup {[call EXCEPT !.step = step]}
    BY <2>2 DEF CallAt
  <2> DEFINE new == [call EXCEPT !.step = step]
  <2>5. new.from = call.from /\ new.to = call.to /\ new.records = call.records
        /\ new.ts = call.ts /\ new.awaited = call.awaited /\ new.step = step
    BY DEF TypesInv, CallRecords
  <2>6. calls' = (calls \ {call}) \cup {new}
    BY <2>4
  <2> HIDE DEF new
  <2>7. ASSUME NEW c \in calls \ {call} PROVE CallOK(c)'
    <3>1. c.awaited => \A d \in calls : d.from = c.from => d.ts <= c.ts /\ (d.awaited => d = c)
      BY DEF CallsInv
    <3>2. c.awaited => \A d \in calls' : d.from = c.from => d.ts <= c.ts /\ (d.awaited => d = c)
      BY <2>5, <2>6, <3>1
    <3> QED BY <2>1, <3>2, CallKept
  <2>8. CallOK(new)'
    <3>1. call.awaited => \A d \in calls : d.from = call.from => d.ts <= call.ts /\ (d.awaited => d = call)
      BY DEF CallsInv
    <3>2. call.awaited => \A d \in calls' : d.from = call.from => d.ts <= call.ts /\ (d.awaited => d = new)
      BY <2>5, <2>6, <3>1
    <3>3. CallOK(call)
      BY <1>0
    <3>4. ASSUME NEW c, c = new PROVE CallOK(c)'
      BY <2>1, <2>2, <2>5, <3>2, <3>3, <3>4 DEF CallOK
    <3>5. \A c \in {new} : CallOK(c)'
      BY <3>4
    <3> QED BY <3>5
  <2> QED BY <2>6, <2>7, <2>8
<1>6. ASSUME NEW call \in calls, AnswerForward(call) PROVE \A c \in calls' : CallOK(c)'
  <2>1. calls' = calls \ {call} /\ clock' = clock /\ lostBatches' = lostBatches
    BY <1>6 DEF AnswerForward, exportHistory
  <2>2. call.from \in ExportNodes /\ call.awaited \in BOOLEAN
    BY CallFacts
  <2>3. /\ \A m \in ExportNodes \ {call.from} : main'[m] = main[m] /\ toForward'[m] = toForward[m]
        /\ ~call.awaited => main' = main /\ toForward' = toForward
    BY <1>6, AnswerMoves
  <2> SUFFICES ASSUME NEW c \in calls \ {call} PROVE CallOK(c)'
    BY <2>1
  <2>4. c.from \in ExportNodes
    BY CallFacts
  <2>5. c.awaited => \A d \in calls : d.from = c.from => d.ts <= c.ts /\ (d.awaited => d = c)
    BY DEF CallsInv
  <2>6. c.awaited => main'[c.from] = main[c.from] /\ toForward'[c.from] = toForward[c.from]
    BY <2>2, <2>3, <2>4, <2>5
  <2>7. c.awaited => \A d \in calls' : d.from = c.from => d.ts <= c.ts /\ (d.awaited => d = c)
    BY <2>1, <2>5
  <2> QED BY <2>1, <2>6, <2>7, CallKept
<1>7. ASSUME NEW call \in calls, Lose(call) PROVE \A c \in calls' : CallOK(c)'
  <2>1. /\ call.awaited /\ UNCHANGED <<toForward, clock>>
        /\ main' = [main EXCEPT ![call.from] = [at |-> "idle"]]
        /\ lostBatches' = lostBatches \cup {[records |-> call.records, ts |-> call.ts]}
        /\ calls' \subseteq (calls \ {call}) \cup {[call EXCEPT !.awaited = FALSE]}
    BY <1>7 DEF Lose, MainIdle
  <2> DEFINE new == [call EXCEPT !.awaited = FALSE]
  <2>2. /\ new.from = call.from /\ new.to = call.to /\ new.records = call.records
        /\ new.ts = call.ts /\ new.awaited = FALSE /\ new.step = call.step
    BY DEF TypesInv, CallRecords
  <2>3. calls' \subseteq (calls \ {call}) \cup {new}
    BY <2>1
  <2> HIDE DEF new
  <2>4. ASSUME NEW c \in calls \ {call} PROVE CallOK(c)'
    <3>1. c.awaited => \A d \in calls : d.from = c.from => d.ts <= c.ts /\ (d.awaited => d = c)
      BY DEF CallsInv
    <3>2. c.awaited => \A d \in calls' : d.from = c.from => d.ts <= c.ts /\ (d.awaited => d = c)
      BY <2>2, <2>3, <3>1
    <3>3. c.from \in ExportNodes /\ (c.awaited => c.from # call.from)
      BY <2>1, <3>1, CallFacts
    <3>4. c.awaited => main'[c.from] = main[c.from]
      BY <2>1, <3>3 DEF TypesInv
    <3> QED BY <2>1, <3>2, <3>4, CallKept
  <2>5. CallOK(new)'
    <3>1. CallOK(call)
      BY <1>0
    <3>2. ASSUME NEW c, c = new PROVE CallOK(c)'
      BY <2>1, <2>2, <3>1, <3>2 DEF CallOK
    <3>3. \A c \in {new} : CallOK(c)'
      BY <3>2
    <3> QED BY <3>3
  <2> QED BY <2>3, <2>4, <2>5
<1>8. CASE PassTime
  <2>1. /\ UNCHANGED <<main, toForward, calls, lostBatches>>
        /\ \A c \in calls : c.step # "admitted"
    BY <1>8 DEF PassTime, exportHistory
  <2> QED BY <1>0, <2>1 DEF CallOK
<1>9. ASSUME NEW n \in ExportNodes, ChangeView(n) PROVE \A c \in calls' : CallOK(c)'
  BY <1>0, <1>9 DEF ChangeView, exportHistory, CallOK
<1>10. CASE UNCHANGED exportVars
  BY <1>0, <1>10 DEF exportVars, exportHistory, CallOK
<1> QED
  BY <1>1, <1>2, <1>3, <1>4, <1>5, <1>6, <1>7, <1>8, <1>9, <1>10 DEF ExportNext, ExportWork, IngestWork
-----------------------------------------------------------------------------
(* What was counted                                                        *)

\* A step that emits nothing, and counts and drops no more than it says.
LEMMA ExportedKept ==
  ASSUME ExportedInv, emitted' = emitted, dropped \subseteq dropped', exported \subseteq exported',
         dropped' \cup exported' \subseteq 1 .. emitted,
         \A n \in ExportNodes : \A r \in 1 .. emitted : Holds(n, r) => Holds(n, r)' \/ r \in dropped' \cup exported',
         \A c \in calls' : c.step = "accepted" =>
           \/ ToSet(c.records) \subseteq exported'
           \/ \E d \in calls : d.step = "accepted" /\ d.records = c.records,
         \A n \in ExportNodes : \A s \in seenBatches'[n] :
           s \in seenBatches[n] \/ ToSet(s.id[2]) \subseteq exported',
         \A n \in ExportNodes, r \in Pertinent :
           series'[n][r].count > 0 => series[n][r].count > 0 \/ r \in exported'
  PROVE  ExportedInv'
<1>1. \A r \in 1 .. emitted' : (\E n \in ExportNodes : Holds(n, r)') \/ r \in dropped' \cup exported'
  BY DEF ExportedInv
<1>2. \A c \in calls' : c.step = "accepted" => ToSet(c.records) \subseteq exported'
  BY DEF ExportedInv
<1>3. \A n \in ExportNodes : \A s \in seenBatches'[n] : ToSet(s.id[2]) \subseteq exported'
  BY DEF ExportedInv
<1>4. \A n \in ExportNodes, r \in Pertinent : series'[n][r].count > 0 => r \in exported'
  BY DEF ExportedInv
<1> QED BY <1>1, <1>2, <1>3, <1>4 DEF ExportedInv, ToSet

\* A handler counts what it counts, and no other node's state changes.
LEMMA HandledCounts ==
  ASSUME TypesInv, NEW n \in ExportNodes, NEW recs, Handled(n, recs),
         NEW m \in ExportNodes, NEW r \in Pertinent, series'[m][r].count > 0
  PROVE  series[m][r].count > 0 \/ r \in recs
<1>1. CASE m = n
  <2>1. r \notin recs => series'[n][r].count \in {0, series[n][r].count}
    BY DEF Handled
  <2> QED BY <1>1, <2>1
<1>2. CASE m # n
  BY <1>2 DEF Handled
<1> QED BY <1>1, <1>2

LEMMA ExportedStep ==
  TypesInv /\ OwnedInv /\ CallsInv /\ ExportedInv /\ [ExportNext]_exportVars => ExportedInv'
<1> SUFFICES ASSUME TypesInv, OwnedInv, CallsInv, ExportedInv, [ExportNext]_exportVars PROVE ExportedInv'
  OBVIOUS
<1>0. /\ \A m \in ExportNodes : ToSet(toForward[m]) \subseteq 1 .. emitted
      /\ dropped \cup exported \subseteq 1 .. emitted
  <2>1. \A m \in ExportNodes : toForward[m] \in Seq(1 .. emitted)
    BY DEF TypesInv
  <2> QED BY <2>1, Elements DEF ExportedInv
\* the tasks of the nodes, the exporters' state and the calls in turn
<1>a. ASSUME toForward' = toForward,
             \A m \in ExportNodes : main[m].at = "emit" => main'[m] = main[m]
      PROVE  \A m \in ExportNodes : \A r \in 1 .. emitted : Holds(m, r) => Holds(m, r)'
  BY <1>a DEF Holds
<1>b. ASSUME NEW n \in ExportNodes, NEW recs, Handled(n, recs), recs \subseteq exported',
             seenBatches'[n] \subseteq seenBatches[n]
      PROVE  /\ \A m \in ExportNodes : \A s \in seenBatches'[m] :
                  s \in seenBatches[m] \/ ToSet(s.id[2]) \subseteq exported'
             /\ \A m \in ExportNodes, r \in Pertinent :
                  series'[m][r].count > 0 => series[m][r].count > 0 \/ r \in exported'
  <2>1. \A m \in ExportNodes : seenBatches'[m] \subseteq seenBatches[m]
    BY <1>b DEF Handled
  <2>2. \A m \in ExportNodes, r \in Pertinent :
          series'[m][r].count > 0 => series[m][r].count > 0 \/ r \in exported'
    BY <1>b, HandledCounts
  <2> QED BY <2>1, <2>2
<1>1. ASSUME NEW n \in ExportNodes, NEW purpose \in {"emit", "flush"}, ReadRole(n, purpose)
      PROVE  ExportedInv'
  <2>1. /\ main[n].at = "idle" /\ emitted' = (IF purpose = "emit" THEN emitted + 1 ELSE emitted)
        /\ main' = [main EXCEPT ![n] = [at |-> purpose, role |-> exporterOf[n], record |-> emitted']]
        /\ UNCHANGED <<series, seenBatches, toForward, calls, dropped, exported>>
    BY <1>1 DEF ReadRole, exporterVars, exportHistory
  <2>2. /\ main'[n].at = purpose /\ main'[n].record = emitted'
        /\ \A m \in ExportNodes \ {n} : main'[m] = main[m]
    BY <2>1 DEF TypesInv
  <2>3. \A m \in ExportNodes : \A r \in 1 .. emitted : Holds(m, r) => Holds(m, r)'
    BY <1>a, <2>1, <2>2
  <2>4. \A r : purpose = "emit" /\ r = emitted' => Holds(n, r)'
    BY <2>2 DEF Holds
  <2>5. \A r \in 1 .. emitted' : r \in 1 .. emitted \/ (purpose = "emit" /\ r = emitted')
    BY <2>1 DEF TypesInv
  <2>6. 1 .. emitted \subseteq 1 .. emitted'
    BY <2>1 DEF TypesInv
  <2>7. \A r \in 1 .. emitted' : (\E m \in ExportNodes : Holds(m, r)') \/ r \in dropped' \cup exported'
    BY <2>1, <2>3, <2>4, <2>5 DEF ExportedInv
  <2>8. dropped' \subseteq 1 .. emitted' /\ exported' \subseteq 1 .. emitted'
    BY <2>1, <2>6 DEF ExportedInv
  <2> QED BY <2>1, <2>7, <2>8 DEF ExportedInv, ToSet
<1>2. ASSUME NEW n \in ExportNodes, Process(n) PROVE ExportedInv'
  <2> DEFINE r == main[n].record
  <2>1. /\ main[n].at = "emit" /\ r \in 1 .. emitted /\ main' = [main EXCEPT ![n] = [at |-> "idle"]]
        /\ \A m \in ExportNodes \ {n} : toForward'[m] = toForward[m]
        /\ ToSet(toForward[n]) \cup {r} \subseteq ToSet(toForward'[n]) \cup dropped' \cup exported'
        /\ dropped \subseteq dropped' /\ exported \subseteq exported'
        /\ dropped' \cup exported' \subseteq dropped \cup exported \cup ToSet(toForward[n]) \cup {r}
        /\ main[n].role = n => exported' = exported \cup {r}
    BY <1>2, ProcessMoves
  <2>2. /\ Handled(n, IF main[n].role = n THEN {r} ELSE {}) /\ seenBatches'[n] \subseteq seenBatches[n]
    BY <1>2, ProcessHandles
  <2>3. calls' = calls /\ emitted' = emitted
    BY <1>2 DEF Process
  <2> HIDE DEF r
  <2>4. \A m \in ExportNodes : \A x \in 1 .. emitted :
          Holds(m, x) => Holds(m, x)' \/ x \in dropped' \cup exported'
    <3>1. \A m \in ExportNodes \ {n} : main'[m] = main[m]
      BY <2>1 DEF TypesInv
    <3>2. ASSUME NEW x, Holds(n, x) PROVE Holds(n, x)' \/ x \in dropped' \cup exported'
      BY <2>1, <3>2 DEF Holds, r
    <3>3. ASSUME NEW m \in ExportNodes \ {n}, NEW x, Holds(m, x) PROVE Holds(m, x)'
      BY <2>1, <3>1, <3>3 DEF Holds
    <3> QED BY <3>2, <3>3
  <2>5. dropped' \cup exported' \subseteq 1 .. emitted
    BY <1>0, <2>1
  <2>6. (IF main[n].role = n THEN {r} ELSE {}) \subseteq exported'
    BY <2>1
  <2>7. /\ \A m \in ExportNodes : \A s \in seenBatches'[m] :
             s \in seenBatches[m] \/ ToSet(s.id[2]) \subseteq exported'
        /\ \A m \in ExportNodes, x \in Pertinent :
             series'[m][x].count > 0 => series[m][x].count > 0 \/ x \in exported'
    BY <1>b, <2>2, <2>6
  <2> QED BY <2>1, <2>3, <2>4, <2>5, <2>7, ExportedKept
<1>3. ASSUME NEW n \in ExportNodes, DrainOwn(n) PROVE ExportedInv'
  <2>1. /\ main[n].at = "flush" /\ main' = [main EXCEPT ![n] = [at |-> "idle"]]
        /\ toForward' = [toForward EXCEPT ![n] = <<>>] /\ exported' = exported \cup ToSet(toForward[n])
        /\ UNCHANGED <<calls, emitted, dropped>>
    BY <1>3 DEF DrainOwn, MainIdle
  <2>2. Handled(n, ToSet(toForward[n])) /\ seenBatches'[n] \subseteq seenBatches[n]
    BY <1>3, DrainHandles
  <2>3. \A m \in ExportNodes \ {n} : main'[m] = main[m] /\ toForward'[m] = toForward[m]
    BY <2>1 DEF TypesInv
  <2>4. \A m \in ExportNodes : \A x \in 1 .. emitted :
          Holds(m, x) => Holds(m, x)' \/ x \in dropped' \cup exported'
    <3>1. ASSUME NEW x, Holds(n, x) PROVE x \in exported'
      BY <2>1, <3>1 DEF Holds
    <3>2. ASSUME NEW m \in ExportNodes \ {n}, NEW x, Holds(m, x) PROVE Holds(m, x)'
      BY <2>3, <3>2 DEF Holds
    <3> QED BY <3>1, <3>2
  <2>5. dropped' \cup exported' \subseteq 1 .. emitted
    BY <1>0, <2>1
  <2>6. ToSet(toForward[n]) \subseteq exported'
    BY <2>1
  <2>7. /\ \A m \in ExportNodes : \A s \in seenBatches'[m] :
             s \in seenBatches[m] \/ ToSet(s.id[2]) \subseteq exported'
        /\ \A m \in ExportNodes, x \in Pertinent :
             series'[m][x].count > 0 => series[m][x].count > 0 \/ x \in exported'
    BY <1>b, <2>2, <2>6
  <2> QED BY <2>1, <2>4, <2>5, <2>7, ExportedKept
<1>4. ASSUME NEW n \in ExportNodes, Forward(n) PROVE ExportedInv'
  <2>1. /\ main[n].at = "flush"
        /\ \/ main' = [main EXCEPT ![n] = [at |-> "idle"]] /\ calls' = calls
           \/ main' = [main EXCEPT ![n] = [at |-> "post"]] /\ calls' = calls \cup {Call(n)}
    BY <1>4, ForwardSends
  <2>2. UNCHANGED <<toForward, emitted, dropped, exported>>
    BY <1>4 DEF Forward, exportHistory
  <2>3. Handled(n, {}) /\ seenBatches'[n] \subseteq seenBatches[n]
    BY <1>4, ForwardHandles
  <2>4. \A m \in ExportNodes : main[m].at = "emit" => main'[m] = main[m]
    BY <2>1 DEF TypesInv
  <2>5. Call(n).step # "accepted"
    BY DEF Call
  <2> HIDE DEF Call
  <2>6. \A m \in ExportNodes : \A x \in 1 .. emitted : Holds(m, x) => Holds(m, x)'
    BY <1>a, <2>2, <2>4
  <2>7. /\ \A m \in ExportNodes : \A s \in seenBatches'[m] :
             s \in seenBatches[m] \/ ToSet(s.id[2]) \subseteq exported'
        /\ \A m \in ExportNodes, x \in Pertinent :
             series'[m][x].count > 0 => series[m][x].count > 0 \/ x \in exported'
    BY <1>b, <2>3
  <2>8. \A c \in calls' : c.step = "accepted" => c \in calls
    BY <2>1, <2>5
  <2> QED BY <1>0, <2>2, <2>6, <2>7, <2>8, ExportedKept
\* steps that leave the exporters as they are
<1>c. ASSUME UNCHANGED <<series, seenBatches, toForward, emitted, dropped, exported>>,
             \A m \in ExportNodes : main[m].at = "emit" => main'[m] = main[m],
             \A c \in calls' : c.step = "accepted" => \E d \in calls : d.step = "accepted" /\ d.records = c.records
      PROVE  ExportedInv'
  <2>1. \A m \in ExportNodes : \A x \in 1 .. emitted : Holds(m, x) => Holds(m, x)'
    BY <1>a, <1>c
  <2> QED BY <1>0, <1>c, <2>1, ExportedKept
<1>5. ASSUME NEW call \in calls, Ingest(call) PROVE ExportedInv'
  <2>1. UNCHANGED <<series, seenBatches, toForward, emitted, dropped, exported, main>>
    BY <1>5 DEF Ingest, exporterVars, exportHistory
  <2>2. \E step \in {"admitted", "refused"} : CallAt(call, step)
    BY <1>5 DEF Ingest
  <2>3. \A c \in calls' : c.step = "accepted" => c \in calls
    BY <2>2, StepKeeps
  <2> QED BY <1>c, <2>1, <2>3
<1>6. ASSUME NEW call \in calls, ApplyBatch(call) PROVE ExportedInv'
  <2>1. UNCHANGED <<main, toForward, emitted, dropped>> /\ CallAt(call, "accepted")
    BY <1>6 DEF ApplyBatch
  <2>2. /\ Handled(call.to, IF IsNew(call) THEN ToSet(call.records) ELSE {})
        /\ seenBatches'[call.to] \subseteq
             seenBatches[call.to] \cup IF IsNew(call) THEN {Remembered(call)} ELSE {}
    BY <1>6, ApplyHandles
  <2>3. call.to \in ExportNodes /\ ToSet(call.records) \subseteq 1 .. emitted
    BY CallFacts
  <2>4. exported' = exported \cup (IF IsNew(call) THEN ToSet(call.records) ELSE {})
    BY <1>6 DEF ApplyBatch
  <2>5. Remembered(call).id[2] = call.records
    BY DEF Remembered, BatchId
  <2>6. ToSet(call.records) \subseteq exported'
    <3>1. CASE IsNew(call)
      BY <2>4, <3>1
    <3>2. CASE ~IsNew(call)
      <4>1. PICK s \in SeenStill(call.to) : s.id = BatchId(call)
        BY <3>2 DEF IsNew
      <4>2. s \in seenBatches[call.to]
        <5>1. Reconciled(call.to, call.to).seen \subseteq seenBatches[call.to]
          BY <2>3, ReconciledFacts
        <5> QED BY <5>1 DEF SeenStill
      <4>3. ToSet(s.id[2]) \subseteq exported /\ s.id[2] = call.records
        BY <2>3, <4>1, <4>2 DEF ExportedInv, BatchId
      <4> QED BY <2>4, <4>3
    <3> QED BY <3>1, <3>2
  <2> HIDE DEF Remembered
  <2>7. \A m \in ExportNodes : \A s \in seenBatches'[m] :
          s \in seenBatches[m] \/ ToSet(s.id[2]) \subseteq exported'
    <3>1. \A m \in ExportNodes \ {call.to} : seenBatches'[m] = seenBatches[m]
      BY <2>2 DEF Handled
    <3>2. \A s \in seenBatches'[call.to] : s \in seenBatches[call.to] \/ s = Remembered(call)
      BY <2>2
    <3> QED BY <2>5, <2>6, <3>1, <3>2
  <2>8. \A m \in ExportNodes, x \in Pertinent :
          series'[m][x].count > 0 => series[m][x].count > 0 \/ x \in exported'
    <3> SUFFICES ASSUME NEW m \in ExportNodes, NEW x \in Pertinent, series'[m][x].count > 0
                 PROVE  series[m][x].count > 0 \/ x \in exported'
      OBVIOUS
    <3>1. series[m][x].count > 0 \/ x \in (IF IsNew(call) THEN ToSet(call.records) ELSE {})
      BY <2>2, <2>3, HandledCounts
    <3> QED BY <2>4, <3>1
  <2>9. \A c \in calls' : c.step = "accepted" =>
          ToSet(c.records) \subseteq exported' \/ \E d \in calls : d.step = "accepted" /\ d.records = c.records
    <3> SUFFICES ASSUME NEW c \in calls', c.step = "accepted"
                 PROVE  \/ ToSet(c.records) \subseteq exported'
                        \/ \E d \in calls : d.step = "accepted" /\ d.records = c.records
      OBVIOUS
    <3>1. c \in calls \/ c.records = call.records
      BY <2>1, StepKeeps
    <3> QED BY <2>6, <3>1
  <2>10. \A m \in ExportNodes : \A x \in 1 .. emitted : Holds(m, x) => Holds(m, x)'
    BY <1>a, <2>1
  <2>11. dropped \subseteq dropped' /\ exported \subseteq exported' /\ dropped' \cup exported' \subseteq 1 .. emitted
    BY <1>0, <2>1, <2>3, <2>4
  <2> QED BY <2>1, <2>7, <2>8, <2>9, <2>10, <2>11, ExportedKept
<1>7. ASSUME NEW call \in calls, AnswerForward(call) PROVE ExportedInv'
  <2>1. UNCHANGED <<series, seenBatches, emitted, dropped, exported>> /\ calls' \subseteq calls
    BY <1>7 DEF AnswerForward, exporterVars, exportHistory
  <2>2. call.from \in ExportNodes /\ call.awaited \in BOOLEAN
    BY CallFacts
  <2>3. /\ \A m \in ExportNodes \ {call.from} : main'[m] = main[m] /\ toForward'[m] = toForward[m]
        /\ ~call.awaited => main' = main /\ toForward' = toForward
    BY <1>7, AnswerMoves
  <2>4. \A r \in ToSet(toForward[call.from]) : \/ r \in ToSet(toForward'[call.from])
                                               \/ call.step = "accepted" /\ r \in ToSet(call.records)
    BY <1>7, AnswerMoves
  <2>5. call.awaited => main[call.from].at = "post"
    BY DEF CallsInv
  <2>6. call.step = "accepted" => ToSet(call.records) \subseteq exported
    BY DEF ExportedInv
  <2>7. \A m \in ExportNodes : \A x \in 1 .. emitted :
          Holds(m, x) => Holds(m, x)' \/ x \in dropped' \cup exported'
    <3> SUFFICES ASSUME NEW m \in ExportNodes, NEW x \in 1 .. emitted, Holds(m, x)
                 PROVE  Holds(m, x)' \/ x \in exported'
      OBVIOUS
    <3>1. CASE m # call.from \/ ~call.awaited
      BY <2>2, <2>3, <3>1 DEF Holds
    <3>2. CASE m = call.from /\ call.awaited
      <4>1. x \in ToSet(toForward[call.from])
        BY <2>5, <3>2 DEF Holds
      <4> QED BY <2>1, <2>4, <2>6, <3>2, <4>1 DEF Holds
    <3> QED BY <3>1, <3>2
  <2> QED BY <1>0, <2>1, <2>7, ExportedKept
<1>8. ASSUME NEW call \in calls, Lose(call) PROVE ExportedInv'
  <2>1. /\ UNCHANGED <<series, seenBatches, toForward, emitted, dropped, exported>> /\ call.awaited
        /\ main' = [main EXCEPT ![call.from] = [at |-> "idle"]]
    BY <1>8 DEF Lose, MainIdle, exporterVars
  <2>2. main[call.from].at = "post"
    BY <2>1 DEF CallsInv
  <2>3. \A m \in ExportNodes : main[m].at = "emit" => main'[m] = main[m]
    BY <2>1, <2>2 DEF TypesInv
  <2>4. \A c \in calls' : c.step = "accepted" => \E d \in calls : d.step = "accepted" /\ d.records = c.records
    BY <1>8, LoseKeeps
  <2> QED BY <1>c, <2>1, <2>3, <2>4
<1>9. ASSUME NEW n \in ExportNodes, ChangeView(n) PROVE ExportedInv'
  BY <1>9, <1>c DEF ChangeView, exporterVars, exportHistory
<1>10. CASE PassTime \/ UNCHANGED exportVars
  BY <1>10, <1>c DEF PassTime, exportVars, exporterVars, exportHistory
<1> QED
  BY <1>1, <1>2, <1>3, <1>4, <1>5, <1>6, <1>7, <1>8, <1>9, <1>10 DEF ExportNext, ExportWork, IngestWork
-----------------------------------------------------------------------------
(* Counted once                                                            *)

\* A call that may bring r to n after a step might before, or is new from a holder of r.
OpenedBefore(c, n, r) ==
  \/ \E d \in calls : Open(d, n, r) /\ d.from = c.from /\ d.records = c.records /\ d.ts = c.ts
  \/ c.from \in ExportNodes /\ Holds(c.from, r) /\ \A d \in calls : d.from = c.from => ~d.awaited

\* A call that was accepted is awaited still; or its answer was lost, or has come.
AcceptedStill(c, r) ==
  \/ \E d \in calls' : /\ d.awaited /\ d.step = "accepted"
                       /\ d.from = c.from /\ d.records = c.records /\ d.ts = c.ts
  \/ [records |-> c.records, ts |-> c.ts] \in lostBatches'
  \/ ~Holds(c.from, r)'

\* A step by which n does not count r.
LEMMA OnceKept ==
  ASSUME TypesInv, clock' \in Nat, NEW n \in ExportNodes, NEW r \in Pertinent, Once(n, r),
         series'[n][r].count \in {0, series[n][r].count},
         resent \subseteq resent', lostBatches \subseteq lostBatches', clock <= clock',
         \/ series'[n][r].count = 0
         \/ \A s \in seenBatches[n] : s \in seenBatches'[n] \/ clock - s.ts > SeenTtl,
         \A c \in calls' : Open(c, n, r) => OpenedBefore(c, n, r),
         series[n][r].count > 0 => \A m \in ExportNodes : Holds(m, r)' => Holds(m, r),
         \A c \in calls : c.awaited /\ c.step = "accepted" /\ r \in ToSet(c.records) => AcceptedStill(c, r)
  PROVE  Once(n, r)'
<1> SUFFICES ASSUME series'[n][r].count > 0, r \notin resent'
             PROVE  /\ series'[n][r].count = 1
                    /\ \/ Settled(n, r)'
                       \/ \E f \in ExportNodes, b \in Seq(Pertinent), t \in Nat : CameWith(n, r, f, b, t)'
  BY DEF Once, ToSet
<1>1. /\ series'[n][r].count = 1 /\ r \notin resent /\ series[n][r].count > 0
      /\ Settled(n, r) \/ \E f \in ExportNodes, b \in Seq(Pertinent), t \in Nat : CameWith(n, r, f, b, t)
  BY DEF Once
<1>2. \A m \in ExportNodes : Holds(m, r)' => Holds(m, r)
  BY <1>1
<1>3. CASE Settled(n, r)
  <2>1. \A c \in calls' : ~Open(c, n, r)
    BY <1>3 DEF Settled, OpenedBefore
  <2> QED BY <1>1, <1>2, <1>3, <2>1 DEF Settled, Open, ToSet
<1>4. ASSUME NEW f \in ExportNodes, NEW b \in Seq(Pertinent), NEW t \in Nat, CameWith(n, r, f, b, t)
      PROVE  CameWith(n, r, f, b, t)'
  <2> DEFINE lost == [records |-> b, ts |-> t] \in lostBatches
             brought(c) == c.awaited /\ c.step = "accepted" /\ c.from = f /\ c.records = b /\ c.ts = t
  <2>1. /\ f # n /\ r \in ToSet(b)
        /\ [id |-> <<f, b>>, ts |-> t] \in seenBatches[n] \/ clock - t > SeenTtl
        /\ \A c \in calls : Open(c, n, r) => c.from = f /\ (lost \/ (c.records = b /\ c.ts <= t))
        /\ \A m \in ExportNodes : Holds(m, r) => m = f /\ (lost \/ \E c \in calls : brought(c))
    BY <1>4 DEF CameWith
  <2>2. [id |-> <<f, b>>, ts |-> t] \in seenBatches'[n] \/ clock' - t > SeenTtl
    <3>1. \A s \in seenBatches[n] : s \in seenBatches'[n] \/ clock - s.ts > SeenTtl
      OBVIOUS
    <3>2. [id |-> <<f, b>>, ts |-> t] \in seenBatches'[n] \/ clock - t > SeenTtl
      BY <2>1, <3>1
    <3>3. clock \in Nat
      BY DEF TypesInv
    <3> QED BY <3>2, <3>3, ExportNumbers
  <2>3. lost => lost'
    OBVIOUS
  <2>4. \A c \in calls' : Open(c, n, r) => c.from = f /\ (lost' \/ (c.records = b /\ c.ts <= t))
    <3> SUFFICES ASSUME NEW c \in calls', Open(c, n, r)
                 PROVE  c.from = f /\ (lost' \/ (c.records = b /\ c.ts <= t))
      OBVIOUS
    <3>1. CASE \E d \in calls : Open(d, n, r) /\ d.from = c.from /\ d.records = c.records /\ d.ts = c.ts
      BY <2>1, <2>3, <3>1
    <3>2. CASE c.from \in ExportNodes /\ Holds(c.from, r) /\ \A d \in calls : d.from = c.from => ~d.awaited
      BY <2>1, <2>3, <3>2
    <3> QED BY <3>1, <3>2 DEF OpenedBefore
  <2>5. \A m \in ExportNodes : Holds(m, r)' => m = f /\ (lost' \/ \E c \in calls' : brought(c))
    <3> SUFFICES ASSUME NEW m \in ExportNodes, Holds(m, r)' PROVE m = f /\ (lost' \/ \E c \in calls' : brought(c))
      OBVIOUS
    <3>1. m = f /\ (lost \/ \E c \in calls : brought(c))
      BY <1>2, <2>1
    <3>2. ASSUME NEW c \in calls, brought(c) PROVE lost' \/ \E d \in calls' : brought(d)
      <4>1. AcceptedStill(c, r)
        BY <2>1, <3>2
      <4> QED BY <3>1, <3>2, <4>1 DEF AcceptedStill
    <3> QED BY <2>3, <3>1, <3>2
  <2> QED BY <2>1, <2>2, <2>4, <2>5 DEF CameWith, Open, ToSet
<1> QED BY <1>1, <1>3, <1>4

\* The state of n after a handler of k that does not count r at n.
LEMMA HandledKeeps ==
  ASSUME TypesInv, NEW k \in ExportNodes, NEW recs, Handled(k, recs),
         NEW n \in ExportNodes, NEW r \in Pertinent, n # k \/ r \notin recs
  PROVE  /\ series'[n][r].count \in {0, series[n][r].count}
         /\ \/ series'[n][r].count = 0
            \/ \A s \in seenBatches[n] : s \in seenBatches'[n] \/ clock - s.ts > SeenTtl
<1>1. CASE n # k
  BY <1>1 DEF Handled
<1>2. CASE n = k
  <2>1. r \notin recs => series'[n][r].count \in {0, series[n][r].count}
    BY <1>2 DEF Handled
  <2> QED BY <1>2, <2>1 DEF Handled
<1> QED BY <1>1, <1>2

\* A record that its holder counts cannot come again.
LEMMA CountsOwn ==
  ASSUME TypesInv, OwnedInv, CallsInv, OnceInv, NEW n \in ExportNodes, NEW r \in Pertinent, Holds(n, r),
         series'[n][r].count \in {1, series[n][r].count + 1}, resent' = resent, calls' = calls,
         \A m \in ExportNodes : Holds(m, r)' => Holds(m, r) /\ m # n
  PROVE  Once(n, r)'
<1>1. Owns(n, r)
  BY DEF Owns
<1>2. \A c \in calls : ~Open(c, n, r)
  <2> SUFFICES ASSUME NEW c \in calls, Open(c, n, r) PROVE FALSE
    OBVIOUS
  <2>1. c.from \in ExportNodes
    BY CallFacts
  <2>2. Owns(c.from, r)
    BY DEF Owns, Open
  <2>3. c.from = n
    BY <1>1, <2>1, <2>2 DEF OwnedInv
  <2> QED BY <2>3 DEF CallsInv, Open
<1>3. \A m \in ExportNodes : ~Holds(m, r)'
  <2> SUFFICES ASSUME NEW m \in ExportNodes, Holds(m, r)' PROVE FALSE
    OBVIOUS
  <2>1. Owns(m, r) /\ m # n
    BY DEF Owns
  <2> QED BY <1>1, <2>1 DEF OwnedInv
<1>4. Settled(n, r)'
  BY <1>2, <1>3 DEF Settled, Open, ToSet
<1>5. r \notin resent => series[n][r].count = 0
  <2> SUFFICES ASSUME r \notin resent, series[n][r].count > 0 PROVE FALSE
    BY DEF TypesInv, CountRecords
  <2>1. Settled(n, r) \/ \E f \in ExportNodes, b \in Seq(Pertinent), t \in Nat : CameWith(n, r, f, b, t)
    BY DEF OnceInv, Once
  <2>2. ~Settled(n, r)
    BY DEF Settled
  <2> QED BY <2>1, <2>2 DEF CameWith
<1>6. r \notin resent => series'[n][r].count = 1
  BY <1>5
<1> QED BY <1>4, <1>6 DEF Once

\* A batch that is new brings no record that was counted, or it is marked as resent.
LEMMA BringsOnce ==
  ASSUME TypesInv, OwnedInv, CallsInv, OnceInv, NEW call \in calls, ApplyBatch(call), IsNew(call),
         NEW r \in ToSet(call.records)
  PROVE  Once(call.to, r)'
<1> DEFINE n == call.to
           f == call.from
           lost == [records |-> call.records, ts |-> call.ts] \in lostBatches
<1>1. /\ n \in ExportNodes /\ f \in ExportNodes /\ call.records \in Seq(Pertinent) /\ call.ts \in Nat
      /\ call.ts <= clock /\ r \in Pertinent /\ clock \in Nat /\ call.awaited \in BOOLEAN
  <2>1. ToSet(call.records) \subseteq 1 .. emitted /\ 1 .. emitted \subseteq Pertinent
    BY CallFacts, ExportNumbers DEF TypesInv, Pertinent
  <2> QED BY <2>1, CallFacts DEF TypesInv
<1>2. /\ call.step = "admitted" /\ CallAt(call, "accepted")
      /\ UNCHANGED <<main, toForward, clock, lostBatches>> /\ resent' = resent \cup Repeated(call)
  BY DEF ApplyBatch
<1>3. /\ Handled(n, ToSet(call.records)) /\ Remembered(call) \in seenBatches'[n]
  BY ApplyHandles
<1>4. f # n /\ clock - call.ts <= BatchTtl /\ Open(call, n, r) /\ Owns(f, r)
  BY <1>2 DEF CallsInv, Open, Owns
<1>5. series[n][r].count > 0 => r \in resent'
  <2> SUFFICES ASSUME series[n][r].count > 0, r \notin resent' PROVE FALSE
    OBVIOUS
  <2>1. r \notin resent /\ r \notin Repeated(call)
    BY <1>2
  <2>2. Settled(n, r) \/ \E g \in ExportNodes, b \in Seq(Pertinent), t \in Nat : CameWith(n, r, g, b, t)
    BY <1>1, <2>1 DEF OnceInv, Once
  <2>3. ~Settled(n, r)
    BY <1>4 DEF Settled
  <2>4. PICK g \in ExportNodes, b \in Seq(Pertinent), t \in Nat : CameWith(n, r, g, b, t)
    BY <2>2, <2>3
  <2>5. /\ r \in ToSet(b) /\ f = g
        /\ [id |-> <<g, b>>, ts |-> t] \in seenBatches[n] \/ clock - t > SeenTtl
        /\ [records |-> b, ts |-> t] \in lostBatches \/ (call.records = b /\ call.ts <= t)
    BY <1>4, <2>4 DEF CameWith
  <2>6. b = call.records /\ ~(clock - t > SeenTtl)
    <3>1. CASE [records |-> b, ts |-> t] \in lostBatches
      <4>1. PICK x \in lostBatches : x = [records |-> b, ts |-> t]
        BY <3>1
      <4>2. x.records = b /\ x.ts = t
        BY <4>1
      <4> QED BY <2>1, <2>5, <4>2 DEF Repeated
    <3>2. CASE call.records = b /\ call.ts <= t
      BY <1>1, <1>4, <3>2, ExportNumbers
    <3> QED BY <2>5, <3>1, <3>2
  <2>7. [id |-> <<f, b>>, ts |-> t] \in seenBatches[n] /\ clock - t <= SeenTtl
    BY <1>1, <2>5, <2>6, ExportNumbers
  <2>8. Reconciled(n, n).seen = seenBatches[n]
    BY <1>1, ReconciledFacts
  <2>9. [id |-> <<f, b>>, ts |-> t] \in SeenStill(n)
    BY <2>7, <2>8 DEF SeenStill
  <2>10. [id |-> <<f, b>>, ts |-> t].id = BatchId(call)
    BY <2>6 DEF BatchId
  <2> QED BY <2>9, <2>10 DEF IsNew
<1>6. r \notin resent' => series'[n][r].count = 1
  <2>1. series'[n][r].count \in {1, series[n][r].count + 1} /\ series[n][r].count \in Nat
    BY <1>1, <1>3 DEF Handled, TypesInv, CountRecords
  <2> QED BY <1>5, <2>1
<1>7. r \notin resent' => CameWith(n, r, f, call.records, call.ts)'
  <2> SUFFICES ASSUME r \notin resent' PROVE CameWith(n, r, f, call.records, call.ts)'
    OBVIOUS
  <2>a. r \notin Repeated(call)
    BY <1>2
  <2>1. [id |-> <<f, call.records>>, ts |-> call.ts] \in seenBatches'[n]
    BY <1>3 DEF Remembered, BatchId
  <2>2. \A c \in calls' : Open(c, n, r) => c \in calls \ {call}
    BY <1>2, StepKeeps DEF Open
  <2>3. \A c \in calls \ {call} : Open(c, n, r) =>
          c.from = f /\ (lost \/ (c.records = call.records /\ c.ts <= call.ts))
    <3> SUFFICES ASSUME NEW c \in calls \ {call}, Open(c, n, r)
                 PROVE  c.from = f /\ (lost \/ (c.records = call.records /\ c.ts <= call.ts))
      OBVIOUS
    <3>1. c.from \in ExportNodes /\ Owns(c.from, r) /\ c.awaited \in BOOLEAN
      BY CallFacts DEF Owns, Open
    <3>2. c.from = f
      BY <1>1, <1>4, <3>1 DEF OwnedInv
    <3>3. ~call.awaited => lost
      BY DEF CallsInv
    <3>4. call.awaited => c.ts <= call.ts /\ ~c.awaited
      BY <3>2 DEF CallsInv
    <3>5. ~c.awaited => c.records = call.records
      <4> SUFFICES ASSUME ~c.awaited, c.records # call.records PROVE FALSE
        OBVIOUS
      <4>1. PICK x \in lostBatches : x = [records |-> c.records, ts |-> c.ts]
        BY DEF CallsInv
      <4>2. x.records = c.records /\ r \in ToSet(c.records)
        BY <4>1 DEF Open
      <4> QED BY <2>a, <4>2 DEF Repeated
    <3> QED BY <1>1, <3>2, <3>3, <3>4, <3>5
  <2>4. \A m \in ExportNodes : Holds(m, r) => m = f
    BY <1>1, <1>4 DEF OwnedInv, Owns
  <2>5. lost \/ \E c \in calls' : /\ c.awaited /\ c.step = "accepted"
                                  /\ c.from = f /\ c.records = call.records /\ c.ts = call.ts
    <3>1. ~call.awaited => lost
      BY DEF CallsInv
    <3>2. [call EXCEPT !.step = "accepted"] \in calls'
      BY <1>2 DEF CallAt
    <3>3. LET c == [call EXCEPT !.step = "accepted"] IN
            /\ c.awaited = call.awaited /\ c.step = "accepted"
            /\ c.from = f /\ c.records = call.records /\ c.ts = call.ts
      BY DEF TypesInv, CallRecords
    <3> QED BY <1>1, <3>1, <3>2, <3>3
  <2>6. \A m \in ExportNodes : Holds(m, r)' => Holds(m, r)
    BY <1>2 DEF Holds
  <2> QED BY <1>2, <1>4, <2>1, <2>2, <2>3, <2>4, <2>5, <2>6 DEF CameWith, Open, ToSet
<1> QED BY <1>1, <1>6, <1>7 DEF Once

LEMMA OnceStep ==
  TypesInv /\ OwnedInv /\ CallsInv /\ ExportedInv /\ OnceInv /\ [ExportNext]_exportVars => OnceInv'
<1> SUFFICES ASSUME TypesInv, OwnedInv, CallsInv, ExportedInv, OnceInv, [ExportNext]_exportVars,
                    NEW n \in ExportNodes, NEW r \in Pertinent
             PROVE  Once(n, r)'
  BY DEF OnceInv
<1>0. /\ Once(n, r) /\ clock \in Nat /\ series[n][r].count \in Nat
      /\ \A c \in calls : Open(c, n, r) => OpenedBefore(c, n, r)
  BY DEF OnceInv, TypesInv, CountRecords, OpenedBefore
<1>h. series[n][r].count > 0 => \A m \in ExportNodes : Holds(m, r)' => Holds(m, r)
  <2>1. series[n][r].count > 0 => r \in 1 .. emitted
    BY DEF ExportedInv
  <2>2. r \in 1 .. emitted => r # emitted + 1
    BY DEF TypesInv
  <2>3. Held
    BY HeldStep
  <2> QED BY <2>1, <2>2, <2>3 DEF Held
\* steps that take no answer
<1>a. ASSUME calls \subseteq calls' PROVE \A c \in calls : c.awaited /\ c.step = "accepted" => AcceptedStill(c, r)
  BY <1>a DEF AcceptedStill
\* steps that leave the exporters as they are
<1>b. ASSUME UNCHANGED <<series, seenBatches, resent>>, lostBatches \subseteq lostBatches',
             clock' \in Nat, clock <= clock',
             \A c \in calls' : Open(c, n, r) => OpenedBefore(c, n, r),
             \A c \in calls : c.awaited /\ c.step = "accepted" /\ r \in ToSet(c.records) => AcceptedStill(c, r)
      PROVE  Once(n, r)'
  BY <1>0, <1>b, <1>h, OnceKept
<1>1. ASSUME NEW k \in ExportNodes, NEW purpose \in {"emit", "flush"}, ReadRole(k, purpose)
      PROVE  Once(n, r)'
  <2>1. UNCHANGED <<series, seenBatches, resent, lostBatches, calls, clock>>
    BY <1>1 DEF ReadRole, exporterVars, exportHistory
  <2> QED BY <1>0, <1>a, <1>b, <2>1
<1>2. ASSUME NEW k \in ExportNodes, Process(k) PROVE Once(n, r)'
  <2> DEFINE recs == IF main[k].role = k THEN {main[k].record} ELSE {}
  <2>1. UNCHANGED <<calls, clock, lostBatches, resent>>
    BY <1>2 DEF Process
  <2>2. Handled(k, recs)
    BY <1>2, ProcessHandles
  <2>3. CASE n # k \/ r \notin recs
    <3> HIDE DEF recs
    <3>1. /\ series'[n][r].count \in {0, series[n][r].count}
          /\ \/ series'[n][r].count = 0
             \/ \A s \in seenBatches[n] : s \in seenBatches'[n] \/ clock - s.ts > SeenTtl
      BY <2>2, <2>3, HandledKeeps
    <3> QED BY <1>0, <1>a, <1>h, <2>1, <3>1, OnceKept
  <2>4. CASE n = k /\ r \in recs
    <3>1. main[n].role = n /\ r = main[n].record /\ main[n].at = "emit" /\ toForward' = toForward
      BY <1>2, <2>4, ProcessMoves
    <3>2. Holds(n, r) /\ r \notin ToSet(toForward[n])
      BY <3>1 DEF Holds, OwnedInv
    <3>3. main' = [main EXCEPT ![n] = [at |-> "idle"]]
      BY <1>2, <2>4 DEF Process, MainIdle
    <3>4. main'[n].at = "idle" /\ \A m \in ExportNodes \ {n} : main'[m] = main[m]
      BY <3>3 DEF TypesInv
    <3>5. \A m \in ExportNodes : Holds(m, r)' => Holds(m, r) /\ m # n
      BY <3>1, <3>2, <3>4 DEF Holds
    <3>6. series'[n][r].count \in {1, series[n][r].count + 1}
      BY <2>2, <2>4 DEF Handled
    <3> QED BY <2>1, <3>2, <3>5, <3>6, CountsOwn
  <2> QED BY <2>3, <2>4
<1>3. ASSUME NEW k \in ExportNodes, DrainOwn(k) PROVE Once(n, r)'
  <2> DEFINE recs == ToSet(toForward[k])
  <2>1. /\ UNCHANGED <<calls, clock, lostBatches, resent>> /\ main[k].at = "flush"
        /\ main' = [main EXCEPT ![k] = [at |-> "idle"]] /\ toForward' = [toForward EXCEPT ![k] = <<>>]
    BY <1>3 DEF DrainOwn, MainIdle
  <2>2. Handled(k, recs)
    BY <1>3, DrainHandles
  <2>3. CASE n # k \/ r \notin recs
    <3> HIDE DEF recs
    <3>1. /\ series'[n][r].count \in {0, series[n][r].count}
          /\ \/ series'[n][r].count = 0
             \/ \A s \in seenBatches[n] : s \in seenBatches'[n] \/ clock - s.ts > SeenTtl
      BY <2>2, <2>3, HandledKeeps
    <3> QED BY <1>0, <1>a, <1>h, <2>1, <3>1, OnceKept
  <2>4. CASE n = k /\ r \in recs
    <3>1. Holds(n, r)
      BY <2>4 DEF Holds
    <3>2. /\ main'[n].at = "idle" /\ toForward'[n] = <<>>
          /\ \A m \in ExportNodes \ {n} : main'[m] = main[m] /\ toForward'[m] = toForward[m]
      BY <2>1, <2>4 DEF TypesInv
    <3>3. ToSet(<<>>) = {}
      BY DEF ToSet
    <3>4. \A m \in ExportNodes : Holds(m, r)' => Holds(m, r) /\ m # n
      BY <3>2, <3>3 DEF Holds
    <3>5. series'[n][r].count \in {1, series[n][r].count + 1}
      BY <2>2, <2>4 DEF Handled
    <3> QED BY <2>1, <3>1, <3>4, <3>5, CountsOwn
  <2> QED BY <2>3, <2>4
<1>4. ASSUME NEW k \in ExportNodes, Forward(k) PROVE Once(n, r)'
  <2>1. UNCHANGED <<clock, lostBatches, resent>>
    BY <1>4 DEF Forward, exportHistory
  <2>2. /\ series'[n][r].count \in {0, series[n][r].count}
        /\ \/ series'[n][r].count = 0
           \/ \A s \in seenBatches[n] : s \in seenBatches'[n] \/ clock - s.ts > SeenTtl
    BY <1>4, ForwardHandles, HandledKeeps
  <2>3. /\ main[k].at = "flush" /\ (calls' = calls \/ calls' = calls \cup {Call(k)})
        /\ ToSet(Batch(k)) \subseteq ToSet(toForward[k])
    BY <1>4, ForwardSends
  <2>4. Call(k).from = k /\ Call(k).records = Batch(k)
    BY DEF Call
  <2>5. \A d \in calls : d.from = k => ~d.awaited
    BY <2>3 DEF CallsInv
  <2> HIDE DEF Call
  <2>6. Open(Call(k), n, r) => OpenedBefore(Call(k), n, r)
    BY <2>3, <2>4, <2>5 DEF Open, OpenedBefore, Holds
  <2>7. \A c \in calls' : Open(c, n, r) => OpenedBefore(c, n, r)
    BY <1>0, <2>3, <2>6
  <2>8. calls \subseteq calls'
    BY <2>3
  <2> QED BY <1>0, <1>a, <1>h, <2>1, <2>2, <2>7, <2>8, OnceKept
<1>5. ASSUME NEW call \in calls, Ingest(call) PROVE Once(n, r)'
  <2>1. UNCHANGED <<series, seenBatches, resent, lostBatches, clock>> /\ call.step = "sent"
    BY <1>5 DEF Ingest, exporterVars, exportHistory
  <2>2. \E step : CallAt(call, step)
    BY <1>5 DEF Ingest
  <2>3. \A c \in calls' : Open(c, n, r) => OpenedBefore(c, n, r)
    <3> SUFFICES ASSUME NEW c \in calls', Open(c, n, r) PROVE OpenedBefore(c, n, r)
      OBVIOUS
    <3>1. \/ c \in calls
          \/ c.from = call.from /\ c.to = call.to /\ c.records = call.records /\ c.ts = call.ts
      BY <2>2, StepKeeps
    <3> QED BY <2>1, <3>1 DEF OpenedBefore, Open
  <2>4. \A c \in calls : c.step = "accepted" => c \in calls'
    BY <2>1, <2>2 DEF CallAt
  <2>5. \A c \in calls : c.awaited /\ c.step = "accepted" => AcceptedStill(c, r)
    BY <2>4 DEF AcceptedStill
  <2> QED BY <1>0, <1>b, <2>1, <2>3, <2>5
<1>6. ASSUME NEW call \in calls, ApplyBatch(call) PROVE Once(n, r)'
  <2> DEFINE recs == IF IsNew(call) THEN ToSet(call.records) ELSE {}
  <2>1. UNCHANGED <<clock, lostBatches>> /\ CallAt(call, "accepted") /\ call.step = "admitted"
    BY <1>6 DEF ApplyBatch
  <2>2. Handled(call.to, recs)
    BY <1>6, ApplyHandles
  <2>3. resent \subseteq resent'
    BY <1>6 DEF ApplyBatch
  <2>4. CASE n # call.to \/ r \notin recs
    <3> HIDE DEF recs
    <3>1. call.to \in ExportNodes
      BY CallFacts
    <3>2. /\ series'[n][r].count \in {0, series[n][r].count}
          /\ \/ series'[n][r].count = 0
             \/ \A s \in seenBatches[n] : s \in seenBatches'[n] \/ clock - s.ts > SeenTtl
      BY <2>2, <2>4, <3>1, HandledKeeps
    <3>3. \A c \in calls' : Open(c, n, r) => c \in calls
      BY <2>1, StepKeeps DEF Open
    <3>4. \A c \in calls' : Open(c, n, r) => OpenedBefore(c, n, r)
      BY <1>0, <3>3
    <3>5. \A c \in calls : c.step = "accepted" => c \in calls'
      BY <2>1 DEF CallAt
    <3>6. \A c \in calls : c.awaited /\ c.step = "accepted" => AcceptedStill(c, r)
      BY <3>5 DEF AcceptedStill
    <3> QED BY <1>0, <1>h, <2>1, <2>3, <3>2, <3>4, <3>6, OnceKept
  <2>5. CASE n = call.to /\ r \in recs
    BY <1>6, <2>5, BringsOnce
  <2> QED BY <2>4, <2>5
<1>7. ASSUME NEW call \in calls, AnswerForward(call) PROVE Once(n, r)'
  <2>1. UNCHANGED <<series, seenBatches, resent, lostBatches, clock>> /\ calls' = calls \ {call}
    BY <1>7 DEF AnswerForward, exporterVars, exportHistory
  <2>2. call.awaited /\ call.step = "accepted" /\ r \in ToSet(call.records) => ~Holds(call.from, r)'
    <3>1. call.from \in ExportNodes
      BY CallFacts
    <3>2. Distinct(toForward[call.from])
      BY <3>1 DEF OwnedInv
    <3>3. /\ call.awaited => main'[call.from].at = "idle"
          /\ call.awaited /\ call.step = "accepted" /\ Distinct(toForward[call.from]) =>
               ToSet(toForward'[call.from]) \cap ToSet(call.records) = {}
      BY <1>7, AnswerMoves
    <3> QED BY <3>2, <3>3 DEF Holds
  <2>3. \A c \in calls : c.awaited /\ c.step = "accepted" /\ r \in ToSet(c.records) => AcceptedStill(c, r)
    BY <2>1, <2>2 DEF AcceptedStill
  <2> QED BY <1>0, <1>b, <2>1, <2>3
<1>8. ASSUME NEW call \in calls, Lose(call) PROVE Once(n, r)'
  <2>1. /\ UNCHANGED <<series, seenBatches, resent, clock>>
        /\ lostBatches' = lostBatches \cup {[records |-> call.records, ts |-> call.ts]}
        /\ calls \ {call} \subseteq calls'
    BY <1>8 DEF Lose, exporterVars
  <2>2. \A c \in calls' : Open(c, n, r) => OpenedBefore(c, n, r)
    <3> SUFFICES ASSUME NEW c \in calls', Open(c, n, r) PROVE OpenedBefore(c, n, r)
      OBVIOUS
    <3>1. \/ c \in calls
          \/ /\ c.from = call.from /\ c.to = call.to /\ c.records = call.records /\ c.ts = call.ts
             /\ c.step = call.step
      BY <1>8, LoseKeeps
    <3> QED BY <3>1 DEF OpenedBefore, Open
  <2>3. \A c \in calls : c.awaited /\ c.step = "accepted" => AcceptedStill(c, r)
    BY <2>1 DEF AcceptedStill
  <2> QED BY <1>0, <1>b, <2>1, <2>2, <2>3
<1>9. ASSUME NEW k \in ExportNodes, ChangeView(k) PROVE Once(n, r)'
  <2>1. UNCHANGED <<series, seenBatches, resent, lostBatches, calls, clock>>
    BY <1>9 DEF ChangeView, exporterVars, exportHistory
  <2> QED BY <1>0, <1>a, <1>b, <2>1
<1>10. CASE PassTime
  <2>1. UNCHANGED <<series, seenBatches, resent, lostBatches, calls>> /\ clock' = clock + 1
    BY <1>10 DEF PassTime, exporterVars, exportHistory
  <2> QED BY <1>0, <1>a, <1>b, <2>1
<1>11. CASE UNCHANGED exportVars
  <2>1. UNCHANGED <<series, seenBatches, resent, lostBatches, calls, clock>>
    BY <1>11 DEF exportVars, exporterVars, exportHistory
  <2> QED BY <1>0, <1>a, <1>b, <2>1
<1> QED
  BY <1>1, <1>2, <1>3, <1>4, <1>5, <1>6, <1>7, <1>8, <1>9, <1>10, <1>11 DEF ExportNext, ExportWork, IngestWork
-----------------------------------------------------------------------------
(* The theorems                                                            *)

ExportInv == TypesInv /\ OwnedInv /\ CallsInv /\ ExportedInv /\ OnceInv

LEMMA ExportInvariant == ExportInit /\ [][ExportNext]_exportVars => []ExportInv
<1>1. ExportInit => ExportInv
  <2> SUFFICES ASSUME ExportInit PROVE ExportInv
    OBVIOUS
  <2>1. TypesInv
    BY TypesInit
  <2>2. /\ calls = {} /\ emitted = 0
        /\ \A n \in ExportNodes : /\ main[n].at = "idle" /\ toForward[n] = <<>> /\ seenBatches[n] = {}
                                  /\ \A r \in Pertinent : series[n][r].count = 0
    BY DEF ExportInit, NoCount
  <2>3. OwnedInv
    BY <2>2 DEF OwnedInv, Owns, Holds, Distinct, ToSet
  <2>4. CallsInv
    BY <2>2 DEF CallsInv
  <2>5. ExportedInv
    BY <2>2 DEF ExportedInv, ExportInit
  <2>6. OnceInv
    BY <2>2 DEF OnceInv, Once
  <2> QED BY <2>1, <2>3, <2>4, <2>5, <2>6 DEF ExportInv
<1>2. ExportInv /\ [ExportNext]_exportVars => ExportInv'
  BY TypesStep, OwnedStep, CallsStep, ExportedStep, OnceStep DEF ExportInv
<1> QED BY <1>1, <1>2, PTL

LEMMA ExportInvTypes == ExportInv => ExportTypeOK
<1> SUFFICES ASSUME TypesInv PROVE ExportTypeOK
  BY DEF ExportInv
<1>1. 1 .. emitted \subseteq Pertinent
  BY ExportNumbers DEF TypesInv, Pertinent
<1>2. Seq(1 .. emitted) \subseteq Seq(Pertinent)
  BY <1>1, SeqMonotonic
<1>3. \A n \in ExportNodes : /\ main[n].at \in {"idle", "emit", "flush", "post"}
                             /\ Len(toForward[n]) <= MaxQueue
                             /\ toForward[n] \in Seq(Pertinent)
                             /\ series[n] \in [Pertinent -> [count : Nat, last : 0 .. clock]]
  BY <1>2 DEF TypesInv, MainStates, CountRecords
<1>4. \A c \in calls : c.step \in {"sent", "admitted", "accepted", "refused"}
  BY CallFacts
<1> QED BY <1>3, <1>4 DEF ExportTypeOK, TypesInv

\* Every variable of the export has its type, and no queue is longer than its limit.
THEOREM ExportTypes == ExportSpec => []ExportTypeOK
BY ExportInvariant, ExportInvTypes, PTL DEF ExportSpec

\* A record waits until an exporter counts it or a full queue drops it, and an exporter
\* counts it twice only if it came again in another batch after an answer was lost, or
\* after its batch was forgotten.
THEOREM RecordsAccounted == ExportSpec => []RecordsAccountedFor
<1>1. ExportInv => RecordsAccountedFor
  <2> SUFFICES ASSUME TypesInv, ExportedInv, OnceInv PROVE RecordsAccountedFor
    BY DEF ExportInv
  <2>1. InHand \cup Queued \subseteq 1 .. emitted
    <3>1. \A n \in ExportNodes : main[n].at = "emit" => main[n].record \in 1 .. emitted
      BY DEF TypesInv, MainStates
    <3>2. \A n \in ExportNodes : toForward[n] \in Seq(1 .. emitted)
      BY DEF TypesInv
    <3>3. \A n \in ExportNodes : ToSet(toForward[n]) \subseteq 1 .. emitted
      BY <3>2, Elements
    <3> QED BY <3>1, <3>3 DEF InHand, Queued
  <2>2. \A n \in ExportNodes : \A r : Holds(n, r) => r \in InHand \cup Queued
    BY DEF Holds, InHand, Queued
  <2>3. \A r \in 1 .. emitted : r \in InHand \cup Queued \cup dropped \cup exported
    BY <2>2 DEF ExportedInv
  <2>4. 1 .. emitted = InHand \cup Queued \cup dropped \cup exported
    BY <2>1, <2>3 DEF ExportedInv
  <2>5. \A n \in ExportNodes, r \in Pertinent : series[n][r].count > 1 => r \in resent
    BY DEF OnceInv, Once, TypesInv, CountRecords
  <2> QED BY <2>4, <2>5 DEF RecordsAccountedFor
<1> QED BY <1>1, ExportInvariant, PTL DEF ExportSpec
=============================================================================
