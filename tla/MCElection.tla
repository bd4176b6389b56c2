----------------------------- MODULE MCElection -----------------------------
(***************************************************************************)
(* Election for model checking: three nodes with the default weights       *)
(* (weight_latency 1.5, scores multiplied by 10).  Node 2 has the most     *)
(* cores, nodes 1 and 3 are alike.                                         *)
(***************************************************************************)
EXTENDS Election

MCMerit == [n \in Nodes |-> IF n = 2 THEN 160 ELSE 80]
MCLatencyScore == [l \in Latencies |-> 15000000 \div (1 + l)]
MCProbe == [n \in Nodes |-> IF n = 3 THEN 490000 ELSE 0]

\* clocks agree to the millisecond, except that 1 and 3 hear 2 a little late
MCDelays ==
  [p \in Nodes \X Nodes |-> IF p[2] = 2 THEN {0, 1} ELSE {0}]
MCDelaysOne == [p \in Nodes \X Nodes |-> {1}]
MCLossy == {<<1, 2>>, <<3, 1>>}
=============================================================================
