------------------------------ MODULE RecordLog ------------------------------
(***************************************************************************)
(* What the storage pipeline promises about the records it accepted, whose *)
(* files, buffers and archives are those of module Storage: they are read  *)
(* back in the order in which they were accepted, retention removes the    *)
(* oldest ones only, and a process that ends loses only records that had   *)
(* not reached the disk.                                                   *)
(***************************************************************************)
EXTENDS Naturals, Sequences

CONSTANT Records

VARIABLES
  log,        \* the records that can still be read, the oldest first
  durable     \* how many of them no longer depend on the process

LogInit == log \in Seq(Records) /\ durable = Len(log)

Accept ==
  \E r \in Records : log' = Append(log, r) /\ durable' \in durable .. Len(log)

\* the writer's buffer reaches the disk
Harden == log' = log /\ durable' \in durable .. Len(log)

\* rotation, compaction and the byte budget
Retain ==
  \E n \in 1 .. durable : log' = SubSeq(log, n + 1, Len(log)) /\ durable' = durable - n

\* the process ends, or its writer has failed
Forget ==
  \E n \in durable .. Len(log) : log' = SubSeq(log, 1, n) /\ durable' = n

LogNext == Accept \/ Harden \/ Retain \/ Forget

LogSpec == LogInit /\ [][LogNext]_<<log, durable>>
=============================================================================
