---------------------------- MODULE MCLiveMetrics ----------------------------
(***************************************************************************)
(* Queues of one and two records, so that they overflow, with scalars      *)
(* and without; batches of two, so that a backlog needs several requests.  *)
(***************************************************************************)
EXTENDS LiveMetrics

MCJsonlQueue == 1
MCHttpQueue == 2
MCBatchSize == 2
MCMaxSeq == 2
=============================================================================
