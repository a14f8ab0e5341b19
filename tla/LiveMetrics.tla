---------------------------- MODULE LiveMetrics ----------------------------
(***************************************************************************)
(* A training run that reports live metrics to both sinks: MetricsLogger   *)
(* (metrics.py), used as TrainerHandle.train (contracts.py) uses it, until *)
(* the interpreter exits.  A record goes to both sinks under the emit      *)
(* lock, so one emission is one step; only the heartbeats of the sender    *)
(* take their number outside it.  A process killed by a signal runs none   *)
(* of this and is left out.                                                *)
(***************************************************************************)
EXTENDS JsonlSink, HttpSink

CONSTANT MaxSeq \* bound: no heartbeat and no record of training after this one

ASSUME LimitsAssumption ==
  /\ JsonlQueue \in Nat /\ HttpQueue \in Nat /\ BatchSize \in Nat \ {0}
  /\ MaxSeq \in Nat

VARIABLES
  pc,     \* where the training thread is
  seq,    \* _seq, counted from its start value
  closed, \* _closed
  kept,   \* so far: the run and event records emitted
  late    \* the exit hook gave up waiting

trainer == <<pc, closed, late>>
metricsVars == <<trainer, seq, kept, jsonl, http>>

Kinds == {"run", "scalars", "event", "heartbeat"}
Record == [seq : 1..MaxSeq + 2, kind : Kinds]

MetricsInit ==
  /\ pc = "created" /\ seq = 0 /\ closed = FALSE /\ kept = {} /\ late = FALSE
  /\ JsonlInit /\ HttpInit

-----------------------------------------------------------------------------
(* The training thread.                                                    *)

\* _emit: a number, then both queues.
Emit(kind) ==
  LET r == [seq |-> seq + 1, kind |-> kind] IN
  /\ ~closed
  /\ seq' = seq + 1 /\ kept' = IF IsKept(r) THEN kept \cup {r} ELSE kept
  /\ JsonlWrite(r) /\ HttpPut(r)
  /\ UNCHANGED <<closed, late>>

\* The run starts, or its set-up fails and closes the logger at once.
Running == pc = "created" /\ pc' = "training" /\ Emit("run")
SetupFails ==
  /\ pc = "created" /\ pc' = "close"
  /\ UNCHANGED <<closed, late, seq, kept, jsonl, http>>

Log == \E kind \in {"scalars", "event"} :
  /\ pc = "training" /\ seq < MaxSeq /\ UNCHANGED pc /\ Emit(kind)

\* Finished, failed or killed: the terminal record, then close().
Ends == pc = "training" /\ pc' = "close" /\ Emit("run")

CloseLogger ==
  /\ pc = "close" /\ pc' = "close_jsonl" /\ closed' = TRUE
  /\ UNCHANGED <<late, seq, kept, jsonl, http>>
CloseJsonl ==
  /\ pc = "close_jsonl" /\ pc' = "close_http" /\ JsonlClose
  /\ UNCHANGED <<closed, late, seq, kept, http>>
CloseHttp ==
  /\ pc = "close_http" /\ pc' = "closed" /\ HttpClose
  /\ UNCHANGED <<closed, late, seq, kept, jsonl>>
Closing == CloseLogger \/ CloseJsonl \/ CloseHttp

\* _join_at_exit: both threads have ended, or EXIT_TIMEOUT has.
JoinAtExit ==
  /\ pc = "closed" /\ pc' = "exited"
  /\ late' = (jpc # "ended" \/ hpc # "ended")
  /\ UNCHANGED <<closed, seq, kept, jsonl, http>>

-----------------------------------------------------------------------------
(* The sinks' threads, which die with the process.                         *)

JsonlStep == pc # "exited" /\ JsonlThread /\ UNCHANGED <<trainer, seq, kept, http>>

\* The heartbeat is the one record numbered outside the emit lock.
SendHeartbeat == seq' = seq + 1 /\ Heartbeat([seq |-> seq', kind |-> "heartbeat"])
SenderStep ==
  /\ pc # "exited"
  /\ \/ SendHeartbeat
     \/ seq < MaxSeq /\ GoesIdle /\ UNCHANGED seq
     \/ Sender /\ UNCHANGED seq
  /\ UNCHANGED <<trainer, kept, jsonl>>

BudgetStep == pc # "exited" /\ BudgetRunsOut /\ UNCHANGED <<trainer, seq, kept, jsonl>>

MetricsNext ==
  \/ Running \/ SetupFails \/ Log \/ Ends \/ Closing \/ JoinAtExit
  \/ JsonlStep \/ SenderStep \/ BudgetStep

\* close() returns at once; a disk write and a request return in the end, as
\* the request timeout has it; the flush budget is a clock.
MetricsFairness ==
  /\ WF_metricsVars(Closing) /\ WF_metricsVars(JsonlStep)
  /\ WF_metricsVars(SenderStep) /\ WF_metricsVars(BudgetStep)

MetricsSpec == MetricsInit /\ [][MetricsNext]_metricsVars /\ MetricsFairness

-----------------------------------------------------------------------------
(* Properties.                                                             *)

(* Every variable has its type; a request is one batch, and what a queue   *)
(* holds beyond its limit are run and event records only.                  *)
MetricsTypeOK ==
  /\ pc \in {"created", "training", "close", "close_jsonl", "close_http", "closed", "exited"}
  /\ closed \in BOOLEAN /\ late \in BOOLEAN
  /\ seq \in 0..MaxSeq + 2 /\ kept \subseteq Record
  /\ jpc \in {"wait", "write", "check", "ended"} /\ jclosing \in BOOLEAN /\ jseen \in BOOLEAN
  /\ hpc \in {"wait", "beat", "post", "sleep", "ended"} /\ deadline \in {"none", "ahead", "passed"}
  /\ \A q \in {jqueue, jbatch, file, hqueue, hbatch, service} : q \in Seq(Record)
  /\ jlost \subseteq Record /\ hlost \subseteq Record
  /\ Len(hbatch) <= BatchSize
  /\ Len(jqueue) > JsonlQueue => ScalarsIn(jqueue) = {}
  /\ Len(hqueue) > HttpQueue => ScalarsIn(hqueue) = {}

Heartbeats == {r \in Record : r.kind = "heartbeat"}
Reported == Record \ Heartbeats

(* Both sinks keep the channel's promise whatever the disk and the service *)
(* do: records arrive in order and once, also when a batch is sent again,  *)
(* and only scalars are dropped to make room (metrics.py:137-182, 348-356, *)
(* 483-494).  Heartbeats are no records of the run.                        *)
File == INSTANCE MetricsChannel WITH
  Records <- Reported, Limit <- JsonlQueue,
  pending <- jbatch \o jqueue, arrived <- file, givenUp <- jlost
Service == INSTANCE MetricsChannel WITH
  Records <- Reported, Limit <- HttpQueue,
  pending <- Without(hbatch, ToSet(service) \cup Heartbeats) \o hqueue,
  arrived <- Without(service, Heartbeats),
  givenUp <- hlost \ Heartbeats
RefinesChannel == File!Spec /\ Service!Spec

(* A process that exits after its threads have ended has lost no run or    *)
(* event record, the terminal state among them, but for batches the disk   *)
(* or the service refused (metrics.py:497-508).                            *)
ExitKeepsRecords ==
  pc = "exited" /\ ~late =>
    /\ kept \subseteq ToSet(file) \cup jlost
    /\ kept \subseteq ToSet(service) \cup hlost

(* After close() both threads end by themselves, however long the service  *)
(* stays away (metrics.py:405-409, 449-459): no exit has to wait for ever. *)
SinksEnd == closed ~> pc = "exited" \/ (jpc = "ended" /\ hpc = "ended")
=============================================================================
