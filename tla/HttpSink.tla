------------------------------ MODULE HttpSink ------------------------------
(***************************************************************************)
(* HttpSink (metrics.py): put() queues, a daemon thread posts batches to   *)
(* the ingest service, which keeps one record per (writer, seq).  A post   *)
(* whose answer is lost, late or an error may have been taken or not; it   *)
(* is repeated after a pause that only the flush budget cuts short.        *)
(***************************************************************************)
EXTENDS MetricsQueue

CONSTANTS
  HttpQueue, \* max_queue
  BatchSize  \* batch_size

VARIABLES
  hqueue,   \* _queue
  deadline, \* _deadline: "none", then "ahead", then "passed"
  hpc,      \* where the sender thread is
  hbatch,   \* the batch it sends
  service,  \* the records the service has, in the order they came
  hlost     \* the records of batches given up

http == <<hqueue, deadline, hpc, hbatch, service, hlost>>

HttpInit ==
  /\ hqueue = <<>> /\ deadline = "none"
  /\ hpc = "wait" /\ hbatch = <<>>
  /\ service = <<>> /\ hlost = {}

HttpPut(r) ==
  /\ hqueue' = BoundedAppend(hqueue, r, HttpQueue)
  /\ UNCHANGED <<deadline, hpc, hbatch, service, hlost>>

HttpClose ==
  /\ deadline' = "ahead"
  /\ UNCHANGED <<hqueue, hpc, hbatch, service, hlost>>

\* Time passes: the flush budget is used up.
BudgetRunsOut ==
  /\ deadline = "ahead" /\ deadline' = "passed"
  /\ UNCHANGED <<hqueue, hpc, hbatch, service, hlost>>

\* What the service does not have yet of the batch.
Unsent == Without(hbatch, ToSet(service))

-----------------------------------------------------------------------------
(* The thread: _loop.                                                      *)

\* Mutant: a batch is all there is.
TakeAll ==
  /\ hpc = "wait" /\ hqueue # <<>> /\ hpc' = "post"
  /\ hbatch' = hqueue /\ hqueue' = <<>>
  /\ UNCHANGED <<deadline, service, hlost>>

TakeBatch ==
  /\ hpc = "wait" /\ hqueue # <<>> /\ hpc' = "post"
  /\ LET n == Min({BatchSize, Len(hqueue)}) IN
       /\ hbatch' = SubSeq(hqueue, 1, n)
       /\ hqueue' = SubSeq(hqueue, n + 1, Len(hqueue))
  /\ UNCHANGED <<deadline, service, hlost>>

\* Nothing to send for a heartbeat interval.  The heartbeat gets its number
\* after the lock is released: records may have been queued in between.
GoesIdle ==
  /\ hpc = "wait" /\ hqueue = <<>> /\ deadline = "none" /\ hpc' = "beat"
  /\ UNCHANGED <<hqueue, deadline, hbatch, service, hlost>>
Heartbeat(r) ==
  /\ hpc = "beat" /\ hpc' = "post" /\ hbatch' = <<r>>
  /\ UNCHANGED <<hqueue, deadline, service, hlost>>

SenderEnds ==
  /\ hpc = "wait" /\ hqueue = <<>> /\ deadline # "none" /\ hpc' = "ended"
  /\ UNCHANGED <<hqueue, deadline, hbatch, service, hlost>>

-----------------------------------------------------------------------------
(* _send_with_retry, _post and _sleep.                                     *)

Delivered ==
  /\ hpc = "post" /\ hpc' = "wait"
  /\ service' = service \o Unsent /\ hbatch' = <<>>
  /\ UNCHANGED <<hqueue, deadline, hlost>>

\* A 4xx other than 408 and 429, or an error of our own: the batch is dropped.
Rejected ==
  /\ hpc = "post" /\ hpc' = "wait"
  /\ hlost' = hlost \cup ToSet(Unsent) /\ hbatch' = <<>>
  /\ UNCHANGED <<hqueue, deadline, service>>

\* A network error, 408, 429 or 5xx.
PostFails ==
  /\ hpc = "post" /\ hpc' = "sleep"
  /\ service' \in {service, service \o Unsent}
  /\ UNCHANGED <<hqueue, deadline, hbatch, hlost>>

\* Mutant: the pause knows nothing of the flush budget.
RetryForever ==
  /\ hpc = "sleep" /\ hpc' = "post"
  /\ UNCHANGED <<hqueue, deadline, hbatch, service, hlost>>

Retry ==
  /\ hpc = "sleep" /\ deadline # "passed" /\ hpc' = "post"
  /\ UNCHANGED <<hqueue, deadline, hbatch, service, hlost>>

\* The budget ran out while the service was away: what is left is never sent.
SenderGivesUp ==
  /\ hpc = "sleep" /\ deadline = "passed" /\ hpc' = "ended"
  /\ hlost' = hlost \cup ToSet(Unsent) \cup ToSet(hqueue)
  /\ hbatch' = <<>> /\ hqueue' = <<>>
  /\ UNCHANGED <<deadline, service>>

Sender ==
  \/ TakeBatch \/ SenderEnds
  \/ Delivered \/ Rejected \/ PostFails \/ Retry \/ SenderGivesUp
=============================================================================
