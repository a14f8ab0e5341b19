----------------------------- MODULE JsonlSink -----------------------------
(***************************************************************************)
(* JsonlSink (metrics.py): write() queues, a daemon thread takes the whole *)
(* queue and appends it to the file.  The wait between two batches ends at *)
(* any time: after the flush interval, half full, or closing.              *)
(***************************************************************************)
EXTENDS MetricsQueue

CONSTANT JsonlQueue \* max_queue

VARIABLES
  jqueue, jclosing,   \* _queue, _closing
  jpc, jbatch, jseen, \* the thread: where it is, batch, closing
  file,               \* the records in the file
  jlost               \* the records of batches that could not be written

jsonl == <<jqueue, jclosing, jpc, jbatch, jseen, file, jlost>>

JsonlInit ==
  /\ jqueue = <<>> /\ jclosing = FALSE
  /\ jpc = "wait" /\ jbatch = <<>> /\ jseen = FALSE
  /\ file = <<>> /\ jlost = {}

JsonlWrite(r) ==
  /\ jqueue' = IF jclosing THEN jqueue ELSE BoundedAppend(jqueue, r, JsonlQueue)
  /\ UNCHANGED <<jclosing, jpc, jbatch, jseen, file, jlost>>

JsonlClose ==
  /\ jclosing' = TRUE
  /\ UNCHANGED <<jqueue, jpc, jbatch, jseen, file, jlost>>

\* The thread: _loop and _write_batch.
TakeQueue ==
  /\ jpc = "wait" /\ (jqueue # <<>> \/ jclosing)
  /\ jbatch' = jqueue /\ jqueue' = <<>> /\ jseen' = jclosing
  /\ jpc' = IF jqueue = <<>> THEN "check" ELSE "write"
  /\ UNCHANGED <<jclosing, file, jlost>>

WriteBatch ==
  /\ jpc = "write" /\ jpc' = "check"
  /\ file' = file \o jbatch /\ jbatch' = <<>>
  /\ UNCHANGED <<jqueue, jclosing, jseen, jlost>>

\* The disk refuses: the batch is gone, the thread goes on.
WriteFails ==
  /\ jpc = "write" /\ jpc' = "check"
  /\ jlost' = jlost \cup ToSet(jbatch) /\ jbatch' = <<>>
  /\ UNCHANGED <<jqueue, jclosing, jseen, file>>

\* Mutant: the thread ends as soon as it sees close(), with what came before
\* it still in the queue.
EndOnClosing ==
  /\ jpc = "check" /\ jpc' = IF jclosing THEN "ended" ELSE "wait"
  /\ UNCHANGED <<jqueue, jclosing, jbatch, jseen, file, jlost>>

EndOrWait ==
  /\ jpc = "check" /\ jpc' = IF jseen /\ jqueue = <<>> THEN "ended" ELSE "wait"
  /\ UNCHANGED <<jqueue, jclosing, jbatch, jseen, file, jlost>>

JsonlThread == TakeQueue \/ WriteBatch \/ WriteFails \/ EndOrWait
=============================================================================
