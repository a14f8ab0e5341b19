---------------------------- MODULE MetricsQueue ----------------------------
(***************************************************************************)
(* _bounded_append (metrics.py), the queue discipline of both sinks.  A    *)
(* record is its sequence number and its kind.                             *)
(***************************************************************************)
EXTENDS Naturals, Sequences, SequencesExt, FiniteSetsExt

IsScalars(r) == r.kind = "scalars"
IsKept(r)    == r.kind \in {"run", "event"}

ScalarsIn(queue) == {i \in DOMAIN queue : IsScalars(queue[i])}

\* The records of s that are not in S, in order.
Without(s, S) == FoldLeft(LAMBDA q, r : IF r \in S THEN q ELSE Append(q, r), <<>>, s)

\* Mutant: a full queue drops its oldest record, whatever it is.
DropOldest(queue, record, limit) ==
  IF Len(queue) < limit THEN Append(queue, record) ELSE Append(Tail(queue), record)

\* A full queue drops its oldest scalars, or the record if it is the only one.
BoundedAppend(queue, record, limit) ==
  IF Len(queue) < limit THEN Append(queue, record)
  ELSE IF ScalarsIn(queue) # {} THEN Append(RemoveAt(queue, Min(ScalarsIn(queue))), record)
  ELSE IF IsScalars(record) THEN queue
  ELSE Append(queue, record)
=============================================================================
