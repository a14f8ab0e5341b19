--------------------------- MODULE MetricsChannel ---------------------------
(***************************************************************************)
(* What one sink of the metrics logger promises: records arrive in the     *)
(* order they were given, each once.  A scalars record may be dropped, but *)
(* only when the sink is behind; a run or event record is lost only with a *)
(* batch the sink has given up, and knows it has.                          *)
(***************************************************************************)
EXTENDS Naturals, Sequences, SequencesExt

CONSTANTS Records, Limit

VARIABLES
  pending, \* given and on the way
  arrived, \* where they belong
  givenUp  \* lost with a batch that could not be delivered

vars == <<pending, arrived, givenUp>>

Init == pending = <<>> /\ arrived = <<>> /\ givenUp = {}

Give(r) ==
  /\ pending' = Append(pending, r)
  /\ UNCHANGED <<arrived, givenUp>>

\* Behind by Limit records: a scalars record makes room.
GiveFull(r) ==
  /\ Len(pending) >= Limit
  /\ \E i \in 1..Len(pending) :
       /\ pending[i].kind = "scalars"
       /\ pending' = Append(RemoveAt(pending, i), r)
  /\ UNCHANGED <<arrived, givenUp>>

\* The next n records leave pending.
Leave(n) == pending' = SubSeq(pending, n + 1, Len(pending))

Deliver(n) ==
  /\ Leave(n) /\ arrived' = arrived \o SubSeq(pending, 1, n)
  /\ UNCHANGED givenUp

GiveUp(n) ==
  /\ Leave(n) /\ givenUp' = givenUp \cup {pending[i] : i \in 1..n}
  /\ UNCHANGED arrived

Next ==
  \/ \E r \in Records : Give(r) \/ GiveFull(r)
  \/ \E n \in 1..Len(pending) : Deliver(n) \/ GiveUp(n)

Spec == Init /\ [][Next]_vars
=============================================================================
