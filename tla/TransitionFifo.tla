--------------------------- MODULE TransitionFifo ---------------------------
(***************************************************************************)
(* What a transition ring promises its two users, whatever its transport:  *)
(* a bounded first-in first-out queue of env-step batches between one      *)
(* collector and one learner.  A batch is what one env step produced: its  *)
(* transition tensors (identified by the step's ordinal and the number of  *)
(* environments whose episode ended) and the final-observation rows of     *)
(* exactly those environments.  The learner receives every batch once, in  *)
(* order and intact.                                                       *)
(***************************************************************************)
EXTENDS Naturals, Sequences

CONSTANTS Capacity,  \* ring_capacity: slots of the ring
          NumEnvs    \* environments stepped by this ring's collector

VARIABLES queue,     \* published batches the learner has not released
          taken      \* every batch the learner has taken, in order

fifoVars == <<queue, taken>>

\* The g-th env-step batch, with n finished episodes.
Batch(g, n) == [slot  |-> [gen |-> g, n |-> n],
                final |-> [k \in 1..n |-> <<g, k>>]]

Init == queue = <<>> /\ taken = <<>>

\* The collector publishes its next env step.
Put == /\ Len(queue) < Capacity
       /\ \E n \in 0..NumEnvs :
             queue' = Append(queue, Batch(Len(taken) + Len(queue), n))
       /\ UNCHANGED taken

\* The learner takes a prefix of what is published and frees its slots.
Take == \E k \in 1..Len(queue) :
          /\ taken' = taken \o SubSeq(queue, 1, k)
          /\ queue' = SubSeq(queue, k + 1, Len(queue))

Next == Put \/ Take

Spec == Init /\ [][Next]_fifoVars
=============================================================================
