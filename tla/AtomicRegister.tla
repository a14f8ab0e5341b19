--------------------------- MODULE AtomicRegister ---------------------------
(***************************************************************************)
(* What a weight channel promises: a versioned register.  The learner      *)
(* publishes whole versions; the collector's policy jumps, in one step, to *)
(* the version that is published at that moment, every word of it, and     *)
(* only ever to a newer one.                                               *)
(***************************************************************************)
EXTENDS Naturals

CONSTANT Words       \* the pieces a snapshot is copied in

VARIABLES published, \* the last published version
          policy     \* per word, the version the collector runs with

registerVars == <<published, policy>>

Init == published = 0 /\ policy = [w \in Words |-> 0]

Publish == published' = published + 1 /\ UNCHANGED policy

Load == /\ \A w \in Words : policy[w] < published
        /\ policy' = [w \in Words |-> published]
        /\ UNCHANGED published

Next == Publish \/ Load

Spec == Init /\ [][Next]_registerVars
=============================================================================
