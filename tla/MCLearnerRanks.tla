---------------------------- MODULE MCLearnerRanks ----------------------------
(***************************************************************************)
(* Two ranks with a collector each.  A round of two updates may find the   *)
(* stop flag raised between them; every second update is published.        *)
(***************************************************************************)
EXTENDS LearnerRanks

MCNumRanks        == 2
MCNumCollectors   == 2
MCNumIterations   == 4
MCCapacity        == 2
MCBudget          == 2
MCLearningStarts  == 1
MCNumUpdates      == 1
MCPublishInterval == 2
=============================================================================
