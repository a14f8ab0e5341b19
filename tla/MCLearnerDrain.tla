--------------------------- MODULE MCLearnerDrain ---------------------------
(***************************************************************************)
(* TLC instance of LearnerDrain: two collectors that may be three steps    *)
(* apart, a budget below the capacity, and enough steps to wrap the rings  *)
(* and the replay buffer.  Truncations are frequent enough for the table   *)
(* to grow and its rows to change owner.                                   *)
(***************************************************************************)
EXTENDS LearnerDrain

MCNumEnvs         == 2
MCBufferSize      == 2
MCTerminated      == {<<2, 1>>, <<4, 2>>}
MCTruncated       == {<<1, 1>>, <<3, 1>>, <<4, 1>>, <<0, 2>>, <<1, 2>>, <<2, 2>>, <<3, 2>>}
MCCapacity        == 3
MCBudget          == 2
MCLearningStarts  == 1
MCNumUpdates      == 2
MCPublishInterval == 1
MCWindowSizes     == {1, 2, 3}
MCMaxSteps        == 5
=============================================================================
