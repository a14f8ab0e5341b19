SPECIFICATION Spec
CONSTANTS
  NumRanks <- MCNumRanks
  NumCollectors <- MCNumCollectors
  NumIterations <- MCNumIterations
  Capacity <- MCCapacity
  Budget <- MCBudget
  LearningStarts <- MCLearningStarts
  NumUpdates <- MCNumUpdates
  PublishInterval <- MCPublishInterval
INVARIANT UpdatesMatched
\* The ranks may end; unmatched collectives never complete.
CHECK_DEADLOCK FALSE
