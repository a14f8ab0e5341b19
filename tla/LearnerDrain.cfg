SPECIFICATION FairSpec
CONSTANTS
  NumEnvs <- MCNumEnvs
  BufferSize <- MCBufferSize
  Terminated <- MCTerminated
  Truncated <- MCTruncated
  Capacity <- MCCapacity
  Budget <- MCBudget
  LearningStarts <- MCLearningStarts
  NumUpdates <- MCNumUpdates
  PublishInterval <- MCPublishInterval
  WindowSizes <- MCWindowSizes
  MaxSteps <- MCMaxSteps
INVARIANTS TypeOK ReplayAligned CursorsInLockstep SamplesIntact
PROPERTY GenerationsIngested
