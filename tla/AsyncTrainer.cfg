SPECIFICATION FairSpec
CONSTANTS
  NumCollectors <- MCNumCollectors
  NumIterations <- MCNumIterations
  Capacity <- MCCapacity
  LearningStarts <- MCLearningStarts
  FirstStats <- MCFirstStats
  ErrorSlots <- MCErrorSlots
  FaultKinds <- MCFaultKinds
  MaxFaults <- MCMaxFaults
INVARIANTS TypeOK LadderReachesAll SuccessHasCheckpoint CollectorsWithinOneRing
PROPERTIES AbortedBootNeverTrains LadderEnds RunEnds
