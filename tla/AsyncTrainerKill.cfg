SPECIFICATION FairSpec
CONSTANTS
  NumCollectors <- MCNumCollectors
  NumIterations <- MCNumIterations
  Capacity <- MCCapacity
  LearningStarts <- MCLearningStarts
  FirstStats <- MCFirstStats
  ErrorSlots <- MCErrorSlots
  FaultKinds <- MCKillCollector
  MaxFaults <- MCOneFault
PROPERTY RunEnds
