SPECIFICATION FairSpec
CONSTANTS
  Capacity <- MCCapacity
  NumEnvs <- MCNumEnvs
  MaxSteps <- MCMaxSteps
INVARIANTS TypeOK IngestIntact
PROPERTIES RefinesFifo AllButLastTwoIngested
