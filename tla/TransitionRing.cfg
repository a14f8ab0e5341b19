SPECIFICATION FairSpec
CONSTANTS
  Capacity <- MCCapacity
  NumEnvs <- MCNumEnvs
  MaxSteps <- MCMaxSteps
INVARIANTS TypeOK NoStepDropped FinalRowsAligned IngestIntact
PROPERTIES RefinesFifo AllIngested
