SPECIFICATION Spec
CONSTANTS
  Nothing = Nothing
INVARIANTS CorruptFrameSurvived
CHECK_DEADLOCK FALSE
