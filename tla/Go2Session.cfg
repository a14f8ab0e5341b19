SPECIFICATION Spec
CONSTANTS
  Nothing = Nothing
INVARIANTS TypeOK SuccessEndsOutput
PROPERTIES RefinesBus EmergencyDamps
\* The session ends.
CHECK_DEADLOCK FALSE
