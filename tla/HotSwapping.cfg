SPECIFICATION Spec
CONSTANTS
  s1 = s1
  s2 = s2
  Nothing = Nothing
  Skills <- MCSkills
  Steps <- MCSteps
  Ramp <- MCRamp
  Settle <- MCSettle
  Timeout <- MCTimeout
  MaxAge <- MCMaxAge
  Blend <- MCBlend
  Gestures <- MCGestures
INVARIANTS
  TypeOK
  SkillPrepared
PROPERTIES
  PassiveUntilAsked
  EmergencyLands
  SkillReturns
\* The session ends.
CHECK_DEADLOCK FALSE
