SPECIFICATION FairSpec
CONSTANTS
  half = half
  hour = hour
  None = None
  Interval <- Two
  Scenario <- Scenarios
INVARIANTS
  InForce
  AppliedAsAsked
  ResumesAtLogin
  MonitorInForce
PROPERTIES
  ErrorComesToLight
