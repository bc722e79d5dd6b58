SPECIFICATION Spec
CONSTANTS
  None = None
  Slack = 0
  Longest = 1
  Horizon = 6
  Interval <- Intervals
INVARIANTS
  OncePerGap
  NoFalseAlarm
PROPERTIES
  HoleExplained
CHECK_DEADLOCK FALSE
