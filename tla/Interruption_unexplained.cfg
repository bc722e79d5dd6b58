SPECIFICATION Spec
CONSTANTS
  None = None
  Slack = 1
  Longest = 1
  Horizon = 9
  Interval <- Intervals
PROPERTIES
  GapHasReason
