SPECIFICATION Spec
CONSTANTS
  k1 = k1
  k2 = k2
  s1 = s1
  c1 = c1
  main = main
  NoOne = NoOne
  Attempt <- TwoClicks
  Click <- TwoClicks
  Service <- None
  Prober <- MainLoop
  Faults <- OnlyUndecodable
INVARIANTS
  EveryAttemptRecorded
