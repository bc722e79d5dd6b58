SPECIFICATION FairSpec
CONSTANTS
  k1 = k1
  k2 = k2
  s1 = s1
  c1 = c1
  main = main
  NoOne = NoOne
  Attempt <- ClickAndService
  Click <- OneClick
  Service <- OneService
  Prober <- MainLoop
  Faults <- AllFaults
PROPERTIES
  CallsEnd
  LockComesFree
  TestsTakeTurns
