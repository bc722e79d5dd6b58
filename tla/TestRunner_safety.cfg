SPECIFICATION Spec
CONSTANTS
  k1 = k1
  k2 = k2
  s1 = s1
  c1 = c1
  main = main
  NoOne = NoOne
  Attempt <- OneOfEach
  Click <- OneClick
  Service <- OneService
  Prober <- MainLoop
  Faults <- AllFaults
INVARIANTS
  OneTestAtATime
  EngineOnlyUnderLock
  StatusIsTrue
  CancelIsRecorded
  ReturnedIsAccounted
