SPECIFICATION Spec
CONSTANTS
  eth = eth
  wlan = wlan
  None = None
  Interface <- Two
  Summary = 2
  Plausible = 1
  Width = 3
  MaxBytes = 3
  Horizon = 3
SYMMETRY Swap
INVARIANTS
  TypeOK
  OnlyCarried
  NothingLost
