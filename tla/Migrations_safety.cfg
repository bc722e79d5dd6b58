SPECIFICATION Spec
CONSTANTS
  window = window
  unit = unit
  monitor = monitor
  NoOne = NoOne
  Opener <- Three
  Latest = 2
  Steps = 2
  Strict <- Alter
INVARIANTS
  NoHalfMigration
  OpenIsCurrent
  InOrder
PROPERTIES
  UpgradedByWholes
SYMMETRY Symmetry
