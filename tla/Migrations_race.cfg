SPECIFICATION Spec
CONSTANTS
  window = window
  unit = unit
  monitor = monitor
  NoOne = NoOne
  Opener <- Two
  Latest = 2
  Steps = 2
  Strict <- Alter
PROPERTIES
  NotBeatenToIt
