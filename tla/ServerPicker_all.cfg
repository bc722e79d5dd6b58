SPECIFICATION Spec

CONSTANTS
  None = None
  Number = {s1, s2}
  Word = {w}
  Answers <- Lists

INVARIANTS
  PinShown
  NoPinRefused

PROPERTIES
  SavingAloneChangesNothing
  FindComesBack
