SPECIFICATION Spec

CONSTANTS
  None = None
  Record <- Tests
  Old <- First
  Worlds <- Every

INVARIANTS
  NoLateState
  ResultShown

PROPERTIES
  DeletesPicked
  DeletesCounted
  StartsAfresh
  ButtonComesBack
  TableCatchesUp
