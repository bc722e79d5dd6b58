SPECIFICATION Spec

CONSTANTS
  Slots = 4
  MaxRows = 3
  NoDate = NoDate
  Answers <- Any
  Instants <- Times
  Days <- OneDay
  Zones <- Places

INVARIANTS
  TypeOK
  FigureHonest
  SuccessMeasured
  ViewsAgree
  FileComplete

PROPERTIES
  DeletesByDay
