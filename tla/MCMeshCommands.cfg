SPECIFICATION Spec
CONSTANTS
  Primary = 5
  Assignments <- MCAssignments
  MaxLines = 2
INVARIANTS
  RequestIsOfItsLine
  UndoNamesTheSame
CHECK_DEADLOCK FALSE
