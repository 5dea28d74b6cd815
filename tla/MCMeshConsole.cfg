SPECIFICATION Spec
CONSTANTS
  Lines <- MCLines
  ArgCount <- MCArgCount
  RunOn <- MCRunOn
  Newline = FALSE
  MaxTyped = 2
  MaxPiped = 2
  MaxWriters = 2
INVARIANTS
  ConsoleTypeOK
PROPERTIES
  TypedInOrder
  PipedInOrder
  SignalEndsIt
  TypedIsTaken
  OneOfEachAfterQuit
CHECK_DEADLOCK FALSE
