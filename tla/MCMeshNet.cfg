SPECIFICATION Spec
CONSTANTS
  n1 = n1
  n2 = n2
  n3 = n3
  Node = {n1, n2, n3}
  Consoles = {n1}
  MaxElements = 2
  MaxEnables <- MCMaxEnables
  Refusing = {n2}
  Subscribers <- MCSubscribers
  Sizes = {32, 257}
  MaxCommands = 2
INVARIANTS
  MeshTypeOK
  VendorModelsOnce
  NameFits
  OnlyTheTargetTakesTheName
  AnswersAreAsked
PROPERTIES
  AirFallsSilent
CHECK_DEADLOCK FALSE
