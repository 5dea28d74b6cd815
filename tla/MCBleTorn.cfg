\* The second write comes while main is on its way with the first.
SPECIFICATION BleSpec
CONSTANTS
  Writes <- MCTwoWrites
  BufLen = 3
  Ssids <- MCNames
  Contains <- MCContains
  NetIds <- MCOneId
  NoId <- MCNoId
  Ops = {"connect_ap"}
  Passwords = {"formed"}
  Mgmts = {}
  KnownNets <- MCNoneKnown
  MaxLink = 1
  SaveFailsAt = {}
INVARIANTS
  NameOfOneWrite
CHECK_DEADLOCK FALSE
