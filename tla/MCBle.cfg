\* Two writes, the second shorter; no network is known.
SPECIFICATION BleSpec
CONSTANTS
  Writes <- MCTwoWrites
  BufLen = 3
  Ssids <- MCNames
  Contains <- MCContains
  NetIds <- MCOneId
  NoId <- MCNoId
  Ops = {"connect_ap"}
  Passwords = {"formed"}
  Mgmts = {}
  KnownNets <- MCNoneKnown
  MaxLink = 1
  SaveFailsAt = {}
INVARIANTS
  BleTypeOK
  WholeWriteBeforeWifi
  AddsWhatWasSent
PROPERTIES
  WriteIsAnswered
  WriteIsServed
CHECK_DEADLOCK FALSE
