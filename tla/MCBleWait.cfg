\* The supplicant is in a handshake when the program turns Wi-Fi on.
SPECIFICATION BleSpec
CONSTANTS
  Writes <- MCOneWrite
  BufLen = 3
  Ssids <- MCNames
  Contains <- MCContains
  NetIds <- MCOneId
  NoId <- MCNoId
  Ops = {"connect_ap"}
  Passwords = {"formed"}
  Mgmts = {}
  KnownNets <- MCKnown
  MaxLink = 1
  SaveFailsAt = {}
PROPERTIES
  WaitEnds
CHECK_DEADLOCK FALSE
