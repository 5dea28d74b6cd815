\* connect_ap_auto after disconnect_ap reads the report of the disconnection.
SPECIFICATION Spec
CONSTANTS
  Ssids = {"home"}
  Contains <- MCContains1
  NetIds = {0}
  NoId <- MCNoId
  Ops = {"connect_ap_auto", "disconnect_ap"}
  Passwords = {}
  Mgmts = {}
  KnownNets <- MCKnown
  MaxLink = 1
  SaveFailsAt = {}
INVARIANTS
  ReadsItsOwnReport
CHECK_DEADLOCK FALSE
