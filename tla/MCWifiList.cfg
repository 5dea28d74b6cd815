\* The three calls that add a network, for every kind of failure; the home network
\* is known and one identifier is free: the list and the file are in order.
SPECIFICATION Spec
CONSTANTS
  Ssids = {"home"}
  Contains <- MCContains1
  NetIds <- MCIds
  NoId <- MCNoId
  Ops = {"connect_ap", "connect_ap_key_mgmt", "add_network"}
  Passwords = {"formed", "malformed"}
  Mgmts = {"WPA_PSK", "OTHER"}
  KnownNets <- MCKnown
  MaxLink = 1
  SaveFailsAt = {"wait"}
INVARIANTS
  NoDuplicateNetwork
  ConfigSaved
  FailedAttemptLeavesNothing
PROPERTIES
  AttemptsKeepOtherNetworks
CHECK_DEADLOCK FALSE
