\* connect_ap and the calls that use or remove networks, with one identifier and
\* none known: the calls return, a lost link is noticed, the file is saved.
SPECIFICATION Spec
CONSTANTS
  Ssids = {"home"}
  Contains <- MCContains1
  NetIds = {0}
  NoId <- MCNoId
  Ops <- MCConnectAndManage
  Passwords = {"formed"}
  Mgmts = {}
  KnownNets <- MCNoneKnown
  MaxLink = 1
  SaveFailsAt = {"idle", "pbc"}
INVARIANTS
  ConfigSaved
PROPERTIES
  CallReturns
  LossIsNoticed
CHECK_DEADLOCK FALSE
