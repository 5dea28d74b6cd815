\* connect_ap and the calls that use or remove networks, with one identifier, a
\* known network and reports that queue up: the state is true.
SPECIFICATION Spec
CONSTANTS
  Ssids = {"home"}
  Contains <- MCContains1
  NetIds = {0}
  NoId <- MCNoId
  Ops <- MCConnectAndManage
  Passwords = {"formed"}
  Mgmts = {}
  KnownNets <- MCKnown
  MaxLink = 2
  SaveFailsAt = {}
INVARIANTS
  TypeOK
  BusyIsSomeonesWork
  UpIsReal
CHECK_DEADLOCK FALSE
