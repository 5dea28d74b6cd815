SPECIFICATION Spec
CONSTANTS
  Thread = {t1, t2}
  NoThread = NoThread
  Cn = {c1, c2}
  NoCn = NoCn
  NotifyId = {1, 2}
  CMD_NOTIFY_ID_MAX = 2
  MaxDials = 1
  MaxHandle = 20
  SvcHandles = 10
  Word <- MCWord
  HSP_AG = 1
  PROFILE_MAX = 2
  MaxCommands = 4
INVARIANTS
  ShellTypeOK
  LoopMeansThread
  NothingLeftRegistered
  NameIsRead
PROPERTIES
  StopReturns
CHECK_DEADLOCK FALSE
