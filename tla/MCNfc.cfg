SPECIFICATION Spec
CONSTANTS
  Uid <- MCUid
  Block <- MCBlock
  Cuts = {5}
  MaxLost = 1
  Retries = 2
INVARIANTS
  CredentialsAreTheCards
PROPERTIES
  QuietCallReturns
CHECK_DEADLOCK FALSE
