SPECIFICATION FairSpec
CONSTANTS
  a = a
  b = b
  c = c
  d = d
  e = e
  Req = {a, b, c}
  Backups = {b1, b2, b3}
  Kind <- UpdKind
  Key <- OneKey
  Target <- UpdBlocks
  InitSlot = 1
  InitKey = "k"
  SyncReq = {}
  CacheReq = {}
  FullReq = {}
  StopReq = {}
INVARIANTS
  AtMostOneWinner
  RestCasSucceeds
  NeverExit
  CommittedBeforePrimary
PROPERTIES
  ImplementsRegister
  PrimaryFollowsBackups
  EveryRequestReturns
CHECK_DEADLOCK FALSE
