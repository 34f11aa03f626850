SPECIFICATION Spec
CONSTANTS
  a = a
  b = b
  c = c
  d = d
  e = e
  Req = {a, b, c}
  Backups = {b1, b2}
  Kind <- MixKind
  Key <- OneKey
  Target <- MixBlocks
  InitSlot = 1
  InitKey = "k"
  SyncReq = {b}
  CacheReq = {b}
  FullReq = {c}
  StopReq = {a, c}
INVARIANTS
  LoserReturnsAfterOverwrite
  IInv
  BackupsNeverLag
