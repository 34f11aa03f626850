SPECIFICATION SSpec
CONSTANTS
  a = a
  b = b
  c = c
  s1 = s1
  s2 = s2
  Req = {a, c}
  Backups = {1, 2}
  Kind <- MixKind
  Key <- OneKey
  Target <- MixBlocks
  InitSlot = 1
  InitKey = "k"
  SyncReq = {}
  CacheReq = {c}
  FullReq = {}
  StopReq = {}
  Searcher = {s1}
  SearchKey = "k"
  MaxSearch = 3
  OnCrash = {s1}
  Sibling <- SiblingA
  FailIdx = {0}
  FailData = {}
  MissLimit = 50
INVARIANTS
  IndexAnswerIsCurrent
  CacheAnswerIsValid
  FailoverServesWinner
