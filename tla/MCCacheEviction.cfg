SPECIFICATION IndexSafety
CONSTANTS
  Files = {f1, f2}
  Contents = {x, y}
  Parsed = {f1, f2}
  CompareLimit = 1
  NoFile = NoFile
  Indexers = {i1}
  PushDeliver = 1
  PushMessages = 1
  MaxPushes = 1
  CacheRows = 1
  IndexFaults = {}
CHECK_DEADLOCK FALSE
PROPERTY EvictionTakesOldest
