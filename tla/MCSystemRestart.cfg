SPECIFICATION SystemSafety
CONSTANTS
  MaxDeliver = 5
  MaxMessages = 2
  Workers = {w1, w2}
  PRs = {p1}
  Heads = {h1}
  NoHead = NoHead
  NoJob = NoJob
  RecentLimit = 20
  DailyCap = 9
  MaxCalls = 2
  Providers = {"github"}
  Faults = {"crash"}
CHECK_DEADLOCK FALSE
INVARIANT RestartLosesNoJob
