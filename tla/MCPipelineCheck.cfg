SPECIFICATION PipelineSafety
CONSTANTS
  Workers = {w1}
  PRs = {p1}
  Heads = {h1}
  NoHead = NoHead
  NoJob = NoJob
  RecentLimit = 20
  DailyCap = 1
  MaxCalls = 2
  Providers = {"github"}
  Faults = {"vcs"}
SYMMETRY Symmetry
CHECK_DEADLOCK FALSE
INVARIANTS
  PostedBlockerNeverPasses
