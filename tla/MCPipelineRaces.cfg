SPECIFICATION PipelineSafety
CONSTANTS
  Workers = {w1, w2}
  PRs = {p1}
  Heads = {h1, h2, h3}
  NoHead = NoHead
  NoJob = NoJob
  RecentLimit = 2
  DailyCap = 1
  MaxCalls = 1
  Providers = {"github"}
  Faults = {"store"}
SYMMETRY Symmetry
CHECK_DEADLOCK FALSE
INVARIANTS
  ReviewChainsGrounded
  RecordedCostIsReal
  SpendOvershootBounded
