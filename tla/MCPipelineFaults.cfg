SPECIFICATION PipelineSafety
CONSTANTS
  Workers = {w1, w2, w3}
  PRs = {p1}
  Heads = {h1}
  NoHead = NoHead
  NoJob = NoJob
  RecentLimit = 2
  DailyCap = 1
  MaxCalls = 3
  Providers = {"github", "bitbucket"}
  Faults = {"store", "vcs", "llm", "crash", "disable", "deadline"}
SYMMETRY Symmetry
CHECK_DEADLOCK FALSE
INVARIANTS
  PipelineTypeOK
  AtMostOnce
  OneWorkerPerJob
  CheckMatchesReview
  PendingRowsExplained
PROPERTIES
  FinishedRunsAreFinal
  ImplementsLedger
