SPECIFICATION SystemSafety
CONSTANTS
  MaxDeliver = 3
  MaxMessages = 1
  Workers = {w1, w2}
  PRs = {p1}
  Heads = {h1}
  NoHead = NoHead
  NoJob = NoJob
  RecentLimit = 20
  DailyCap = 9
  MaxCalls = 2
  Providers = {"github", "bitbucket"}
  Faults = {"store", "vcs", "llm", "bus", "crash", "disable", "deadline"}
CHECK_DEADLOCK FALSE
SYMMETRY Symmetry
INVARIANTS
  SystemTypeOK
  AckedJobIsAccounted
