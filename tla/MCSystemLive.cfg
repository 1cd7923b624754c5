SPECIFICATION SystemSpec
CONSTANTS
  MaxDeliver = 2
  MaxMessages = 1
  Workers = {w1, w2}
  PRs = {p1}
  Heads = {h1}
  NoHead = NoHead
  NoJob = NoJob
  RecentLimit = 20
  DailyCap = 9
  MaxCalls = 2
  Providers = {"github"}
  Faults = {"store", "vcs", "llm", "disable", "deadline"}
CHECK_DEADLOCK FALSE
PROPERTIES
  EveryJobIsDecided
  NoJobWearsOut
