SPECIFICATION KnowledgeSpec
CONSTANTS
  Files = {f1, f2, f3}
  Contents = {x, y}
  Parsed = {f1, f2}
  CompareLimit = 1
  NoFile = NoFile
  Indexers = {i1, i2}
  PushDeliver = 2
  PushMessages = 1
  MaxPushes = 1
  CacheRows = 1
  IndexFaults = {"vcs", "store", "llm", "crash"}
  Keys = {k1, k2}
  Workers = {w1, w2}
  MaxDeliver = 3
  MaxMessages = 2
  Paths = {"a.md", "b.md", "c.md"}
  Fits = {"a.md", "b.md"}
  Syncs = {s1, s2}
  MaxCommits = 2
  RuleFaults = {"git", "llm", "store"}
  Bots = {b1}
  Humans = {h1}
  PrOf <- MCPrOf
  Texts = {t1, t2}
  NoText = NoText
  Meanings = {"dismissed", "discussed"}
  HistoryFaults = {"vcs", "llm", "store"}
  SnapRepos = {"r1", "r2"}
  SnapChunks = {"a1", "a2"}
  SnapComments = {c1, c2}
  RepoOf <- MCRepoOf
  GithubId <- MCGithubId
  MaxExports = 2
  MaxFiles = 1
INVARIANTS
  KnowledgeTypeOK
  IndexIsSound
  CommitIsTakenWhole
  RowsAreTrue
  ExportIsUsable
PROPERTIES
  PushIsIndexed
  NeverRevived
  EveryMessageSettles
CHECK_DEADLOCK FALSE
