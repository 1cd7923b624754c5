SPECIFICATION ServicesSpec
CONSTANTS
  SettingKeys <- MCKeys
  GoodValues = {d, v}
  DefaultValue = d
  Zero = Zero
  Unparsable = Unparsable
  Unknown = Unknown
  NoRow = NoRow
  Processes = {o1}
  BootKeys <- MCBootKeys
  LiveKeys <- MCLiveKeys
  CtxRepos = {r1, r2}
  InsSets = {s1, s2}
  NoSet = NoSet
  MaxItems = 2
  MaxNotes = 4
  Callers = {c1, c2}
  TokenLife = 4
  DefaultLife = 3
  Free = Free
  Inline = 3
  PostHosts = {"github", "bitbucket"}
  Items = 5
  PageSize = 2
  SearchPages = 2
  Addresses = {a1, a2}
  Limit = 1
  Window = 2
  MaxAge = 5
  Requests = {q1, q2}
  HookRepos = {r1}
  HookKinds = {"opened", "draft", "push", "push other", "/context", "reply"}
  Configured = {"github", "bitbucket"}
  MaxHookJobs = 1
  Publishers = {p1, p2}
  MemKeys = {m1, m2}
  NoKey = NoKey
  Providers <- MCProviders
  MaxRefs = 1
  TokenCaps = {1, 3}
  DiffSizes = {0, 2}
  MaxAttempts = 2
  DiffFiles = {f, g}
  Deleted = Deleted
  MaxRight = 3
  MaxDiffLines = 7
INVARIANTS
  ServicesTypeOK
  OnlyValidInEffect
  TokenOutlivesCall
  MispairedOnlyAfterLoss
  TwiceTheLimitAtMost
  AcceptedIsPublished
  HandledOnce
  PromptKeepsWhatFits
  CancelStopsTheCalls
  AnchorsAreInDiff
PROPERTIES
  SettingReachesProcess
  ContextIsKept
  ListingMissesFew
CHECK_DEADLOCK FALSE
