SPECIFICATION PartsSpec
CONSTANTS
  None = None
  HintReq = {r1, r2}
  Key = {"k1", "k2"}
  Hint = {h1, h2}
  System = "system"
  Plain = "plain"
  HintMax = 1
  Histories <- mcHistories
  Caller = {c1, c2}
  Asked = {a1}
  Cand = {1, 2}
  Compacted <- mcCompacted
  Score = {s1}
  BatchSize = 1
  Host = {"claude", "grok"}
  Tool <- mcTool
  Kind <- mcKind
  Aliases <- mcAliases
  Native <- mcNative
  Defaults <- mcDefaults
  Sticky = {"search_tool"}
  ConstantArgs = {"get_date", "get_time"}
  Setups <- mcSetups
  Catalogs <- mcCatalogs
  Tasks <- mcTasks
  Requests <- mcRequests
  TurnMax = 2
  Declared <- mcDeclared
  ToolLists <- mcToolLists
  DefaultNamespace = "functions"
  Turn = {1, 2, 3}
  Cut = 2
  StateMax = 3
  SteerTurns = 2
  Text = {"fix", "ci", "odd"}
  Skill = {"s1", "s2", "s3", "skill_t"}
  Command = {"cli", "mcp_db"}
  HostTool = {}
  Configured = {"s1", "s2", "s3", "cli"}
  Mentions <- mcMentions
  Uninstalled = {"s2"}
  Bodiless = {"s3"}
  Quoted = {"codex", "claude", "grok"}
  MsgMax = 5
  Shape <- mcShape
  Size <- mcSize
  Recent = 1
  Budget = 7
  FitMax = 4
  Unit <- mcUnit
  SortOf <- mcSort
  UsageOf <- mcUsage
  EditsOf <- mcEdits
  InMarker = {"cut", "ev"}
  SaysData = {"says"}
  Big = {"book", "line"}
  Bodies <- mcBodies
  TapMax = 4
  Frames <- mcFrames
  FrameMax = 2
  Proc = {1, 2, 3}
  PidOf <- mcPid
  Outputs <- mcOutputs
  PipeMax = 1
  LineMax = 1
  Cli = {"claude", "grok"}
  AgentModel = "main"
  Reply <- mcReplies
  Unsettled <- mcUnsettled
  Plan <- mcPlan
  RequestMax = 2
  Checks = 1
INVARIANTS
  PartsTypeOK
  HintsStable
  CachedIsGiven
  PaidAnswersKept
  SentIsUsable
  NoLocalLoop
  SteeredRequest
  SkillStaysWithTask
  OnlyAskedIsAnswered
  StateShowsCalls
  TapsReportWhatArrived
  SlotsKept
  NoInventedSavings
PROPERTY
  ProcReturns
CHECK_DEADLOCK FALSE
