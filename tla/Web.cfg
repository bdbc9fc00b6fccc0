CONSTANTS
  Users = {ann, bob}
  Guest = "guest"
  MaxRuns = 2
  MaxChunks = 1
  MaxMounts = 2
  MaxPosts = 2
  MaxTurns = 1
  GuestLimit = 1
  OutputUsers = {"ann"}
  OutputRuns = 2
  OutputTurns = 1
  StateKeys = {"count", "open"}
  Props = {"label"}
  MaxFeatures = 3
  Langs = {"ts"}
  MaxSteps = 3
  MaxMoves = 3
  BrowserAccounts = {"ann", "bob"}
  Paying = {"ann"}
  MaxSessions = 1
  MaxClicks = 2
  Tabs = {1}
  Workspaces = {"team"}
  Personal = "personal"
  Depth = 2
  MaxKeys = 1
  MaxCalls = 2
  MaxPresses = 3
  Files = {"a", "b"}
  Scores = {300, 796, 950}
  Thresholds = {90}
  MaxCommands = 2
  Targets = {"global", "workspace", "folder"}
  Global = "global"
  MaxNewKeys = 2
  MaxEvents = 4
  MaxBrowsers = 2
  MaxOps = 3
  MaxPressed = 4
SPECIFICATION ProgramsSpec
SYMMETRY Symmetry
CHECK_DEADLOCK FALSE
INVARIANTS SpinnerHasARun SavedWithConsent ShownTextIsReceived
INVARIANTS BlocksStayApart  OneImport ProIsTheSessions
INVARIANTS GateCountsEveryFile KeyIsNeverLost BadgesSettle
PROPERTY LoadShowsTheActive
