CONSTANTS
  Proc = {p1, p2, p3}
  None = None
  MaxTime = 2
  MaxTokens = 4
  Start = 1
  Api = {"leave", "steal", "crash"}
  NULL = NULL
  MaxReal = 6
  MaxOwn = 4
  Delays = {1, 2}
  Starts = {2}
  MaxTimers = 2
  MaxEvents = 2
  Peer = {a, b}
  Flaws = {0, 3}
  SignedChar = TRUE
  ReadSize = 3
  InitialAlloc = 2
  MaxCalls = 2
  MaxFrames = 1
  MaxReports = 4
  MS = 2
  Waits = {1, 2}
  Garbage = {0, 3}
  MaxSteps = 3
  MaxTested = 5
SPECIFICATION ControlSpec
INVARIANTS TurnsExclusive NothingLeftBehind Synchronous
PROPERTIES TimeStands  
CHECK_DEADLOCK FALSE
SYMMETRY ControlSymmetry
