CONSTANTS
  e1 = e1
  e2 = e2
  e3 = e3
  d1 = d1
  d2 = d2
  None = None
  NullEvt = NullEvt
  Evt <- TwoEvts
  Dfr = {d1}
  Delays = {1}
  MaxTime = 2
  MaxSteps = 2
  Api = {"add", "timestep", "remove", "update", "critical", "defer", "cancel", "exit", "errno"}
  Debugger = {}
  StartStopped = FALSE
  AutoExit = TRUE
  Virtual = FALSE
  ReplyWait = 1
  Errors = {"ebadf", "error"}
SPECIFICATION FairSpec
INVARIANT CriticalCount
  
CHECK_DEADLOCK FALSE
