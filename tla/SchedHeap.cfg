CONSTANTS
  None = None
  NullEvt = NullEvt
  Evt = {e1, e2, e3}
  Dfr = {d1}
  Delays = {0, 1}
  MaxTime = 1
  MaxSteps = 1
  Api = {"add", "remove", "update", "credit", "critical", "defer", "cancel", "exit"}
  Debugger = {}
  StartStopped = FALSE
  AutoExit = FALSE
  Virtual = FALSE
  ReplyWait = 1
  Errors = {}
  Step = 2
  Postpone = FALSE
  TiedRemoval = FALSE
SPECIFICATION HeapSpec
PROPERTY ImplementsSched
CHECK_DEADLOCK FALSE
SYMMETRY EvtSymmetry
