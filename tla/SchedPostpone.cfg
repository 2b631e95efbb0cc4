CONSTANTS
  None = None
  NullEvt = NullEvt
  Evt = {e1, e2}
  Dfr = {}
  Delays = {1, 2}
  MaxTime = 2
  MaxSteps = 1
  Api = {"add", "update"}
  Debugger = {}
  StartStopped = FALSE
  AutoExit = FALSE
  Virtual = FALSE
  ReplyWait = 1
  Errors = {}
  Step = 2
  Postpone = TRUE
  TiedRemoval = FALSE
SPECIFICATION HeapSpec
PROPERTY ImplementsSched
CHECK_DEADLOCK FALSE
SYMMETRY EvtSymmetry
