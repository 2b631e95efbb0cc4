CONSTANTS
  e1 = e1
  e2 = e2
  e3 = e3
  d1 = d1
  d2 = d2
  None = None
  NullEvt = NullEvt
  Evt <- ThreeEvts
  Dfr = {}
  Delays = {1}
  MaxTime = 1
  MaxSteps = 2
  Api = {"add", "remove", "update", "credit"}
  Debugger = {"run", "stop", "next", "dump", "break"}
  StartStopped = TRUE
  AutoExit = FALSE
  Virtual = TRUE
  ReplyWait = 1
  Errors = {}
SPECIFICATION Spec
INVARIANTS EventsAccounted HandlesLive StoppedIffHeld
PROPERTY HeldFirst
CHECK_DEADLOCK FALSE
SYMMETRY EvtSymmetry
