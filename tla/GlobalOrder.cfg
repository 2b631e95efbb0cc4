CONSTANTS
  Proc = {p1, p2}
  None = None
  MaxTime = 3
  MaxTokens = 6
  Start = 1
  Api = {}
SPECIFICATION Spec
INVARIANTS NobodyOvertaken
CHECK_DEADLOCK FALSE
