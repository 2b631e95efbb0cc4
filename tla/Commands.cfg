CONSTANTS
  Host = {h1, h2}
  Self = self
  None = None
  RefRange = 3
  MaxCommands = 2
  MaxRestarts = 1
SPECIFICATION FairSpec
INVARIANTS CalledOnce OwnAnswer
PROPERTY TimedResolved
CHECK_DEADLOCK FALSE
