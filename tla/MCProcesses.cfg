CONSTANTS
  Child = {c1, c2}
  MaxData = 1
  PipeSize = 2
  Used = {"out"}
  Faults = {"err"}
  Job = {j1, j2}
  Value = {1, 2}
  None = None
  MaxFd = 4
  JobFaults = {"create", "write"}
  Name = {n1, n2}
  NULL = NULL
  MaxPid = 2
  Watched = {n1}
  MaxStarts = 4
  MaxCrashes = 1
  MaxLost = 1
  MaxResets = 1
SPECIFICATION ProcessesSpec
INVARIANTS DeathNotice  JobsHeard
PROPERTIES DeathReported EventuallyWatched
CHECK_DEADLOCK FALSE
