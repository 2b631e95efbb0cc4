CONSTANTS
  Fd = {1, 3}
  EventMax = 2
  HashSize = 2
  None = None
  Dangling = Dangling
  Api = {"add", "remove", "force", "critical", "pause", "hold", "badfd"}
  Tuned = {1}
SPECIFICATION Spec
INVARIANT RegistryExact
PROPERTY AllReadyVisited
