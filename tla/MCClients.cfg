CONSTANTS
  Thread = {t1, t2, t3}
  None = None
  Api = {"unblock", "destroy"}
  Fd = {1, 2}
  In = 1
  MaxWrites = 6
  Options = {"copy"}
  READ_BUFF_MIN = 1
  READ_BUFF_MAX = 3
  Callback = {1, 2}
  MaxAdds = 4
  Faults = {"open"}
  Group = {g1, g2}
  CmdNum <- Nums
  Command = {1}
  NULL = NULL
  MaxNodes = 4
  MaxSockets = 3
  hashSize = 2
  Info = {"data", "data2", "set"}
  Types = {"types"}
  Number = {1, 2, 3}
  DATA_REQ = 1
  Legacy = {1}
  STATUS = 1
  Type = {"heartbeat", "fine", "failing", "mute", "unknown"}
  HEARTBEAT = "heartbeat"
  MaxReqs = 3
  MaxPackets = 1
SPECIFICATION ClientsSpec
INVARIANTS OnePlace WakeupArmed EndToEnd EachToldOnce GroupsJoined 
PROPERTIES  ImplementsBook
CHECK_DEADLOCK FALSE
SYMMETRY ClientSymmetry
