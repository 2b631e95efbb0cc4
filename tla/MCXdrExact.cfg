CONSTANTS
  NUM_COPIES = 2
  CLEANUP_INTERVAL = 1
  MaxSaves = 0
  MaxFlips = 1
  MaxCrashes = 1
  Faults = {"write", "memory"}
  Radix = 4
  AppStructs <- MCApp
  XDR_HASH_LEN = 2
  VOID = 0
  OPAQUE_STRUCT = 1
  OPAQUE_STRUCT_ARR = 2
  COMMAND = 3
  RESPONSE = 4
  DATAREQ = 5
  RESPONSE_HDR = 6
  HEARTBEAT = 7
  WD_PROC_NAME = 9
  WD_REG_INFO = 10
  BuffLen = 40
  OpaqueLen = 20
  Keys <- MCKeys
  Values = {7, 8}
  MaxEntries = 4
  NULL = NULL
  IntMax = 100000000
  Indent = 2
  Base = 150
  KeyLen = 3
  ValLen = 7
  Alloc = 16
SPECIFICATION LinkSpec
INVARIANT DecodesWhatItEncodes
CHECK_DEADLOCK FALSE
