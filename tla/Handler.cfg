SPECIFICATION Spec
CONSTANTS
  Rings = {r1}
  Regions <- MCRegions
  Tables <- MCTables
  RingAddrs <- MCRingAddrs
  Writes <- MCWrites
  LOG_PAGE_SIZE = 16
  LOG_WORD_SIZE = 2
  LogLens = {0, 1, 2}
  MaxMaps = 2
  MaxLogs = 2
  MaxWriters = 1
  Loggable = TRUE
CHECK_DEADLOCK FALSE
INVARIANTS MappingsMatchMemory ActivationNotSkipped DirtyTracked
PROPERTIES AddrInMemory RefusedIsAtomic
