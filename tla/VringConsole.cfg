\* A console port: activation returns before the worker registered, and the
\* signal comes after the queue is released.
SPECIFICATION Spec
CONSTANTS
  Rings = {r1}
  Workers = {w1}
  Completers = {}
  Serves <- OneWorkerServesAll
  Fds = {f1, f2, f3}
  NoFd = NoFd
  Free = Free
  Poisoned = Poisoned
  NoBase = NoBase
  Sync = FALSE
  Polled = FALSE
  EventIdx = TRUE
  Ports = {w1}
  MaxAvail = 2
SYMMETRY FdSymmetry
CHECK_DEADLOCK FALSE
INVARIANTS
  StoppedRingIsQuiet
