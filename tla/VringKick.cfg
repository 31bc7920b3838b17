\* The gpu again: can the front-end replace the kick of a started ring?
SPECIFICATION Spec
CONSTANTS
  Rings = {r1}
  Workers = {w1}
  Completers = {c1}
  Serves <- OneWorkerServesAll
  Fds = {f1, f2}
  NoFd = NoFd
  Free = Free
  Poisoned = Poisoned
  NoBase = NoBase
  Sync = TRUE
  Polled = FALSE
  EventIdx = TRUE
  Ports = {}
  MaxAvail = 1
CHECK_DEADLOCK FALSE
INVARIANT KickCanChange
