\* The gpu's control queue: activation waits for the worker, fences complete
\* on a thread of their own.
SPECIFICATION FairSpec
CONSTANTS
  Rings = {r1}
  Workers = {w1}
  Completers = {c1}
  Serves <- OneWorkerServesAll
  Fds = {f1, f2}
  NoFd = NoFd
  Free = Free
  Poisoned = Poisoned
  NoBase = NoBase
  Sync = TRUE
  Polled = FALSE
  EventIdx = TRUE
  Ports = {}
  MaxAvail = 1
CHECK_DEADLOCK FALSE
INVARIANTS
  BaseIsFinal
  StoppedRingIsSignalled
  WatchedIffStarted
  EpollCtlNeverFails
PROPERTIES
  ImplementsRing
  PendingKickServed
  RequestsReturn
