\* Two fence rings; fences complete on the worker or on threads of their own,
\* with and without EVENT_IDX.  The deadlock of the threads is GpuFenceThread's.
SPECIFICATION FairSpec
CONSTANTS
  FenceRings = {q1, q2}
  Plain = Plain
  Free = Free
  Worker = Worker
  MaxCmds = 3
CHECK_DEADLOCK FALSE
INVARIANTS
  DescriptorConserved
  NeverBeforeFence
  FenceNotMissed
  NoLockWait
PROPERTIES
  KickNotSuppressed
  CommandsExecuted
  FencedReturned
