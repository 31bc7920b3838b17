\* Do completed fences return their descriptors when rutabaga has its own threads?
SPECIFICATION FairSpec
CONSTANTS
  FenceRings = {q1, q2}
  Plain = Plain
  Free = Free
  Worker = Worker
  MaxCmds = 2
CHECK_DEADLOCK FALSE
PROPERTY FencedReturnedThreaded
