\* An input and an output pipe; the output takes one byte at a time.
SPECIFICATION FairSpec
CONSTANTS
  Kinds = {"InputPipe", "OutputPipe"}
  ChainLens = {1, 2}
  PipeRoom = 1
  MaxBytes = 3
  MaxChains = 2
  MaxDisables = 1
  MaxErrors = 1
CHECK_DEADLOCK FALSE
INVARIANTS
  UsedIsSignalled
PROPERTIES
  ImplementsPipe
  BytesMoved
  RingStops
  ThreadEnds
