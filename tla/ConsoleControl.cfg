\* Two ports, of which the second has a name.
SPECIFICATION FairSpec
CONSTANTS
  NumPorts = 2
  Consoles = {0}
  Named = {1}
  Inputs = {0}
  CmdIds = {0, 1, 2}
  MaxCmds = 2
  MaxPauses = 1
  BufBatch = 3
  MaxBufs = 6
CHECK_DEADLOCK FALSE
INVARIANTS
  HandshakeInOrder
  BuffersAccounted
  UsedIsSignalled
  PanicsOnlyWithWorker
  WakeupKept
PROPERTIES
  MessagesDelivered
  CommandsObeyed
