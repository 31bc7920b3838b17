\* Does Console::stop come back?
SPECIFICATION FairSpec
CONSTANTS
  NumPorts = 1
  Consoles = {0}
  Named = {}
  Inputs = {0}
  CmdIds = {0}
  MaxCmds = 1
  MaxPauses = 0
  BufBatch = 1
  MaxBufs = 1
CHECK_DEADLOCK FALSE
PROPERTY StopReturns
