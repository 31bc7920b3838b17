\* Response buffers of no byte, a short header, a header, each response's size.
SPECIFICATION FairSpec
CONSTANTS
  Rooms = {0, 23, 24, 408, 1056}
  Extras = {1}
  CapsetLens = {0, 100}
  EdidSizes = {256, 1024, 1025}
  MaxChains = 2
CHECK_DEADLOCK FALSE
INVARIANTS
  UsedLenHonest
  WellFormedSurvives
PROPERTIES
  CommandsHandled
  StopJoins
