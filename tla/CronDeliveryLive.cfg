SPECIFICATION FairSpec
INVARIANT AtMostOnce
PROPERTIES EventuallySettled
CONSTANTS
  Executions = {e1}
  Gateways = {g1, g2, g3}
  Steady = {g3}
  Opaque = {}
  NoOwner = NoOwner
  NoItem = NoItem
  MaxTerminal = 0
  DrainLimit = 1
  MaxCalls = 2
CHECK_DEADLOCK FALSE
