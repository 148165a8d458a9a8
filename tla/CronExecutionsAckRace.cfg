SPECIFICATION Spec
INVARIANT DispatchFailedNotStarted
CONSTANTS
  Executions = {e1}
  Dispatchers = {d1, d2}
  Steady = {d2}
  Opaque = {}
  Detached = {e1}
  Faulty = {}
  None = None
  MaxTerminal = 1
CHECK_DEADLOCK FALSE
