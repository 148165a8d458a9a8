SPECIFICATION FairSpec
INVARIANTS Inv SideEffectsOwned LedgerAgreesWithJob
PROPERTIES TerminalIsFinal SettledStartsNothing AttemptsEnd
CONSTANTS
  Executions = {e1, e2}
  Dispatchers = {d1, d2}
  Steady = {d2}
  Opaque = {}
  Detached = {e1}
  Faulty = {e1, e2}
  None = None
  MaxTerminal = 1
\* Every attempt may be settled.
CHECK_DEADLOCK FALSE
