SPECIFICATION Spec
INVARIANTS Inv PendingUntouched
PROPERTIES PromiseSpec OutcomeIsFinal OkIsDeliveredOrQueued
SYMMETRY Symmetry
CONSTANTS
  Executions = {e1, e2}
  Gateways = {g1, g2}
  Steady = {g2}
  Opaque = {g1}
  NoOwner = NoOwner
  NoItem = NoItem
  MaxTerminal = 1
  DrainLimit = 1
  MaxCalls = 1
\* Every message may be settled and every gateway that may crash be dead.
CHECK_DEADLOCK FALSE
