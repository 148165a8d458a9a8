SPECIFICATION Spec
INVARIANTS NoSilentResend
CONSTANTS
  Replies = {r1}
  Gateways = {g1, g2, g3}
  Steady = {g3}
  NoOwner = NoOwner
  MaxAttempts = 2
  MaxRows = 1
  WritesFail = FALSE
\* Every reply may be closed.
CHECK_DEADLOCK FALSE
