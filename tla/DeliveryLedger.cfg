SPECIFICATION Spec
SYMMETRY Symmetry
INVARIANTS Inv OneGatewaySends MarkedUnlessPending BoundedSends
CONSTANTS
  Replies = {r1}
  Gateways = {g1, g2, g3}
  Steady = {}
  NoOwner = NoOwner
  MaxAttempts = 1
  MaxRows = 1
  WritesFail = TRUE
\* Every reply may be closed.
CHECK_DEADLOCK FALSE
