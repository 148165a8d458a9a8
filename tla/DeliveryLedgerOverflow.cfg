SPECIFICATION FairSpec
PROPERTIES OverflowDropsClosedFirst FloodRepliesRetried
CONSTANTS
  Replies = {r1, r2}
  Gateways = {g1}
  Steady = {g1}
  NoOwner = NoOwner
  MaxAttempts = 1
  MaxRows = 1
  WritesFail = FALSE
\* Every reply may be closed.
CHECK_DEADLOCK FALSE
