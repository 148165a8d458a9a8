SPECIFICATION FairSpec
INVARIANTS Inv FencedDelivery SentOnce PassedIsCovered
PROPERTIES SlowIsNotStale PendingIsClaimed
CONSTANTS
  Gateways = {g1, g2}
  Attempts = {a1, a2}
  Nobody = Nobody
  Places = {"gateway", "worker"}
  Steady = {g2}
  Manual = {g2}
  Remote = {}
  Asleep = FALSE
  Backlog = FALSE
  Hasty = FALSE
  MaxTime = 2
CHECK_DEADLOCK FALSE
