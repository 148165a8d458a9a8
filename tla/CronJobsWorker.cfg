SPECIFICATION Spec
PROPERTIES WorkerNotDropped
SYMMETRY Symmetry
CONSTANTS
  Gateways = {g1, g2}
  Attempts = {a1, a2}
  Nobody = Nobody
  Places = {"worker"}
  Steady = {g2}
  Manual = {}
  Remote = {}
  Asleep = FALSE
  Backlog = FALSE
  Hasty = FALSE
  MaxTime = 2
CHECK_DEADLOCK FALSE
