SPECIFICATION FairSpec
INVARIANTS Inv NotDoubled
PROPERTIES LateWritesFenced TailKept WaitersServed
CONSTANTS
  Turns = {t1, t2}
  Cleaners = {c1}
  Notes = {n1}
  Deliveries = {d1}
  Frail = {t1}
  Nobody = Nobody
  Seed = Seed
  Modes = {"inplace", "rotate"}
  MaxSegments = 3
  MaxBeside = 1
\* Every turn may be over or hang.
CHECK_DEADLOCK FALSE
