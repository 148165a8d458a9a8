SPECIFICATION Spec
INVARIANTS Inv ParentsGate HeldStays PhaseKept OneWorker
CONSTANTS
  parent = parent
  child = child
  grand = grand
  Tasks = {parent, child, grand}
  Parents <- Family
  Spawnable = {child}
  Pullable = {child}
  Timeboxed = {child}
  Stubborn = {child}
  Verbs <- Calls
  FailureLimit = 2
  DefaultLimit = 2
  ViolationLimit = 2
  MaxRuns = 2
  Nobody = Nobody
\* A board whose attempts are used up and whose cards are all closed is at rest.
CHECK_DEADLOCK FALSE
