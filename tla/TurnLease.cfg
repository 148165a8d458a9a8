SPECIFICATION FairSpec
INVARIANTS Inv MutualExclusion NotPinned
PROPERTIES CapRestored AskersServed
CONSTANTS
  Turns = {t1, t2, t3}
  Sessions = {s1, s2, s3}
  MaxEntries = 1
  NoLease = NoLease
\* Every turn may be over.
CHECK_DEADLOCK FALSE
