SPECIFICATION Spec
CONSTANTS
  d1 = d1
  NumThreads = 1
  DbNames = {d1}
  SleepTime = 2
  MaxReq = 2
  MaxCmd = 1
INVARIANT NobodyUsesOldPointer
