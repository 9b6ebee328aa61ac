SPECIFICATION FairSpec
CONSTANTS
  k1 = k1
  k2 = k2
  Garbage = Garbage
  Key = {k1, k2}
  CompressNum = 4
  ThreadNum = 3
  MaxServers = 2
  MaxKeys = 3
INVARIANTS
  WindowsInside
  WindowsApart
  OwnValue
  NoKeyLost
PROPERTY
  CallReturns
