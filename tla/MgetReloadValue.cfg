SPECIFICATION SpecReload
CONSTANTS
  k1 = k1
  k2 = k2
  Garbage = Garbage
  Key = {k1, k2}
  CompressNum = 4
  ThreadNum = 3
  MaxServers = 2
  MaxKeys = 2
INVARIANT NoOthersValue
