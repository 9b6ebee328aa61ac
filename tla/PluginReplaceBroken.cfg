SPECIFICATION SpecReplace
CONSTANTS
  ThreadNum = 2
  W = W
  A = A
  V = V
  Lib = {W, A, V}
  Version = {1, 2, 3}
  Broken = {1}
  Absent = Absent
  first = first
  second = second
  Section = {first, second}
  Api <- MCApi
  So <- MCSo
  Plan <- MCPlan
  Configs <- MCConfigs
  MaxGen = 5
  RetryTimes = 2
  Replaced = first
  All <- MCAll
  Without <- MCWithout
  OldFiles <- MCFiles
  New = 3
INVARIANT
  NewCodeServes
CHECK_DEADLOCK FALSE
