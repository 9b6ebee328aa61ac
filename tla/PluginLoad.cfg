SPECIFICATION Spec
CONSTANTS
  ThreadNum = 2
  W = W
  A = A
  Lib = {W, A}
  Version = {1, 2}
  Broken = {1}
  Absent = Absent
  first = first
  second = second
  Section = {first, second}
  Api <- MCApi
  So <- MCSo
  Plan <- MCPlan
  Configs <- MCConfigs
  MaxGen = 3
INVARIANTS
  ObjectsHaveCode
  OnlyServingIsOpen
  LostOnlyBy
PROPERTIES
  FreshCode
