SPECIFICATION Spec
CONSTANTS
  IpNum = 6
  PortNum = 2
  Key = {13, 47}
  SelectTypes = {5}
  MaxKeys = 2
  MaxSets = 1
INVARIANT
  MgetFollowsRule
