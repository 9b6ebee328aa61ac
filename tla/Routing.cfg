SPECIFICATION Spec
CONSTANTS
  IpNum = 6
  PortNum = 2
  Key = {13, 47}
  SelectTypes = {0, 1, 2, 3, 4, 5, 6, 7, 8, 9, 10}
  MaxKeys = 2
  MaxSets = 2
INVARIANTS
  GroupsSplitKeys
  MgetAsksWhereGetAsks
  GetFindsWhatWasSet
  StoredByRule
