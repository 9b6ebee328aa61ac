SPECIFICATION Spec
CONSTANTS
  NumThreads = 2
  Uid = {3, 13}
  Sections <- MCSections
  Contents <- MCContents
  MemberDb = "members"
  TypeDb = "types"
  Follows <- MCFollows
  KeyFiles <- MCKeyFiles
  Busy = {1}
  MaxRequests = 2
  AlgNames = {"all", "RANK", "OTHER"}
INVARIANTS
  
  PlanFollowed
  EveryKeyOnce
PROPERTY
  BatchEnds
CHECK_DEADLOCK FALSE
