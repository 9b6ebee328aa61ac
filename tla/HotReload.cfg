SPECIFICATION FairSpec
CONSTANTS
  d1 = d1
  NumThreads = 2
  DbNames = {d1}
  SleepTime = 2
  MaxReq = 1
  MaxCmd = 2
INVARIANTS
  NoUseAfterFree
  FieldsPointToLive
  Retired
  NoLeakWhenIdle
  ThreadsAgree
  AnswerMeansInstalled
PROPERTIES
  ViewNeverGoesBack
  ImplementsSafeReclaim
  CommandAnswered
