SPECIFICATION Spec
CONSTANTS
  Db = {1, 2, 3, 4, 5, 6}
  Redis = {1, 5}
  Mc = {2}
  Api = {3, 6}
  Woo = {4}
  Selects = {1}
  Compressed = {1, 2}
  Plain = {1, 2, 3, 4, 6}
  Tokens = {3}
  NoIp = {6}
  CompressNum = 2
  MaxKeys = 3
  MaxRounds = 2
  Unknown = 9
  Together = 2
INVARIANTS
  OwnAnswers
  ManyOwn
  NothingLeft
PROPERTY
  CallsReturn
