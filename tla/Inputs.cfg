SPECIFICATION Spec
CONSTANTS
  Name <- MCName
  Value <- MCValue
  Percent <- MCPercent
  Garbled <- Damaged
  MaxLines = 14
  DbInfo <- Info
  DbsName <- List
  DbId <- Id
  DbType <- Type
  Place <- MCPlace
  IdWidth = 8
  KnownTypes = {0, 1, 2, 3}
  Size = 3
  Width = 100
  IntWidth = 40
  ByteSize = 2
  ConvMin = 4
  BufLen = 5
  MaxIds = 4
  ValueWidth = 8
  Files <- MCFiles
  Settable <- MCSettable
  Alphabets <- MCAlphabets
  MaxInput = 5
  Unset <- MCUnset
  Subs <- MCSubs
INVARIANTS
  LoadsAsWritten
  PiecesAgree
  FoundIsThere
  EncodingsKnown
  FilesReadWhole
PROPERTY
  WriteKeepsOthers
CHECK_DEADLOCK FALSE
