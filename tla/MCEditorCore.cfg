SPECIFICATION FairSpec
CONSTANTS
  Byte = {0, 1}
  Junk = Junk
  SizeMax = 5
  DefaultGap = 1
  Idle = Idle
  LoadTexts <- MCLoadTexts
INVARIANTS
  TypeOK
  TextIsWritten
  CleanMeansUnchanged
PROPERTIES
  ImplementsDocument
  MoveToReturns
