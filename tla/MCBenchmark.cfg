SPECIFICATION Spec
CONSTANTS
  Argv <- CommandLines
  DefaultSize = 1
  Mega = 4
  SizeRange = 16
  PatternSize = 5
  Chunk = 3
  StreamSize <- SomeSize
INVARIANTS
  ReportIsTrue
  RunsWhatWasAsked
PROPERTIES
  Ends
