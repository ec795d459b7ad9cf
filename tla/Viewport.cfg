SPECIFICATION ScreenSpec
CONSTANTS
  Char = {"a", "x", "NL", "TAB"}
  Control = {"x"}
  Newline = "NL"
  Tab = "TAB"
  TabWidth = 3
  Rows = {3, 4, 5}
  Cols = {2, 4}
  MaxLength = 4
INVARIANTS
  TypeOK
  RowsAreLeft
  ScreenShowsText
  CursorIsShown
PROPERTIES
  MovesToNeighbouringRow
