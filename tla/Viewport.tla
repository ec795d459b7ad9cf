------------------------------ MODULE Viewport ------------------------------
(***************************************************************************)
(* What the terminal shows of the text: editor_ui_draw and                 *)
(* editor_ui_adjust_viewport of src/editor_ui_ncurses.c.                   *)
(*                                                                         *)
(* The viewport is the first row and column that are visible.  It stays    *)
(* from one drawing to the next, while the text, the cursor and the size   *)
(* of the terminal change under it.  The text, the cursor and its moves up *)
(* and down are those of VerticalMove.                                     *)
(***************************************************************************)
EXTENDS VerticalMove, FiniteSets, SequencesExt

CONSTANTS
  Control,              \* the characters that are shown as '.'
  Tab,
  TabWidth,             \* the columns of a tab (4 in the code)
  Rows, Cols,           \* the sizes the terminal may have
  MaxLength             \* bound on the length of the text

ASSUME ViewportAssumption ==
  /\ Control \cup {Tab} \subseteq Char \ {Newline} /\ Tab \notin Control
  /\ TabWidth \in Nat \ {0}
  /\ Rows \subseteq Nat \ {0} /\ Cols \subseteq Nat \ {0}
  /\ MaxLength \in Nat

VARIABLES
  rows, cols,              \* the size of the terminal
  row_offset, col_offset,  \* the viewport
  shown                    \* what the terminal shows: "old", "text" or "error"

terminal    == <<rows, cols>>
viewport    == <<row_offset, col_offset>>
screen_vars == <<text, cursor, terminal, viewport, shown>>

ScreenInit ==
  /\ text = << >> /\ cursor = 0
  /\ rows \in Rows /\ cols \in Cols
  /\ row_offset = 0 /\ col_offset = 0
  /\ shown = "old"

-----------------------------------------------------------------------------
(* editor_ui_draw.                                                         *)

Width(ch) == IF ch = Tab THEN TabWidth ELSE 1

\* Mutant: a tab counts as a column of its own.
PositionNarrow(t, n) ==
  LET p[i \in 0 .. n] ==
        IF i = 0 THEN [row |-> 0, col |-> 0]
        ELSE IF t[i] = Newline THEN [row |-> p[i - 1].row + 1, col |-> 0]
        ELSE [p[i - 1] EXCEPT !.col = @ + 1]
  IN  p[n]

\* The row and column behind the first n characters, as both loops count them.
Position(t, n) ==
  LET p[i \in 0 .. n] ==
        IF i = 0 THEN [row |-> 0, col |-> 0]
        ELSE IF t[i] = Newline THEN [row |-> p[i - 1].row + 1, col |-> 0]
        ELSE [p[i - 1] EXCEPT !.col = @ + Width(t[i])]
  IN  p[n]

\* Mutant: off by one at the far edge of the window.
AdjustedTooLate(offset, at, size) ==
  IF at < offset THEN at
  ELSE IF at > offset + size THEN at - size + 1
  ELSE offset

\* editor_ui_adjust_viewport, for one of the two directions.  No position is
\* negative, so the tests for a negative offset at its end find none.
Adjusted(offset, at, size) ==
  IF at < offset THEN at
  ELSE IF at >= offset + size THEN at - size + 1
  ELSE offset

text_rows == IF rows - 3 < 1 THEN 1 ELSE rows - 3

\* The text is copied, the viewport follows the cursor, everything is painted.
Draw ==
  LET at == Position(text, cursor)
  IN  /\ shown = "old"
      /\ \/ /\ row_offset' = Adjusted(row_offset, at.row, text_rows)
            /\ col_offset' = Adjusted(col_offset, at.col, cols)
            /\ shown' = "text"
         \/ shown' = "error" /\ UNCHANGED viewport      \* no memory for the copy
      /\ UNCHANGED <<text, cursor, terminal>>

\* The lines between the header and the help.
Cells == (1 .. rows - 3) \X (0 .. cols - 1)

Blank == " "
Glyph(ch) == IF ch \in Control THEN "." ELSE IF ch \in {Newline, Tab} THEN Blank ELSE ch

\* The cells that the i-th character is painted on.  A tab that begins to the
\* left of the window is painted from the left edge, at its full width.
Painted(i) ==
  LET p       == Position(text, i - 1)
      row     == p.row - row_offset + 1
      col     == IF p.col < col_offset THEN 0 ELSE p.col - col_offset
      visible == /\ text[i] # Newline
                 /\ p.row >= row_offset /\ p.col + Width(text[i]) > col_offset
  IN  {cell \in Cells : visible /\ cell[1] = row /\ cell[2] \in col .. col + Width(text[i]) - 1}

\* The loop paints one character over the other on an empty screen.
Screen ==
  LET painted[i \in 0 .. Len(text)] ==
        IF i = 0 THEN [cell \in Cells |-> Blank]
        ELSE [cell \in Cells |->
                IF cell \in Painted(i) THEN Glyph(text[i]) ELSE painted[i - 1][cell]]
  IN  painted[Len(text)]

\* Where the terminal cursor is put.
ScreenCursor ==
  LET at   == Position(text, cursor)
      cell == <<at.row - row_offset + 1, at.col - col_offset>>
  IN  IF cell \in Cells THEN cell ELSE <<rows - 1, 0>>

-----------------------------------------------------------------------------
(* A key changes the text or moves the cursor, getmaxyx finds the terminal *)
(* at another size; then the program draws again.                          *)

\* A control character cannot be typed: it stands for one of a loaded text.
Edit ==
  \/ \E ch \in Char : /\ Len(text) < MaxLength
                      /\ text' = InsertAt(text, cursor + 1, ch) /\ cursor' = cursor + 1
  \/ cursor > 0 /\ text' = RemoveAt(text, cursor) /\ cursor' = cursor - 1
  \/ cursor < Len(text) /\ text' = RemoveAt(text, cursor + 1) /\ UNCHANGED cursor

Move ==
  \/ editor_app_move_up
  \/ editor_app_move_down
  \/ cursor > 0 /\ cursor' = cursor - 1 /\ UNCHANGED text
  \/ cursor < Len(text) /\ cursor' = cursor + 1 /\ UNCHANGED text

HandleKey ==
  /\ shown # "old" /\ shown' = "old"
  /\ Edit \/ Move
  /\ UNCHANGED <<terminal, viewport>>

Resize ==
  /\ shown # "old" /\ shown' = "old"
  /\ rows' \in Rows /\ cols' \in Cols
  /\ UNCHANGED <<text, cursor, viewport>>

ScreenNext == Draw \/ HandleKey \/ Resize

ScreenSpec == ScreenInit /\ [][ScreenNext]_screen_vars
-----------------------------------------------------------------------------
(* Properties, with rows and columns counted instead of walked.            *)

\* The characters of a line that are before the n-th position of the text.
Before(n) == {i \in 1 .. n : \A j \in i .. n : text[j] # Newline}

RowOf(n)    == Cardinality({i \in 1 .. n : text[i] = Newline})
ColumnOf(n) == Cardinality(Before(n))
               + (TabWidth - 1) * Cardinality({i \in Before(n) : text[i] = Tab})

\* After every drawing, each cell of the text area shows the character that
\* covers that row and column of the text, and is blank where there is none:
\* partly visible tabs at either edge and lines outside the window included.
ScreenShowsText ==
  shown = "text" => \A cell \in Cells :
    LET covering == { i \in 1 .. Len(text) :
                        /\ text[i] # Newline
                        /\ RowOf(i - 1) = row_offset + cell[1] - 1
                        /\ ColumnOf(i - 1) <= col_offset + cell[2]
                        /\ col_offset + cell[2] < ColumnOf(i - 1) + Width(text[i]) }
    IN  Screen[cell] = IF covering = {} THEN Blank
                       ELSE Glyph(text[CHOOSE i \in covering : TRUE])

\* However the text, the cursor and the terminal changed since the last
\* drawing, the cursor is drawn inside the text area, at the place of the
\* character it stands on, on every terminal with a line for text; and the
\* window never begins before the text.
CursorIsShown ==
  /\ row_offset >= 0 /\ col_offset >= 0
  /\ shown = "text" /\ rows > 3 =>
       /\ ScreenCursor \in Cells
       /\ ScreenCursor = <<RowOf(cursor) - row_offset + 1, ColumnOf(cursor) - col_offset>>
=============================================================================
