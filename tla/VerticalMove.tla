---------------------------- MODULE VerticalMove ----------------------------
(***************************************************************************)
(* Moving the cursor up and down a line: editor_app_move_vertical of       *)
(* src/editor_app.c, which scans a snapshot of the text for newlines and   *)
(* calls editor_core_move_to with the position it computed.                *)
(***************************************************************************)
EXTENDS Integers, Sequences

CONSTANTS
  Char,      \* the characters of the text
  Newline    \* '\n', one of them

ASSUME VerticalMoveAssumption == Newline \in Char

VARIABLES text, cursor

vars == <<text, cursor>>

-----------------------------------------------------------------------------
(* The scans.  data[p] in the code, counted from 0, is text[p + 1] here.   *)

\* Where a scan to the left from p stops: behind a newline, or at 0.
LineStart(t, p) ==
  CHOOSE s \in 0 .. p :
    /\ s = 0 \/ t[s] = Newline
    /\ \A q \in s + 1 .. p : t[q] # Newline

\* Where a scan to the right from p stops: at a newline, or at the end.
LineEnd(t, p) ==
  CHOOSE e \in p .. Len(t) :
    /\ e = Len(t) \/ t[e + 1] = Newline
    /\ \A q \in p + 1 .. e : t[q] # Newline

\* Mutant: a shorter target line does not limit the column.
TargetUnlimited(start, end, column) == start + column

\* The column to keep, or the end of the target line when it is shorter.
Target(start, end, column) ==
  start + (IF column < end - start THEN column ELSE end - start)

UpTarget(t, p) ==
  LET start       == LineStart(t, p)
      previousEnd == start - 1
  IN  IF start = 0 THEN p
      ELSE Target(LineStart(t, previousEnd), previousEnd, p - start)

\* Mutant: the column is counted from the newline before the line.
DownTargetShifted(t, p) ==
  LET start     == LineStart(t, p)
      nextStart == LineEnd(t, p) + 1
  IN  IF nextStart > Len(t) THEN p
      ELSE Target(nextStart, LineEnd(t, nextStart), p - start + 1)

\* Mutant: a last line without characters is not gone to.
DownTargetNotEmpty(t, p) ==
  LET start     == LineStart(t, p)
      nextStart == LineEnd(t, p) + 1
  IN  IF nextStart >= Len(t) THEN p
      ELSE Target(nextStart, LineEnd(t, nextStart), p - start)

DownTarget(t, p) ==
  LET start     == LineStart(t, p)
      nextStart == LineEnd(t, p) + 1
  IN  IF nextStart > Len(t) THEN p
      ELSE Target(nextStart, LineEnd(t, nextStart), p - start)

-----------------------------------------------------------------------------
\* editor_core_move_to: a position outside the text is refused.
MoveTo(position) ==
  /\ cursor' = IF position > Len(text) THEN cursor ELSE position
  /\ UNCHANGED text

editor_app_move_up   == MoveTo(UpTarget(text, cursor))
editor_app_move_down == MoveTo(DownTarget(text, cursor))

\* Every text and position is one that editing can reach.
Init == text \in Seq(Char) /\ cursor \in 0 .. Len(text)

Next == editor_app_move_up \/ editor_app_move_down

Spec == Init /\ [][Next]_vars
-----------------------------------------------------------------------------
(* Properties, in terms of rows and columns that are counted, not scanned. *)

Newlines(t) == {i \in DOMAIN t : t[i] = Newline}

\* The cursor is inside the text, and so are both targets: editor_core_move_to
\* never refuses a position that was computed here.
TypeOK == /\ text \in Seq(Char)
          /\ {cursor, UpTarget(text, cursor), DownTarget(text, cursor)} \subseteq 0 .. Len(text)

\* The positions of the same row as p: those with as many newlines before.
SameRow(t, p) ==
  {q \in 0 .. Len(t) : \A i \in Newlines(t) : i <= q <=> i <= p}

\* The positions of the next row: those with exactly one newline more before.
NextRow(t, p) ==
  {q \in 0 .. Len(t) : \E n \in Newlines(t) :
     /\ ~ n <= p
     /\ \A i \in Newlines(t) : i <= q <=> (i <= p \/ i = n)}

\* q keeps the column that p has in the row P, as far as the row Q allows.
KeepsColumn(P, p, Q, q) ==
  LET First(R) == CHOOSE f \in R : \A r \in R : f <= r
      Last(R)  == CHOOSE l \in R : \A r \in R : r <= l
  IN  \/ q - First(Q) = p - First(P)
      \/ q = Last(Q) /\ q - First(Q) < p - First(P)

\* Up and down go to the neighbouring row and the same column, or the end of
\* a row that is too short, and stay where they are when there is no such row.
MovesToNeighbouringRow ==
  [][ editor_app_move_up \/ editor_app_move_down =>
        LET here   == SameRow(text, cursor)
            target == SameRow(text, cursor')
        IN  \/ /\ cursor' \in NextRow(text, cursor)
               /\ KeepsColumn(here, cursor, target, cursor')
            \/ /\ cursor \in NextRow(text, cursor')
               /\ KeepsColumn(here, cursor, target, cursor') ]_vars

\* Down from a row that has a next row moves there: no line is a dead end.
RowsAreLeft ==
  /\ NextRow(text, cursor) # {} => DownTarget(text, cursor) \in NextRow(text, cursor)
  /\ UpTarget(text, cursor) = cursor =>
       (\A p \in 0 .. Len(text) : cursor \notin NextRow(text, p))
=============================================================================
