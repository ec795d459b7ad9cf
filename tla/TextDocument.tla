---------------------------- MODULE TextDocument ----------------------------
(***************************************************************************)
(* What the editor core promises: a text with a cursor and a dirty flag,   *)
(* and operations that either take effect at once and completely or return *)
(* an error and change nothing.  There is no block, no gap and no capacity *)
(* here; module EditorCore is shown to implement this specification.       *)
(***************************************************************************)
EXTENDS SequencesExt

CONSTANTS Byte, LoadTexts

VARIABLES
  live,      \* the document exists
  text, cursor,
  dirty,     \* the text was edited since it was loaded, saved or created
  result     \* the value the last operation returned

vars == <<live, text, cursor, dirty, result>>

Returns(code) == result' = code /\ UNCHANGED <<live, text, cursor, dirty>>

Becomes(t, c, d) ==
  text' = t /\ cursor' = c /\ dirty' = d /\ result' = "OK" /\ UNCHANGED live

Empty == text = << >> /\ cursor = 0 /\ dirty = FALSE

Init == /\ Empty
        /\ \/ live = TRUE /\ result = "OK"
           \/ live = FALSE /\ result = "ERR_MEMORY"

Create == /\ ~ live
          /\ text' = << >> /\ cursor' = 0 /\ dirty' = FALSE
          /\ \/ live' = TRUE /\ result' = "OK"
             \/ live' = FALSE /\ result' = "ERR_MEMORY"

Destroy == /\ live' = FALSE
           /\ text' = << >> /\ cursor' = 0 /\ dirty' = FALSE
           /\ UNCHANGED result

\* A call that is refused: any call on a document that does not exist, a move
\* outside the text, a load of no bytes at all.
Refuse == Returns("ERR_INVALID")

Insert(ch) ==
  /\ live
  /\ \/ Becomes(InsertAt(text, cursor + 1, ch), cursor + 1, TRUE)
     \/ Returns("ERR_MEMORY")

Backspace ==
  /\ live
  /\ IF cursor > 0 THEN Becomes(RemoveAt(text, cursor), cursor - 1, TRUE)
     ELSE Returns("OK")

Delete ==
  /\ live
  /\ IF cursor < Len(text) THEN Becomes(RemoveAt(text, cursor + 1), cursor, TRUE)
     ELSE Returns("OK")

MoveTo(position) == live /\ Becomes(text, position, dirty)

\* A step of the cursor that stops at either end of the text.
MoveLeft  == live /\ IF cursor = 0 THEN Returns("OK") ELSE MoveTo(cursor - 1)
MoveRight == live /\ IF cursor = Len(text) THEN Returns("OK") ELSE MoveTo(cursor + 1)

\* The cursor is left behind the loaded text.
Load(t) ==
  /\ live
  /\ \/ Becomes(t, Len(t), FALSE)
     \/ Returns("ERR_MEMORY")

MarkClean == live /\ dirty' = FALSE /\ UNCHANGED <<live, text, cursor, result>>

Next == \/ Create \/ Destroy \/ Refuse
        \/ \E ch \in Byte : Insert(ch)
        \/ Backspace \/ Delete
        \/ MoveLeft \/ MoveRight
        \/ \E p \in 0 .. Len(text) : MoveTo(p)
        \/ \E t \in LoadTexts : Load(t)
        \/ MarkClean

Spec == Init /\ [][Next]_vars
=============================================================================
