----------------------------- MODULE EditorCore -----------------------------
(***************************************************************************)
(* The editor core of src/editor_core.c: a gap buffer, a flag that says    *)
(* whether the text was edited since it was last saved or loaded, and a    *)
(* flag that says whether the core is between its init and its free.       *)
(*                                                                         *)
(* The program is single-threaded, so a call is one step, except for       *)
(* editor_core_move_to: its loop moves one byte per iteration, and each    *)
(* iteration is a step here.  moving is the position the loop runs to, or  *)
(* Idle when no call is in progress.                                       *)
(***************************************************************************)
EXTENDS GapBuffer

CONSTANTS
  LoadTexts,   \* the texts that editor_core_load_buffer is given
  Idle         \* no call of editor_core_move_to is in progress

ASSUME EditorCoreAssumption ==
  /\ \A t \in LoadTexts : t \in Seq(Byte) /\ Len(t) \in Size
  /\ Idle \notin Nat

VARIABLES
  dirty, initialized,
  moving,
  clean    \* history variable: the text at the last init, load or mark_clean

coreVars == <<dirty, initialized, clean>>
vars     == <<buf, result, dirty, initialized, moving, clean>>

\* is_valid_core fails: the call does nothing but return the error.
Rejected == ~ initialized /\ Fails(ERR_INVALID) /\ UNCHANGED coreVars

-----------------------------------------------------------------------------
(* Life cycle.  A client calls init on a core that is not initialized.     *)

Init == /\ \/ buf = NewBuffer(DefaultGap, << >>) /\ result = OK /\ initialized = TRUE
           \/ buf = FreedBuffer /\ result = ERR_MEMORY /\ initialized = FALSE
        /\ dirty = FALSE
        /\ moving = Idle
        /\ clean = << >>

editor_core_init ==
  /\ ~ initialized
  /\ gap_buffer_init(0)
  /\ initialized' = (result' = OK)
  /\ dirty' = FALSE
  /\ clean' = << >>

editor_core_free ==
  /\ gap_buffer_free
  /\ initialized' = FALSE
  /\ dirty' = FALSE
  /\ clean' = << >>

-----------------------------------------------------------------------------
(* Editing.                                                                *)

editor_core_insert_char(ch) ==
  \/ Rejected
  \/ /\ initialized
     /\ gap_buffer_insert_char(ch)
     /\ dirty' = (dirty \/ result' = OK)
     /\ UNCHANGED <<initialized, clean>>

\* Mutant: compares cursors, so a deletion behind the cursor goes unnoticed.
NoteDeletionByCursor ==
  /\ dirty' = (dirty \/ (result' = OK /\ Cursor(buf') # Cursor(buf)))
  /\ UNCHANGED <<initialized, clean>>

\* Dirty when the call succeeded and changed the length.
NoteDeletion ==
  /\ dirty' = (dirty \/ (result' = OK /\ Length(buf') # Length(buf)))
  /\ UNCHANGED <<initialized, clean>>

editor_core_backspace ==
  \/ Rejected
  \/ initialized /\ gap_buffer_delete_before_cursor /\ NoteDeletion

editor_core_delete ==
  \/ Rejected
  \/ initialized /\ gap_buffer_delete_at_cursor /\ NoteDeletion

-----------------------------------------------------------------------------
(* Moving the cursor.                                                      *)

editor_core_move_left ==
  \/ Rejected
  \/ initialized /\ gap_buffer_move_left /\ UNCHANGED coreVars

editor_core_move_right ==
  \/ Rejected
  \/ initialized /\ gap_buffer_move_right /\ UNCHANGED coreVars

\* The call to move_to: its checks, then the loop begins.
editor_core_move_to(position) ==
  \/ Rejected /\ UNCHANGED moving
  \/ /\ initialized
     /\ position > Length(buf)
     /\ Fails(ERR_INVALID)
     /\ UNCHANGED <<moving, coreVars>>
  \/ /\ initialized
     /\ position <= Length(buf)
     /\ moving' = position
     /\ UNCHANGED <<buf, result, coreVars>>

\* Mutant: the first loop also runs when the cursor is where it should be.
MoveToIterationTooFar ==
  /\ moving # Idle
  /\ \/ buf.gap_start >= moving /\ gap_buffer_move_left
     \/ buf.gap_start < moving /\ gap_buffer_move_right
  /\ moving' = IF result' = OK THEN moving ELSE Idle
  /\ UNCHANGED coreVars

\* One iteration of either loop; a failing iteration ends the call.
MoveToIteration ==
  /\ moving # Idle
  /\ \/ buf.gap_start > moving /\ gap_buffer_move_left
     \/ buf.gap_start < moving /\ gap_buffer_move_right
  /\ moving' = IF result' = OK THEN moving ELSE Idle
  /\ UNCHANGED coreVars

MoveToReturn ==
  /\ moving # Idle
  /\ buf.gap_start = moving
  /\ moving' = Idle
  /\ result' = OK
  /\ UNCHANGED <<buf, coreVars>>

-----------------------------------------------------------------------------
(* Exchanging the text with the file layer.                                *)

editor_core_load_buffer(t) ==
  \/ Rejected
  \/ /\ initialized
     /\ gap_buffer_load_buffer(t)
     /\ dirty' = (dirty /\ result' # OK)
     /\ clean' = IF result' = OK THEN t ELSE clean
     /\ UNCHANGED initialized

editor_core_load_null ==
  \/ Rejected
  \/ initialized /\ gap_buffer_load_null /\ UNCHANGED coreVars

editor_core_mark_clean ==
  /\ initialized
  /\ dirty' = FALSE
  /\ clean' = Text(buf)
  /\ UNCHANGED <<buf, result, initialized>>

-----------------------------------------------------------------------------
(* What a call does, and the loop of move_to.                              *)

Call == \/ editor_core_init
        \/ editor_core_free
        \/ \E ch \in Byte : editor_core_insert_char(ch)
        \/ editor_core_backspace
        \/ editor_core_delete
        \/ editor_core_move_left
        \/ editor_core_move_right
        \/ \E t \in LoadTexts : editor_core_load_buffer(t)
        \/ editor_core_load_null
        \/ editor_core_mark_clean

MoveToLoop == MoveToIteration \/ MoveToReturn

Next == \/ moving = Idle /\ Call /\ UNCHANGED moving
        \/ moving = Idle /\ \E p \in Size : editor_core_move_to(p)
        \/ MoveToLoop

Spec     == Init /\ [][Next]_vars
FairSpec == Spec /\ WF_vars(MoveToLoop)    \* a loop that runs keeps running
-----------------------------------------------------------------------------
(* Properties.                                                             *)

\* The fields of the struct describe the block: the gap lies inside it, and a
\* core that is not initialized holds no block.
TypeOK ==
  /\ IF initialized THEN WellFormed(buf) ELSE buf = FreedBuffer
  /\ result \in Results
  /\ dirty \in BOOLEAN
  /\ initialized \in BOOLEAN
  /\ moving = Idle \/ (moving \in 0 .. Length(buf) /\ initialized)
  /\ clean \in Seq(Byte)

\* No byte of the text, and so no byte that is drawn or saved, is one that
\* was allocated by realloc and never written.
TextIsWritten == \A i \in DOMAIN Text(buf) : Text(buf)[i] \in Byte

\* A core that is not dirty holds the text of the last init, load or
\* mark_clean: an edit that changes the text never goes unnoticed.
CleanMeansUnchanged == ~ dirty => Text(buf) = clean

\* The core implements the abstract document.  A move to a position takes
\* effect when it is called; the iterations of its loop change nothing that
\* the caller sees when the call returns.
DocumentCursor == IF moving = Idle THEN Cursor(buf) ELSE moving
DocumentResult == IF moving = Idle THEN result ELSE OK

Document == INSTANCE TextDocument WITH
  live   <- initialized,
  text   <- Text(buf),
  cursor <- DocumentCursor,
  result <- DocumentResult

ImplementsDocument == Document!Spec

\* A call to move_to returns, for every buffer and position.
MoveToReturns == moving # Idle ~> moving = Idle
=============================================================================
