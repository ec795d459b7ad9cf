---------------------------- MODULE MCEditorCore ----------------------------
(***************************************************************************)
(* Values for the constants of EditorCore that a .cfg file cannot state,   *)
(* and a check of NewCapacity against the loop it is the result of.        *)
(***************************************************************************)
EXTENDS EditorCore

\* Loads that fill the block to different capacities, and one that does not
\* fit: its size plus the default gap wraps around.
MCLoadTexts == {<< >>, <<1, 0>>, <<0, 1, 1>>, [i \in 1 .. SizeMax |-> 1]}

\* The doubling loop of ensure_gap as it is written, wrap-around included.
RECURSIVE DoublingLoop(_, _)
DoublingLoop(new_capacity, required) ==
  IF new_capacity >= required THEN new_capacity
  ELSE LET next == Plus(new_capacity, new_capacity)
       IN  IF next <= new_capacity THEN required ELSE DoublingLoop(next, required)

ASSUME \A c, required \in Size : NewCapacity(c, required) = DoublingLoop(c, required)
=============================================================================
