-------------------------- MODULE MCEditorSession --------------------------
(* The session for TLC: the keys are interchangeable.                      *)
EXTENDS EditorSession, TLC

Symmetry == Permutations(Key)
=============================================================================
