---------------------------- MODULE MCEditorMain ----------------------------
(* Command lines of up to three arguments, and blocks and pages for TLC:   *)
(* two blocks share a page, one spans two.                                 *)
EXTENDS EditorMain

TwoNames == {"a.ceio", "b.ceio"}

CommandLines == BoundedSeq(TwoNames \cup {"--io=write", "--io=mmap", "--io=?", "--help"}, 3)

BlockPages == [b \in Block |-> CASE b = 1 -> {"p"} [] b = 2 -> {"p", "q"} [] OTHER -> {"q"}]
=============================================================================
