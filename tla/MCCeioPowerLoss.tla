--------------------------- MODULE MCCeioPowerLoss --------------------------
(* Texts for TLC, and the bound on the calls.                              *)
EXTENDS CeioPowerLoss, TLC

Symmetry == Permutations(Key)

\* Texts whose payloads have the same size, with a common start.
SameSize == {<<"a">>, <<"a", "b">>, <<"a", "c">>}
SameSizeCompressed == [t \in SameSize |-> Len(t)]
=============================================================================
