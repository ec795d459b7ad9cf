----------------------------- MODULE MCCeioFile -----------------------------
(* Texts, and the sizes of their zlib streams, for TLC.                    *)
EXTENDS CeioFile, TLC

\* Editors and keys are interchangeable in the safety properties.
Symmetry == Permutations(Editor) \cup Permutations(Key)

\* Two texts that differ only behind a common start, and that start itself:
\* their payloads have the same size, so that a mixture of them can parse.
SameSize == {<<"a">>, <<"a", "b">>, <<"a", "c">>}
SameSizeCompressed == [t \in SameSize |-> Len(t)]

OneText == {<<"a">>}
OneTextCompressed == [t \in OneText |-> 1]

\* Texts of one and of two cipher blocks.
DifferentSizes == {<<"a">>, <<"a", "b">>}
DifferentSizesCompressed == [t \in DifferentSizes |-> IF Len(t) = 1 THEN 3 ELSE 4]

\* A text whose length does not fit the header, and compresses well.
Huge == {<<"a">>, [i \in 1 .. 17 |-> "a"]}
HugeCompressed == [t \in Huge |-> 3]
=============================================================================
