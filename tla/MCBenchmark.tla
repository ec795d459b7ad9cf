---------------------------- MODULE MCBenchmark -----------------------------
(* Command lines for TLC.                                                  *)
EXTENDS Benchmark

Arg(o, v) == [option |-> o, value |-> v]

Options == {Arg("mode", m) : m \in {"baseline", "compressed-mmap", "compressed-encrypted-write", "fast"}}
             \cup {Arg("size-mb", n) : n \in {0, 2, 3, 8}}
             \cup {Arg("output", "f"), Arg("help", "")}

\* Any two options before or after the output file, and all modes.
CommandLines ==
  BoundedSeq(Options, 2)
    \cup {<<a, Arg("output", "f"), b>> : a, b \in Options}
    \cup {<<Arg("mode", m), Arg("other", ""), Arg("output", "f")>> : m \in DOMAIN ModeOf}

\* Streams that grow for short texts.
SomeSize(kind, n) == (IF kind = "ceio" THEN 4 ELSE 2) + n \div 2
=============================================================================
