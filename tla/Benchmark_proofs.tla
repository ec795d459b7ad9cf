-------------------------- MODULE Benchmark_proofs --------------------------
(***************************************************************************)
(* Proofs about module Benchmark, for all command lines, every length of   *)
(* the repeated line and of a chunk, and every width of a size_t.          *)
(***************************************************************************)
EXTENDS Benchmark, SequenceTheorems, TLAPS

-----------------------------------------------------------------------------
(* Numbers.                                                                *)

LEMMA Division ==
  ASSUME NEW n \in Nat, NEW b \in Nat \ {0}
  PROVE  /\ n \div b \in Nat /\ n % b \in 0 .. b - 1
         /\ n = (n \div b) * b + (n % b)
OBVIOUS

LEMMA ProductGrows ==
  ASSUME NEW a \in Nat, NEW c \in Nat, a < c, NEW b \in Nat
  PROVE  a * b \in Nat /\ c * b \in Nat /\ a * b + b <= c * b
<1>1. PICK d \in Nat : c = a + 1 + d
  <2>1. c - a - 1 \in Nat /\ c = a + 1 + (c - a - 1)
    OBVIOUS
  <2> QED
    BY <2>1
<1>2. \A x, y \in Nat : x * y \in Nat
  OBVIOUS
<1>3. a * b \in Nat /\ d * b \in Nat /\ c * b \in Nat
  BY <1>2
<1>4. c * b = a * b + b + d * b
  BY <1>1
<1> QED
  BY <1>3, <1>4

\* The rest of a division is the only small number that completes a multiple.
LEMMA RestIs ==
  ASSUME NEW b \in Nat \ {0}, NEW q \in Nat, NEW r \in 0 .. b - 1
  PROVE  q * b + r \in Nat /\ (q * b + r) % b = r
<1> DEFINE n == q * b + r
           d == n \div b
           Q == q * b
           D == d * b
<1>1. \A x, y \in Nat : x * y \in Nat
  OBVIOUS
<1>2. Q \in Nat /\ n \in Nat
  BY <1>1
<1> HIDE DEF n
<1>3. d \in Nat /\ n % b \in 0 .. b - 1 /\ n = D + (n % b)
  BY <1>2, Division
<1>4. n = Q + r
  BY DEF n
<1> HIDE DEF d
<1>5. ASSUME d < q PROVE FALSE
  <2>1. D \in Nat /\ D + b <= Q
    BY <1>3, <1>5, ProductGrows
  <2> HIDE DEF D, Q
  <2> QED
    BY <1>2, <1>3, <1>4, <2>1
<1>6. ASSUME q < d PROVE FALSE
  <2>1. D \in Nat /\ Q + b <= D
    BY <1>3, <1>6, ProductGrows
  <2> HIDE DEF D, Q
  <2> QED
    BY <1>2, <1>3, <1>4, <2>1
<1>7. d = q
  BY <1>3, <1>5, <1>6
<1>8. D = Q /\ Q \in Nat
  BY <1>2, <1>7
<1> HIDE DEF D, Q
<1>9. n % b = r
  BY <1>3, <1>4, <1>8
<1> QED
  BY <1>2, <1>9 DEF n

\* The last line of report: a percentage of a text that is not empty.
LEMMA Percentage ==
  ASSUME NEW t \in Nat \ {0}, NEW f \in 0 .. t
  PROVE  100 - (100 * f) \div t \in 0 .. 100
<1> DEFINE q == (100 * f) \div t
<1>1. /\ q \in Nat /\ (100 * f) % t \in 0 .. t - 1
      /\ 100 * f = q * t + ((100 * f) % t)
  <2>1. 100 * f \in Nat
    OBVIOUS
  <2> QED
    BY <2>1, Division
<1> HIDE DEF q
<1>2. ASSUME 100 < q PROVE FALSE
  <2>1. 100 * t + t <= q * t /\ q * t \in Nat
    BY <1>1, <1>2, ProductGrows
  <2> DEFINE Q == q * t
  <2>2. 100 * t + t <= Q /\ Q \in Nat /\ 100 * f = Q + ((100 * f) % t)
    BY <1>1, <2>1
  <2> HIDE DEF Q
  <2> QED
    BY <1>1, <2>2
<1>3. 100 - q \in 0 .. 100
  BY <1>1, <1>2
<1> QED
  BY <1>3 DEF q
-----------------------------------------------------------------------------
(* Texts.                                                                  *)

LEMMA TextIsSeq ==
  ASSUME NEW n \in Nat
  PROVE  TextOf(n) \in Seq(Nat) /\ Len(TextOf(n)) = n
<1>1. \A i \in 1 .. n : (i - 1) % PatternSize \in Nat
  <2> TAKE i \in 1 .. n
  <2>1. i - 1 \in Nat
    OBVIOUS
  <2> QED
    BY <2>1, Division, BenchmarkAssumption
<1> QED
  BY <1>1 DEF TextOf

\* A line, or the start of one, behind whole lines.
LEMMA LineCopied ==
  ASSUME NEW q \in Nat, NEW n \in 0 .. PatternSize, q * PatternSize \in Nat
  PROVE  TextOf(q * PatternSize) \o [i \in 1 .. n |-> i - 1] = TextOf(q * PatternSize + n)
<1> DEFINE L    == q * PatternSize
           line == [i \in 1 .. n |-> i - 1]
           both == TextOf(L) \o line
<1>1. PatternSize \in Nat \ {0}
  BY BenchmarkAssumption
<1>2. \A r \in 0 .. PatternSize - 1 : (L + r) % PatternSize = r
  BY <1>1, RestIs
<1> HIDE DEF L
<1>3. L \in Nat /\ n \in Nat
  BY <1>1 DEF L
<1>4. line \in Seq(Nat) /\ Len(line) = n
  BY <1>3
<1>5. TextOf(L) \in Seq(Nat) /\ Len(TextOf(L)) = L
  BY <1>3, TextIsSeq
<1>6. TextOf(L + n) \in Seq(Nat) /\ Len(TextOf(L + n)) = L + n
  BY <1>3, TextIsSeq
<1>7. both \in Seq(Nat) /\ Len(both) = L + n
  BY <1>3, <1>4, <1>5
<1>8. ASSUME NEW i \in 1 .. L + n PROVE both[i] = TextOf(L + n)[i]
  <2>1. TextOf(L + n)[i] = (i - 1) % PatternSize
    BY <1>3 DEF TextOf
  <2>2. CASE i <= L
    <3>1. both[i] = TextOf(L)[i] /\ i \in 1 .. L
      BY <1>3, <1>4, <1>5, <2>2
    <3> QED
      BY <2>1, <3>1 DEF TextOf
  <2>3. CASE L < i
    <3>1. both[i] = line[i - L] /\ i - L \in 1 .. n
      BY <1>3, <1>4, <1>5, <2>3
    <3>2. line[i - L] = i - L - 1
      BY <3>1
    <3>3. i - L - 1 \in 0 .. PatternSize - 1 /\ i - 1 = L + (i - L - 1)
      BY <1>1, <1>3, <3>1
    <3> QED
      BY <1>2, <2>1, <3>1, <3>2, <3>3
  <2>4. i <= L \/ L < i
    BY <1>3
  <2> QED
    BY <2>2, <2>3, <2>4
<1>9. both = TextOf(L + n)
  <2> HIDE DEF both
  <2> QED
    BY <1>3, <1>6, <1>7, <1>8, SeqEqual
<1> QED
  BY <1>9 DEF L

\* What write took of the text, behind what it took before.
LEMMA ChunkWritten ==
  ASSUME NEW t \in Nat, NEW o \in 0 .. t, NEW w \in 0 .. t - o
  PROVE  TextOf(o) \o SubSeq(TextOf(t), o + 1, o + w) = TextOf(o + w)
<1> DEFINE part == SubSeq(TextOf(t), o + 1, o + w)
           both == TextOf(o) \o part
<1>1. o \in Nat /\ o + w \in Nat /\ w \in Nat
  OBVIOUS
<1>2. TextOf(o) \in Seq(Nat) /\ Len(TextOf(o)) = o
  BY <1>1, TextIsSeq
<1>3. TextOf(t) \in Seq(Nat) /\ Len(TextOf(t)) = t
  BY TextIsSeq
<1>4. TextOf(o + w) \in Seq(Nat) /\ Len(TextOf(o + w)) = o + w
  BY <1>1, TextIsSeq
<1>5. /\ part \in Seq(Nat) /\ Len(part) = w
      /\ \A i \in 1 .. w : part[i] = TextOf(t)[o + i]
  BY <1>1, <1>3, SubSeqProperties
<1>6. both \in Seq(Nat) /\ Len(both) = o + w
  BY <1>1, <1>2, <1>5
<1>7. ASSUME NEW i \in 1 .. o + w PROVE both[i] = TextOf(o + w)[i]
  <2>1. TextOf(o + w)[i] = (i - 1) % PatternSize
    BY DEF TextOf
  <2>2. CASE i <= o
    <3>1. both[i] = TextOf(o)[i] /\ i \in 1 .. o
      BY <1>1, <1>2, <1>5, <2>2
    <3> QED
      BY <2>1, <3>1 DEF TextOf
  <2>3. CASE o < i
    <3>1. both[i] = part[i - o] /\ i - o \in 1 .. w /\ o + (i - o) = i /\ i \in 1 .. t
      BY <1>1, <1>2, <1>5, <2>3
    <3>2. both[i] = TextOf(t)[i]
      BY <1>5, <3>1
    <3> QED
      BY <2>1, <3>1, <3>2 DEF TextOf
  <2>4. i <= o \/ o < i
    BY <1>1
  <2> QED
    BY <2>2, <2>3, <2>4
<1>8. both = TextOf(o + w)
  <2> HIDE DEF both
  <2> QED
    BY <1>1, <1>4, <1>6, <1>7, SeqEqual
<1> QED
  BY <1>8
-----------------------------------------------------------------------------
(* The invariant.                                                          *)

\* The last value that the arguments so far gave to an option.
LastSoFar(option, default, value) ==
  \/ value = default /\ \A i \in 1 .. at - 1 : argv[i].option # option
  \/ \E i \in 1 .. at - 1 :
       /\ argv[i].option = option /\ value = argv[i].value
       /\ \A j \in 1 .. at - 1 : argv[j].option = option => j <= i

ReadSoFar ==
  /\ \E m, n, o :
       /\ config = [mode |-> ModeOf[m], size_mb |-> n, output_path |-> o]
       /\ LastSoFar("mode", "baseline", m)
       /\ LastSoFar("size-mb", DefaultSize, n) /\ n \in Nat
       /\ LastSoFar("output", NoName, o)
  /\ \A i \in 1 .. at - 1 : ~ Stops(argv[i])

\* A configuration that benchmark_run accepts, and the size of its text.
Accepted ==
  /\ at > Len(argv)
  /\ config.size_mb # 0 /\ config.output_path # NoName
  /\ target = (config.size_mb * Mega) % SizeRange
  /\ target \in 0 .. SizeRange - 1

\* Whole lines, until the last one is cut.
BuiltSoFar ==
  /\ Len(buffer) \in 0 .. target /\ buffer = TextOf(Len(buffer))
  /\ Len(buffer) = target \/ \E q \in Nat : Len(buffer) = q * PatternSize

WrittenSoFar ==
  /\ config.mode = "BASELINE"
  /\ buffer = TextOf(target) /\ offset \in 0 .. target
  /\ file = [kind |-> "plain", bytes |-> TextOf(offset)]
  /\ did = [kind |-> "plain", backend |-> "chunks"]

\* The file is complete.
Stored ==
  /\ did = [ kind    |-> Pipeline,
             backend |-> IF config.mode = "BASELINE" THEN "chunks" ELSE Backend ]
  /\ file = IF did.kind = "plain" THEN [kind |-> "plain", bytes |-> TextOf(target)]
            ELSE [kind |-> did.kind, text |-> TextOf(target)]

SuccessWasAsked ==
  exit = "SUCCESS" =>
    \/ report # None
    \/ Ending # {} /\ argv[Min(Ending)].option = "help"

IInv ==
  /\ argv \in Argv /\ at \in 1 .. Len(argv) + 1
  /\ pc \in {"args", "build", "write", "stat", "ended"}
  /\ pc # "ended" => ReadSoFar /\ report = None /\ exit = "running"
  /\ pc = "args" => buffer = << >> /\ offset = 0
  /\ pc \in {"build", "write", "stat"} => Accepted
  /\ pc = "build" => BuiltSoFar /\ offset = 0
  /\ pc = "write" => WrittenSoFar
  /\ pc = "stat" => Stored
  /\ ReportIsTrue /\ SuccessWasAsked

LEMMA Arguments ==
  ASSUME argv \in Argv
  PROVE  /\ Len(argv) \in Nat /\ DOMAIN argv = 1 .. Len(argv)
         /\ \A i \in 1 .. Len(argv) : argv[i].option = "size-mb" => argv[i].value \in Nat
BY BenchmarkAssumption

\* The least and the greatest member, once one is known.
LEMMA MinIs ==
  ASSUME NEW S, S \subseteq Nat, NEW m \in S, \A x \in S : m <= x
  PROVE  Min(S) = m
<1>1. \A x \in S : (\A y \in S : x =< y) => x = m
  OBVIOUS
<1> QED
  BY <1>1 DEF Min

LEMMA MaxIs ==
  ASSUME NEW S, S \subseteq Nat, NEW m \in S, \A x \in S : x <= m
  PROVE  Max(S) = m
<1>1. \A x \in S : (\A y \in S : x >= y) => x = m
  OBVIOUS
<1> QED
  BY <1>1 DEF Max

LEMMA Initial == Init => IInv
<1> SUFFICES ASSUME Init PROVE IInv
  OBVIOUS
<1>1. argv \in Argv /\ at = 1 /\ Len(argv) \in Nat /\ 1 .. at - 1 = {}
  BY Arguments DEF Init
<1>2. DefaultSize \in Nat /\ ModeOf["baseline"] = "BASELINE"
  BY BenchmarkAssumption DEF ModeOf
<1>3. ReadSoFar
  <2>1. \A option, default : LastSoFar(option, default, default)
    BY <1>1 DEF LastSoFar
  <2> QED
    BY <1>1, <1>2, <2>1 DEF ReadSoFar, Init
<1> QED
  BY <1>1, <1>3 DEF IInv, Init, ReportIsTrue, SuccessWasAsked

\* An argument gives its option its value and leaves the others.
LEMMA LastNext ==
  ASSUME at \in Nat \ {0}, argv' = argv, at' = at + 1,
         NEW a, a = argv[at],
         NEW option, NEW default, NEW value, LastSoFar(option, default, value)
  PROVE  LastSoFar(option, default, IF a.option = option THEN a.value ELSE value)'
<1>1. at' - 1 = at /\ at \in 1 .. at
  OBVIOUS
<1>2. 1 .. at = (1 .. at - 1) \cup {at} /\ \A i \in 1 .. at : i <= at
  OBVIOUS
<1>3. CASE a.option = option
  BY <1>1, <1>2, <1>3 DEF LastSoFar
<1>4. CASE a.option # option
  BY <1>1, <1>2, <1>4 DEF LastSoFar
<1> QED
  BY <1>3, <1>4

LEMMA ReadArgumentInv == IInv /\ ReadArgument => IInv'
<1> SUFFICES ASSUME IInv, ReadArgument PROVE IInv'
  OBVIOUS
<1>0. PICK a : a = argv[at]
  OBVIOUS
<1>1. /\ pc = "args" /\ at \in 1 .. Len(argv) /\ at \in Nat \ {0} /\ at' = at + 1
      /\ UNCHANGED <<argv, target, buffer, offset, file, did, report>>
      /\ argv \in Argv /\ Len(argv) \in Nat /\ DOMAIN argv = 1 .. Len(argv)
      /\ ReadSoFar /\ report = None /\ exit = "running" /\ buffer = << >> /\ offset = 0
      /\ a.option = "size-mb" => a.value \in Nat
  BY <1>0, Arguments DEF ReadArgument, IInv
<1>2. CASE Stops(a)
  <2>1. /\ pc' = "ended" /\ config' = config
        /\ exit' = IF a.option = "help" THEN "SUCCESS" ELSE "FAILURE"
    BY <1>0, <1>2 DEF ReadArgument, Exit
  <2>2. ASSUME a.option = "help"
        PROVE  Ending # {} /\ argv[Min(Ending)].option = "help"
    <3>1. at \in Ending /\ Ending \subseteq Nat
      BY <1>0, <1>1, <1>2 DEF Ending
    <3>2. \A i \in Ending : at <= i
      BY <1>1 DEF Ending, ReadSoFar
    <3>3. Min(Ending) = at
      BY <3>1, <3>2, MinIs
    <3> QED
      BY <1>0, <2>2, <3>1, <3>3
  <2>3. Ending' = Ending
    BY <1>1 DEF Ending
  <2>4. SuccessWasAsked'
    BY <1>1, <2>1, <2>2, <2>3 DEF SuccessWasAsked
  <2>5. ReportIsTrue'
    BY <1>1 DEF ReportIsTrue
  <2> QED
    BY <1>1, <2>1, <2>4, <2>5 DEF IInv
<1>3. CASE ~ Stops(a)
  <2>1. config' = WithArgument(a) /\ UNCHANGED <<pc, exit>>
    BY <1>0, <1>3 DEF ReadArgument
  <2>2. PICK m, n, o :
          /\ config = [mode |-> ModeOf[m], size_mb |-> n, output_path |-> o]
          /\ LastSoFar("mode", "baseline", m)
          /\ LastSoFar("size-mb", DefaultSize, n) /\ n \in Nat
          /\ LastSoFar("output", NoName, o)
    BY <1>1 DEF ReadSoFar
  <2> DEFINE m2 == IF a.option = "mode" THEN a.value ELSE m
             n2 == IF a.option = "size-mb" THEN a.value ELSE n
             o2 == IF a.option = "output" THEN a.value ELSE o
  <2>3. config' = [mode |-> ModeOf[m2], size_mb |-> n2, output_path |-> o2]
    BY <2>1, <2>2 DEF WithArgument
  <2>4. LastSoFar("mode", "baseline", m2)'
    BY <1>0, <1>1, <2>2, LastNext
  <2>5. LastSoFar("size-mb", DefaultSize, n2)' /\ n2 \in Nat
    BY <1>0, <1>1, <2>2, LastNext
  <2>6. LastSoFar("output", NoName, o2)'
    BY <1>0, <1>1, <2>2, LastNext
  <2>7. \A i \in 1 .. at' - 1 : ~ Stops(argv'[i])
    BY <1>0, <1>1, <1>3 DEF ReadSoFar
  <2> HIDE DEF m2, n2, o2
  <2>8. ReadSoFar'
    BY <2>3, <2>4, <2>5, <2>6, <2>7 DEF ReadSoFar
  <2>9. ReportIsTrue' /\ SuccessWasAsked'
    BY <1>1, <2>1 DEF ReportIsTrue, SuccessWasAsked
  <2> QED
    BY <1>1, <2>1, <2>8, <2>9 DEF IInv
<1> QED
  BY <1>2, <1>3

\* A failure ends the program without a report.
LEMMA FailureInv ==
  ASSUME IInv, pc # "ended", Exit("FAILURE"), UNCHANGED <<argv, at, report>>
  PROVE  IInv'
BY DEF IInv, Exit, ReportIsTrue, SuccessWasAsked

\* After the arguments they stay as they were read, and nothing is reported
\* before the end.
LEMMA Kept ==
  ASSUME IInv, pc # "ended", UNCHANGED <<argv, at, config, report, exit>>
  PROVE  /\ argv' \in Argv /\ at' \in 1 .. Len(argv') + 1
         /\ ReadSoFar' /\ report' = None /\ exit' = "running"
         /\ ReportIsTrue' /\ SuccessWasAsked'
         /\ Accepted /\ target' = target => Accepted'
<1>1. ReadSoFar /\ ReadSoFar' /\ report' = None /\ exit' = "running"
  BY DEF IInv, ReadSoFar, LastSoFar
<1> QED
  BY <1>1 DEF IInv, ReportIsTrue, SuccessWasAsked, Accepted

LEMMA BeginRunInv == IInv /\ BeginRun => IInv'
<1> SUFFICES ASSUME IInv, BeginRun PROVE IInv'
  OBVIOUS
<1>1. /\ pc = "args" /\ at > Len(argv) /\ ReadSoFar /\ report = None /\ exit = "running"
      /\ buffer = << >> /\ offset = 0
      /\ UNCHANGED <<argv, at, config, buffer, offset, file, did, report>>
  BY DEF BeginRun, IInv
<1>2. CASE Exit("FAILURE")
  BY <1>1, <1>2, FailureInv
<1>3. CASE /\ config.output_path # NoName /\ config.size_mb # 0
           /\ target' = (config.size_mb * Mega) % SizeRange
           /\ pc' = "build" /\ UNCHANGED exit
  <2>1. config.size_mb \in Nat
    BY <1>1 DEF ReadSoFar
  <2>2. config.size_mb * Mega \in Nat
    <3>1. \A x, y \in Nat : x * y \in Nat
      OBVIOUS
    <3> QED
      BY <2>1, <3>1, BenchmarkAssumption
  <2>3. target' \in 0 .. SizeRange - 1
    BY <1>3, <2>2, Division, BenchmarkAssumption
  <2>4. Accepted'
    BY <1>1, <1>3, <2>3 DEF Accepted
  <2>5. BuiltSoFar'
    <3>1. << >> = TextOf(0) /\ Len(<< >>) = 0
      BY DEF TextOf
    <3>2. 0 = 0 * PatternSize
      BY BenchmarkAssumption
    <3>3. 0 \in 0 .. target' /\ buffer' = << >>
      BY <1>1, <2>3, BenchmarkAssumption
    <3> QED
      BY <3>1, <3>2, <3>3 DEF BuiltSoFar
  <2> QED
    BY <1>1, <1>3, <2>4, <2>5, Kept DEF IInv
<1> QED
  BY <1>2, <1>3 DEF BeginRun

LEMMA CopyLineInv == IInv /\ CopyLine => IInv'
<1> SUFFICES ASSUME IInv, CopyLine PROVE IInv'
  OBVIOUS
<1>1. /\ pc = "build" /\ Len(buffer) < target /\ Accepted /\ BuiltSoFar /\ offset = 0
      /\ buffer' = buffer \o [i \in 1 .. CopySize(Len(buffer)) |-> i - 1]
      /\ UNCHANGED <<argv, at, config, pc, target, offset, file, did, report, exit>>
  BY DEF CopyLine, IInv
<1>2. PICK t \in Nat, q \in Nat : t = target /\ Len(buffer) = q * PatternSize
  BY <1>1, BenchmarkAssumption DEF Accepted, BuiltSoFar
<1>3. PICK L \in Nat : L = q * PatternSize
  BY <1>1, <1>2, BenchmarkAssumption DEF BuiltSoFar
<1>4. PICK n \in 0 .. PatternSize :
        /\ n = CopySize(L) /\ L + n \in 0 .. t
        /\ L + n = t \/ n = PatternSize
  <2>1. CopySize(L) = IF L + PatternSize > t THEN t - L ELSE PatternSize
    BY <1>2 DEF CopySize
  <2>2. L < t /\ PatternSize \in Nat
    BY <1>1, <1>2, <1>3, BenchmarkAssumption
  <2>3. CASE L + PatternSize > t
    <3>1. t - L \in 0 .. PatternSize /\ L + (t - L) = t /\ t \in 0 .. t
      BY <2>2, <2>3
    <3> QED
      BY <2>1, <2>3, <3>1
  <2>4. CASE ~ (L + PatternSize > t)
    <3>1. PatternSize \in 0 .. PatternSize /\ L + PatternSize \in 0 .. t
      BY <2>2, <2>4
    <3> QED
      BY <2>1, <2>4, <3>1
  <2> QED
    BY <2>3, <2>4
<1>5. buffer' = TextOf(L + n)
  <2>1. buffer = TextOf(L)
    BY <1>1, <1>2, <1>3 DEF BuiltSoFar
  <2>2. buffer' = TextOf(L) \o [i \in 1 .. n |-> i - 1]
    BY <1>1, <1>2, <1>3, <1>4, <2>1
  <2> QED
    BY <1>3, <2>2, LineCopied
<1>6. L + n \in Nat /\ Len(buffer') = L + n
  BY <1>4, <1>5, TextIsSeq
<1>7. L + n = t \/ \E p \in Nat : L + n = p * PatternSize
  <2>1. ASSUME n = PatternSize PROVE q + 1 \in Nat /\ L + n = (q + 1) * PatternSize
    BY <1>3, <2>1, BenchmarkAssumption
  <2> QED
    BY <1>4, <2>1
<1>8. BuiltSoFar'
  BY <1>1, <1>2, <1>4, <1>5, <1>6, <1>7 DEF BuiltSoFar
<1> QED
  BY <1>1, <1>8, Kept DEF IInv

\* What is built is the whole text.
LEMMA BuiltIsText ==
  ASSUME IInv, Built
  PROVE  buffer = TextOf(target) /\ Accepted /\ offset = 0 /\ target \in Nat
<1>1. BuiltSoFar /\ Accepted /\ offset = 0 /\ Len(buffer) >= target
  BY DEF IInv, Built
<1>2. target \in Nat /\ Len(buffer) \in 0 .. target
  BY <1>1, BenchmarkAssumption DEF Accepted, BuiltSoFar
<1>3. Len(buffer) = target
  BY <1>1, <1>2
<1> QED
  BY <1>1, <1>2, <1>3 DEF BuiltSoFar

LEMMA OpenBaselineInv == IInv /\ OpenBaseline => IInv'
<1> SUFFICES ASSUME IInv, OpenBaseline PROVE IInv'
  OBVIOUS
<1>1. /\ Built /\ pc = "build" /\ config.mode = "BASELINE"
      /\ UNCHANGED <<argv, at, config, target, buffer, offset, report>>
  BY DEF OpenBaseline, Built
<1>2. CASE Exit("FAILURE")
  BY <1>1, <1>2, FailureInv
<1>3. CASE /\ file' = [kind |-> "plain", bytes |-> << >>]
           /\ did' = [kind |-> "plain", backend |-> "chunks"]
           /\ pc' = "write" /\ UNCHANGED exit
  <2>1. buffer' = TextOf(target') /\ Accepted /\ offset' = 0 /\ target' \in Nat
    BY <1>1, BuiltIsText
  <2>2. << >> = TextOf(0)
    BY DEF TextOf
  <2>3. WrittenSoFar'
    BY <1>1, <1>3, <2>1, <2>2 DEF WrittenSoFar
  <2> QED
    BY <1>1, <1>3, <2>1, <2>3, Kept DEF IInv
<1> QED
  BY <1>2, <1>3 DEF OpenBaseline

LEMMA WriteChunkInv == IInv /\ WriteChunk => IInv'
<1> SUFFICES ASSUME IInv, WriteChunk PROVE IInv'
  OBVIOUS
<1>1. /\ pc = "write" /\ WrittenSoFar /\ Accepted
      /\ UNCHANGED <<argv, at, config, pc, target, buffer, did, report, exit>>
  BY DEF WriteChunk, IInv
<1>2. PICK t \in Nat, o \in Nat : t = target /\ o = offset /\ o < t /\ o \in 0 .. t
  BY <1>1, BenchmarkAssumption DEF WriteChunk, WrittenSoFar, Accepted
<1>3. PICK written \in 1 .. (IF target - offset < Chunk THEN target - offset ELSE Chunk) :
        /\ file' = [file EXCEPT !.bytes = @ \o SubSeq(buffer, offset + 1, offset + written)]
        /\ offset' = offset + written
  BY DEF WriteChunk
<1>4. written \in 0 .. t - o /\ o + written \in 0 .. t
  BY <1>2, <1>3, BenchmarkAssumption
<1>5. file' = [kind |-> "plain",
               bytes |-> TextOf(o) \o SubSeq(TextOf(t), o + 1, o + written)]
  BY <1>1, <1>2, <1>3 DEF WrittenSoFar
<1>6. file' = [kind |-> "plain", bytes |-> TextOf(o + written)]
  BY <1>2, <1>4, <1>5, ChunkWritten
<1>7. WrittenSoFar'
  BY <1>1, <1>2, <1>3, <1>4, <1>6 DEF WrittenSoFar
<1> QED
  BY <1>1, <1>7, Kept DEF IInv

LEMMA CloseBaselineInv == IInv /\ CloseBaseline => IInv'
<1> SUFFICES ASSUME IInv, CloseBaseline PROVE IInv'
  OBVIOUS
<1>1. /\ pc = "write" /\ pc' = "stat" /\ offset >= target /\ WrittenSoFar /\ Accepted
      /\ UNCHANGED <<argv, at, config, target, buffer, offset, file, did, report, exit>>
  BY DEF CloseBaseline, IInv
<1>2. offset = target
  BY <1>1, BenchmarkAssumption DEF WrittenSoFar, Accepted
<1>3. Stored'
  BY <1>1, <1>2 DEF WrittenSoFar, Stored, Pipeline
<1> QED
  BY <1>1, <1>3, Kept DEF IInv

LEMMA RunPipelineInv == IInv /\ RunPipeline => IInv'
<1> SUFFICES ASSUME IInv, RunPipeline PROVE IInv'
  OBVIOUS
<1>1. /\ Built /\ pc = "build" /\ config.mode # "BASELINE"
      /\ did' = [kind |-> Pipeline, backend |-> Backend]
      /\ UNCHANGED <<argv, at, config, target, buffer, offset, report>>
  BY DEF RunPipeline, Built
<1>2. CASE Exit("FAILURE")
  BY <1>1, <1>2, FailureInv
<1>3. CASE file' = [kind |-> Pipeline, text |-> buffer] /\ pc' = "stat" /\ UNCHANGED exit
  <2>1. buffer = TextOf(target) /\ Accepted
    BY <1>1, BuiltIsText
  <2>2. Pipeline # "plain" /\ Pipeline' = Pipeline /\ Backend' = Backend
    BY <1>1 DEF Pipeline, Backend
  <2>3. Stored'
    BY <1>1, <1>3, <2>1, <2>2 DEF Stored
  <2> QED
    BY <1>1, <1>3, <2>1, <2>3, Kept DEF IInv
<1> QED
  BY <1>2, <1>3 DEF RunPipeline

\* The size of a complete file is a number.
LEMMA SizeOfStored ==
  ASSUME Stored, Accepted
  PROVE  FileSize \in Nat
<1>1. target \in 0 .. SizeRange - 1 /\ target \in Nat
  BY BenchmarkAssumption DEF Accepted
<1>2. Len(TextOf(target)) = target
  BY <1>1, TextIsSeq
<1>3. did.kind \in {"plain", "zlib", "ceio"}
  BY DEF Stored, Pipeline
<1>4. CASE did.kind = "plain"
  <2>1. file.kind = "plain" /\ file.bytes = TextOf(target)
    BY <1>4 DEF Stored
  <2> QED
    BY <1>1, <1>2, <2>1 DEF FileSize
<1>5. CASE did.kind # "plain"
  <2>1. file.kind = did.kind /\ file.text = TextOf(target)
    BY <1>5 DEF Stored
  <2>2. FileSize = StreamSize(did.kind, target)
    BY <1>2, <1>5, <2>1 DEF FileSize
  <2> QED
    BY <1>1, <1>3, <1>5, <2>2, BenchmarkAssumption
<1> QED
  BY <1>4, <1>5

LEMMA ReportInv == IInv /\ Report => IInv'
<1> SUFFICES ASSUME IInv, Report PROVE IInv'
  OBVIOUS
<1>1. /\ pc = "stat" /\ Stored /\ Accepted /\ report = None
      /\ UNCHANGED <<argv, at, config, target, buffer, offset, file, did>>
  BY DEF Report, IInv
<1>2. CASE Exit("FAILURE") /\ UNCHANGED report
  BY <1>1, <1>2, FailureInv
<1>3. CASE /\ report' =
                [ kind      |-> "report",
                  pipeline  |-> Pipeline,
                  original  |-> target,
                  final     |-> FileSize,
                  reduction |-> IF target > 0 /\ FileSize <= target
                                THEN 100 - (100 * FileSize) \div target ELSE 0,
                  io_mode   |-> IF config.mode = "BASELINE" THEN "chunks" ELSE Backend ]
           /\ Exit("SUCCESS")
  <2>1. FileSize \in Nat /\ target \in Nat /\ FileSize' = FileSize
    BY <1>1, SizeOfStored, BenchmarkAssumption DEF Accepted, FileSize
  <2>2. report'.reduction \in 0 .. 100
    <3>1. CASE target > 0 /\ FileSize <= target
      <4>1. target \in Nat \ {0} /\ FileSize \in 0 .. target
        BY <2>1, <3>1
      <4>2. 100 - (100 * FileSize) \div target \in 0 .. 100
        BY <4>1, Percentage
      <4> QED
        BY <1>3, <3>1, <4>2
    <3>2. CASE ~ (target > 0 /\ FileSize <= target)
      BY <1>3, <3>2
    <3> QED
      BY <3>1, <3>2
  <2>3. /\ report'.pipeline = Pipeline /\ report'.original = target /\ report'.final = FileSize
        /\ report'.io_mode = IF config.mode = "BASELINE" THEN "chunks" ELSE Backend
        /\ report'.kind = "report"
    BY <1>3
  <2>4. report' # None
    BY <2>3 DEF None
  <2>5. ReportIsTrue'
    BY <1>1, <2>1, <2>2, <2>3 DEF ReportIsTrue, Stored, Accepted
  <2>6. pc' = "ended" /\ SuccessWasAsked'
    BY <1>3, <2>4 DEF Exit, SuccessWasAsked
  <2> QED
    BY <1>1, <2>5, <2>6 DEF IInv
<1> QED
  BY <1>2, <1>3 DEF Report

LEMMA WriteFailsInv == IInv /\ WriteFails => IInv'
BY FailureInv DEF WriteFails

LEMMA StutterInv == IInv /\ UNCHANGED vars => IInv'
BY DEF vars, IInv, ReadSoFar, LastSoFar, Accepted, BuiltSoFar, WrittenSoFar, Stored, Pipeline,
       Backend, ReportIsTrue, FileSize, SuccessWasAsked, Ending

LEMMA Inductive == IInv /\ [Next]_vars => IInv'
BY ReadArgumentInv, BeginRunInv, CopyLineInv, OpenBaselineInv, WriteChunkInv, WriteFailsInv,
   CloseBaselineInv, RunPipelineInv, ReportInv, StutterInv DEF Next, Run, Ended

\* Between its steps the program has read the last value of each option,
\* built whole lines, and written the start of the text and nothing else.
THEOREM Invariant == Spec => []IInv
BY Initial, Inductive, PTL DEF Spec

\* A report is printed for a complete file of the text that is reported, and
\* names the pipeline, the backend and the size of that file, however short
\* the writes are and however the sizes divide.
THEOREM ReportIsAlwaysTrue == Spec => []ReportIsTrue
<1>1. IInv => ReportIsTrue
  BY DEF IInv
<1> QED
  BY <1>1, Invariant, PTL

\* The last value that was read is the last of the command line, when the
\* command line was read to its end.
LEMMA LastValueRead ==
  ASSUME argv \in Argv, 1 .. at - 1 = 1 .. Len(argv),
         NEW option, NEW default, NEW value, LastSoFar(option, default, value)
  PROVE  value = LastValue(option, default)
<1> DEFINE I == {i \in DOMAIN argv : argv[i].option = option}
<1>1. Len(argv) \in Nat /\ DOMAIN argv = 1 .. Len(argv)
  BY Arguments
<1>2. CASE value = default /\ \A i \in 1 .. at - 1 : argv[i].option # option
  BY <1>1, <1>2 DEF LastValue
<1>3. ASSUME NEW i \in 1 .. at - 1,
             argv[i].option = option, value = argv[i].value,
             \A j \in 1 .. at - 1 : argv[j].option = option => j <= i
      PROVE  value = LastValue(option, default)
  <2>0. i \in 1 .. Len(argv) /\ \A j \in 1 .. Len(argv) : argv[j].option = option => j <= i
    BY <1>3
  <2>1. i \in I /\ I \subseteq Nat /\ \A j \in I : j <= i
    BY <1>1, <1>3, <2>0
  <2>2. Max(I) = i /\ I # {}
    <3> HIDE DEF I
    <3> QED
      BY <2>1, MaxIs
  <2> QED
    BY <1>3, <2>2 DEF LastValue
<1> QED
  BY <1>2, <1>3 DEF LastSoFar

\* What runs, or the exit without a run, is what the command line asks for:
\* for every number and order of the arguments.
THEOREM AlwaysRunsWhatWasAsked == Spec => []RunsWhatWasAsked
<1>1. IInv => RunsWhatWasAsked
  <2> SUFFICES ASSUME IInv PROVE RunsWhatWasAsked
    OBVIOUS
  <2>1. ASSUME pc \notin {"args", "ended"}
        PROVE  /\ Ending = {}
               /\ config = [ mode        |-> ModeOf[LastValue("mode", "baseline")],
                             size_mb     |-> LastValue("size-mb", DefaultSize),
                             output_path |-> LastValue("output", NoName) ]
               /\ config.size_mb # 0 /\ config.output_path # NoName
    <3>1. /\ argv \in Argv /\ at \in 1 .. Len(argv) + 1 /\ at > Len(argv)
          /\ ReadSoFar /\ config.size_mb # 0 /\ config.output_path # NoName
      BY <2>1 DEF IInv, Accepted
    <3>2. Len(argv) \in Nat /\ DOMAIN argv = 1 .. Len(argv) /\ 1 .. at - 1 = 1 .. Len(argv)
      BY <3>1, Arguments
    <3>3. Ending = {}
      BY <3>1, <3>2 DEF Ending, ReadSoFar
    <3>4. PICK m, n, o :
            /\ config = [mode |-> ModeOf[m], size_mb |-> n, output_path |-> o]
            /\ LastSoFar("mode", "baseline", m)
            /\ LastSoFar("size-mb", DefaultSize, n)
            /\ LastSoFar("output", NoName, o)
      BY <3>1 DEF ReadSoFar
    <3>5. /\ m = LastValue("mode", "baseline") /\ n = LastValue("size-mb", DefaultSize)
          /\ o = LastValue("output", NoName)
      BY <3>1, <3>2, <3>4, LastValueRead
    <3> QED
      BY <3>1, <3>3, <3>4, <3>5
  <2>2. /\ exit = "SUCCESS" =>
             \/ report # None
             \/ Ending # {} /\ argv[Min(Ending)].option = "help"
    BY DEF IInv, SuccessWasAsked
  <2> QED
    BY <2>1, <2>2 DEF RunsWhatWasAsked
<1> QED
  BY <1>1, Invariant, PTL

-----------------------------------------------------------------------------
(* The program runs out of steps.                                          *)

\* The most steps that are left: one for each argument, line and chunk, were
\* each line and chunk one byte.
StepsLeft ==
  CASE pc = "args"  -> Len(argv) + 1 - at + 2 * SizeRange + 4
    [] pc = "build" -> target - Len(buffer) + target + 3
    [] pc = "write" -> target - offset + 2
    [] pc = "stat"  -> 1
    [] pc = "ended" -> 0

\* Each step of the program lowers a natural number.
RunsOut ==
  [][ /\ StepsLeft \in Nat /\ StepsLeft' \in Nat
      /\ Run => StepsLeft' < StepsLeft ]_vars

LEMMA StepsLeftType == IInv => StepsLeft \in Nat
<1> SUFFICES ASSUME IInv PROVE StepsLeft \in Nat
  OBVIOUS
<1>1. /\ pc \in {"args", "build", "write", "stat", "ended"}
      /\ Len(argv) \in Nat /\ at \in 1 .. Len(argv) + 1 /\ SizeRange \in Nat
  BY Arguments, BenchmarkAssumption DEF IInv
<1>2. CASE pc = "args"
  BY <1>1, <1>2 DEF StepsLeft
<1>3. CASE pc = "build"
  <2>1. target \in Nat /\ Len(buffer) \in 0 .. target
    BY <1>1, <1>3, BenchmarkAssumption DEF IInv, Accepted, BuiltSoFar
  <2> QED
    BY <1>3, <2>1 DEF StepsLeft
<1>4. CASE pc = "write"
  <2>1. target \in Nat /\ offset \in 0 .. target
    BY <1>1, <1>4, BenchmarkAssumption DEF IInv, Accepted, WrittenSoFar
  <2> QED
    BY <1>4, <2>1 DEF StepsLeft
<1> QED
  BY <1>1, <1>2, <1>3, <1>4 DEF StepsLeft

LEMMA ExitLowers ==
  ASSUME IInv, pc # "ended", pc' = "ended"
  PROVE  StepsLeft' < StepsLeft
<1>1. StepsLeft \in Nat /\ StepsLeft' = 0
  BY StepsLeftType DEF StepsLeft
<1>2. StepsLeft # 0
  <2>1. /\ pc \in {"args", "build", "write", "stat"}
        /\ Len(argv) \in Nat /\ at \in 1 .. Len(argv) + 1 /\ SizeRange \in Nat
    BY Arguments, BenchmarkAssumption DEF IInv
  <2>2. CASE pc = "args"
    BY <2>1, <2>2 DEF StepsLeft
  <2>3. CASE pc = "build"
    <3>1. target \in Nat /\ Len(buffer) \in 0 .. target
      BY <2>1, <2>3, BenchmarkAssumption DEF IInv, Accepted, BuiltSoFar
    <3> QED
      BY <2>3, <3>1 DEF StepsLeft
  <2>4. CASE pc = "write"
    <3>1. target \in Nat /\ offset \in 0 .. target
      BY <2>1, <2>4, BenchmarkAssumption DEF IInv, Accepted, WrittenSoFar
    <3> QED
      BY <2>4, <3>1 DEF StepsLeft
  <2>5. CASE pc = "stat"
    BY <2>5 DEF StepsLeft
  <2> QED
    BY <2>1, <2>2, <2>3, <2>4, <2>5
<1> QED
  BY <1>1, <1>2

\* An argument is read once, and the text is as long as a size_t can say.
LEMMA ArgumentsLower ==
  ASSUME IInv, ReadArgument \/ BeginRun, pc' # "ended"
  PROVE  StepsLeft' < StepsLeft
<1>1. /\ pc = "args" /\ Len(argv) \in Nat /\ at \in 1 .. Len(argv) + 1
      /\ SizeRange \in Nat \ {0} /\ argv' = argv /\ buffer = << >>
  BY Arguments, BenchmarkAssumption DEF IInv, ReadArgument, BeginRun
<1>2. StepsLeft = Len(argv) + 1 - at + 2 * SizeRange + 4
  BY <1>1 DEF StepsLeft
<1>3. CASE ReadArgument
  <2>1. pc' = "args" /\ at' = at + 1
    BY <1>1, <1>3 DEF ReadArgument, Exit
  <2>2. StepsLeft' = Len(argv) + 1 - (at + 1) + 2 * SizeRange + 4
    BY <1>1, <2>1 DEF StepsLeft
  <2> QED
    BY <1>1, <1>2, <2>2
<1>4. CASE BeginRun
  <2>1. /\ pc' = "build" /\ buffer' = << >> /\ config.size_mb \in Nat
        /\ target' = (config.size_mb * Mega) % SizeRange
    BY <1>1, <1>4 DEF BeginRun, Exit, IInv, ReadSoFar
  <2>2. target' \in 0 .. SizeRange - 1
    <3>1. \A x, y \in Nat : x * y \in Nat
      OBVIOUS
    <3>2. config.size_mb * Mega \in Nat
      BY <2>1, <3>1, BenchmarkAssumption
    <3> QED
      BY <1>1, <2>1, <3>2, Division
  <2>3. StepsLeft' = target' - 0 + target' + 3
    <3>1. Len(buffer') = 0
      BY <2>1
    <3> QED
      BY <2>1, <3>1 DEF StepsLeft
  <2> QED
    BY <1>1, <1>2, <2>2, <2>3
<1> QED
  BY <1>3, <1>4

\* A line has a byte at least, and so has what is left of the last one.
LEMMA LineLowers ==
  ASSUME IInv, CopyLine
  PROVE  StepsLeft' < StepsLeft
<1>1. /\ pc = "build" /\ pc' = "build" /\ Len(buffer) < target /\ target' = target
      /\ Accepted /\ BuiltSoFar
      /\ buffer' = buffer \o [i \in 1 .. CopySize(Len(buffer)) |-> i - 1]
  BY DEF CopyLine, IInv
<1>2. target \in Nat /\ Len(buffer) \in Nat /\ buffer \in Seq(Nat)
      /\ PatternSize \in Nat \ {0}
  BY <1>1, TextIsSeq, BenchmarkAssumption DEF Accepted, BuiltSoFar
<1>3. PICK n \in Nat : n = CopySize(Len(buffer)) /\ n >= 1
  <2>1. CopySize(Len(buffer)) =
          IF Len(buffer) + PatternSize > target THEN target - Len(buffer) ELSE PatternSize
    BY DEF CopySize
  <2>2. \A l, t, p \in Nat : l < t /\ p >= 1 =>
          LET c == IF l + p > t THEN t - l ELSE p IN c \in Nat /\ c >= 1
    OBVIOUS
  <2>3. CopySize(Len(buffer)) \in Nat /\ CopySize(Len(buffer)) >= 1
    BY <1>1, <1>2, <2>1, <2>2
  <2> QED
    BY <2>3
<1>4. Len(buffer') = Len(buffer) + n
  <2> DEFINE line == [i \in 1 .. n |-> i - 1]
  <2>1. line \in Seq(Nat) /\ Len(line) = n
    BY <1>3
  <2>2. buffer' = buffer \o line
    BY <1>1, <1>3
  <2> HIDE DEF line
  <2>3. \A a, b \in Seq(Nat) : Len(a \o b) = Len(a) + Len(b)
    OBVIOUS
  <2>4. Len(buffer') = Len(buffer) + Len(line)
    BY <1>2, <2>1, <2>2, <2>3
  <2> QED
    BY <2>1, <2>4
<1>5. /\ StepsLeft = target - Len(buffer) + target + 3
      /\ StepsLeft' = target - Len(buffer') + target + 3
  BY <1>1 DEF StepsLeft
<1> QED
  BY <1>2, <1>3, <1>4, <1>5

LEMMA PipelineLowers ==
  ASSUME IInv, OpenBaseline \/ RunPipeline, pc' # "ended"
  PROVE  StepsLeft' < StepsLeft
<1>1. /\ Built /\ pc = "build" /\ target' = target /\ offset' = offset
      /\ pc' \in {"write", "stat"}
  BY DEF OpenBaseline, RunPipeline, Built, Exit
<1>2. target \in Nat /\ offset = 0 /\ Len(buffer) \in 0 .. target
  BY <1>1, BuiltIsText DEF IInv, BuiltSoFar
<1>3. StepsLeft = target - Len(buffer) + target + 3
  BY <1>1 DEF StepsLeft
<1>4. StepsLeft' \in {target - 0 + 2, 1}
  BY <1>1, <1>2 DEF StepsLeft
<1> QED
  BY <1>2, <1>3, <1>4

LEMMA ChunkLowers ==
  ASSUME IInv, WriteChunk \/ CloseBaseline
  PROVE  StepsLeft' < StepsLeft
<1>1. pc = "write" /\ target' = target /\ WrittenSoFar /\ Accepted
  BY DEF WriteChunk, CloseBaseline, IInv
<1>2. target \in Nat /\ offset \in 0 .. target /\ Chunk \in Nat
  BY <1>1, BenchmarkAssumption DEF Accepted, WrittenSoFar
<1>3. StepsLeft = target - offset + 2
  BY <1>1 DEF StepsLeft
<1>4. CASE WriteChunk
  <2>1. PICK written \in 1 .. (IF target - offset < Chunk THEN target - offset ELSE Chunk) :
          offset' = offset + written
    BY <1>4 DEF WriteChunk
  <2>2. StepsLeft' = target - (offset + written) + 2
    BY <1>1, <1>4, <2>1 DEF WriteChunk, StepsLeft
  <2> QED
    BY <1>2, <1>3, <2>1, <2>2
<1>5. CASE CloseBaseline
  <2>1. StepsLeft' = 1
    BY <1>5 DEF CloseBaseline, StepsLeft
  <2> QED
    BY <1>2, <1>3, <2>1
<1> QED
  BY <1>4, <1>5

\* The program ends, for every command line and size: no argument is read
\* twice, and no line or chunk is empty.  Ends follows as long as the process
\* keeps running.
THEOREM ProgramRunsOutOfSteps == Spec => RunsOut
<1>1. IInv /\ IInv' /\ [Next]_vars =>
        [ /\ StepsLeft \in Nat /\ StepsLeft' \in Nat
          /\ Run => StepsLeft' < StepsLeft ]_vars
  <2> SUFFICES ASSUME IInv, IInv', Next
               PROVE  StepsLeft \in Nat /\ StepsLeft' \in Nat /\ (Run => StepsLeft' < StepsLeft)
    OBVIOUS
  <2>1. StepsLeft \in Nat /\ StepsLeft' \in Nat
    <3>1. (IInv => StepsLeft \in Nat) /\ (IInv => StepsLeft \in Nat)'
      BY StepsLeftType, PTL
    <3> QED
      BY <3>1
  <2>2. ASSUME Run PROVE StepsLeft' < StepsLeft
    <3>1. Run => pc # "ended"
      BY DEF Run, ReadArgument, BeginRun, CopyLine, OpenBaseline, WriteChunk, WriteFails,
             CloseBaseline, RunPipeline, Report, Built
    <3>2. CASE WriteFails \/ Report
      BY <2>2, <3>1, <3>2, ExitLowers DEF WriteFails, Report, Exit
    <3> QED
      BY <2>2, <3>1, <3>2, ExitLowers, ArgumentsLower, LineLowers, PipelineLowers, ChunkLowers
      DEF Run
  <2> QED
    BY <2>1, <2>2
<1> QED
  BY <1>1, Invariant, PTL DEF Spec, RunsOut
=============================================================================
