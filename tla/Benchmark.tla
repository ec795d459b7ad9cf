------------------------------ MODULE Benchmark -----------------------------
(***************************************************************************)
(* The benchmark program: main of src/bench_io.c and benchmark_run of      *)
(* src/benchmark_runner.c.  The arguments are read one by one, the text is *)
(* built in memory, one of five pipelines writes it to the output file,    *)
(* and the program reports what it did.                                    *)
(*                                                                         *)
(* The compressed and the encrypted pipelines write with the backends of   *)
(* module CeioFile; here that is one step.  The text is a sequence of      *)
(* positions in the pattern that it repeats.                               *)
(***************************************************************************)
EXTENDS Integers, SequencesExt

CONSTANTS
  Argv,            \* the command lines
  DefaultSize,     \* the size in MB without --size-mb (50)
  Mega,            \* 1024 * 1024
  SizeRange,       \* the number of values of a size_t
  PatternSize,     \* the length of the line that is repeated (77)
  Chunk,           \* 4096
  StreamSize(_, _) \* the size of the file for a pipeline and a size of the text

ASSUME BenchmarkAssumption ==
  /\ DefaultSize \in Nat \ {0} /\ Mega \in Nat \ {0} /\ SizeRange \in Nat \ {0}
  /\ PatternSize \in Nat \ {0} /\ Chunk \in Nat \ {0}
  /\ \A line \in Argv :
       /\ Len(line) \in Nat /\ DOMAIN line = 1 .. Len(line)
       /\ \A i \in DOMAIN line : line[i].option = "size-mb" => line[i].value \in Nat
  /\ \A kind \in {"zlib", "ceio"}, n \in 0 .. SizeRange - 1 : StreamSize(kind, n) \in Nat

VARIABLES
  argv, at,        \* the command line, and the argument that is next
  config,          \* BenchmarkConfig
  pc,
  target,          \* the size of the buffer
  buffer,          \* the part of the text that is built
  offset,          \* the bytes written, as write_all_fixed_chunks counts them
  file,            \* the output file
  did,             \* history: the pipeline and the backend that were used
  report,          \* what was printed
  exit             \* the exit status

vars == <<argv, at, config, pc, target, buffer, offset, file, did, report, exit>>

NoName == "none"
NoFile == [kind |-> "missing"]
None   == [kind |-> "nothing"]

Init == /\ argv \in Argv /\ at = 1
        /\ config = [mode |-> "BASELINE", size_mb |-> DefaultSize, output_path |-> NoName]
        /\ pc = "args"
        /\ target = 0 /\ buffer = << >> /\ offset = 0
        /\ file = NoFile /\ did = None /\ report = None /\ exit = "running"

Exit(status) == pc' = "ended" /\ exit' = status

-----------------------------------------------------------------------------
(* main of bench_io.c.  An argument is an option with its value.           *)

\* The names of benchmark_parse_mode.
ModeOf == [ n \in {"baseline", "compressed-write", "compressed-mmap", "encrypted-write",
                   "encrypted-mmap", "compressed-encrypted-write", "compressed-encrypted-mmap"} |->
    CASE n = "baseline"         -> "BASELINE"
      [] n = "compressed-write" -> "COMPRESSED_WRITE"
      [] n = "compressed-mmap"  -> "COMPRESSED_MMAP"
      [] n \in {"encrypted-write", "compressed-encrypted-write"} -> "ENCRYPTED_WRITE"
      [] OTHER                  -> "ENCRYPTED_MMAP" ]

\* The arguments that end the program.
Stops(a) == a.option = "help" \/ (a.option = "mode" /\ a.value \notin DOMAIN ModeOf)

\* Mutant: the size of the first --size-mb stays.
WithArgumentFirst(a) ==
  CASE a.option = "mode"    -> [config EXCEPT !.mode = ModeOf[a.value]]
    [] a.option = "size-mb" -> [config EXCEPT !.size_mb = IF @ = DefaultSize THEN a.value ELSE @]
    [] a.option = "output"  -> [config EXCEPT !.output_path = a.value]
    [] OTHER                -> config

\* An unknown argument is skipped.
WithArgument(a) ==
  CASE a.option = "mode"    -> [config EXCEPT !.mode = ModeOf[a.value]]
    [] a.option = "size-mb" -> [config EXCEPT !.size_mb = a.value]
    [] a.option = "output"  -> [config EXCEPT !.output_path = a.value]
    [] OTHER                -> config

\* Mutant: only an argument that is known is left behind.
ReadArgumentStays ==
  /\ pc = "args" /\ at <= Len(argv)
  /\ at' = IF argv[at].option \in {"help", "mode", "size-mb", "output"} THEN at + 1 ELSE at
  /\ IF Stops(argv[at])
     THEN /\ Exit(IF argv[at].option = "help" THEN "SUCCESS" ELSE "FAILURE")
          /\ UNCHANGED config
     ELSE config' = WithArgument(argv[at]) /\ UNCHANGED <<pc, exit>>
  /\ UNCHANGED <<argv, target, buffer, offset, file, did, report>>

ReadArgument ==
  /\ pc = "args" /\ at <= Len(argv)
  /\ at' = at + 1
  /\ IF Stops(argv[at])
     THEN /\ Exit(IF argv[at].option = "help" THEN "SUCCESS" ELSE "FAILURE")
          /\ UNCHANGED config
     ELSE config' = WithArgument(argv[at]) /\ UNCHANGED <<pc, exit>>
  /\ UNCHANGED <<argv, target, buffer, offset, file, did, report>>

\* The size of the text may wrap.  The second disjunct is a configuration that
\* is refused, or a failed malloc.
BeginRun ==
  /\ pc = "args" /\ at > Len(argv)
  /\ \/ /\ config.output_path # NoName /\ config.size_mb # 0
        /\ target' = (config.size_mb * Mega) % SizeRange
        /\ pc' = "build" /\ UNCHANGED exit
     \/ Exit("FAILURE") /\ UNCHANGED target
  /\ UNCHANGED <<argv, at, config, buffer, offset, file, did, report>>

-----------------------------------------------------------------------------
(* build_benchmark_text.                                                   *)

\* The last line is cut at the end of the buffer.
CopySize(from) == IF from + PatternSize > target THEN target - from ELSE PatternSize

CopyLine ==
  /\ pc = "build" /\ Len(buffer) < target
  /\ buffer' = buffer \o [i \in 1 .. CopySize(Len(buffer)) |-> i - 1]
  /\ UNCHANGED <<argv, at, config, pc, target, offset, file, did, report, exit>>

-----------------------------------------------------------------------------
(* run_baseline_plain, run_compressed and run_encrypted.                   *)

Pipeline == CASE config.mode = "BASELINE" -> "plain"
              [] config.mode \in {"COMPRESSED_WRITE", "COMPRESSED_MMAP"} -> "zlib"
              [] OTHER -> "ceio"

Backend == IF config.mode \in {"COMPRESSED_MMAP", "ENCRYPTED_MMAP"} THEN "mmap" ELSE "write"

Built == pc = "build" /\ Len(buffer) >= target

OpenBaseline ==
  /\ Built /\ config.mode = "BASELINE"
  /\ \/ /\ file' = [kind |-> "plain", bytes |-> << >>]
        /\ did' = [kind |-> "plain", backend |-> "chunks"]
        /\ pc' = "write" /\ UNCHANGED exit
     \/ Exit("FAILURE") /\ UNCHANGED <<file, did>>
  /\ UNCHANGED <<argv, at, config, target, buffer, offset, report>>

\* Mutant: a short write is taken for a whole one.
WriteChunkShort ==
  /\ pc = "write" /\ offset < target
  /\ LET current == IF target - offset < Chunk THEN target - offset ELSE Chunk
     IN  \E written \in 1 .. current :
           /\ file' = [file EXCEPT !.bytes = @ \o SubSeq(buffer, offset + 1, offset + written)]
           /\ offset' = offset + current
  /\ UNCHANGED <<argv, at, config, pc, target, buffer, did, report, exit>>

\* An iteration of write_all_fixed_chunks.
WriteChunk ==
  /\ pc = "write" /\ offset < target
  /\ \E written \in 1 .. (IF target - offset < Chunk THEN target - offset ELSE Chunk) :
       /\ file' = [file EXCEPT !.bytes = @ \o SubSeq(buffer, offset + 1, offset + written)]
       /\ offset' = offset + written
  /\ UNCHANGED <<argv, at, config, pc, target, buffer, did, report, exit>>

\* write gives nothing, or close fails; the file stays as it is.
WriteFails ==
  /\ pc = "write"
  /\ Exit("FAILURE")
  /\ UNCHANGED <<argv, at, config, target, buffer, offset, file, did, report>>

CloseBaseline ==
  /\ pc = "write" /\ offset >= target
  /\ pc' = "stat"
  /\ UNCHANGED <<argv, at, config, target, buffer, offset, file, did, report, exit>>

\* compress_buffer and io_backend_write_file, or editor_file_save.
RunPipeline ==
  /\ Built /\ config.mode # "BASELINE"
  /\ \/ /\ file' = [kind |-> Pipeline, text |-> buffer]
        /\ pc' = "stat" /\ UNCHANGED exit
     \/ file' \in {file, [kind |-> "partial"]} /\ Exit("FAILURE")
  /\ did' = [kind |-> Pipeline, backend |-> Backend]
  /\ UNCHANGED <<argv, at, config, target, buffer, offset, report>>

-----------------------------------------------------------------------------
(* The end of benchmark_run.                                               *)

FileSize == IF file.kind = "plain" THEN Len(file.bytes) ELSE StreamSize(file.kind, Len(file.text))

\* A file that grew is reported as no reduction, in percent of the text.
Report ==
  /\ pc = "stat"
  /\ \/ /\ report' =
             [ kind      |-> "report",
               pipeline  |-> Pipeline,
               original  |-> target,
               final     |-> FileSize,
               reduction |-> IF target > 0 /\ FileSize <= target
                             THEN 100 - (100 * FileSize) \div target ELSE 0,
               io_mode   |-> IF config.mode = "BASELINE" THEN "chunks" ELSE Backend ]
        /\ Exit("SUCCESS")
     \/ Exit("FAILURE") /\ UNCHANGED report
  /\ UNCHANGED <<argv, at, config, target, buffer, offset, file, did>>

Ended == pc = "ended" /\ UNCHANGED vars

Run == \/ ReadArgument \/ BeginRun \/ CopyLine
       \/ OpenBaseline \/ WriteChunk \/ WriteFails \/ CloseBaseline
       \/ RunPipeline \/ Report

Next == Run \/ Ended

\* One process that runs on its own.
Spec == Init /\ [][Next]_vars /\ WF_vars(Run)
-----------------------------------------------------------------------------
(* Properties.                                                             *)

\* The text of a run: the pattern over and over, cut anywhere.
TextOf(n) == [i \in 1 .. n |-> (i - 1) % PatternSize]

\* A report is printed for a complete file only, although every write may be
\* short: it holds the text of the size that is reported, to the last byte of
\* the buffer and not past it, went through the pipeline and the backend that
\* are reported, and has the reported size.
ReportIsTrue ==
  report # None =>
    /\ file = IF did.kind = "plain" THEN [kind |-> "plain", bytes |-> TextOf(report.original)]
              ELSE [kind |-> did.kind, text |-> TextOf(report.original)]
    /\ report.pipeline = did.kind /\ report.io_mode = did.backend
    /\ report.final = FileSize /\ report.reduction \in 0 .. 100
    /\ report.original = (config.size_mb * Mega) % SizeRange

\* What the command line asks for, said without a loop: the last value of
\* each option counts, up to the first argument that ends the program.
LastValue(option, default) ==
  LET I == {i \in DOMAIN argv : argv[i].option = option}
  IN  IF I = {} THEN default ELSE argv[Max(I)].value

Ending == {i \in DOMAIN argv : Stops(argv[i])}

\* The run that is made, or the exit without one, is what the command line
\* asks for, whatever the order and the number of its options.
RunsWhatWasAsked ==
  /\ pc \notin {"args", "ended"} =>
       /\ Ending = {}
       /\ config = [ mode        |-> ModeOf[LastValue("mode", "baseline")],
                     size_mb     |-> LastValue("size-mb", DefaultSize),
                     output_path |-> LastValue("output", NoName) ]
       /\ config.size_mb # 0 /\ config.output_path # NoName
  /\ exit = "SUCCESS" =>
       \/ report # None
       \/ Ending # {} /\ argv[Min(Ending)].option = "help"

\* The program ends: every loop makes progress.
Ends == <>(pc = "ended")
=============================================================================
