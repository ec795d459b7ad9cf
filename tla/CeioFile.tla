------------------------------ MODULE CeioFile ------------------------------
(***************************************************************************)
(* Saving and loading one .ceio file: editor_file_save and                 *)
(* editor_file_load of src/editor_file.c over src/io_backend.c.            *)
(*                                                                         *)
(* Several editors, each a single-threaded process, use the same path.     *)
(* Nothing locks the file, so their system calls interleave.  Each system  *)
(* call is a step, each may fail, and a process may be killed between any  *)
(* two of them; the file keeps what was written.                           *)
(***************************************************************************)
EXTENDS CeioFormat, Integers, FiniteSets

CONSTANTS
  Editor,     \* the processes
  Missing,    \* the file does not exist
  MaxSaves    \* bound on the number of saves that reach the file

ASSUME CeioFileAssumption ==
  /\ MaxSaves \in Nat
  /\ \A t \in Text, k \in Key, n \in 1 .. MaxSaves : Missing # ceio_format_build(t, k, n)

VARIABLES
  file,      \* the content of the file, or Missing
  pc,        \* pc[e]: the system call that editor e is about to make
  job,       \* job[e]: the arguments and local variables of its call
  answer,    \* answer[e]: what its last call returned, None during a call
  saves      \* history: the texts and keys of the saves that reached the file

vars == <<file, pc, job, answer, saves>>

Modes == {"write", "mmap"}

OK     == [code |-> 0]
ERROR  == [code |-> -1]
None   == [code |-> 1]                \* nothing was returned
Returned(t, k) == [code |-> 0, text |-> t, key |-> k]

NoJob == [kind |-> "none"]

Init == /\ file = Missing
        /\ pc = [e \in Editor |-> "idle"]
        /\ job = [e \in Editor |-> NoJob]
        /\ answer = [e \in Editor |-> None]
        /\ saves = << >>

\* The call returns, and its locals are gone.
Return(e, a) ==
  /\ pc' = [pc EXCEPT ![e] = "idle"]
  /\ job' = [job EXCEPT ![e] = NoJob]
  /\ answer' = [answer EXCEPT ![e] = a]

GoTo(e, label) == pc' = [pc EXCEPT ![e] = label]

-----------------------------------------------------------------------------
(* editor_file_save.  todo is the set of cells of the image that are still *)
(* to be written, result the value to return.                              *)

\* Compressing, drawing an IV, encrypting and building the image: local
\* work, and a failure of any of it returns before the file is touched, as for
\* a zlib stream of UINT_MAX bytes and more.
editor_file_save(e, t, k, mode) ==
  /\ pc[e] = "idle"
  /\ UNCHANGED file
  /\ \/ /\ Len(saves) < MaxSaves /\ CompressedSize[t] < Uint32
        /\ LET image == ceio_format_build(t, k, Len(saves) + 1)
           IN  job' = [job EXCEPT ![e] =
                 [ kind |-> mode, text |-> t, key |-> k, image |-> image,
                   todo |-> DOMAIN image, result |-> OK ]]
        /\ saves' = Append(saves, [text |-> t, key |-> k])
        /\ GoTo(e, "open")
        /\ answer' = [answer EXCEPT ![e] = None]
     \/ Return(e, ERROR) /\ UNCHANGED saves

\* open with O_CREAT | O_TRUNC.
OpenForWriting(e) ==
  /\ pc[e] = "open"
  /\ UNCHANGED saves
  /\ \/ /\ file' = << >>
        /\ GoTo(e, IF job[e].kind = "mmap" THEN "ftruncate" ELSE "write")
        /\ UNCHANGED <<job, answer>>
     \/ Return(e, ERROR) /\ UNCHANGED file

\* Mutant: each call of write starts again at the beginning of the data.
PutFromStart(image, P) ==
  [ i \in 1 .. Max({Len(file)} \cup P) |->
      IF i \in P THEN image[i - Min(P) + 1] ELSE IF i <= Len(file) THEN file[i] ELSE Zero ]

\* The file with the cells at positions P of the image written into it.  A
\* hole between the old end of the file and a written cell reads as zeros.
Put(image, P) ==
  [ i \in 1 .. Max({Len(file)} \cup P) |->
      IF i \in P THEN image[i] ELSE IF i <= Len(file) THEN file[i] ELSE Zero ]

\* Mutant: a write that takes nothing ends the loop and the save succeeds.
WriteChunkUnchecked(e) ==
  /\ pc[e] = "write"
  /\ UNCHANGED <<answer, saves>>
  /\ \/ \E n \in 1 .. Cardinality(job[e].todo) :
          LET chunk == {i \in job[e].todo : i < Min(job[e].todo) + n}
          IN  /\ file' = Put(job[e].image, chunk)
              /\ job' = [job EXCEPT ![e].todo = @ \ chunk]
              /\ GoTo(e, IF chunk = job[e].todo THEN "close" ELSE "write")
     \/ GoTo(e, "close") /\ UNCHANGED <<file, job>>

\* An iteration of write_all: write takes a chunk of at least one byte, or
\* returns nothing or an error and ends the loop.
WriteChunk(e) ==
  /\ pc[e] = "write"
  /\ UNCHANGED <<answer, saves>>
  /\ \/ \E n \in 1 .. Cardinality(job[e].todo) :
          LET chunk == {i \in job[e].todo : i < Min(job[e].todo) + n}
          IN  /\ file' = Put(job[e].image, chunk)
              /\ job' = [job EXCEPT ![e].todo = @ \ chunk]
              /\ GoTo(e, IF chunk = job[e].todo THEN "close" ELSE "write")
     \/ /\ job' = [job EXCEPT ![e].result = ERROR]
        /\ GoTo(e, "close")
        /\ UNCHANGED file

\* close reports an error of its own even when every byte was written.
Close(e) ==
  /\ pc[e] = "close"
  /\ \E a \in {job[e].result, ERROR} : Return(e, a)
  /\ UNCHANGED <<file, saves>>

\* ftruncate and mmap.  The file gets the size of the image: cells past its
\* end are dropped, and new cells are zero.  mmap changes nothing that another
\* process sees, and a failure of it leaves the file of zeros behind.
FtruncateAndMmap(e) ==
  /\ pc[e] = "ftruncate"
  /\ UNCHANGED saves
  /\ \/ /\ file' = [i \in DOMAIN job[e].image |-> IF i <= Len(file) THEN file[i] ELSE Zero]
        /\ \/ GoTo(e, "memcpy") /\ UNCHANGED <<job, answer>>
           \/ Return(e, ERROR)
     \/ Return(e, ERROR) /\ UNCHANGED file

\* memcpy into the mapping, in an order of its own.  When another process
\* truncated the file, the cell past the end is lost or the process is killed.
Memcpy(e) ==
  /\ pc[e] = "memcpy"
  /\ UNCHANGED saves
  /\ \E i \in job[e].todo :
       \/ /\ file' = IF i <= Len(file) THEN Put(job[e].image, {i}) ELSE file
          /\ job' = [job EXCEPT ![e].todo = @ \ {i}]
          /\ GoTo(e, IF job[e].todo = {i} THEN "msync" ELSE "memcpy")
          /\ UNCHANGED answer
       \/ i > Len(file) /\ Return(e, None) /\ UNCHANGED file

\* msync, munmap and close: the save fails when any of them does.
Msync(e) ==
  /\ pc[e] = "msync"
  /\ \E a \in {OK, ERROR} : Return(e, a)
  /\ UNCHANGED <<file, saves>>

-----------------------------------------------------------------------------
(* editor_file_load.  size is what stat said, data what was read so far.   *)

\* stat, malloc and open.  The file is never removed, so nothing that another
\* process does comes between stat and open.  A file of no bytes is read as
\* NULL, which parse rejects.
editor_file_load(e, k) ==
  /\ pc[e] = "idle"
  /\ UNCHANGED <<file, saves>>
  /\ \/ /\ file \notin {Missing, << >>}
        /\ job' = [job EXCEPT ![e] =
             [kind |-> "load", key |-> k, size |-> Len(file), data |-> << >>]]
        /\ GoTo(e, "read")
        /\ answer' = [answer EXCEPT ![e] = None]
     \/ Return(e, ERROR)

\* Mutant: a read that returns nothing is tried again.
ReadChunkRetrying(e) ==
  LET have == Len(job[e].data)
      want == Min({job[e].size, Len(file)})
  IN
  /\ pc[e] = "read"
  /\ UNCHANGED <<file, saves, answer>>
  /\ \E upTo \in have + 1 .. want :
       /\ job' = [job EXCEPT ![e].data = @ \o SubSeq(file, have + 1, upTo)]
       /\ GoTo(e, IF upTo = job[e].size THEN "parse" ELSE "read")

\* An iteration of the read loop: some of the bytes that are wanted and that
\* the file has, or none at its end, which ends the call.
ReadChunk(e) ==
  LET have == Len(job[e].data)
      want == Min({job[e].size, Len(file)})
  IN
  /\ pc[e] = "read"
  /\ UNCHANGED <<file, saves>>
  /\ \/ \E upTo \in have + 1 .. want :
          /\ job' = [job EXCEPT ![e].data = @ \o SubSeq(file, have + 1, upTo)]
          /\ GoTo(e, IF upTo = job[e].size THEN "parse" ELSE "read")
          /\ UNCHANGED answer
     \/ Return(e, ERROR)

\* close, parse, decrypt, decompress and the CRC check: any may fail.
Parse(e) ==
  /\ pc[e] = "parse"
  /\ UNCHANGED <<file, saves>>
  /\ \/ \E t \in Loaded(job[e].data, job[e].key) : Return(e, Returned(t, job[e].key))
     \/ Return(e, ERROR)

-----------------------------------------------------------------------------

\* The process is killed; what it wrote stays in the file.
Kill(e) ==
  /\ pc[e] # "idle"
  /\ Return(e, None)
  /\ UNCHANGED <<file, saves>>

Call(e) == \/ \E t \in Text, k \in Key, m \in Modes : editor_file_save(e, t, k, m)
           \/ \E k \in Key : editor_file_load(e, k)

Continue(e) ==
  \/ OpenForWriting(e) \/ WriteChunk(e) \/ Close(e)
  \/ FtruncateAndMmap(e) \/ Memcpy(e) \/ Msync(e)
  \/ ReadChunk(e) \/ Parse(e)

Next == \E e \in Editor : Call(e) \/ Continue(e) \/ Kill(e)

Spec     == Init /\ [][Next]_vars
FairSpec == Spec /\ \A e \in Editor : WF_vars(Continue(e))
-----------------------------------------------------------------------------
(* Properties.                                                             *)

Image(n) == ceio_format_build(saves[n].text, saves[n].key, n)

\* The cells a file may hold at position i: every save writes each part of
\* its image where the loader looks for that part.
Cells(i) == {Zero} \cup {Image(n)[i] : n \in {m \in DOMAIN saves : i <= Len(Image(m))}}

TypeOK ==
  /\ file # Missing => \A i \in DOMAIN file : file[i] \in Cells(i)
  /\ \A e \in Editor :
       /\ pc[e] = "idle" <=> job[e] = NoJob
       /\ job[e].kind \in Modes =>
            /\ \E n \in DOMAIN saves : job[e].image = Image(n)
            /\ job[e].todo \subseteq DOMAIN job[e].image
            /\ pc[e] \in {"write", "memcpy"} => job[e].todo # {}
       /\ job[e].kind = "load" =>
            /\ Len(job[e].data) <= job[e].size
            /\ \A i \in DOMAIN job[e].data : job[e].data[i] \in Cells(i)

\* However the saves, loads and kills of all editors interleave, a load that
\* succeeds returns a text that was saved, and what it decrypted was saved
\* under the key that was given.
LoadedTextWasSaved ==
  \A e \in Editor : "text" \in DOMAIN answer[e] =>
    /\ \E n \in DOMAIN saves : saves[n].text = answer[e].text
    /\ \E n \in DOMAIN saves : /\ saves[n].key = answer[e].key
                               /\ IsPrefix(saves[n].text, answer[e].text)

\* Every call returns: the chunked loops end, whatever happens to the file.
CallsReturn == \A e \in Editor : pc[e] # "idle" ~> pc[e] = "idle"

\* What the file promises to an editor that is the only one to use it.
TheEditor == CHOOSE e \in Editor : TRUE

Readable ==
  IF file = Missing THEN {}
  ELSE {r \in [text : Text, key : Key] : r.text \in Loaded(file, r.key)}

BeingSaved(j) == IF j.kind \in Modes THEN [text |-> j.text, key |-> j.key] ELSE NoJob

Store == INSTANCE TextStore WITH
  content <- Readable,
  pending <- BeingSaved(job[TheEditor]),
  answer  <- answer[TheEditor]

ImplementsTextStore == Store!Spec

\* Reporte.md: original_size is the size of the text before compression.
OriginalSizeIsTextSize ==
  file # Missing => \A i \in HeaderSize + 1 .. Len(file) :
    (file[1] # Zero /\ file[i] # Zero) => file[1].original_size = Len(file[i].text)
=============================================================================
