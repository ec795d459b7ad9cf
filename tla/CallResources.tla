--------------------------- MODULE CallResources ----------------------------
(***************************************************************************)
(* The memory and the descriptors of a save and of a load, from            *)
(* editor_app_save and editor_app_load of src/editor_app.c down to         *)
(* src/io_backend.c: every call on the way may fail, and each function     *)
(* gives back what it holds on its own ways out.                           *)
(*                                                                         *)
(* The IV of a save is made step by step, by the call in CeioIv.  malloc   *)
(* returns any block that nobody owns, so a pointer that is used after its *)
(* block was freed may meet the block of somebody else.  What the buffers  *)
(* hold is in modules CeioFormat and CeioCrypto.                           *)
(***************************************************************************)
EXTENDS CeioIv, FiniteSets

CONSTANTS
  Block,     \* the blocks of the heap
  NoBlock    \* NULL

ASSUME CallResourcesAssumption == NoBlock \notin Block /\ Block # {}

\* The pointers: app->core.buffer.data, and the locals of the calls.
Name == {"data", "new_data", "text", "compressed", "encrypted", "file_buffer",
         "working", "decrypted", "decompressed"}

Nobody == "nobody"

VARIABLES
  pc,        \* the call that is next
  ptr,       \* what each pointer holds; freeing does not change it
  owner,     \* owner[b]: the pointer that a block was allocated for
  fd,        \* a descriptor of the file is open
  mapped,    \* the mappings: "this" of the call, "refused" of some munmap that failed
  io_mode,
  wrong      \* history: something was freed that was not allocated

vars == <<pc, ptr, owner, fd, mapped, io_mode, wrong, iv_vars>>

Init ==
  /\ pc = "idle"
  /\ \E b \in Block :
       /\ ptr = [x \in Name |-> IF x = "data" THEN b ELSE NoBlock]
       /\ owner = [c \in Block |-> IF c = b THEN "data" ELSE Nobody]
  /\ fd = FALSE /\ mapped = {} /\ wrong = FALSE
  /\ io_mode \in {"write", "mmap"}
  /\ IvInit

-----------------------------------------------------------------------------

Live(x) == ptr[x] # NoBlock /\ owner[ptr[x]] = x

GoTo(label) == pc' = label

Alloc(x) == \E b \in Block :
  /\ owner[b] = Nobody
  /\ owner' = [owner EXCEPT ![b] = x]
  /\ ptr' = [ptr EXCEPT ![x] = b]
  /\ UNCHANGED wrong

\* free of a set of pointers; free(NULL) does nothing.
Free(X) ==
  /\ owner' = [b \in Block |-> IF \E x \in X : ptr[x] = b THEN Nobody ELSE owner[b]]
  /\ wrong' = (wrong \/ \E x \in X : ptr[x] # NoBlock /\ ~ Live(x))
  /\ UNCHANGED ptr

KeepHeap == UNCHANGED <<ptr, owner, wrong>>
KeepFile == UNCHANGED <<fd, mapped>>

\* The failing way out of a function: it frees, and its caller goes on.
FailFreeing(X, label) == Free(X) /\ GoTo(label) /\ KeepFile

-----------------------------------------------------------------------------
(* editor_app_save and editor_file_save.                                   *)

\* editor_core_to_buffer.  An empty text is NULL, and so is one that could not
\* be copied, which ends the save.
BeginSave ==
  /\ pc = "idle"
  /\ \/ Alloc("text") /\ GoTo("compress")
     \/ KeepHeap /\ pc' \in {"compress", "return"}
  /\ KeepFile /\ UNCHANGED io_mode

\* malloc in compress_buffer.
CompressAlloc ==
  /\ pc = "compress"
  /\ \/ Alloc("compressed") /\ GoTo("deflate")
     \/ KeepHeap /\ GoTo("free_text")
  /\ KeepFile /\ UNCHANGED io_mode

\* Mutant: both compress_buffer and its caller free the output.
DeflateFreedTwice ==
  /\ pc = "deflate"
  /\ \/ KeepHeap /\ GoTo("iv") /\ KeepFile
     \/ FailFreeing({"compressed"}, "free_buffers")
  /\ UNCHANGED io_mode

\* compress_buffer frees its output when compress fails, and the pointer of
\* the caller keeps the address.
Deflate ==
  /\ pc = "deflate"
  /\ \/ KeepHeap /\ GoTo("iv") /\ KeepFile
     \/ FailFreeing({"compressed"}, "free_text")
  /\ UNCHANGED io_mode

\* In crypto_generate_iv, which owns no memory.
StepIv == pc = "iv" /\ IvStep /\ KeepHeap /\ KeepFile /\ UNCHANGED <<pc, io_mode>>

\* crypto_generate_iv returns; the next call has an IV and a total of its own.
GenerateIv ==
  /\ pc = "iv" /\ iv_pc = "returned"
  /\ IF iv_result = 0 THEN KeepHeap /\ GoTo("encrypt") /\ KeepFile
                      ELSE FailFreeing({"compressed"}, "free_text")
  /\ iv' = [o \in Offsets |-> Junk] /\ total' = 0
  /\ iv_pc' = "getrandom" /\ iv_result' = -1
  /\ UNCHANGED <<open, io_mode>>

\* crypto_encrypt_buffer.
EncryptBuffer ==
  /\ pc = "encrypt"
  /\ \/ Alloc("encrypted") /\ GoTo("build") /\ KeepFile
     \/ FailFreeing({"compressed"}, "free_text")
  /\ UNCHANGED io_mode

\* ceio_format_build.
BuildFile ==
  /\ pc = "build"
  /\ \/ Alloc("file_buffer") /\ GoTo("open") /\ KeepFile
     \/ FailFreeing({"compressed", "encrypted"}, "free_text")
  /\ UNCHANGED io_mode

\* io_backend_write_file: open.
OpenForWriting ==
  /\ pc = "open"
  /\ \/ fd' = TRUE /\ GoTo(IF io_mode = "mmap" THEN "mmap" ELSE "close")
     \/ UNCHANGED fd /\ GoTo("free_buffers")
  /\ KeepHeap /\ UNCHANGED <<mapped, io_mode>>

\* Mutant: the descriptor stays open when there is no mapping.
MapFileOpen ==
  /\ pc = "mmap"
  /\ \/ mapped' = mapped \cup {"this"} /\ UNCHANGED fd /\ GoTo("munmap")
     \/ UNCHANGED <<fd, mapped>> /\ GoTo("free_buffers")
  /\ KeepHeap /\ UNCHANGED io_mode

\* ftruncate and mmap; both close the file when they fail.
MapFile ==
  /\ pc = "mmap"
  /\ \/ mapped' = mapped \cup {"this"} /\ UNCHANGED fd /\ GoTo("munmap")
     \/ fd' = FALSE /\ UNCHANGED mapped /\ GoTo("free_buffers")
  /\ KeepHeap /\ UNCHANGED io_mode

\* memcpy, msync and munmap.  Whatever msync says, munmap and close follow.  A
\* mapping that munmap refuses stays until the process ends.
UnmapFile ==
  /\ pc = "munmap"
  /\ \/ mapped' = mapped \ {"this"}
     \/ mapped' = (mapped \ {"this"}) \cup {"refused"}
  /\ GoTo("close")
  /\ KeepHeap /\ UNCHANGED <<fd, io_mode>>

\* write_all of the write backend, and close of both.
CloseWritten ==
  /\ pc = "close"
  /\ fd' = FALSE /\ GoTo("free_buffers")
  /\ KeepHeap /\ UNCHANGED <<mapped, io_mode>>

\* The end of editor_file_save.
FreeBuffers ==
  /\ pc = "free_buffers"
  /\ Free({"file_buffer", "compressed", "encrypted"})
  /\ GoTo("free_text")
  /\ KeepFile /\ UNCHANGED io_mode

\* The end of editor_app_save.
FreeText ==
  /\ pc = "free_text"
  /\ Free({"text"})
  /\ GoTo("return")
  /\ KeepFile /\ UNCHANGED io_mode

-----------------------------------------------------------------------------
(* editor_app_load and editor_file_load.                                   *)

\* stat and malloc of io_backend_read_file.  A file of no bytes is NULL.
BeginLoad ==
  /\ pc = "idle"
  /\ \/ Alloc("file_buffer") /\ GoTo("open_read")
     \/ KeepHeap /\ pc' \in {"parse", "return"}
  /\ KeepFile /\ UNCHANGED io_mode

OpenForReading ==
  /\ pc = "open_read"
  /\ \/ fd' = TRUE /\ GoTo("read") /\ KeepHeap
     \/ Free({"file_buffer"}) /\ UNCHANGED fd /\ GoTo("return")
  /\ UNCHANGED <<mapped, io_mode>>

\* The reads, and close; when any fails the buffer is freed.
ReadAndClose ==
  /\ pc = "read"
  /\ fd' = FALSE
  /\ \/ KeepHeap /\ GoTo("parse")
     \/ Free({"file_buffer"}) /\ GoTo("return")
  /\ UNCHANGED <<mapped, io_mode>>

\* ceio_format_parse rejects NULL.
ParseFile ==
  /\ pc = "parse"
  /\ \/ ptr["file_buffer"] # NoBlock /\ KeepHeap /\ GoTo("decrypt") /\ KeepFile
     \/ FailFreeing({"file_buffer"}, "return")
  /\ UNCHANGED io_mode

\* malloc in crypto_decrypt_buffer.
DecryptAlloc ==
  /\ pc = "decrypt"
  /\ \/ Alloc("working") /\ GoTo("strip") /\ KeepFile
     \/ FailFreeing({"file_buffer"}, "return")
  /\ UNCHANGED io_mode

\* remove_padding_and_validate_crc may refuse the message, or has no memory
\* for it.
StripPadding ==
  /\ pc = "strip"
  /\ \/ Alloc("decrypted") /\ GoTo("free_working") /\ KeepFile
     \/ FailFreeing({"working", "file_buffer"}, "return")
  /\ UNCHANGED io_mode

\* The end of crypto_decrypt_buffer.
FreeWorking ==
  /\ pc = "free_working"
  /\ Free({"working"}) /\ GoTo("inflate")
  /\ KeepFile /\ UNCHANGED io_mode

\* malloc in decompress_buffer.
InflateAlloc ==
  /\ pc = "inflate"
  /\ \/ Alloc("decompressed") /\ GoTo("uncompress") /\ KeepFile
     \/ FailFreeing({"decrypted", "file_buffer"}, "return")
  /\ UNCHANGED io_mode

\* uncompress, and the CRC of the text.
Uncompress ==
  /\ pc = "uncompress"
  /\ \/ Free({"decrypted", "file_buffer"}) /\ GoTo("import") /\ KeepFile
     \/ FailFreeing({"decompressed", "decrypted", "file_buffer"}, "return")
  /\ UNCHANGED io_mode

\* gap_buffer_load_buffer allocates before it frees the old text.
ImportAlloc ==
  /\ pc = "import"
  /\ \/ Alloc("new_data") /\ GoTo("replace") /\ KeepFile
     \/ FailFreeing({"decompressed"}, "return")
  /\ UNCHANGED io_mode

\* The new block becomes the data of the core; editor_app_load frees its copy.
Replace ==
  /\ pc = "replace"
  /\ ptr' = [ptr EXCEPT !["data"] = ptr["new_data"]]
  /\ owner' = [b \in Block |-> IF b \in {ptr["data"], ptr["decompressed"]} THEN Nobody
                               ELSE IF b = ptr["new_data"] THEN "data" ELSE owner[b]]
  /\ wrong' = (wrong \/ ~ Live("data") \/ ~ Live("decompressed"))
  /\ GoTo("return")
  /\ KeepFile /\ UNCHANGED io_mode

\* The locals of the calls are gone.
Return ==
  /\ pc = "return"
  /\ ptr' = [x \in Name |-> IF x = "data" THEN ptr[x] ELSE NoBlock]
  /\ GoTo("idle")
  /\ KeepFile /\ UNCHANGED <<owner, io_mode, wrong>>

Save ==
  \/ CompressAlloc \/ Deflate \/ EncryptBuffer \/ BuildFile
  \/ OpenForWriting \/ MapFile \/ UnmapFile \/ CloseWritten \/ FreeBuffers \/ FreeText

Load ==
  \/ OpenForReading \/ ReadAndClose \/ ParseFile \/ DecryptAlloc \/ StripPadding
  \/ FreeWorking \/ InflateAlloc \/ Uncompress \/ ImportAlloc \/ Replace

Continue == StepIv \/ GenerateIv \/ ((Save \/ Load \/ Return) /\ UNCHANGED iv_vars)

Next == Continue \/ ((BeginSave \/ BeginLoad) /\ UNCHANGED iv_vars)

\* An operation runs on its own and the system calls answer; whether another
\* one begins is up to the user.
Spec == Init /\ [][Next]_vars /\ WF_vars(Continue)
-----------------------------------------------------------------------------
(* Properties.                                                             *)

\* The pointers whose memory the next call reads or writes; those of an empty
\* text and of an empty file are NULL, and nothing is read.
Used == {x \in Name :
  \/ pc = "deflate" /\ (x = "compressed" \/ (x = "text" /\ ptr[x] # NoBlock))
  \/ pc = "encrypt" /\ x = "compressed"
  \/ pc = "build"   /\ (x = "encrypted" \/ (x = "text" /\ ptr[x] # NoBlock))
  \/ pc \in {"munmap", "close", "read", "decrypt"} /\ x = "file_buffer"
  \/ pc = "parse"   /\ x = "file_buffer" /\ ptr[x] # NoBlock
  \/ pc \in {"strip", "free_working"} /\ x = "working"
  \/ pc = "uncompress" /\ x \in {"decrypted", "decompressed"}
  \/ pc = "import"  /\ x = "decompressed"
  \/ pc = "replace" /\ x \in {"decompressed", "new_data"} }

\* No block is freed twice and none is used after it was freed, although a
\* failed compression leaves its caller a pointer to freed memory; and the
\* text on the screen always has its memory, in the middle of a load too.
MemoryIsOwned ==
  /\ ~ wrong
  /\ \A x \in Used \cup {"data"} : Live(x)

\* Whichever call fails, nothing is left behind: between two operations the
\* only block in use is the text of the core, and the file is neither open nor
\* mapped, unless the system refused to unmap it.
NothingIsLeft ==
  pc = "idle" =>
    /\ \A b \in Block : owner[b] # Nobody => b = ptr["data"]
    /\ ~ fd /\ "this" \notin mapped

\* Every save and load returns: the reads of an IV come to an end too, as each
\* fills a part of it or ends the call.
OperationsReturn == pc # "idle" ~> pc = "idle"
=============================================================================
