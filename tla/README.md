# Specifications of the CEIO editor

TLA+ models of the terminal editor of this repository: a gap buffer and editor
core, the compressed and encrypted `.ceio` file it loads and saves, the memory
that the key and the buffers go through, the screen, the session of a user who
opens, edits and saves, and the program and benchmark around them. TLC checks
every module on small instances. TLAPS proves, for every value of the constants,
all the safety properties, the refinements among them, and the part of the
liveness properties that needs no fairness: that every loop runs out of steps.

Paths are relative to the repository: `src/gap_buffer.c` is the file that
`PROJECT.json` lists as `src/src/gap_buffer.c`.

## The system

| Component | State | Operations | Modelled in |
|---|---|---|---|
| gap buffer, `src/gap_buffer.c` | one block, its capacity, the gap's start and end | init, free, insert, delete before/at the cursor, move left/right/to, load, to_buffer | `GapBuffer` |
| editor core, `src/editor_core.c` | a gap buffer, `dirty`, `initialized` | the same, plus mark_clean | `EditorCore` |
| file pipeline, `src/editor_file.c` | the local variables of one call | save, load | `CeioFormat`, `CeioFile`, `CallResources` |
| I/O backend, `src/io_backend.c` | the file, descriptors, a mapping | write with `write` or `mmap`, read | `CeioFile`, `CeioPowerLoss`, `CallResources` |
| format, `src/ceio_format.c` | none | build, parse | `CeioFormat`, in part |
| zlib, `src/compress_zlib.c` | none | compress, decompress | `CeioFormat`, `CallResources` |
| encryption, `src/crypto_ceio.c` | none | IV, XTEA-CBC, padding, key copies | `CeioFormat` (symbolic), `Xtea`, `CeioCrypto`, `CeioXtea`, `CeioIv`, `KeyMemory` |
| application, `src/editor_app.c` | core, file name, key, status, running | set/clear key, load, save, edit, vertical moves | `EditorSession`, `VerticalMove`, `KeyMemory`, `CallResources` |
| terminal UI, `src/editor_ui_ncurses.c` | viewport, the prompt's buffer | prompts, three attempts to open, key loop, drawing | `EditorSession`, `KeyMemory`, `Viewport`, `EditorMain` |
| entry, `src/main.c` | command line, exit status | arguments, init, run, free | `EditorMain` |
| benchmark, `src/benchmark_runner.c`, `src/bench_io.c` | options, text, output file | one measured save | `Benchmark` |

The UI turns keys into calls of the application. The application edits through
the core and saves by taking a copy of the text from the core and giving it to
the file pipeline: compress, draw an IV, encrypt, build the image, write it. A
load is the reverse, and its result replaces the text of the core. All of it
is single-threaded. The program shares one thing with the outside, the file,
and several editors may use the same path; nothing locks it.

What is hard about it:

- the pointer arithmetic of the gap buffer: growing the block moves the part of
  the text behind the gap, sizes may wrap around, every allocation may fail;
- the file is truncated before it is written, so a kill, a failing system call,
  a power loss or another editor finds it empty, partial, full of holes or mixed;
- the loader trusts a header that the payload may not belong to;
- every call of a save and a load may fail with other buffers, descriptors and
  mappings in hand, and one of them leaves its caller a pointer to freed memory;
- the key passes through a stack buffer, a heap block and the words of the
  cipher, and each copy must be wiped on every way out; the heap block is locked,
  and locks belong to pages that blocks share;
- CBC works in place, padding and wrap-arounds must undo themselves exactly;
- a failed open must not turn into an empty document that overwrites the file,
  and must give the terminal back before it says why.

`PROJECT.json` lists each of these under "hazards", at its line.

What makes each component correct: the core behaves as a text with a cursor
(`ImplementsDocument`), shows no unwritten memory (`TextIsWritten`) and has an
honest dirty flag (`CleanMeansUnchanged`). The file holds a whole text or none
for an editor that is alone (`ImplementsTextStore`), what several editors or a
power loss leave behind is never taken for a text that nobody saved
(`LoadedTextWasSaved`, `DiskHoldsSavedText`), and a synced save is durable once
the file's directory entry is on the disk (`SyncedSaveSurvives`). A save or a load gives everything back
(`MemoryIsOwned`, `NothingIsLeft`) and ends (`OperationsReturn`). What is
encrypted comes back (`RoundTrip`), and only what an encryption writes is
accepted (`OnlyWhatIsWritten`). No copy of a key outlives its use
(`SecretsWhereNeeded`), and the cipher gives up no memory with decrypted bytes or
key words in it (`NothingLeft`). The session destroys nothing it has not read
(`UnreadIsKept`) and tells the user the truth (`StatusIsTrue`,
`CleanIsStored`). The screen shows the text (`ScreenShowsText`,
`CursorIsShown`).

## Modules

**`GapBuffer`** translates `src/gap_buffer.c`. `buf` is the struct, its `data` a
function from offsets to bytes, so an access outside the block is an error in
TLC and a failed obligation in a proof. `Junk` is a byte that `realloc`
returned and nothing wrote. `NewCapacity` is the result of the doubling loop;
`MCEditorCore` compares it with the loop for all arguments. Addition of two
`size_t` wraps around at `SizeMax`.

**`EditorCore`** translates `src/editor_core.c` and makes the calls. A call is one
step; `gap_buffer_move_to` is the exception, each iteration of its loops is a
step, with `moving` as the argument. `clean` is a history variable.

**`TextDocument`** is the abstract specification of the core: a sequence, a cursor,
a flag, and operations with all of their effect or none. `EditorCore` implements
it under the mapping in `Document`: the cursor is the target of a move in
progress, the text is what `gap_buffer_to_buffer` returns.

**`CeioFormat`** is the image of a file: the header in three cells (sizes, CRC, IV)
and one cell per cipher block. Cells are symbolic. The loader's checks compare
them: sizes as integers modulo `Uint32`, with as many blocks written as the cast
size says (`PayloadBlocks`), the CRC as the text it covers, a block
as the message, key, IV and index it was encrypted from. `Decompressed` includes
the memory that `uncompress` leaves unwritten when the stream is shorter than
the header says. A stream of `UINT_MAX` bytes or more is refused, as
`crypto_encrypt_buffer` does.

**`CeioFile`** is `editor_file_save` and `editor_file_load` over `io_backend`, one
step per system call and one per chunk of `write_all`, the read loop and
`memcpy` into the mapping (in any order). Every step may fail with the code's
own error path, and a process may be killed between any two. `Editor` is the
set of processes. An error path that ends in a stuttering step of the file is
still taken, because `answer` records what the call returned.

**`TextStore`** is the abstract specification of the file for one editor: a save
loses the old content, may store the new one, and reports success only when it
did.

**`CeioPowerLoss`** puts a disk under `CeioFile`. The steps of `CeioFile` change the
page cache (`file`); `Writeback` brings the size, a single cell or the directory entry
to the `disk` whenever it likes; `PowerLoss` ends every process and leaves what the
disk has (`AfterPowerLoss`), which is nothing while the `entry` of a new file is not
there. Only a successful `msync(MS_SYNC)` waits for the disk, for the mapped cells
and the size, not for the entry: `write_all` is followed by `close` and nothing
else, and nothing syncs the directory. `synced` is a history variable.

**`CallResources`** is a save and a load once more, as far as memory and descriptors
go: `ptr` is what each pointer variable holds, `owner` which pointer a block was
allocated for. `free` does not change the pointer, and `malloc` may return the
freed block at once, so a second free is noticed as what it is: somebody else's
memory is gone. Each action is a call that may fail, with what its function
frees on that way out. `munmap` may be refused, which leaves the mapping. It extends **`CeioIv`**, `crypto_generate_iv` with short
answers of `getrandom` and `read`, and runs it step by step inside a save.

**`Xtea`** is the block cipher by its arithmetic, with the width of a byte and a
word, the number of rounds, the shifts (as factors) and `XorWord`, the `^` of two
words, as constants. **`CeioCrypto`** is `crypto_encrypt_buffer` and
`crypto_decrypt_buffer`: CRC and padding, then CBC in place, one block per step,
over any cipher. A failing `malloc` is a branch of `Pad` and of `Copy`. After a
decryption, `Wipe` zeroes as many bytes as the message has, and `Free` gives the
block to the allocator as it is. The key words stay in the frame of a call that has
returned, unless it wiped them. **`CeioXtea`** assumes that the cipher is that of `Xtea`.
`MCCeioCrypto` gives it the values for TLC, the cipher as tables and `^` from
`Bitwise`, and TLC finds the assumption true there. The messages to decrypt are
those that were encrypted, with blocks lost, doubled or exchanged, and others.

**`KeyMemory`** follows a key: the prompt's stack buffer character by character, the
locked copy on the heap, the words of the cipher. Memory keeps what was written
to it, the buffer when its frame is gone and a block when it was freed. `Pages`
says which pages a block lies on. `typed` and `lock_ok` are history variables.

**`VerticalMove`** is `editor_app_move_vertical`: the scans for newlines as
`LineStart` and `LineEnd`, the clipped column as `Target`. The properties speak
of rows by counting newlines instead of scanning.

**`Viewport`** is what `editor_ui_draw` paints, with the viewport that stays from
one frame to the next, over the text and the moves of `VerticalMove`. Between
two frames the user types or moves, or the terminal changes its size.
`Screen` paints character by character as the code does; `ScreenShowsText`
asks for each cell which character covers it.

**`EditorSession`** composes `TextDocument`, `TextStore` and `VerticalMove` as
instances under the logic of `editor_app` and the UI: phases of the process, the
key, the status line, the count of attempts. A session may be killed in any
phase, and the next one starts on the file that is left. `unread`, `last` and
`failed` are history variables.

**`EditorMain`** is the process from the command line to the exit status. It
extends `KeyMemory` and runs its steps while ncurses has the terminal; a failing `initscr`
ends the process from inside ncurses, and the memory of the app with it; `Quit` of
`KeyMemory` is part of `editor_app_free`.

**`Benchmark`** is the second program: options, the text and the wrap-around of
its size, the chunked writes of the baseline, the dispatch to the pipelines of
`CeioFile` (one step here), the report.

`MC*` modules hold values for TLC, `*_proofs` modules the proofs. A proof module
covers what is proved together: `CeioFile_proofs` also speaks of `CeioPowerLoss`,
`CallResources_proofs` of `CeioIv`, `EditorMain_proofs` of `KeyMemory`, and
`Viewport_proofs` of `VerticalMove`.

## Runs

| Run | Instance | States | Shows |
|---|---|---|---|
| `core` | 2 byte values, `SizeMax` 5, default gap 1 | 915,000 | The gap buffer implements a text with a cursor and an honest dirty flag through every growth, failing allocation and wrap-around; every `move_to` returns. |
| `file_one_editor` | 1 editor, 2 keys, texts of 1 and 2 blocks, 3 saves | 85,000 | With failing system calls and kills, a save that reported success is loadable; a failed one leaves the old text, the new one or nothing. |
| `file_calls_return` | 2 editors, 1 text, 2 saves | 80,000 | The chunked loops end although another editor truncates and rewrites the file. |
| `file_shared` | 2 editors, 2 keys, 3 texts of equal block count, 2 saves | 2,570,000 | Interleaved saves and loads without a lock never give a text that nobody saved, or one under a wrong key. |
| `file_huge` | a text of 17 characters whose stream is short, `Uint32` 16 | violated | `original_size` wraps around for a text that does not fit 32 bits, and the save reports success. |
| `session` | 2 byte values, texts up to 2, 2 keys, 3 attempts | 210,000 | No key between operations, nothing overwritten that was not read, a true status, and a clean document is on the file. |
| `program` | command lines of up to 3 arguments, 2 key characters, buffer of 4, 3 blocks on 2 pages | 4,040,000 | The file that was asked for is opened, the key is the typed line and stays locked until wiped, terminal and memory come back on every way out. |
| `screen` | 4 characters (a tab, a newline, a control one), texts up to 4, 3×2 terminal sizes, tab 3 | 670,000 | The screen shows the text around the cursor, the cursor is on it, and up and down go to the neighbouring row. |
| `crypto` | 3-bit bytes, blocks of 4, 4 rounds, texts up to 7 | 163,000 | Decryption undoes encryption around every block boundary; a damaged buffer is refused unless it is the padded form of what comes out; no secret is in memory that is given up. |
| `power_loss` | 1 editor, 2 keys, 3 texts of equal block count, 2 saves | 576,000 | A save with `mmap` that reported success survives a power loss once the entry of the file is on the disk; what can be loaded afterwards was saved. |
| `resources` | 5 blocks, IV of 5 bytes | 24,900 | Whichever call fails, blocks are freed once, descriptors and mappings go back, the IV is wholly random, and the operation ends. |
| `benchmark` | 218 command lines, "MB" of 4, `size_t` of 16, line 5, chunk 3 | 1,850 | What was asked for is run, only complete files are reported, and the program ends. |

Why the bounds are enough:

- `core`: `SizeMax` 5 with a default gap of 1 lets the block grow by doubling, by the
  exact size when doubling wraps around, and not at all when the sum wraps; the
  text fills the whole address space. Two byte values, one of them 0, tell
  inserted bytes from those of `calloc`; `Junk` tells the ones of `realloc`. The
  theorems hold for every value, so the bound matters only for `MoveToReturns`.
- Files: one editor needs a save that destroys an earlier one and a load between
  saves, `MaxSaves` 3. Texts of one and two blocks let a short image overwrite a
  long one. The shared file, and the disk, need two saves whose images have
  equal sizes, since other mixtures fail in `ceio_format_parse`; `SameSize` has a
  text that is the start of the others, the case where the unwritten tail of the
  decompression buffer could complete a text.
- `resources`: five blocks are what the code ever owns at once; a sixth would only
  be another choice for `malloc`. An IV of five bytes lets `getrandom` give a
  part and two reads give the rest. The theorems hold for all sizes.
- `crypto`: a block of four 3-bit bytes and four rounds make the sums and both
  halves wrap around; texts of zero to seven bytes lie before, at and behind
  every block boundary, and some end in bytes that look like padding.
- `program`: command lines of up to three arguments hold a name, an option before
  it and one behind it; a prompt buffer of four bytes holds a key of three, can
  be full, and be emptied again; three blocks on two shared pages let the new
  copy of a key share a page with the old one. `EditorMain_proofs` covers the rest.
- `screen`: terminals with no, one and two lines for text, narrower and wider than
  a tab and a character; four characters make up to five rows and tabs at both
  edges. `Viewport_proofs` covers longer texts and wider screens.
- `benchmark`: `size_t` wraps around at 16 with "megabytes" of 4; lines of 5 and
  chunks of 3 end inside, at and behind each other.
- Editors and keys are interchangeable in the safety properties of the shared
  run, keys in those of the session and of the disk: the sets are symmetric.

Deadlock is checked in every run.

**Fairness.** Only steps that the running program takes by itself are fair: an
iteration of the loops of move_to (`MoveToLoop` in `EditorCore`), the next
system call of a call in progress (`Continue(e)` in `CeioFile`, `Continue` in
`CallResources`), and the benchmark, because a C function that runs goes on
running and the kernel answers. What the user does, and being killed, is never
fair. A `write` or `read` that makes progress takes at least one byte, so
fairness of the step is enough for the loop to end.

**The violated property.** `original_size` and the length given to `crc32` are
casts to 32 bits (`src/editor_file.c`, lines 56 to 62). A text of 2^32 bytes or
more whose stream is shorter is saved with success, its header holds the size
modulo 2^32, and no load accepts it. `Reporte.md`, line 132, calls the field the size of the text before
compression. Of texts that fit, `FittingSizesAreTrue` proves the statement.

## Proofs

`EditorCore_proofs` proves, from `GapBufferAssumption` (a positive default gap
smaller than `SizeMax`, 0 among the bytes, `Junk` not) and
`EditorCoreAssumption` (texts to load are sequences of bytes that fit the
address space) alone:

- `TypeCorrect`, `TextAlwaysWritten`, `CleanIsUnchanged`: the three invariants of
  run `core`;
- `CoreImplementsDocument`: the refinement of `TextDocument`;
- `MoveToRunsOutOfSteps`: see "Running out of steps" below.

The inductive invariant `IInv` is the conjunction of the three. None of them is
inductive alone: that an insert keeps the text written needs the gap to lie
inside the block (`TypeOK`); that it keeps `clean` a text needs the text to be
written; and `TypeOK` itself contains that `clean` is a sequence of bytes, which
`editor_core_mark_clean` takes from the text. The lemmas follow the code: the
overflow test of `ensure_gap` detects exactly the sums that wrapped around, the
doubling loop ends between the required size and `SizeMax`, `Enlarge` keeps the
text, and each primitive changes the text as `InsertAt` and `RemoveAt` do. The
refinement takes one step lemma per action and cites `IInv` for both ends of the
step; an iteration of `move_to` is a stuttering step.

`CeioFile_proofs` has three parts.

- Any number of editors: `TypeCorrect` and `LoadsWereSaved`. `TypeOK` says more than
  types, but not enough to be inductive: a load would have to know what its
  cells mean. `IInv` says of the file, of every image in progress and of every
  buffer of a load that each cell is zero or the cell that some save writes at
  that position (`Good`). Cells of different saves may be mixed; that a mixture
  which passes the checks of `ceio_format_parse` is a saved text is
  `LoadedIsOfSaves`: the first block decides the key, the CRC decides the text.
- One editor: `AloneInvariant`, `ImplementsStore`. `AloneInv` adds how much of the
  image is in the file: `PartOf(file, image, todo)`, zero where the cell is still
  to be written; a buffer of a load is the beginning of the file. From it
  `WholeImageLoads` (a finished image gives its text back) and
  `PartDoesNotLoad` (an unfinished one gives nothing) decide what the abstract
  store contains, and each system call is a step of `TextStore` or a stutter.
  `FittingSizesAreTrue` is what run `file_huge` refutes without `TextsFit`; its
  invariant `OneSave` says that the file holds cells of one save only, after a
  save that was killed or failed half-way as well.
- The disk: `DiskWasSaved` for any number of editors, `SyncedSurvives` for one.
  `DiskInv` says of the disk what `IInv` says of the file; `SyncedInv` that the
  disk and the file are the whole image of the save that `msync` reported, or the
  file was lost with an entry that had not reached the disk.

`LoadsWereSaved`, `ImplementsStore`, `FittingSizesAreTrue`, `DiskWasSaved` and
`SyncedSurvives` assume `TextsFit`: sizes of texts, of streams and of payloads are below `Uint32`. Without
it they may fail: a header with a wrapped size next to the payload of another
save loads as the beginning of a text, and run `file_huge` shows what happens to
one editor. The assumption is true in all other runs of the file.
`CeioFileAssumption` only says that a missing file is not an image.

`CeioCrypto_proofs` proves the four properties of `CeioCrypto` for every size of a
block, of a CRC and of a text, and over any block cipher:

- `TypeCorrect`, `NothingIsLeft`, and `AcceptsOnlyWhatIsWritten`, with no
  assumption on the cipher but that it maps blocks to blocks;
- `TextsComeBack`, with `CipherUndone`: decryption undoes encryption block by block
  and `^` undoes itself;
- `EveryBlockComesBack` and `TextsComeBackWithXtea`, where `CipherUndone` is proved of
  XTEA instead of assumed, for every width of a byte and a word, every shift and
  any number of rounds, the code's 8, 32 and 32 among them. What is assumed is
  that the cipher is that of `Xtea` (`CipherIsXtea`) and that `^` on bytes undoes
  itself (`XorUndoesItself`). Nothing is assumed of `^` on words but that it
  gives a word: the rounds add and subtract what it mixes.

The argument for XTEA: a round of decryption takes back a round of encryption
(`RoundUndone`), because subtraction modulo the width takes back addition
(`WrapUndone`) and each half is lowered by what the other half, already restored,
and the same sum gave; the sum before round r is r times `Delta`, modulo the width
(`SumInRounds`), so that `LastSum` is the right one to start from; then all rounds
undo each other in reverse order (`RoundsUndone`). The words are the digits of
their bytes, so loading and storing undo each other too (`LoadStored`,
`StoreLoaded`). The rounds and the digits are recursive functions: their
existence and values are proved once, from an explicit witness and by least
counterexample (`IterationExists`).

`IInv` says which blocks of the buffer are done: those before `offset` are
encrypted from the padded text (`IsEncrypted`), or decrypted (`IsDecrypted`), the
others are as they were, and `previous` is the ciphertext block before them,
which decryption in place has overwritten in the buffer. Through the wipe and the
free it keeps the size of the buffer equal to that of the message, which is the
size the wipe uses (`WipingOK`), so `NothingIsLeft` fails for a wipe that is too
short, missing or late. Multiples of the block
size and the padding have lemmas of their own: `StripPadded` takes back what
`Padded` appends, `StrippedIsPadded` says that nothing else is accepted.

`Viewport_proofs` proves the properties of `VerticalMove` for the module alone, over
every text (`TargetsInText`, `NoRowIsADeadEnd`, `MovesStayInColumn`), and for the
screen (`ScreenMovesInText`, `ScreenHasNoDeadEnd`, `ScreenMovesInColumn`). The code
scans for newlines, the properties count them. `RowIsLine` joins the two: the
positions with the same newlines before them are the positions of the scanned
line. The scans are `CHOOSE`s over finite ranges; that a position to stop at
exists follows from the well-order of the naturals (`LeastNatural`).

`CursorIsAlwaysShown` and `ScreenAlwaysShowsText` are about every text, width of a
tab and sequence of terminal sizes. The invariant `ScreenInv` says that the
window of the last frame contains the cursor while the text is shown. Then
`PositionIsCounted` proves the walk of the code over the text equal to the
counted rows and columns, and `ScreenIsLastPainted` that painting in order leaves
in each cell the last character that covers it. Both are recursive functions:
their existence is proved from an explicit witness and their values by least
counterexample.

`EditorSession_proofs` proves the five invariants of run `session` for every set
of characters and keys, any number of attempts and any length of the text:
`TypeCorrect`, `KeyIsShortLived`, `UnreadIsNeverLost`, `StatusIsAlwaysTrue`,
`CleanIsAlwaysStored`. `TypeCorrect` needs that every text in the file is one that a
session had (`TypeInv`), and that the targets of up and down are in the text. For
the others the inductive invariant `IInv` adds:

- `OneText`: the file holds at most one text under one key;
- `UnreadWhileOpening`: only a session that is still opening has anything unread,
  so a save, which needs a session that is editing, destroys nothing unread;
- `SavesTheDocument`: what is being written is the document's text under the key
  held, so a success makes the message and the cleared dirty flag true;
- `ToldIsTrue`: `StatusIsTrue` in every phase in which the message is on the
  screen, the prompt and the export of the next save included; while a file is
  being opened no such message is there to be wrong.

`SessionKeepsDocument` and `SessionKeepsStore` say that the session stays within the
abstract specifications it composes: every behaviour of it is one of
`TextDocument` and one of `TextStore`. So what is proved of the core and of the
file by `CoreImplementsDocument` and `ImplementsStore` is about the very parts
that the session uses. The first needs that the targets of up and down are
positions of the text and that a loaded text is one of characters; the second
that loads and saves happen only under a key that was typed (`KeyTyped`), which
rests on `KeyHeld`: a prompt begins without a key.

`EditorMain_proofs` proves `KeyTypeCorrect`, `SecretsAreWiped`, `KeyIsTypedLine` and
`LockIsKept` of `KeyMemory`, for every size of the buffer, every heap and every way
its blocks share pages. The invariants need facts that none of them says: that
the bytes in front of `length` are the line typed so far (`LineInBuffer`), which
the copy hands on to the block (`LineInBlock`); that no byte of a key lies at or
behind `key_size`, where wiping `key_size` bytes would miss it; and that only
pages of the key are locked (`LocksAreKeys`). `MainFollowsKeyMemory` carries them
to the program (`ProgramKeepsKey`).

`OpensOneFile` and `TerminalIsGivenBack` are about every number and order of
arguments. `ReadSoFar` states for the arguments already read what
`OpensWhatWasAsked` states for all: none ended the program, at most one was a
name, the mode is that of the last option. `MainInv` adds who has the terminal
in each phase, and that a failure has said why. `EditorMainAssumption` tells
options and file names apart, as the prefix tests of `main` do.

`Benchmark_proofs` proves `ReportIsAlwaysTrue` and `AlwaysRunsWhatWasAsked`, with the
same `ReadSoFar` idea. `BuiltSoFar` says that the buffer holds whole lines until
the last one is cut, `WrittenSoFar` that the file holds the first `offset` bytes of
the text, `Stored` what a complete file holds and how it was made. `RestIs` and
`Percentage` are the arithmetic. `BenchmarkAssumption` gives the options of a
command line numbers where the code parses numbers.

`CallResources_proofs` proves `MemoryIsAlwaysOwned` and `NothingIsEverLeft` for a
heap of any size. The invariant tells for each program counter exactly which
local pointers own a block (`LocalsAreKnown`); the text of a save, and the file
of a load, may be NULL (`TextIsKnown`). `Coherent` says that a block that is
owned is held by its owner, so that two pointers never own one block.
`Allocates` and `Frees` say what `malloc` and `free` do to the set of pointers
that are alive; each action is one or the other with its case of the table.

It also proves `IvIsRandom` and `IvClosesDescriptor` for every size of an IV: the
bytes before `total` come from the reads, `total` is 0 until the loop, and the
descriptor is open only in it. `IvOfSavesIsRandom` and `SavesCloseDescriptor` carry
this to a run of saves, each with a call of its own, and
`NoSaveEncryptsWithoutIv` says what the save makes of it: it goes on to the
encryption only with an IV that is random in every byte.

**Running out of steps.** Four theorems are the part of the liveness properties
that needs no fairness: a natural number that each step of the program lowers.

| Theorem | The number | Left to TLC |
|---|---|---|
| `MoveToRunsOutOfSteps` | the bytes between the gap and the target, lowered by exactly 1; the text stays and the result is OK | `MoveToReturns` |
| `CallsRunOutOfSteps` | the system calls to make, with the bytes to write, copy and read; no step of another editor raises it | `CallsReturn` |
| `OperationsRunOutOfSteps` | the calls to make, with the bytes of the IV to read | `OperationsReturn` |
| `ProgramRunsOutOfSteps` | the arguments, bytes and chunks still to handle | `Ends` |

The second is the one with an argument to it: another editor may truncate the
file or make it longer between two reads, but the size to read and the chunks
to write are the call's own.

Only model-checked, and why: `MoveToReturns`, `CallsReturn`, `OperationsReturn` and
`Ends`. The theorems above say that only finitely many steps remain; that they
are taken needs fairness and that a step is enabled while one remains, and the
provers do neither.

## Not modelled, and why

- The header, help and status lines of the screen, the wording of prompts, the
  clock of the benchmark, and the profiling script: output only.
- CRC-32 and zlib as computations. The symbolic cells of `CeioFormat` assume that
  CRC-32 has no collisions and that blocks under another key or IV fail the
  padding and CRC checks; with probability near 2^-32 the program behaves
  otherwise. `CeioCrypto` makes no such assumption.
- The width of 32 bits and 32 rounds in the runs: TLC needs all blocks of a small
  cipher. The theorems hold for every width and number of rounds.
- A durable directory entry: the model has its loss, the code has nothing against
  it. A first save of a new file that reported success may be gone after a power
  loss, with `mmap` and `msync` too, since nothing syncs the directory. No comment
  or document of the repository promises otherwise; `SyncedSaveSurvives` speaks of
  files whose entry is on the disk.
- What the file pipeline leaves in freed memory: `editor_file_load` frees the
  decrypted zlib stream without wiping it (`src/editor_file.c`, lines 126 to 142).
  `NothingLeft` is about the buffer and the words of `src/crypto_ceio.c`.
- Torn cells: a cell of a file (sizes, CRC, IV, one cipher block) is written
  whole, by a process and by the disk. A mixture of two images inside one cell
  is not modelled.
- The byte order of the packed header: the same program writes and reads it.
- A file that another process creates between `access` and the first save: it is
  overwritten without having been read. Nothing in the program promises
  otherwise, and there is no property about it. The same is true of the dirty
  flag of a clean document whose save failed, and of a terminal that is gone,
  for which `getch` reports an error for ever.
- NULL arguments that no caller passes.
- The tests of the repository make sequential calls on small inputs; they were
  read for what the code is meant to do.

## Plan

Done, in this order: the core and its refinement; the file, failures and shared
use; vertical moves; sessions; the 32-bit sizes; the key's memory; the screen;
the cipher; power loss; resources; the benchmark; the entry.

Proved: all invariants and action properties of the runs, the refinements of
`TextDocument` and `TextStore`, that sessions keep to both, that XTEA is undone, and
that every loop runs out of steps.

To come: the two refinements that the comments only describe, a save of
`CeioFile` as the one step that `Benchmark` makes of it, and `CallResources` as the
same control flow as `CeioFile`.
