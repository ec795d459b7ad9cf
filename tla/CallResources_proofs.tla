------------------------ MODULE CallResources_proofs ------------------------
(* Proofs that the IV of a save is random in every byte, and that a save    *)
(* and a load give everything back, whichever call of them fails, for a     *)
(* heap of any size.                                                        *)
EXTENDS CallResources, TLAPS

-----------------------------------------------------------------------------
(* crypto_generate_iv, on its own.                                          *)

\* The bytes before total come from the reads, whatever getrandom wrote before
\* them; nothing is counted before the loop, and the descriptor is open in it
\* and only there.
IvInv ==
  /\ iv \in [Offsets -> {Junk, "getrandom", "urandom"}]
  /\ total \in 0 .. IvSize
  /\ iv_pc \in {"getrandom", "open", "read", "returned"}
  /\ iv_pc \in {"getrandom", "open"} => total = 0
  /\ open \in BOOLEAN /\ (open => iv_pc = "read")
  /\ SuccessIsRandom

\* Writing n bytes at an offset gives every byte of that range the source, and
\* leaves the others.
LEMMA FilledType ==
  ASSUME NEW at \in Nat, NEW n \in Nat,
         NEW source \in {"getrandom", "urandom"},
         iv \in [Offsets -> {Junk, "getrandom", "urandom"}]
  PROVE  /\ Filled(at, n, source) \in [Offsets -> {Junk, "getrandom", "urandom"}]
         /\ \A o \in Offsets : Filled(at, n, source)[o] =
                                 IF at <= o /\ o <= at + n - 1 THEN source ELSE iv[o]
<1>1. \A o \in Offsets : o \in at .. at + n - 1 <=> at <= o /\ o <= at + n - 1
  BY CeioIvAssumption DEF Offsets
<1> QED
  BY <1>1 DEF Filled

LEMMA IvInitial == IvInit => IvInv
<1> SUFFICES ASSUME IvInit PROVE IvInv
  OBVIOUS
<1>1. /\ iv \in [Offsets -> {Junk, "getrandom", "urandom"}]
      /\ total \in 0 .. IvSize /\ total = 0 /\ open = FALSE /\ iv_pc = "getrandom"
  BY CeioIvAssumption DEF IvInit
<1>2. SuccessIsRandom
  BY <1>1 DEF SuccessIsRandom, Offsets
<1> QED
  BY <1>1, <1>2 DEF IvInv

LEMMA GetRandomInv == IvInv /\ GetRandom => IvInv'
<1> SUFFICES ASSUME IvInv, GetRandom PROVE IvInv'
  OBVIOUS
<1>1. PICK n \in 0 .. IvSize :
        /\ iv' = Filled(0, n, "getrandom")
        /\ IF n = IvSize THEN IvReturn(0) ELSE iv_pc' = "open" /\ UNCHANGED iv_result
  BY DEF GetRandom
<1>2. n \in Nat /\ IvSize \in Nat /\ total = 0 /\ total' = 0 /\ open' = open /\ ~ open
  BY CeioIvAssumption DEF GetRandom, IvInv
<1>3. /\ iv' \in [Offsets -> {Junk, "getrandom", "urandom"}]
      /\ \A o \in Offsets : iv'[o] = IF 0 <= o /\ o <= n - 1 THEN "getrandom" ELSE iv[o]
  BY <1>1, <1>2, FilledType DEF IvInv
<1>4. CASE n = IvSize
  <2>1. iv' \in [Offsets -> {"getrandom"}]
    BY <1>2, <1>3, <1>4 DEF Offsets
  <2> QED
    BY <1>1, <1>2, <1>3, <1>4, <2>1 DEF IvInv, SuccessIsRandom, IvReturn, Offsets
<1>5. CASE n # IvSize
  BY <1>1, <1>2, <1>3, <1>5 DEF IvInv, SuccessIsRandom, Offsets
<1> QED
  BY <1>4, <1>5

LEMMA ReadInv == IvInv /\ Read => IvInv'
<1> SUFFICES ASSUME IvInv, Read PROVE IvInv'
  OBVIOUS
<1>1. PICK chunk \in 1 .. IvSize - total :
        iv' = Filled(total, chunk, "urandom") /\ total' = total + chunk
  BY DEF Read
<1>2. /\ IvSize \in Nat /\ total \in Nat /\ chunk \in Nat /\ total' \in 0 .. IvSize
      /\ iv_pc = "read" /\ iv_pc' = iv_pc /\ open' = open /\ iv_result' = iv_result
  BY <1>1, CeioIvAssumption DEF Read, IvInv
<1>3. /\ iv' \in [Offsets -> {Junk, "getrandom", "urandom"}]
      /\ \A o \in Offsets :
           iv'[o] = IF total <= o /\ o <= total + chunk - 1 THEN "urandom" ELSE iv[o]
  BY <1>1, <1>2, FilledType DEF IvInv
<1>4. \A o \in Offsets : o < total' => iv'[o] = "urandom"
  BY <1>1, <1>2, <1>3 DEF IvInv, SuccessIsRandom, Offsets
<1> QED
  BY <1>2, <1>3, <1>4 DEF IvInv, SuccessIsRandom

LEMMA CloseInv == IvInv /\ Close => IvInv'
<1> SUFFICES ASSUME IvInv, Close PROVE IvInv'
  OBVIOUS
<1>1. total = IvSize /\ total' = total /\ iv' = iv /\ iv_pc' = "returned" /\ open' = FALSE
  BY CeioIvAssumption DEF Close, IvInv, IvReturn
<1>2. iv' \in [Offsets -> {"urandom"}]
  BY <1>1, CeioIvAssumption DEF IvInv, SuccessIsRandom, Offsets
<1> QED
  BY <1>1, <1>2 DEF IvInv, SuccessIsRandom

\* Every step keeps the invariant.
LEMMA IvInductive == IvInv /\ [IvNext]_iv_vars => IvInv'
<1> SUFFICES ASSUME IvInv, [IvNext]_iv_vars PROVE IvInv'
  OBVIOUS
<1>1. CASE Open
  <2>1. iv' = iv /\ total' = total /\ total = 0
    BY <1>1 DEF Open, IvInv
  <2>2. CASE open' = TRUE /\ iv_pc' = "read"
    <3>1. SuccessIsRandom'
      BY <2>1, <2>2 DEF IvInv, SuccessIsRandom
    <3> QED
      BY <2>1, <2>2, <3>1 DEF IvInv
  <2>3. CASE open' = open /\ iv_pc' = "returned" /\ iv_result' = -1
    <3>1. open = FALSE
      BY <1>1 DEF Open, IvInv
    <3>2. SuccessIsRandom'
      BY <2>1, <2>3 DEF IvInv, SuccessIsRandom
    <3> QED
      BY <2>1, <2>3, <3>1, <3>2 DEF IvInv
  <2> QED
    BY <1>1, <2>2, <2>3 DEF Open, IvReturn
<1>2. CASE ReadFails
  <2>1. /\ iv' = iv /\ total' = total /\ open' = FALSE
        /\ iv_pc' = "returned" /\ iv_result' = -1
    BY <1>2 DEF ReadFails, IvReturn
  <2>2. SuccessIsRandom'
    BY <2>1 DEF IvInv, SuccessIsRandom
  <2> QED
    BY <2>1, <2>2 DEF IvInv
<1>3. CASE UNCHANGED iv_vars
  BY <1>3 DEF iv_vars, IvInv, SuccessIsRandom
<1> QED
  BY <1>1, <1>2, <1>3, GetRandomInv, ReadInv, CloseInv DEF IvNext, IvStep, Returned

LEMMA IvInvariant == IvSpec => []IvInv
BY IvInitial, IvInductive, PTL DEF IvSpec

\* crypto_generate_iv returns 0 only with an IV that is random in every byte,
\* for every size of the IV and every sequence of short reads.
THEOREM IvIsRandom == IvSpec => []SuccessIsRandom
<1>1. IvInv => SuccessIsRandom
  BY DEF IvInv
<1> QED
  BY <1>1, IvInvariant, PTL

\* No way out of crypto_generate_iv leaves the descriptor open.
THEOREM IvClosesDescriptor == IvSpec => []DescriptorClosed
<1>1. IvInv => DescriptorClosed
  BY DEF IvInv, DescriptorClosed
<1> QED
  BY <1>1, IvInvariant, PTL

-----------------------------------------------------------------------------
(* The whole save and the whole load.                                       *)

\* The pointers p that own, by o, the block they hold.
AliveIn(p, o) == {x \in Name : p[x] # NoBlock /\ o[p[x]] = x}

Alive == AliveIn(ptr, owner)
Locals == Alive \ {"data", "text"}

\* Every block that is owned is held by its owner.
Coherent ==
  /\ ptr \in [Name -> Block \cup {NoBlock}]
  /\ owner \in [Block -> Name \cup {Nobody}]
  /\ \A b \in Block : owner[b] # Nobody => ptr[owner[b]] = b

\* What each call finds allocated: the text of a save may be NULL, and so may
\* the file of a load.
LocalsAreKnown ==
  /\ pc \in {"idle", "compress", "free_text", "return"} => Locals = {}
  /\ pc \in {"deflate", "iv", "encrypt"} => Locals = {"compressed"}
  /\ pc = "build" => Locals = {"compressed", "encrypted"}
  /\ pc \in {"open", "mmap", "munmap", "close", "free_buffers"} =>
       Locals = {"compressed", "encrypted", "file_buffer"}
  /\ pc \in {"open_read", "read", "decrypt"} => Locals = {"file_buffer"}
  /\ pc = "parse" =>
       IF ptr["file_buffer"] = NoBlock THEN Locals = {} ELSE Locals = {"file_buffer"}
  /\ pc = "strip" => Locals = {"file_buffer", "working"}
  /\ pc = "free_working" => Locals = {"file_buffer", "working", "decrypted"}
  /\ pc = "inflate" => Locals = {"file_buffer", "decrypted"}
  /\ pc = "uncompress" => Locals = {"file_buffer", "decrypted", "decompressed"}
  /\ pc = "import" => Locals = {"decompressed"}
  /\ pc = "replace" => Locals = {"decompressed", "new_data"}

Saving == {"compress", "deflate", "iv", "encrypt", "build", "open", "mmap", "munmap", "close",
           "free_buffers", "free_text"}

Loading == {"open_read", "read", "parse", "decrypt", "strip", "free_working", "inflate",
            "uncompress", "import", "replace"}

TextIsKnown ==
  /\ pc \in Saving => ptr["text"] = NoBlock \/ "text" \in Alive
  /\ "text" \in Alive => pc \in Saving

FileIsKnown ==
  /\ fd = IF pc \in {"mmap", "munmap", "close", "read"} THEN TRUE ELSE FALSE
  /\ "this" \in mapped <=> pc = "munmap"

IInv ==
  /\ Coherent
  /\ ~ wrong
  /\ "data" \in Alive
  /\ LocalsAreKnown
  /\ TextIsKnown
  /\ FileIsKnown
  /\ pc = "idle" => \A x \in Name \ {"data"} : ptr[x] = NoBlock
  /\ pc \in Saving \cup Loading \cup {"idle", "return"}

-----------------------------------------------------------------------------
(* The heap.                                                               *)

\* A block that nobody owns makes its pointer alive and no other.
LEMMA Allocates ==
  ASSUME Coherent, NEW x \in Name, x \notin Alive, Alloc(x)
  PROVE  /\ Coherent'
         /\ Alive' = Alive \cup {x}
         /\ (~ wrong => ~ wrong')
         /\ ptr'[x] # NoBlock /\ \A y \in Name \ {x} : ptr'[y] = ptr[y]
<1>1. PICK b \in Block : /\ owner[b] = Nobody
                         /\ owner' = [owner EXCEPT ![b] = x]
                         /\ ptr' = [ptr EXCEPT ![x] = b]
  BY DEF Alloc
<1>2. b # NoBlock /\ x # Nobody
  BY CallResourcesAssumption DEF Name, Nobody
<1>3. /\ owner' \in [Block -> Name \cup {Nobody}] /\ ptr' \in [Name -> Block \cup {NoBlock}]
      /\ owner'[b] = x /\ \A c \in Block \ {b} : owner'[c] = owner[c]
      /\ ptr'[x] = b /\ \A y \in Name \ {x} : ptr'[y] = ptr[y]
  BY <1>1 DEF Coherent
<1>4. \A c \in Block : owner[c] # x
  BY <1>2, CallResourcesAssumption DEF Coherent, Alive, AliveIn
<1>5. Coherent'
  BY <1>1, <1>2, <1>3, <1>4 DEF Coherent
<1>6. \A y \in Name \ {x} : y \in Alive' <=> y \in Alive
  <2> SUFFICES ASSUME NEW y \in Name, y # x PROVE y \in Alive' <=> y \in Alive
    OBVIOUS
  <2>1. ptr'[y] = ptr[y] /\ y # Nobody
    BY <1>3 DEF Name, Nobody
  <2>2. ptr[y] = NoBlock \/ ptr[y] \in Block
    BY DEF Coherent
  <2>3. CASE ptr[y] = NoBlock
    BY <2>1, <2>3 DEF Alive, AliveIn
  <2>4. CASE ptr[y] = b
    BY <1>1, <1>3, <2>1, <2>4 DEF Alive, AliveIn
  <2>5. CASE ptr[y] \in Block \ {b}
    BY <1>3, <2>1, <2>5 DEF Alive, AliveIn
  <2> QED
    BY <2>2, <2>3, <2>4, <2>5
<1>7. x \in Alive'
  BY <1>2, <1>3 DEF Alive, AliveIn
<1>8. Alive \subseteq Name /\ Alive' \subseteq Name
  BY DEF Alive, AliveIn
<1> QED
  BY <1>1, <1>2, <1>3, <1>5, <1>6, <1>7, <1>8 DEF Alloc

\* Pointers that are NULL or alive can be freed: they are dead, the others are
\* as before, and nothing went wrong.
LEMMA Frees ==
  ASSUME Coherent, NEW X \in SUBSET Name, \A x \in X : ptr[x] = NoBlock \/ x \in Alive,
         Free(X)
  PROVE  Coherent' /\ Alive' = Alive \ X /\ (~ wrong => ~ wrong') /\ ptr' = ptr
<1>1. /\ owner' = [b \in Block |-> IF \E x \in X : ptr[x] = b THEN Nobody ELSE owner[b]]
      /\ ptr' = ptr
  BY DEF Free
<1>2. ~ wrong => ~ wrong'
  BY DEF Free, Live, Alive, AliveIn
<1>3. Coherent'
  BY <1>1 DEF Coherent
<1>4. \A y \in Name : y \in Alive' <=> y \in Alive /\ y \notin X
  <2> SUFFICES ASSUME NEW y \in Name PROVE y \in Alive' <=> y \in Alive /\ y \notin X
    OBVIOUS
  <2>1. y # Nobody /\ (ptr[y] = NoBlock \/ ptr[y] \in Block)
    BY DEF Name, Nobody, Coherent
  <2>2. CASE ptr[y] = NoBlock
    BY <1>1, <2>2 DEF Alive, AliveIn
  <2>3. CASE ptr[y] \in Block /\ ptr[y] # NoBlock
    <3>1. owner'[ptr[y]] = IF \E x \in X : ptr[x] = ptr[y] THEN Nobody ELSE owner[ptr[y]]
      BY <1>1, <2>3
    <3>2. ASSUME NEW x \in X, ptr[x] = ptr[y], y \in Alive PROVE x = y
      BY <2>3, <3>2 DEF Alive, AliveIn
    <3> QED
      BY <1>1, <2>1, <2>3, <3>1, <3>2 DEF Alive, AliveIn
  <2> QED
    BY <2>1, <2>2, <2>3
<1>5. Alive \subseteq Name /\ Alive' \subseteq Name
  BY DEF Alive, AliveIn
<1> QED
  BY <1>1, <1>2, <1>3, <1>4, <1>5

\* A call that leaves the heap alone.
LEMMA Keeps ==
  ASSUME Coherent, KeepHeap
  PROVE  Coherent' /\ Alive' = Alive /\ (~ wrong => ~ wrong') /\ ptr' = ptr
BY DEF KeepHeap, Coherent, Alive, AliveIn

LEMMA Initial == Init => IInv
<1> SUFFICES ASSUME Init PROVE IInv
  OBVIOUS
<1>1. PICK b \in Block : /\ ptr = [x \in Name |-> IF x = "data" THEN b ELSE NoBlock]
                         /\ owner = [c \in Block |-> IF c = b THEN "data" ELSE Nobody]
  BY DEF Init
<1>2. b # NoBlock /\ "data" \in Name
  BY CallResourcesAssumption DEF Name
<1>3. Coherent
  BY <1>1, <1>2 DEF Coherent
<1>4. Alive = {"data"}
  BY <1>1, <1>2 DEF Alive, AliveIn
<1> QED
  BY <1>1, <1>3, <1>4
  DEF Init, IInv, LocalsAreKnown, TextIsKnown, FileIsKnown, Locals, Saving, Loading

-----------------------------------------------------------------------------
(* The steps of a save and of a load.  Each of them allocates one block,    *)
(* frees some, or leaves the heap alone.                                    *)

LEMMA BeginSaveInv == IInv /\ BeginSave => IInv'
<1> SUFFICES ASSUME IInv, BeginSave PROVE IInv'
  OBVIOUS
<1>1. CASE Alloc("text") /\ pc' = "compress"
  <2>1. "text" \in Name /\ "text" \notin Alive
    BY DEF BeginSave, IInv, LocalsAreKnown, TextIsKnown, Locals, Saving, Name
  <2>2. /\ Coherent' /\ (~ wrong => ~ wrong') /\ Alive' = Alive \cup {"text"}
        /\ ptr'["text"] # NoBlock /\ \A y \in Name \ {"text"} : ptr'[y] = ptr[y]
    BY <1>1, <2>1, Allocates DEF IInv
  <2>3. LocalsAreKnown' /\ TextIsKnown' /\ FileIsKnown'
    BY <1>1, <2>1, <2>2
    DEF BeginSave, FailFreeing, GoTo, KeepFile, LocalsAreKnown, Locals, TextIsKnown, Saving,
        FileIsKnown, IInv, Name
  <2> QED
    BY <1>1, <2>2, <2>3 DEF IInv, Saving, Loading
<1>2. CASE KeepHeap /\ pc' \in {"compress", "return"}
  <2>1. Coherent' /\ (~ wrong => ~ wrong') /\ Alive' = Alive /\ ptr' = ptr
    BY <1>2, Keeps DEF IInv
  <2>2. LocalsAreKnown' /\ TextIsKnown' /\ FileIsKnown'
    BY <1>2, <2>1
    DEF BeginSave, FailFreeing, GoTo, KeepFile, LocalsAreKnown, Locals, TextIsKnown, Saving,
        FileIsKnown, IInv, Name
  <2> QED
    BY <1>2, <2>1, <2>2 DEF IInv, Saving, Loading
<1> QED
  BY <1>1, <1>2 DEF BeginSave, GoTo

LEMMA CompressAllocInv == IInv /\ CompressAlloc => IInv'
<1> SUFFICES ASSUME IInv, CompressAlloc PROVE IInv'
  OBVIOUS
<1>1. CASE Alloc("compressed") /\ pc' = "deflate"
  <2>1. "compressed" \in Name /\ "compressed" \notin Alive
    BY DEF CompressAlloc, IInv, LocalsAreKnown, TextIsKnown, Locals, Saving, Name
  <2>2. /\ Coherent' /\ (~ wrong => ~ wrong') /\ Alive' = Alive \cup {"compressed"}
        /\ ptr'["compressed"] # NoBlock /\ \A y \in Name \ {"compressed"} : ptr'[y] = ptr[y]
    BY <1>1, <2>1, Allocates DEF IInv
  <2>3. LocalsAreKnown' /\ TextIsKnown' /\ FileIsKnown'
    BY <1>1, <2>1, <2>2
    DEF CompressAlloc, FailFreeing, GoTo, KeepFile, LocalsAreKnown, Locals, TextIsKnown, Saving,
        FileIsKnown, IInv, Name
  <2> QED
    BY <1>1, <2>2, <2>3 DEF IInv, Saving, Loading
<1>2. CASE KeepHeap /\ pc' = "free_text"
  <2>1. Coherent' /\ (~ wrong => ~ wrong') /\ Alive' = Alive /\ ptr' = ptr
    BY <1>2, Keeps DEF IInv
  <2>2. LocalsAreKnown' /\ TextIsKnown' /\ FileIsKnown'
    BY <1>2, <2>1
    DEF CompressAlloc, FailFreeing, GoTo, KeepFile, LocalsAreKnown, Locals, TextIsKnown, Saving,
        FileIsKnown, IInv, Name
  <2> QED
    BY <1>2, <2>1, <2>2 DEF IInv, Saving, Loading
<1> QED
  BY <1>1, <1>2 DEF CompressAlloc, GoTo

LEMMA DeflateInv == IInv /\ Deflate => IInv'
<1> SUFFICES ASSUME IInv, Deflate PROVE IInv'
  OBVIOUS
<1>1. CASE KeepHeap /\ pc' = "iv"
  <2>1. Coherent' /\ (~ wrong => ~ wrong') /\ Alive' = Alive /\ ptr' = ptr
    BY <1>1, Keeps DEF IInv
  <2>2. LocalsAreKnown' /\ TextIsKnown' /\ FileIsKnown'
    BY <1>1, <2>1
    DEF Deflate, FailFreeing, GoTo, KeepFile, LocalsAreKnown, Locals, TextIsKnown, Saving,
        FileIsKnown, IInv, Name
  <2> QED
    BY <1>1, <2>1, <2>2 DEF IInv, Saving, Loading
<1>2. CASE Free({"compressed"}) /\ pc' = "free_text"
  <2>1. /\ {"compressed"} \in SUBSET Name
        /\ \A x \in {"compressed"} : ptr[x] = NoBlock \/ x \in Alive
    BY DEF Deflate, IInv, LocalsAreKnown, TextIsKnown, Locals, Saving, Name
  <2>2. /\ Coherent' /\ (~ wrong => ~ wrong') /\ ptr' = ptr
        /\ Alive' = Alive \ {"compressed"}
    BY <1>2, <2>1, Frees DEF IInv
  <2>3. LocalsAreKnown' /\ TextIsKnown' /\ FileIsKnown'
    BY <1>2, <2>2
    DEF Deflate, FailFreeing, GoTo, KeepFile, LocalsAreKnown, Locals, TextIsKnown, Saving,
        FileIsKnown, IInv, Name
  <2> QED
    BY <1>2, <2>2, <2>3 DEF IInv, Saving, Loading
<1> QED
  BY <1>1, <1>2 DEF Deflate, GoTo, FailFreeing

LEMMA StepIvInv == IInv /\ StepIv => IInv'
<1> SUFFICES ASSUME IInv, StepIv PROVE IInv'
  OBVIOUS
<1> QED
  BY DEF StepIv, KeepHeap, KeepFile, IInv, Coherent, Alive, AliveIn, LocalsAreKnown, Locals,
         TextIsKnown, FileIsKnown

LEMMA GenerateIvInv == IInv /\ GenerateIv => IInv'
<1> SUFFICES ASSUME IInv, GenerateIv PROVE IInv'
  OBVIOUS
<1>1. CASE KeepHeap /\ pc' = "encrypt"
  <2>1. Coherent' /\ (~ wrong => ~ wrong') /\ Alive' = Alive /\ ptr' = ptr
    BY <1>1, Keeps DEF IInv
  <2>2. LocalsAreKnown' /\ TextIsKnown' /\ FileIsKnown'
    BY <1>1, <2>1
    DEF GenerateIv, FailFreeing, GoTo, KeepFile, LocalsAreKnown, Locals, TextIsKnown, Saving,
        FileIsKnown, IInv, Name
  <2> QED
    BY <1>1, <2>1, <2>2 DEF IInv, Saving, Loading
<1>2. CASE Free({"compressed"}) /\ pc' = "free_text"
  <2>1. /\ {"compressed"} \in SUBSET Name
        /\ \A x \in {"compressed"} : ptr[x] = NoBlock \/ x \in Alive
    BY DEF GenerateIv, IInv, LocalsAreKnown, TextIsKnown, Locals, Saving, Name
  <2>2. /\ Coherent' /\ (~ wrong => ~ wrong') /\ ptr' = ptr
        /\ Alive' = Alive \ {"compressed"}
    BY <1>2, <2>1, Frees DEF IInv
  <2>3. LocalsAreKnown' /\ TextIsKnown' /\ FileIsKnown'
    BY <1>2, <2>2
    DEF GenerateIv, FailFreeing, GoTo, KeepFile, LocalsAreKnown, Locals, TextIsKnown, Saving,
        FileIsKnown, IInv, Name
  <2> QED
    BY <1>2, <2>2, <2>3 DEF IInv, Saving, Loading
<1> QED
  BY <1>1, <1>2 DEF GenerateIv, GoTo, FailFreeing

LEMMA EncryptBufferInv == IInv /\ EncryptBuffer => IInv'
<1> SUFFICES ASSUME IInv, EncryptBuffer PROVE IInv'
  OBVIOUS
<1>1. CASE Alloc("encrypted") /\ pc' = "build"
  <2>1. "encrypted" \in Name /\ "encrypted" \notin Alive
    BY DEF EncryptBuffer, IInv, LocalsAreKnown, TextIsKnown, Locals, Saving, Name
  <2>2. /\ Coherent' /\ (~ wrong => ~ wrong') /\ Alive' = Alive \cup {"encrypted"}
        /\ ptr'["encrypted"] # NoBlock /\ \A y \in Name \ {"encrypted"} : ptr'[y] = ptr[y]
    BY <1>1, <2>1, Allocates DEF IInv
  <2>3. LocalsAreKnown' /\ TextIsKnown' /\ FileIsKnown'
    BY <1>1, <2>1, <2>2
    DEF EncryptBuffer, FailFreeing, GoTo, KeepFile, LocalsAreKnown, Locals, TextIsKnown, Saving,
        FileIsKnown, IInv, Name
  <2> QED
    BY <1>1, <2>2, <2>3 DEF IInv, Saving, Loading
<1>2. CASE Free({"compressed"}) /\ pc' = "free_text"
  <2>1. /\ {"compressed"} \in SUBSET Name
        /\ \A x \in {"compressed"} : ptr[x] = NoBlock \/ x \in Alive
    BY DEF EncryptBuffer, IInv, LocalsAreKnown, TextIsKnown, Locals, Saving, Name
  <2>2. /\ Coherent' /\ (~ wrong => ~ wrong') /\ ptr' = ptr
        /\ Alive' = Alive \ {"compressed"}
    BY <1>2, <2>1, Frees DEF IInv
  <2>3. LocalsAreKnown' /\ TextIsKnown' /\ FileIsKnown'
    BY <1>2, <2>2
    DEF EncryptBuffer, FailFreeing, GoTo, KeepFile, LocalsAreKnown, Locals, TextIsKnown, Saving,
        FileIsKnown, IInv, Name
  <2> QED
    BY <1>2, <2>2, <2>3 DEF IInv, Saving, Loading
<1> QED
  BY <1>1, <1>2 DEF EncryptBuffer, GoTo, FailFreeing

LEMMA BuildFileInv == IInv /\ BuildFile => IInv'
<1> SUFFICES ASSUME IInv, BuildFile PROVE IInv'
  OBVIOUS
<1>1. CASE Alloc("file_buffer") /\ pc' = "open"
  <2>1. "file_buffer" \in Name /\ "file_buffer" \notin Alive
    BY DEF BuildFile, IInv, LocalsAreKnown, TextIsKnown, Locals, Saving, Name
  <2>2. /\ Coherent' /\ (~ wrong => ~ wrong') /\ Alive' = Alive \cup {"file_buffer"}
        /\ ptr'["file_buffer"] # NoBlock /\ \A y \in Name \ {"file_buffer"} : ptr'[y] = ptr[y]
    BY <1>1, <2>1, Allocates DEF IInv
  <2>3. LocalsAreKnown' /\ TextIsKnown' /\ FileIsKnown'
    BY <1>1, <2>1, <2>2
    DEF BuildFile, FailFreeing, GoTo, KeepFile, LocalsAreKnown, Locals, TextIsKnown, Saving,
        FileIsKnown, IInv, Name
  <2> QED
    BY <1>1, <2>2, <2>3 DEF IInv, Saving, Loading
<1>2. CASE Free({"compressed", "encrypted"}) /\ pc' = "free_text"
  <2>1. /\ {"compressed", "encrypted"} \in SUBSET Name
        /\ \A x \in {"compressed", "encrypted"} : ptr[x] = NoBlock \/ x \in Alive
    BY DEF BuildFile, IInv, LocalsAreKnown, TextIsKnown, Locals, Saving, Name
  <2>2. /\ Coherent' /\ (~ wrong => ~ wrong') /\ ptr' = ptr
        /\ Alive' = Alive \ {"compressed", "encrypted"}
    BY <1>2, <2>1, Frees DEF IInv
  <2>3. LocalsAreKnown' /\ TextIsKnown' /\ FileIsKnown'
    BY <1>2, <2>2
    DEF BuildFile, FailFreeing, GoTo, KeepFile, LocalsAreKnown, Locals, TextIsKnown, Saving,
        FileIsKnown, IInv, Name
  <2> QED
    BY <1>2, <2>2, <2>3 DEF IInv, Saving, Loading
<1> QED
  BY <1>1, <1>2 DEF BuildFile, GoTo, FailFreeing

LEMMA OpenForWritingInv == IInv /\ OpenForWriting => IInv'
<1> SUFFICES ASSUME IInv, OpenForWriting PROVE IInv'
  OBVIOUS
<1>0. KeepHeap /\ pc' \in {"mmap", "close", "free_buffers"}
  BY DEF OpenForWriting, GoTo
<1>1. Coherent' /\ (~ wrong => ~ wrong') /\ Alive' = Alive /\ ptr' = ptr
  BY <1>0, Keeps DEF IInv
<1>2. LocalsAreKnown' /\ TextIsKnown' /\ FileIsKnown'
  BY <1>0, <1>1
  DEF OpenForWriting, FailFreeing, GoTo, KeepFile, LocalsAreKnown, Locals, TextIsKnown, Saving,
      FileIsKnown, IInv, Name
<1> QED
  BY <1>0, <1>1, <1>2 DEF IInv, Saving, Loading

LEMMA MapFileInv == IInv /\ MapFile => IInv'
<1> SUFFICES ASSUME IInv, MapFile PROVE IInv'
  OBVIOUS
<1>0. KeepHeap /\ pc' \in {"munmap", "free_buffers"}
  BY DEF MapFile, GoTo
<1>1. Coherent' /\ (~ wrong => ~ wrong') /\ Alive' = Alive /\ ptr' = ptr
  BY <1>0, Keeps DEF IInv
<1>2. LocalsAreKnown' /\ TextIsKnown' /\ FileIsKnown'
  BY <1>0, <1>1
  DEF MapFile, FailFreeing, GoTo, KeepFile, LocalsAreKnown, Locals, TextIsKnown, Saving,
      FileIsKnown, IInv, Name
<1> QED
  BY <1>0, <1>1, <1>2 DEF IInv, Saving, Loading

LEMMA UnmapFileInv == IInv /\ UnmapFile => IInv'
<1> SUFFICES ASSUME IInv, UnmapFile PROVE IInv'
  OBVIOUS
<1>0. KeepHeap /\ pc' = "close"
  BY DEF UnmapFile, GoTo
<1>1. Coherent' /\ (~ wrong => ~ wrong') /\ Alive' = Alive /\ ptr' = ptr
  BY <1>0, Keeps DEF IInv
<1>2. LocalsAreKnown' /\ TextIsKnown' /\ FileIsKnown'
  BY <1>0, <1>1
  DEF UnmapFile, FailFreeing, GoTo, KeepFile, LocalsAreKnown, Locals, TextIsKnown, Saving,
      FileIsKnown, IInv, Name
<1> QED
  BY <1>0, <1>1, <1>2 DEF IInv, Saving, Loading

LEMMA CloseWrittenInv == IInv /\ CloseWritten => IInv'
<1> SUFFICES ASSUME IInv, CloseWritten PROVE IInv'
  OBVIOUS
<1>0. KeepHeap /\ pc' = "free_buffers"
  BY DEF CloseWritten, GoTo
<1>1. Coherent' /\ (~ wrong => ~ wrong') /\ Alive' = Alive /\ ptr' = ptr
  BY <1>0, Keeps DEF IInv
<1>2. LocalsAreKnown' /\ TextIsKnown' /\ FileIsKnown'
  BY <1>0, <1>1
  DEF CloseWritten, FailFreeing, GoTo, KeepFile, LocalsAreKnown, Locals, TextIsKnown, Saving,
      FileIsKnown, IInv, Name
<1> QED
  BY <1>0, <1>1, <1>2 DEF IInv, Saving, Loading

LEMMA FreeBuffersInv == IInv /\ FreeBuffers => IInv'
<1> SUFFICES ASSUME IInv, FreeBuffers PROVE IInv'
  OBVIOUS
<1>0. Free({"file_buffer", "compressed", "encrypted"}) /\ pc' = "free_text"
  BY DEF FreeBuffers, GoTo
<1>1. /\ {"file_buffer", "compressed", "encrypted"} \in SUBSET Name
      /\ \A x \in {"file_buffer", "compressed", "encrypted"} : ptr[x] = NoBlock \/ x \in Alive
  BY DEF FreeBuffers, IInv, LocalsAreKnown, TextIsKnown, Locals, Saving, Name
<1>2. /\ Coherent' /\ (~ wrong => ~ wrong') /\ ptr' = ptr
      /\ Alive' = Alive \ {"file_buffer", "compressed", "encrypted"}
  BY <1>0, <1>1, Frees DEF IInv
<1>3. LocalsAreKnown' /\ TextIsKnown' /\ FileIsKnown'
  BY <1>0, <1>2
  DEF FreeBuffers, FailFreeing, GoTo, KeepFile, LocalsAreKnown, Locals, TextIsKnown, Saving,
      FileIsKnown, IInv, Name
<1> QED
  BY <1>0, <1>2, <1>3 DEF IInv, Saving, Loading

LEMMA FreeTextInv == IInv /\ FreeText => IInv'
<1> SUFFICES ASSUME IInv, FreeText PROVE IInv'
  OBVIOUS
<1>0. Free({"text"}) /\ pc' = "return"
  BY DEF FreeText, GoTo
<1>1. /\ {"text"} \in SUBSET Name
      /\ \A x \in {"text"} : ptr[x] = NoBlock \/ x \in Alive
  BY DEF FreeText, IInv, LocalsAreKnown, TextIsKnown, Locals, Saving, Name
<1>2. /\ Coherent' /\ (~ wrong => ~ wrong') /\ ptr' = ptr
      /\ Alive' = Alive \ {"text"}
  BY <1>0, <1>1, Frees DEF IInv
<1>3. LocalsAreKnown' /\ TextIsKnown' /\ FileIsKnown'
  BY <1>0, <1>2
  DEF FreeText, FailFreeing, GoTo, KeepFile, LocalsAreKnown, Locals, TextIsKnown, Saving,
      FileIsKnown, IInv, Name
<1> QED
  BY <1>0, <1>2, <1>3 DEF IInv, Saving, Loading

LEMMA BeginLoadInv == IInv /\ BeginLoad => IInv'
<1> SUFFICES ASSUME IInv, BeginLoad PROVE IInv'
  OBVIOUS
<1>1. CASE Alloc("file_buffer") /\ pc' = "open_read"
  <2>1. "file_buffer" \in Name /\ "file_buffer" \notin Alive
    BY DEF BeginLoad, IInv, LocalsAreKnown, TextIsKnown, Locals, Saving, Name
  <2>2. /\ Coherent' /\ (~ wrong => ~ wrong') /\ Alive' = Alive \cup {"file_buffer"}
        /\ ptr'["file_buffer"] # NoBlock /\ \A y \in Name \ {"file_buffer"} : ptr'[y] = ptr[y]
    BY <1>1, <2>1, Allocates DEF IInv
  <2>3. LocalsAreKnown' /\ TextIsKnown' /\ FileIsKnown'
    BY <1>1, <2>1, <2>2
    DEF BeginLoad, FailFreeing, GoTo, KeepFile, LocalsAreKnown, Locals, TextIsKnown, Saving,
        FileIsKnown, IInv, Name
  <2> QED
    BY <1>1, <2>2, <2>3 DEF IInv, Saving, Loading
<1>2. CASE KeepHeap /\ pc' \in {"parse", "return"}
  <2>1. Coherent' /\ (~ wrong => ~ wrong') /\ Alive' = Alive /\ ptr' = ptr
    BY <1>2, Keeps DEF IInv
  <2>2. LocalsAreKnown' /\ TextIsKnown' /\ FileIsKnown'
    BY <1>2, <2>1
    DEF BeginLoad, FailFreeing, GoTo, KeepFile, LocalsAreKnown, Locals, TextIsKnown, Saving,
        FileIsKnown, IInv, Name
  <2> QED
    BY <1>2, <2>1, <2>2 DEF IInv, Saving, Loading
<1> QED
  BY <1>1, <1>2 DEF BeginLoad, GoTo

LEMMA OpenForReadingInv == IInv /\ OpenForReading => IInv'
<1> SUFFICES ASSUME IInv, OpenForReading PROVE IInv'
  OBVIOUS
<1>1. CASE KeepHeap /\ pc' = "read"
  <2>1. Coherent' /\ (~ wrong => ~ wrong') /\ Alive' = Alive /\ ptr' = ptr
    BY <1>1, Keeps DEF IInv
  <2>2. LocalsAreKnown' /\ TextIsKnown' /\ FileIsKnown'
    BY <1>1, <2>1
    DEF OpenForReading, FailFreeing, GoTo, KeepFile, LocalsAreKnown, Locals, TextIsKnown, Saving,
        FileIsKnown, IInv, Name
  <2> QED
    BY <1>1, <2>1, <2>2 DEF IInv, Saving, Loading
<1>2. CASE Free({"file_buffer"}) /\ pc' = "return"
  <2>1. /\ {"file_buffer"} \in SUBSET Name
        /\ \A x \in {"file_buffer"} : ptr[x] = NoBlock \/ x \in Alive
    BY DEF OpenForReading, IInv, LocalsAreKnown, TextIsKnown, Locals, Saving, Name
  <2>2. /\ Coherent' /\ (~ wrong => ~ wrong') /\ ptr' = ptr
        /\ Alive' = Alive \ {"file_buffer"}
    BY <1>2, <2>1, Frees DEF IInv
  <2>3. LocalsAreKnown' /\ TextIsKnown' /\ FileIsKnown'
    BY <1>2, <2>2
    DEF OpenForReading, FailFreeing, GoTo, KeepFile, LocalsAreKnown, Locals, TextIsKnown, Saving,
        FileIsKnown, IInv, Name
  <2> QED
    BY <1>2, <2>2, <2>3 DEF IInv, Saving, Loading
<1> QED
  BY <1>1, <1>2 DEF OpenForReading, GoTo, FailFreeing

LEMMA ReadAndCloseInv == IInv /\ ReadAndClose => IInv'
<1> SUFFICES ASSUME IInv, ReadAndClose PROVE IInv'
  OBVIOUS
<1>1. CASE KeepHeap /\ pc' = "parse"
  <2>1. Coherent' /\ (~ wrong => ~ wrong') /\ Alive' = Alive /\ ptr' = ptr
    BY <1>1, Keeps DEF IInv
  <2>2. ptr["file_buffer"] # NoBlock
    BY DEF ReadAndClose, IInv, LocalsAreKnown, Locals, Alive, AliveIn
  <2>3. LocalsAreKnown' /\ TextIsKnown' /\ FileIsKnown'
    BY <1>1, <2>1, <2>2
    DEF ReadAndClose, FailFreeing, GoTo, KeepFile, LocalsAreKnown, Locals, TextIsKnown, Saving,
        FileIsKnown, IInv, Name
  <2> QED
    BY <1>1, <2>1, <2>3 DEF IInv, Saving, Loading
<1>2. CASE Free({"file_buffer"}) /\ pc' = "return"
  <2>1. /\ {"file_buffer"} \in SUBSET Name
        /\ \A x \in {"file_buffer"} : ptr[x] = NoBlock \/ x \in Alive
    BY DEF ReadAndClose, IInv, LocalsAreKnown, TextIsKnown, Locals, Saving, Name
  <2>2. /\ Coherent' /\ (~ wrong => ~ wrong') /\ ptr' = ptr
        /\ Alive' = Alive \ {"file_buffer"}
    BY <1>2, <2>1, Frees DEF IInv
  <2>3. LocalsAreKnown' /\ TextIsKnown' /\ FileIsKnown'
    BY <1>2, <2>2
    DEF ReadAndClose, FailFreeing, GoTo, KeepFile, LocalsAreKnown, Locals, TextIsKnown, Saving,
        FileIsKnown, IInv, Name
  <2> QED
    BY <1>2, <2>2, <2>3 DEF IInv, Saving, Loading
<1> QED
  BY <1>1, <1>2 DEF ReadAndClose, GoTo, FailFreeing

LEMMA ParseFileInv == IInv /\ ParseFile => IInv'
<1> SUFFICES ASSUME IInv, ParseFile PROVE IInv'
  OBVIOUS
<1>1. CASE KeepHeap /\ pc' = "decrypt" /\ ptr["file_buffer"] # NoBlock
  <2>1. Coherent' /\ (~ wrong => ~ wrong') /\ Alive' = Alive /\ ptr' = ptr
    BY <1>1, Keeps DEF IInv
  <2>2. LocalsAreKnown' /\ TextIsKnown' /\ FileIsKnown'
    BY <1>1, <2>1
    DEF ParseFile, FailFreeing, GoTo, KeepFile, LocalsAreKnown, Locals, TextIsKnown, Saving,
        FileIsKnown, IInv, Name
  <2> QED
    BY <1>1, <2>1, <2>2 DEF IInv, Saving, Loading
<1>2. CASE Free({"file_buffer"}) /\ pc' = "return"
  <2>1. /\ {"file_buffer"} \in SUBSET Name
        /\ \A x \in {"file_buffer"} : ptr[x] = NoBlock \/ x \in Alive
    BY DEF ParseFile, IInv, LocalsAreKnown, TextIsKnown, Locals, Saving, Name
  <2>2. /\ Coherent' /\ (~ wrong => ~ wrong') /\ ptr' = ptr
        /\ Alive' = Alive \ {"file_buffer"}
    BY <1>2, <2>1, Frees DEF IInv
  <2>3. LocalsAreKnown' /\ TextIsKnown' /\ FileIsKnown'
    BY <1>2, <2>2
    DEF ParseFile, FailFreeing, GoTo, KeepFile, LocalsAreKnown, Locals, TextIsKnown, Saving,
        FileIsKnown, IInv, Name
  <2> QED
    BY <1>2, <2>2, <2>3 DEF IInv, Saving, Loading
<1> QED
  BY <1>1, <1>2 DEF ParseFile, GoTo, FailFreeing

LEMMA DecryptAllocInv == IInv /\ DecryptAlloc => IInv'
<1> SUFFICES ASSUME IInv, DecryptAlloc PROVE IInv'
  OBVIOUS
<1>1. CASE Alloc("working") /\ pc' = "strip"
  <2>1. "working" \in Name /\ "working" \notin Alive
    BY DEF DecryptAlloc, IInv, LocalsAreKnown, TextIsKnown, Locals, Saving, Name
  <2>2. /\ Coherent' /\ (~ wrong => ~ wrong') /\ Alive' = Alive \cup {"working"}
        /\ ptr'["working"] # NoBlock /\ \A y \in Name \ {"working"} : ptr'[y] = ptr[y]
    BY <1>1, <2>1, Allocates DEF IInv
  <2>3. LocalsAreKnown' /\ TextIsKnown' /\ FileIsKnown'
    BY <1>1, <2>1, <2>2
    DEF DecryptAlloc, FailFreeing, GoTo, KeepFile, LocalsAreKnown, Locals, TextIsKnown, Saving,
        FileIsKnown, IInv, Name
  <2> QED
    BY <1>1, <2>2, <2>3 DEF IInv, Saving, Loading
<1>2. CASE Free({"file_buffer"}) /\ pc' = "return"
  <2>1. /\ {"file_buffer"} \in SUBSET Name
        /\ \A x \in {"file_buffer"} : ptr[x] = NoBlock \/ x \in Alive
    BY DEF DecryptAlloc, IInv, LocalsAreKnown, TextIsKnown, Locals, Saving, Name
  <2>2. /\ Coherent' /\ (~ wrong => ~ wrong') /\ ptr' = ptr
        /\ Alive' = Alive \ {"file_buffer"}
    BY <1>2, <2>1, Frees DEF IInv
  <2>3. LocalsAreKnown' /\ TextIsKnown' /\ FileIsKnown'
    BY <1>2, <2>2
    DEF DecryptAlloc, FailFreeing, GoTo, KeepFile, LocalsAreKnown, Locals, TextIsKnown, Saving,
        FileIsKnown, IInv, Name
  <2> QED
    BY <1>2, <2>2, <2>3 DEF IInv, Saving, Loading
<1> QED
  BY <1>1, <1>2 DEF DecryptAlloc, GoTo, FailFreeing

LEMMA StripPaddingInv == IInv /\ StripPadding => IInv'
<1> SUFFICES ASSUME IInv, StripPadding PROVE IInv'
  OBVIOUS
<1>1. CASE Alloc("decrypted") /\ pc' = "free_working"
  <2>1. "decrypted" \in Name /\ "decrypted" \notin Alive
    BY DEF StripPadding, IInv, LocalsAreKnown, TextIsKnown, Locals, Saving, Name
  <2>2. /\ Coherent' /\ (~ wrong => ~ wrong') /\ Alive' = Alive \cup {"decrypted"}
        /\ ptr'["decrypted"] # NoBlock /\ \A y \in Name \ {"decrypted"} : ptr'[y] = ptr[y]
    BY <1>1, <2>1, Allocates DEF IInv
  <2>3. LocalsAreKnown' /\ TextIsKnown' /\ FileIsKnown'
    BY <1>1, <2>1, <2>2
    DEF StripPadding, FailFreeing, GoTo, KeepFile, LocalsAreKnown, Locals, TextIsKnown, Saving,
        FileIsKnown, IInv, Name
  <2> QED
    BY <1>1, <2>2, <2>3 DEF IInv, Saving, Loading
<1>2. CASE Free({"working", "file_buffer"}) /\ pc' = "return"
  <2>1. /\ {"working", "file_buffer"} \in SUBSET Name
        /\ \A x \in {"working", "file_buffer"} : ptr[x] = NoBlock \/ x \in Alive
    BY DEF StripPadding, IInv, LocalsAreKnown, TextIsKnown, Locals, Saving, Name
  <2>2. /\ Coherent' /\ (~ wrong => ~ wrong') /\ ptr' = ptr
        /\ Alive' = Alive \ {"working", "file_buffer"}
    BY <1>2, <2>1, Frees DEF IInv
  <2>3. LocalsAreKnown' /\ TextIsKnown' /\ FileIsKnown'
    BY <1>2, <2>2
    DEF StripPadding, FailFreeing, GoTo, KeepFile, LocalsAreKnown, Locals, TextIsKnown, Saving,
        FileIsKnown, IInv, Name
  <2> QED
    BY <1>2, <2>2, <2>3 DEF IInv, Saving, Loading
<1> QED
  BY <1>1, <1>2 DEF StripPadding, GoTo, FailFreeing

LEMMA FreeWorkingInv == IInv /\ FreeWorking => IInv'
<1> SUFFICES ASSUME IInv, FreeWorking PROVE IInv'
  OBVIOUS
<1>0. Free({"working"}) /\ pc' = "inflate"
  BY DEF FreeWorking, GoTo
<1>1. /\ {"working"} \in SUBSET Name
      /\ \A x \in {"working"} : ptr[x] = NoBlock \/ x \in Alive
  BY DEF FreeWorking, IInv, LocalsAreKnown, TextIsKnown, Locals, Saving, Name
<1>2. /\ Coherent' /\ (~ wrong => ~ wrong') /\ ptr' = ptr
      /\ Alive' = Alive \ {"working"}
  BY <1>0, <1>1, Frees DEF IInv
<1>3. LocalsAreKnown' /\ TextIsKnown' /\ FileIsKnown'
  BY <1>0, <1>2
  DEF FreeWorking, FailFreeing, GoTo, KeepFile, LocalsAreKnown, Locals, TextIsKnown, Saving,
      FileIsKnown, IInv, Name
<1> QED
  BY <1>0, <1>2, <1>3 DEF IInv, Saving, Loading

LEMMA InflateAllocInv == IInv /\ InflateAlloc => IInv'
<1> SUFFICES ASSUME IInv, InflateAlloc PROVE IInv'
  OBVIOUS
<1>1. CASE Alloc("decompressed") /\ pc' = "uncompress"
  <2>1. "decompressed" \in Name /\ "decompressed" \notin Alive
    BY DEF InflateAlloc, IInv, LocalsAreKnown, TextIsKnown, Locals, Saving, Name
  <2>2. /\ Coherent' /\ (~ wrong => ~ wrong') /\ Alive' = Alive \cup {"decompressed"}
        /\ ptr'["decompressed"] # NoBlock /\ \A y \in Name \ {"decompressed"} : ptr'[y] = ptr[y]
    BY <1>1, <2>1, Allocates DEF IInv
  <2>3. LocalsAreKnown' /\ TextIsKnown' /\ FileIsKnown'
    BY <1>1, <2>1, <2>2
    DEF InflateAlloc, FailFreeing, GoTo, KeepFile, LocalsAreKnown, Locals, TextIsKnown, Saving,
        FileIsKnown, IInv, Name
  <2> QED
    BY <1>1, <2>2, <2>3 DEF IInv, Saving, Loading
<1>2. CASE Free({"decrypted", "file_buffer"}) /\ pc' = "return"
  <2>1. /\ {"decrypted", "file_buffer"} \in SUBSET Name
        /\ \A x \in {"decrypted", "file_buffer"} : ptr[x] = NoBlock \/ x \in Alive
    BY DEF InflateAlloc, IInv, LocalsAreKnown, TextIsKnown, Locals, Saving, Name
  <2>2. /\ Coherent' /\ (~ wrong => ~ wrong') /\ ptr' = ptr
        /\ Alive' = Alive \ {"decrypted", "file_buffer"}
    BY <1>2, <2>1, Frees DEF IInv
  <2>3. LocalsAreKnown' /\ TextIsKnown' /\ FileIsKnown'
    BY <1>2, <2>2
    DEF InflateAlloc, FailFreeing, GoTo, KeepFile, LocalsAreKnown, Locals, TextIsKnown, Saving,
        FileIsKnown, IInv, Name
  <2> QED
    BY <1>2, <2>2, <2>3 DEF IInv, Saving, Loading
<1> QED
  BY <1>1, <1>2 DEF InflateAlloc, GoTo, FailFreeing

LEMMA UncompressInv == IInv /\ Uncompress => IInv'
<1> SUFFICES ASSUME IInv, Uncompress PROVE IInv'
  OBVIOUS
<1>1. CASE Free({"decrypted", "file_buffer"}) /\ pc' = "import"
  <2>1. /\ {"decrypted", "file_buffer"} \in SUBSET Name
        /\ \A x \in {"decrypted", "file_buffer"} : ptr[x] = NoBlock \/ x \in Alive
    BY DEF Uncompress, IInv, LocalsAreKnown, TextIsKnown, Locals, Saving, Name
  <2>2. /\ Coherent' /\ (~ wrong => ~ wrong') /\ ptr' = ptr
        /\ Alive' = Alive \ {"decrypted", "file_buffer"}
    BY <1>1, <2>1, Frees DEF IInv
  <2>3. LocalsAreKnown' /\ TextIsKnown' /\ FileIsKnown'
    BY <1>1, <2>2
    DEF Uncompress, FailFreeing, GoTo, KeepFile, LocalsAreKnown, Locals, TextIsKnown, Saving,
        FileIsKnown, IInv, Name
  <2> QED
    BY <1>1, <2>2, <2>3 DEF IInv, Saving, Loading
<1>2. CASE Free({"decompressed", "decrypted", "file_buffer"}) /\ pc' = "return"
  <2>1. /\ {"decompressed", "decrypted", "file_buffer"} \in SUBSET Name
        /\ \A x \in {"decompressed", "decrypted", "file_buffer"} : ptr[x] = NoBlock \/ x \in Alive
    BY DEF Uncompress, IInv, LocalsAreKnown, TextIsKnown, Locals, Saving, Name
  <2>2. /\ Coherent' /\ (~ wrong => ~ wrong') /\ ptr' = ptr
        /\ Alive' = Alive \ {"decompressed", "decrypted", "file_buffer"}
    BY <1>2, <2>1, Frees DEF IInv
  <2>3. LocalsAreKnown' /\ TextIsKnown' /\ FileIsKnown'
    BY <1>2, <2>2
    DEF Uncompress, FailFreeing, GoTo, KeepFile, LocalsAreKnown, Locals, TextIsKnown, Saving,
        FileIsKnown, IInv, Name
  <2> QED
    BY <1>2, <2>2, <2>3 DEF IInv, Saving, Loading
<1> QED
  BY <1>1, <1>2 DEF Uncompress, GoTo, FailFreeing

LEMMA ImportAllocInv == IInv /\ ImportAlloc => IInv'
<1> SUFFICES ASSUME IInv, ImportAlloc PROVE IInv'
  OBVIOUS
<1>1. CASE Alloc("new_data") /\ pc' = "replace"
  <2>1. "new_data" \in Name /\ "new_data" \notin Alive
    BY DEF ImportAlloc, IInv, LocalsAreKnown, TextIsKnown, Locals, Saving, Name
  <2>2. /\ Coherent' /\ (~ wrong => ~ wrong') /\ Alive' = Alive \cup {"new_data"}
        /\ ptr'["new_data"] # NoBlock /\ \A y \in Name \ {"new_data"} : ptr'[y] = ptr[y]
    BY <1>1, <2>1, Allocates DEF IInv
  <2>3. LocalsAreKnown' /\ TextIsKnown' /\ FileIsKnown'
    BY <1>1, <2>1, <2>2
    DEF ImportAlloc, FailFreeing, GoTo, KeepFile, LocalsAreKnown, Locals, TextIsKnown, Saving,
        FileIsKnown, IInv, Name
  <2> QED
    BY <1>1, <2>2, <2>3 DEF IInv, Saving, Loading
<1>2. CASE Free({"decompressed"}) /\ pc' = "return"
  <2>1. /\ {"decompressed"} \in SUBSET Name
        /\ \A x \in {"decompressed"} : ptr[x] = NoBlock \/ x \in Alive
    BY DEF ImportAlloc, IInv, LocalsAreKnown, TextIsKnown, Locals, Saving, Name
  <2>2. /\ Coherent' /\ (~ wrong => ~ wrong') /\ ptr' = ptr
        /\ Alive' = Alive \ {"decompressed"}
    BY <1>2, <2>1, Frees DEF IInv
  <2>3. LocalsAreKnown' /\ TextIsKnown' /\ FileIsKnown'
    BY <1>2, <2>2
    DEF ImportAlloc, FailFreeing, GoTo, KeepFile, LocalsAreKnown, Locals, TextIsKnown, Saving,
        FileIsKnown, IInv, Name
  <2> QED
    BY <1>2, <2>2, <2>3 DEF IInv, Saving, Loading
<1> QED
  BY <1>1, <1>2 DEF ImportAlloc, GoTo, FailFreeing

-----------------------------------------------------------------------------

\* The block of the new text becomes the data of the core.
LEMMA ReplaceInv == IInv /\ Replace => IInv'
<1> SUFFICES ASSUME IInv, Replace PROVE IInv'
  OBVIOUS
<1>1. pc = "replace" /\ pc' = "return" /\ fd' = fd /\ mapped' = mapped
  BY DEF Replace, GoTo, KeepFile
<1>2. DEFINE old == ptr["data"] new == ptr["new_data"] copy == ptr["decompressed"]
<1>3. /\ Alive = {"data", "decompressed", "new_data"}
      /\ Alive \subseteq Name
  <2>1. Alive \ {"data", "text"} = {"decompressed", "new_data"} /\ "text" \notin Alive
        /\ "data" \in Alive
    BY <1>1 DEF IInv, LocalsAreKnown, Locals, TextIsKnown, Saving
  <2> QED
    BY <2>1 DEF Alive, AliveIn
<1>4. /\ old \in Block /\ new \in Block /\ copy \in Block
      /\ old # NoBlock /\ new # NoBlock
      /\ owner[old] = "data" /\ owner[new] = "new_data" /\ owner[copy] = "decompressed"
      /\ old # new /\ old # copy /\ new # copy
  <2>1. /\ "data" \in Alive /\ "new_data" \in Alive /\ "decompressed" \in Alive
    BY <1>3
  <2>2. /\ old # NoBlock /\ owner[old] = "data" /\ new # NoBlock /\ owner[new] = "new_data"
        /\ copy # NoBlock /\ owner[copy] = "decompressed"
    BY <2>1 DEF Alive, AliveIn
  <2> QED
    BY <2>2 DEF IInv, Coherent, Name
<1>5. /\ ptr' = [ptr EXCEPT !["data"] = new]
      /\ owner' = [b \in Block |-> IF b \in {old, copy} THEN Nobody
                                   ELSE IF b = new THEN "data" ELSE owner[b]]
  BY DEF Replace
<1>6. ~ wrong'
  BY <1>3 DEF Replace, IInv, Live, Alive, AliveIn
<1>7. \A b \in Block : owner[b] # Nobody => b \in {old, new, copy}
  <2> SUFFICES ASSUME NEW b \in Block, owner[b] # Nobody PROVE b \in {old, new, copy}
    OBVIOUS
  <2>1. owner[b] \in Name /\ ptr[owner[b]] = b /\ b # NoBlock
    BY CallResourcesAssumption DEF IInv, Coherent
  <2>2. owner[b] \in Alive
    BY <2>1 DEF Alive, AliveIn
  <2> QED
    BY <1>3, <2>1, <2>2
<1> HIDE DEF old, new, copy
<1>8. /\ ptr' \in [Name -> Block \cup {NoBlock}] /\ ptr'["data"] = new
      /\ owner' \in [Block -> Name \cup {Nobody}] /\ owner'[new] = "data"
      /\ \A b \in Block : b # new => owner'[b] = Nobody
  BY <1>4, <1>5, <1>7 DEF IInv, Coherent, Name, Nobody
<1>9. Coherent'
  BY <1>8 DEF Coherent
<1>10. Alive' = {"data"}
  <2>1. "data" \in Alive'
    BY <1>4, <1>8 DEF Alive, AliveIn, Name
  <2>2. \A x \in Name : x \in Alive' => x = "data"
    <3> SUFFICES ASSUME NEW x \in Name, x \in Alive' PROVE x = "data"
      OBVIOUS
    <3>1. ptr'[x] \in Block /\ owner'[ptr'[x]] = x /\ x # Nobody
      BY <1>8 DEF Alive, AliveIn, Name, Nobody
    <3> QED
      BY <1>8, <3>1
  <2>3. Alive' \subseteq Name
    BY DEF Alive, AliveIn
  <2> QED
    BY <2>1, <2>2, <2>3
<1>11. LocalsAreKnown' /\ TextIsKnown'
  BY <1>1, <1>10 DEF LocalsAreKnown, Locals, TextIsKnown, Saving
<1>12. FileIsKnown'
  BY <1>1 DEF IInv, FileIsKnown
<1> QED
  BY <1>1, <1>6, <1>9, <1>10, <1>11, <1>12 DEF IInv, Saving, Loading

\* The call is over: only the data of the core is alive, and stays so.
LEMMA ReturnInv == IInv /\ Return => IInv'
<1> SUFFICES ASSUME IInv, Return PROVE IInv'
  OBVIOUS
<1>1. /\ pc = "return" /\ pc' = "idle" /\ fd' = fd /\ mapped' = mapped
      /\ owner' = owner /\ wrong' = wrong
      /\ ptr' = [x \in Name |-> IF x = "data" THEN ptr[x] ELSE NoBlock]
  BY DEF Return, GoTo, KeepFile
<1>2. Alive = {"data"}
  BY <1>1 DEF IInv, LocalsAreKnown, Locals, TextIsKnown, Saving
<1>3. \A b \in Block : owner[b] # Nobody => owner[b] = "data"
  <2> SUFFICES ASSUME NEW b \in Block, owner[b] # Nobody PROVE owner[b] = "data"
    OBVIOUS
  <2>1. owner[b] \in Name /\ ptr[owner[b]] = b /\ b # NoBlock
    BY CallResourcesAssumption DEF IInv, Coherent
  <2>2. owner[b] \in Alive
    BY <2>1 DEF Alive, AliveIn
  <2> QED
    BY <1>2, <2>2
<1>4. "data" \in Name /\ ptr'["data"] = ptr["data"]
      /\ \A x \in Name \ {"data"} : ptr'[x] = NoBlock
  BY <1>1 DEF Name
<1>5. Coherent'
  BY <1>1, <1>3, <1>4 DEF IInv, Coherent
<1>6. Alive' = {"data"}
  <2>1. "data" \in Alive
    BY <1>2
  <2> QED
    BY <1>1, <1>4, <2>1 DEF Alive, AliveIn
<1>7. LocalsAreKnown' /\ TextIsKnown'
  BY <1>1, <1>6 DEF LocalsAreKnown, Locals, TextIsKnown, Saving
<1>8. FileIsKnown'
  BY <1>1 DEF IInv, FileIsKnown
<1> QED
  BY <1>1, <1>4, <1>5, <1>6, <1>7, <1>8 DEF IInv, Saving, Loading

\* Every step keeps the invariant.
LEMMA Inductive == IInv /\ [Next]_vars => IInv'
<1> SUFFICES ASSUME IInv, [Next]_vars PROVE IInv'
  OBVIOUS
<1>1. CASE UNCHANGED vars
  BY <1>1 DEF vars, IInv, Coherent, Alive, AliveIn, LocalsAreKnown, Locals, TextIsKnown,
              FileIsKnown
<1> QED
  BY <1>1, BeginSaveInv, CompressAllocInv, DeflateInv, StepIvInv, GenerateIvInv,
     EncryptBufferInv, BuildFileInv, OpenForWritingInv, MapFileInv, UnmapFileInv, CloseWrittenInv,
     FreeBuffersInv, FreeTextInv, BeginLoadInv, OpenForReadingInv, ReadAndCloseInv,
     ParseFileInv, DecryptAllocInv, StripPaddingInv, FreeWorkingInv, InflateAllocInv,
     UncompressInv, ImportAllocInv, ReplaceInv, ReturnInv DEF Next, Continue, Save, Load

LEMMA Invariant == Spec => []IInv
BY Initial, Inductive, PTL DEF Spec

-----------------------------------------------------------------------------

\* No block is freed twice and none is used after it was freed, for a heap of
\* any size and whichever calls fail.
THEOREM MemoryIsAlwaysOwned == Spec => []MemoryIsOwned
<1>1. IInv => MemoryIsOwned
  <2> SUFFICES ASSUME IInv PROVE MemoryIsOwned
    OBVIOUS
  <2>1. Used \cup {"data"} \subseteq Alive
    <3>1. ptr["text"] # NoBlock /\ pc \in {"deflate", "build"} => "text" \in Alive
      BY DEF IInv, TextIsKnown, Saving
    <3>2. "data" \in Alive /\ Locals \subseteq Alive
      BY DEF IInv, Locals
    <3> QED
      BY <3>1, <3>2 DEF IInv, LocalsAreKnown, Used
  <2>2. \A x \in Alive : Live(x)
    BY DEF Alive, AliveIn, Live
  <2> QED
    BY <2>1, <2>2 DEF MemoryIsOwned, IInv
<1> QED
  BY <1>1, Invariant, PTL

\* When a save or a load is over, all that it allocated, opened or mapped was
\* given back.
THEOREM NothingIsEverLeft == Spec => []NothingIsLeft
<1>1. IInv => NothingIsLeft
  <2> SUFFICES ASSUME IInv, pc = "idle"
               PROVE  /\ \A b \in Block : owner[b] # Nobody => b = ptr["data"]
                      /\ ~ fd /\ "this" \notin mapped
    BY DEF NothingIsLeft
  <2>1. Alive = {"data"}
    BY DEF IInv, LocalsAreKnown, Locals, TextIsKnown, Saving
  <2>2. ASSUME NEW b \in Block, owner[b] # Nobody PROVE b = ptr["data"]
    <3>1. owner[b] \in Name /\ ptr[owner[b]] = b /\ b # NoBlock
      BY <2>2, CallResourcesAssumption DEF IInv, Coherent
    <3>2. owner[b] \in Alive
      BY <3>1 DEF Alive, AliveIn
    <3> QED
      BY <2>1, <3>1, <3>2
  <2>3. ~ fd /\ "this" \notin mapped
    BY DEF IInv, FileIsKnown
  <2> QED
    BY <2>2, <2>3
<1> QED
  BY <1>1, Invariant, PTL

-----------------------------------------------------------------------------
(* The IV in a save.                                                       *)

\* The next save finds the IV as its call left it off the stack: unwritten.
LEMMA GenerateIvResets == IvInv /\ GenerateIv => IvInv'
<1> SUFFICES ASSUME IvInv, GenerateIv PROVE IvInv'
  OBVIOUS
<1>1. /\ iv' = [o \in Offsets |-> Junk] /\ total' = 0
      /\ iv_pc' = "getrandom" /\ open' = open /\ iv_pc = "returned"
  BY DEF GenerateIv
<1>2. 0 \in 0 .. IvSize /\ \A o \in Offsets : ~ (o < 0)
  BY CeioIvAssumption DEF Offsets
<1>3. iv' \in [Offsets -> {Junk, "getrandom", "urandom"}]
  BY <1>1
<1>4. open' = FALSE
  BY <1>1 DEF IvInv
<1>5. SuccessIsRandom'
  BY <1>1, <1>2 DEF SuccessIsRandom
<1> QED
  BY <1>1, <1>2, <1>3, <1>4, <1>5 DEF IvInv

LEMMA IvInvariantInSaves == Spec => []IvInv
<1>1. Init => IvInv
  BY IvInitial DEF Init
<1>2. IvInv /\ [Next]_vars => IvInv'
  <2> SUFFICES ASSUME IvInv, [Next]_vars PROVE IvInv'
    OBVIOUS
  <2>1. CASE StepIv
    BY <2>1, IvInductive DEF StepIv, IvNext
  <2>2. CASE GenerateIv
    BY <2>2, GenerateIvResets
  <2>3. CASE UNCHANGED iv_vars
    BY <2>3, IvInductive
  <2>4. StepIv \/ GenerateIv \/ UNCHANGED iv_vars
    BY DEF Next, Continue, vars, iv_vars
  <2> QED
    BY <2>1, <2>2, <2>3, <2>4
<1> QED
  BY <1>1, <1>2, PTL DEF Spec

\* The same in a run of saves, each with a call of its own.
THEOREM IvOfSavesIsRandom == Spec => []SuccessIsRandom
<1>1. IvInv => SuccessIsRandom
  BY DEF IvInv
<1> QED
  BY <1>1, IvInvariantInSaves, PTL

\* No save leaves the descriptor of /dev/urandom open.
THEOREM SavesCloseDescriptor == Spec => []DescriptorClosed
<1>1. IvInv => DescriptorClosed
  BY DEF IvInv, DescriptorClosed
<1> QED
  BY <1>1, IvInvariantInSaves, PTL

\* A save goes on to the encryption only with an IV that is random in every
\* byte; with any other it gives up.
EncryptsWithRandomIv ==
  [][ pc # "encrypt" /\ pc' = "encrypt" =>
        iv \in [Offsets -> {"getrandom"}] \cup [Offsets -> {"urandom"}] ]_vars

\* EncryptsWithRandomIv, for every size of the IV and every sequence of short
\* reads.
THEOREM NoSaveEncryptsWithoutIv == Spec => EncryptsWithRandomIv
<1>1. IvInv /\ [Next]_vars =>
        [pc # "encrypt" /\ pc' = "encrypt" =>
           iv \in [Offsets -> {"getrandom"}] \cup [Offsets -> {"urandom"}]]_vars
  <2> SUFFICES ASSUME IvInv, Next, pc # "encrypt", pc' = "encrypt"
               PROVE  iv \in [Offsets -> {"getrandom"}] \cup [Offsets -> {"urandom"}]
    OBVIOUS
  <2>1. GenerateIv
    <3>1. ~ Save /\ ~ BeginSave
      BY DEF Save, BeginSave, CompressAlloc, Deflate, EncryptBuffer, BuildFile, OpenForWriting,
             MapFile, UnmapFile, CloseWritten, FreeBuffers, FreeText, FailFreeing, GoTo
    <3>2. ~ Load /\ ~ BeginLoad /\ ~ Return /\ ~ StepIv
      BY DEF Load, BeginLoad, OpenForReading, ReadAndClose, ParseFile, DecryptAlloc,
             StripPadding, FreeWorking, InflateAlloc, Uncompress, ImportAlloc, Replace, Return,
             StepIv, FailFreeing, GoTo
    <3> QED
      BY <3>1, <3>2 DEF Next, Continue
  <2>2. iv_pc = "returned" /\ iv_result = 0
    BY <2>1 DEF GenerateIv, FailFreeing, GoTo
  <2> QED
    BY <2>2 DEF IvInv, SuccessIsRandom
<1> QED
  BY <1>1, IvInvariantInSaves, PTL DEF Spec, EncryptsWithRandomIv

-----------------------------------------------------------------------------
(* A save and a load run out of steps.                                     *)

\* The most steps that crypto_generate_iv still takes.
IvStepsLeft ==
  CASE iv_pc = "getrandom" -> IvSize + 3
    [] iv_pc = "open"      -> IvSize + 2
    [] iv_pc = "read"      -> IvSize - total + 1
    [] iv_pc = "returned"  -> 0

\* The most steps that are left when a call is next, the IV aside.
CallsLeft ==
  [ idle |-> 0, return |-> 1,
    free_text |-> 2, free_buffers |-> 3, close |-> 4, munmap |-> 5, mmap |-> 6, open |-> 7,
    build |-> 8, encrypt |-> 9, iv |-> 10, deflate |-> 11, compress |-> 12,
    replace |-> 2, import |-> 3, uncompress |-> 4, inflate |-> 5, free_working |-> 6,
    strip |-> 7, decrypt |-> 8, parse |-> 9, read |-> 10, open_read |-> 11 ]

StepsLeft ==
  CallsLeft[pc] + IF pc \in {"compress", "deflate", "iv"} THEN IvStepsLeft ELSE 0

\* Each step of a save or of a load lowers a natural number.
StepsRunOut ==
  [][ pc # "idle" => StepsLeft \in Nat /\ StepsLeft' \in Nat /\ StepsLeft' < StepsLeft ]_vars

LEMMA IvStepsLeftType == IvInv => IvStepsLeft \in Nat
<1> SUFFICES ASSUME IvInv PROVE IvStepsLeft \in Nat
  OBVIOUS
<1>1. /\ iv_pc \in {"getrandom", "open", "read", "returned"}
      /\ total \in 0 .. IvSize /\ IvSize \in Nat
  BY CeioIvAssumption DEF IvInv
<1> QED
  BY <1>1 DEF IvStepsLeft

LEMMA IvStepLowers ==
  ASSUME IvInv, IvStep
  PROVE  IvStepsLeft' < IvStepsLeft
<1>1. total \in 0 .. IvSize /\ IvSize \in Nat
  BY CeioIvAssumption DEF IvInv
<1>2. CASE GetRandom
  BY <1>1, <1>2 DEF GetRandom, IvReturn, IvStepsLeft
<1>3. CASE Open
  <2>1. total = 0 /\ total' = 0
    BY <1>3 DEF IvInv, Open
  <2> QED
    BY <1>1, <1>3, <2>1 DEF Open, IvReturn, IvStepsLeft
<1>4. CASE Read
  <2>1. PICK chunk \in 1 .. IvSize - total : total' = total + chunk
    BY <1>4 DEF Read
  <2> QED
    BY <1>1, <1>4, <2>1 DEF Read, IvStepsLeft
<1>5. CASE ReadFails
  BY <1>1, <1>5 DEF ReadFails, IvReturn, IvStepsLeft
<1>6. CASE Close
  BY <1>1, <1>6 DEF Close, IvReturn, IvStepsLeft
<1> QED
  BY <1>2, <1>3, <1>4, <1>5, <1>6 DEF IvStep

\* The labels that each action joins.
LEMMA SaveSteps ==
  ASSUME Save
  PROVE  /\ pc \in DOMAIN CallsLeft /\ pc' \in DOMAIN CallsLeft
         /\ pc # "iv" /\ CallsLeft[pc'] < CallsLeft[pc]
         /\ pc' \in {"compress", "deflate", "iv"} => pc \in {"compress", "deflate", "iv"}
BY DEF Save, CompressAlloc, Deflate, EncryptBuffer, BuildFile, OpenForWriting,
       MapFile, UnmapFile, CloseWritten, FreeBuffers, FreeText, FailFreeing, GoTo, CallsLeft

LEMMA LoadSteps ==
  ASSUME Load \/ Return
  PROVE  /\ pc \in DOMAIN CallsLeft /\ pc' \in DOMAIN CallsLeft
         /\ CallsLeft[pc'] < CallsLeft[pc]
         /\ pc' \notin {"compress", "deflate", "iv"}
BY DEF Load, OpenForReading, ReadAndClose, ParseFile, DecryptAlloc, StripPadding,
       FreeWorking, InflateAlloc, Uncompress, ImportAlloc, Replace, Return, FailFreeing, GoTo,
       CallsLeft

\* Every step of an operation leaves less to do: an operation ends when each of
\* its calls answers, after a number of steps that is known when it begins.
THEOREM OperationsRunOutOfSteps == Spec => StepsRunOut
<1>1. IInv /\ IvInv /\ [Next]_vars =>
        [pc # "idle" => StepsLeft \in Nat /\ StepsLeft' \in Nat /\ StepsLeft' < StepsLeft]_vars
  <2> SUFFICES ASSUME IInv, IvInv, Next, pc # "idle"
               PROVE  StepsLeft \in Nat /\ StepsLeft' \in Nat /\ StepsLeft' < StepsLeft
    OBVIOUS
  <2>1. \A l \in DOMAIN CallsLeft : CallsLeft[l] \in Nat
    BY DEF CallsLeft
  <2>2. IvStepsLeft \in Nat /\ IvStepsLeft' \in Nat
    <3>1. IvInv'
      BY IvInductive, GenerateIvResets DEF Next, Continue, StepIv, IvNext, vars, iv_vars
    <3>2. (IvInv => IvStepsLeft \in Nat) /\ (IvInv => IvStepsLeft \in Nat)'
      BY IvStepsLeftType, PTL
    <3> QED
      BY <3>1, <3>2
  <2>3. CASE Save /\ UNCHANGED iv_vars
    <3>1. IvStepsLeft' = IvStepsLeft
      BY <2>3 DEF iv_vars, IvStepsLeft
    <3> QED
      BY <2>1, <2>2, <2>3, <3>1, SaveSteps DEF StepsLeft
  <2>4. CASE (Load \/ Return) /\ UNCHANGED iv_vars
    BY <2>1, <2>2, <2>4, LoadSteps DEF StepsLeft
  <2>5. CASE StepIv
    <3>1. pc = "iv" /\ pc' = "iv" /\ IvStepsLeft' < IvStepsLeft
      BY <2>5, IvStepLowers DEF StepIv
    <3>2. "iv" \in DOMAIN CallsLeft
      BY DEF CallsLeft
    <3> QED
      BY <2>1, <2>2, <3>1, <3>2 DEF StepsLeft
  <2>6. CASE GenerateIv
    <3>1. pc = "iv" /\ pc' \in {"encrypt", "free_text"}
      BY <2>6 DEF GenerateIv, FailFreeing, GoTo
    <3>2. CallsLeft["iv"] = 10 /\ CallsLeft["encrypt"] = 9 /\ CallsLeft["free_text"] = 2
      BY DEF CallsLeft
    <3> QED
      BY <2>2, <3>1, <3>2 DEF StepsLeft
  <2>7. ~ BeginSave /\ ~ BeginLoad
    BY DEF BeginSave, BeginLoad
  <2> QED
    BY <2>3, <2>4, <2>5, <2>6, <2>7 DEF Next, Continue
<1> QED
  BY <1>1, Invariant, IvInvariantInSaves, PTL DEF Spec, StepsRunOut
=============================================================================
