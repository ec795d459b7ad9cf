----------------------------- MODULE CeioCrypto -----------------------------
(***************************************************************************)
(* crypto_encrypt_buffer and crypto_decrypt_buffer of src/crypto_ceio.c:   *)
(* a CRC in front of the text, padding behind it, and the block cipher in  *)
(* CBC mode, in place and one block per step.                              *)
(*                                                                         *)
(* The byte at offset o of a buffer is element o + 1 of a sequence.  The   *)
(* block cipher, the CRC and the derivation of the key are parameters.     *)
(***************************************************************************)
EXTENDS Integers, SequencesExt

CONSTANTS
  Byte,             \* the values of a byte: 0 to 255
  BlockSize,        \* CRYPTO_CEIO_BLOCK_SIZE (8)
  CrcSize,          \* sizeof(uint32_t) (4)
  UintMax,          \* UINT_MAX
  Text,             \* the texts that are encrypted
  Key,              \* the key material
  Iv,               \* the IVs
  Forged,           \* buffers that crypto_encrypt_buffer did not make
  XorByte(_, _),        \* of two bytes
  Crc(_),           \* the bytes of crc32 of a text
  Derive(_),        \* derive_xtea_key
  Encrypt(_, _),    \* xtea_encrypt_block of the words and a block
  Decrypt(_, _)     \* xtea_decrypt_block

Block == [1 .. BlockSize -> Byte]

ASSUME SizeAssumption ==
  /\ BlockSize \in Nat \ {0} /\ CrcSize \in Nat /\ UintMax \in Nat
  /\ 0 .. BlockSize \subseteq Byte /\ Byte \subseteq Nat

ASSUME DataAssumption ==
  /\ \A t \in Text : t \in Seq(Byte) /\ Crc(t) \in [1 .. CrcSize -> Byte]
  /\ \A f \in Forged : f \in Seq(Byte)
  /\ Iv \subseteq Block
  /\ \A k \in Key : Len(k) \in Nat

ASSUME CipherAssumption ==
  /\ \A x, y \in Byte : XorByte(x, y) \in Byte
  /\ \A k \in Key, b \in Block :
       /\ Encrypt(Derive(k), b) \in Block /\ Decrypt(Derive(k), b) \in Block

VARIABLES
  pc,          \* "idle", or what the call does next
  call,        \* the arguments: input, key and iv
  words,       \* key_words, in the frame of the call or, when it has returned,
               \* where the frame was; << >> when they are zero
  working,     \* the buffer on the heap
  offset,
  previous,    \* previous_block
  result,      \* what the last call returned
  freed,       \* the memory that was freed last
  stored       \* history: the texts, keys and IVs that were encrypted, and to what

locals == <<words, working, offset, previous>>
vars   == <<pc, call, locals, result, freed, stored>>

Failed   == [ok |-> FALSE]
Done(b)  == [ok |-> TRUE, bytes |-> b]
NoCall   == [input |-> << >>, key |-> << >>, iv |-> << >>]
Zeros(n) == [i \in 1 .. n |-> 0]

Init == /\ pc = "idle" /\ call = NoCall
        /\ words = << >> /\ working = << >> /\ offset = 0 /\ previous = << >>
        /\ result = Failed /\ freed = << >> /\ stored = {}

-----------------------------------------------------------------------------
(* Padding and CRC.                                                        *)

\* Mutant: a payload of whole blocks is not padded.
NoFullBlock(n) == IF n % BlockSize = 0 THEN n ELSE n + (BlockSize - (n % BlockSize))

pkcs7_padded_size(n) == n + (BlockSize - (n % BlockSize))

\* apply_padding_and_prefix_crc: every byte of the padding is its length.
Padded(text) ==
  LET payload == CrcSize + Len(text)
      pad     == pkcs7_padded_size(payload) - payload
  IN  Crc(text) \o text \o [i \in 1 .. pad |-> pad]

\* Mutant: of the padding only the last byte is looked at.
StrippedLast(b) ==
  LET pad     == b[Len(b)]
      payload == Len(b) - pad
      text    == SubSeq(b, CrcSize + 1, payload)
  IN  IF /\ pad # 0 /\ pad <= BlockSize
         /\ payload >= CrcSize /\ payload - CrcSize <= UintMax
         /\ SubSeq(b, 1, CrcSize) = Crc(text)
      THEN Done(text) ELSE Failed

\* remove_padding_and_validate_crc, unless malloc fails.
Stripped(b) ==
  LET pad     == b[Len(b)]
      payload == Len(b) - pad
      text    == SubSeq(b, CrcSize + 1, payload)
  IN  IF /\ pad # 0 /\ pad <= BlockSize
         /\ \A i \in 0 .. pad - 1 : b[Len(b) - i] = pad
         /\ payload >= CrcSize /\ payload - CrcSize <= UintMax
         /\ SubSeq(b, 1, CrcSize) = Crc(text)
      THEN Done(text) ELSE Failed

-----------------------------------------------------------------------------
(* The block at the offset.                                                *)

Current      == SubSeq(working, offset + 1, offset + BlockSize)
XorBlock(b, c) == [i \in 1 .. BlockSize |-> XorByte(b[i], c[i])]

WithCurrent(b) ==
  [o \in 1 .. Len(working) |->
     IF offset < o /\ o <= offset + BlockSize THEN b[o - offset] ELSE working[o]]

\* secure_zero_memory: explicit_bzero of the first n bytes.
secure_zero_memory(b, n) == [i \in DOMAIN b |-> IF i <= n THEN 0 ELSE b[i]]

\* The call returns.  Its frame is not erased: the words stay as they are.
Return(r) ==
  /\ pc' = "idle" /\ call' = NoCall /\ result' = r
  /\ working' = << >> /\ offset' = 0 /\ previous' = << >>

\* A call that fails before it has derived its words.
Reject == result' = Failed /\ UNCHANGED <<pc, call, locals, freed, stored>>

\* The words are derived; the buffer comes next.
Begin(next, input, key, iv) ==
  /\ pc' = next
  /\ call' = [input |-> input, key |-> key, iv |-> iv]
  /\ words' = Derive(key) /\ result' = Failed
  /\ UNCHANGED <<working, offset, previous, freed, stored>>

\* The loop over the blocks of the buffer begins.
Loop(next, buffer) ==
  /\ pc' = next /\ working' = buffer /\ offset' = 0 /\ previous' = call.iv
  /\ UNCHANGED <<call, words, result, freed, stored>>

\* There is no buffer: the call fails, with its words wiped.
NoBuffer == words' = << >> /\ Return(Failed) /\ UNCHANGED <<freed, stored>>

-----------------------------------------------------------------------------
(* crypto_encrypt_buffer.                                                  *)

BeginEncrypt(text, key, iv) ==
  /\ pc = "idle"
  /\ IF Len(key) \in 1 .. UintMax THEN Begin("pad", text, key, iv) ELSE Reject

\* The second disjunct is a text that is too long, or a failed malloc.
Pad ==
  /\ pc = "pad"
  /\ \/ Len(call.input) <= UintMax /\ Loop("encrypt", Padded(call.input))
     \/ NoBuffer

EncryptBlock ==
  /\ pc = "encrypt" /\ offset < Len(working)
  /\ LET block == Encrypt(words, XorBlock(Current, previous))
     IN  working' = WithCurrent(block) /\ previous' = block
  /\ offset' = offset + BlockSize
  /\ UNCHANGED <<pc, call, words, result, freed, stored>>

\* The caller owns the buffer.
EndEncrypt ==
  /\ pc = "encrypt" /\ offset >= Len(working)
  /\ words' = << >> /\ Return(Done(working))
  /\ stored' = stored \cup {[call |-> call, cipher |-> working]}
  /\ UNCHANGED freed

-----------------------------------------------------------------------------
(* crypto_decrypt_buffer.                                                  *)

BeginDecrypt(cipher, key, iv) ==
  /\ pc = "idle"
  /\ IF Len(key) \in 1 .. UintMax /\ Len(cipher) # 0 /\ Len(cipher) % BlockSize = 0
     THEN Begin("copy", cipher, key, iv) ELSE Reject

\* The second disjunct is a failed malloc.
Copy == pc = "copy" /\ (Loop("decrypt", call.input) \/ NoBuffer)

\* Mutant: the block is copied when it is decrypted already.
DecryptBlockChained ==
  /\ pc = "decrypt" /\ offset < Len(working)
  /\ LET block == XorBlock(Decrypt(words, Current), previous)
     IN  working' = WithCurrent(block) /\ previous' = block
  /\ offset' = offset + BlockSize
  /\ UNCHANGED <<pc, call, words, result, freed, stored>>

\* The encrypted block is copied before it is overwritten.
DecryptBlock ==
  /\ pc = "decrypt" /\ offset < Len(working)
  /\ previous' = Current
  /\ working' = WithCurrent(XorBlock(Decrypt(words, Current), previous))
  /\ offset' = offset + BlockSize
  /\ UNCHANGED <<pc, call, words, result, freed, stored>>

\* The padding and the CRC are looked at, and malloc of the text may fail.
EndDecrypt ==
  /\ pc = "decrypt" /\ offset >= Len(working)
  /\ words' = << >> /\ result' \in {Stripped(working), Failed}
  /\ pc' = "wipe"
  /\ UNCHANGED <<call, working, offset, previous, freed, stored>>

\* Mutant: the buffer is wiped with the size of the text that came out of it.
WipeText ==
  /\ pc = "wipe" /\ pc' = "free"
  /\ working' = secure_zero_memory(working,
                   IF result.ok THEN Len(result.bytes) ELSE Len(call.input))
  /\ UNCHANGED <<call, words, offset, previous, result, freed, stored>>

\* The buffer is wiped with the size of the message.
Wipe ==
  /\ pc = "wipe" /\ pc' = "free"
  /\ working' = secure_zero_memory(working, Len(call.input))
  /\ UNCHANGED <<call, words, offset, previous, result, freed, stored>>

\* free(working): the allocator gets the block as it is.
Free ==
  /\ pc = "free"
  /\ freed' = working /\ Return(result)
  /\ UNCHANGED <<words, stored>>

-----------------------------------------------------------------------------

BlocksOf(c) ==
  { SubSeq(c, i * BlockSize + 1, (i + 1) * BlockSize) : i \in 0 .. (Len(c) \div BlockSize) - 1 }

\* What may be in a file: what was stored, with blocks missing, doubled or in
\* another order, or something else.
Messages ==
  IF stored = {} THEN Forged
  ELSE { FlattenSeq(f) : f \in
           UNION { BoundedSeq(BlocksOf(s.cipher), Len(s.cipher) \div BlockSize) : s \in stored } }

\* Only one message is stored, to keep the number of states small.
Next ==
  \/ \E t \in Text, k \in Key, v \in Iv : stored = {} /\ BeginEncrypt(t, k, v)
  \/ Pad \/ EncryptBlock \/ EndEncrypt
  \/ \E c \in Messages, k \in Key, v \in Iv : BeginDecrypt(c, k, v)
  \/ Copy \/ DecryptBlock \/ EndDecrypt \/ Wipe \/ Free

Spec == Init /\ [][Next]_vars
-----------------------------------------------------------------------------
(* Properties.                                                             *)

\* The working buffer holds whole blocks, the loop ends exactly at its end,
\* and an encrypted text has the size that the format gives it: there is
\* always at least one byte of padding.
TypeOK ==
  /\ pc \in {"idle", "pad", "encrypt", "copy", "decrypt", "wipe", "free"}
  /\ working \in Seq(Byte) /\ Len(working) % BlockSize = 0
  /\ pc \in {"encrypt", "decrypt"} =>
       offset <= Len(working) /\ offset % BlockSize = 0 /\ previous \in Block
  /\ \A s \in stored :
       Len(s.cipher) = ((CrcSize + Len(s.call.input)) \div BlockSize + 1) * BlockSize

\* A message that was stored is decrypted, under its key and its IV, to
\* exactly the text it was made from: it is never refused, whatever the length
\* of the text and whatever its last bytes look like.
RoundTrip ==
  \A s \in stored :
    pc = "decrypt" /\ offset >= Len(working)
      /\ call = [s.call EXCEPT !.input = s.cipher]
    => Stripped(working) = Done(s.call.input)

\* The two directions of the cipher undo each other under the words of every
\* encryption, for every block and not only those of the text: decryption goes
\* the rounds of encryption backwards, through all wrap-arounds of the sum.
BlocksComeBack ==
  pc = "encrypt" /\ offset = 0 =>
    \A b \in Block : /\ Decrypt(words, Encrypt(words, b)) = b
                     /\ Encrypt(words, Decrypt(words, b)) = b

\* Whatever the file holds: when a text comes out, the buffer that was
\* decrypted is the padded form of that text to the last byte.  So no two
\* messages are accepted for one text, and one that lost blocks, or has bytes
\* in its padding that no writer puts there, is refused unless the CRC agrees.
OnlyWhatIsWritten ==
  [][ EndDecrypt /\ result'.ok => working = Padded(result'.bytes) ]_vars

\* Nothing secret is left in memory that the program has given up, on any way
\* out of either call: the block that held decrypted bytes is zero to its last
\* byte when the allocator gets it, after a text, a refusal and a failed
\* malloc, and no key word stays where the frame of a call that returned was.
NothingLeft ==
  /\ freed = Zeros(Len(freed))
  /\ pc = "idle" => words = << >>
=============================================================================
