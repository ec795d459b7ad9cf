-------------------------------- MODULE Xtea --------------------------------
(***************************************************************************)
(* The block cipher: xtea_encrypt_block and xtea_decrypt_block of          *)
(* src/crypto_ceio.c, with the width of a word, the shifts and the number  *)
(* of rounds as parameters.  CeioXtea makes it the cipher of CeioCrypto.   *)
(*                                                                         *)
(* The byte at offset o of a block is element o + 1 of a sequence.         *)
(***************************************************************************)
EXTENDS Integers, Sequences

CONSTANTS
  ByteValues,        \* the number of values of a byte (256 in the code)
  WordBytes,         \* the bytes of a word (4)
  Rounds,            \* XTEA_ROUNDS (32)
  Delta,             \* XTEA_DELTA (0x9E3779B9)
  Left, Right,       \* the shifts of a round, as factors (2^4 and 2^5)
  IndexShift,        \* the shift of the sum that selects a key word (2^11)
  XorWord(_, _)      \* the exclusive or of two words

\* The powers of ByteValues.
Power[n \in 0 .. WordBytes] == IF n = 0 THEN 1 ELSE ByteValues * Power[n - 1]

Word == 0 .. Power[WordBytes] - 1
Wrap(n) == n % Power[WordBytes]

ASSUME XteaAssumption ==
  /\ ByteValues \in Nat \ {0} /\ WordBytes \in Nat /\ Rounds \in Nat
  /\ Delta \in Word
  /\ Left \in Nat /\ Right \in Nat \ {0} /\ IndexShift \in Nat \ {0}
  /\ \A x, y \in Word : XorWord(x, y) \in Word

-----------------------------------------------------------------------------

\* load_u32_le: the word whose bytes start at the given offset.
LoadWord(block, at) ==
  LET value[n \in 0 .. WordBytes] ==
        IF n = 0 THEN 0 ELSE value[n - 1] + block[at + n] * Power[n - 1]
  IN  value[WordBytes]

\* store_u32_le of both words.
StoreWords(v0, v1) ==
  [i \in 1 .. 2 * WordBytes |->
     IF i <= WordBytes THEN (v0 \div Power[i - 1]) % ByteValues
     ELSE (v1 \div Power[i - WordBytes - 1]) % ByteValues]

Mix(v, sum, word) ==
  XorWord(Wrap(XorWord(Wrap(v * Left), v \div Right) + v), Wrap(sum + word))

EncryptRound(s, key) ==
  LET v0  == Wrap(s.v0 + Mix(s.v1, s.sum, key[s.sum % 4]))
      sum == Wrap(s.sum + Delta)
      v1  == Wrap(s.v1 + Mix(v0, sum, key[(sum \div IndexShift) % 4]))
  IN  [v0 |-> v0, v1 |-> v1, sum |-> sum]

\* Mutant: the sum is lowered before both halves.
DecryptRoundEarly(s, key) ==
  LET sum == Wrap(s.sum - Delta)
      v1  == Wrap(s.v1 - Mix(s.v0, sum, key[(sum \div IndexShift) % 4]))
      v0  == Wrap(s.v0 - Mix(v1, sum, key[sum % 4]))
  IN  [v0 |-> v0, v1 |-> v1, sum |-> sum]

DecryptRound(s, key) ==
  LET v1  == Wrap(s.v1 - Mix(s.v0, s.sum, key[(s.sum \div IndexShift) % 4]))
      sum == Wrap(s.sum - Delta)
      v0  == Wrap(s.v0 - Mix(v1, sum, key[sum % 4]))
  IN  [v0 |-> v0, v1 |-> v1, sum |-> sum]

LastSum == Wrap(Delta * Rounds)

Loaded(block, sum) ==
  [v0 |-> LoadWord(block, 0), v1 |-> LoadWord(block, WordBytes), sum |-> sum]

xtea_encrypt_block(block, key) ==
  LET after[r \in 0 .. Rounds] ==
        IF r = 0 THEN Loaded(block, 0) ELSE EncryptRound(after[r - 1], key)
  IN  StoreWords(after[Rounds].v0, after[Rounds].v1)

xtea_decrypt_block(block, key) ==
  LET after[r \in 0 .. Rounds] ==
        IF r = 0 THEN Loaded(block, LastSum) ELSE DecryptRound(after[r - 1], key)
  IN  StoreWords(after[Rounds].v0, after[Rounds].v1)
=============================================================================
