----------------------------- MODULE CeioFormat -----------------------------
(***************************************************************************)
(* The .ceio file image of src/ceio_format.c and what editor_file_load of  *)
(* src/editor_file.c makes of it.                                          *)
(*                                                                         *)
(* A file is a sequence of cells.  The first three are the header: the     *)
(* sizes (with magic and version), the CRC-32 of the text, and the IV.     *)
(* Each further cell is one cipher block.  A cell is a symbolic term that  *)
(* says what was stored, so the checks of the loader compare terms:        *)
(* CRC-32 has no collisions, and decryption under another key or IV, or of *)
(* blocks of several messages, never passes the padding and CRC checks.    *)
(***************************************************************************)
EXTENDS Naturals, SequencesExt

CONSTANTS
  Text,             \* the texts that are saved: sequences of characters
  Key,              \* the keys
  CompressedSize,   \* for each text, the size of its zlib stream
  BlockSize,        \* CRYPTO_CEIO_BLOCK_SIZE (8 in the code)
  CrcSize,          \* sizeof(uint32_t), the CRC in front of the zlib stream
  Uint32            \* the number of values of a uint32_t (2^32 in the code)

ASSUME CeioFormatAssumption ==
  /\ \A t \in Text : t \in Seq(UNION {ToSet(u) : u \in Text})
  /\ CompressedSize \in [Text -> Nat \ {0}]
  /\ BlockSize \in Nat \ {0}
  /\ CrcSize \in Nat
  /\ Uint32 \in Nat \ {0} /\ Uint32 % BlockSize = 0

-----------------------------------------------------------------------------
(* Writing.                                                                *)

\* The padded message is the CRC, the zlib stream and 1 .. BlockSize bytes.
Blocks(t) == (CrcSize + CompressedSize[t]) \div BlockSize + 1

\* The blocks of it that are in the file: their size is cast to uint32_t.
PayloadBlocks(t) == ((Blocks(t) * BlockSize) % Uint32) \div BlockSize

\* crc32(0, t, n): it tells the first n characters of t from any other text.
Crc(t, n) == SubSeq(t, 1, n)

\* The sizes are cast to uint32_t, and so is the length given to crc32; the
\* encrypted one is counted in blocks here.
ceio_format_build(t, k, iv) ==
  << [ original_size   |-> Len(t) % Uint32,
       compressed_size |-> CompressedSize[t] % Uint32,
       encrypted_size  |-> PayloadBlocks(t) ],
     [ crc32 |-> Crc(t, Len(t) % Uint32) ],
     [ iv |-> iv ] >>
  \o [ i \in 1 .. PayloadBlocks(t) |-> [text |-> t, key |-> k, iv |-> iv, index |-> i] ]

HeaderSize == 3

Zero == [zero |-> TRUE]      \* a cell of zero bytes, in a hole of the file

-----------------------------------------------------------------------------
(* Reading.  d is the content of the file, k the key.                      *)

\* Zero bytes are not the magic number.
ceio_format_parse(d) ==
  /\ Len(d) >= HeaderSize
  /\ d[1] # Zero
  /\ HeaderSize + d[1].encrypted_size = Len(d)

\* The texts whose zlib stream the payload decrypts to: one, or none.
Decrypted(d, k) ==
  { t \in Text :
      /\ d[3] # Zero
      /\ d[1].encrypted_size = Blocks(t)
      /\ \A i \in 1 .. Blocks(t) :
           d[HeaderSize + i] = [text |-> t, key |-> k, iv |-> d[3].iv, index |-> i] }

\* uncompress accepts a stream that ends before the claimed compressed size
\* and fills less than the claimed original size; the rest of the buffer is
\* memory from malloc, whatever it holds.
Decompressed(d, t) ==
  { u \in Text :
      /\ CompressedSize[t] <= d[1].compressed_size
      /\ Len(t) <= d[1].original_size
      /\ Len(u) = d[1].original_size
      /\ IsPrefix(t, u) }

\* Mutant: the CRC of the header is not compared.
LoadedWithoutCrc(d, k) ==
  IF ~ ceio_format_parse(d) THEN {}
  ELSE UNION {Decompressed(d, t) : t \in Decrypted(d, k)}

\* The texts a load may return.
Loaded(d, k) ==
  IF ~ ceio_format_parse(d) THEN {}
  ELSE { u \in UNION {Decompressed(d, t) : t \in Decrypted(d, k)} :
           d[2] = [crc32 |-> Crc(u, d[1].original_size)] }

=============================================================================
