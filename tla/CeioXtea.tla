------------------------------ MODULE CeioXtea ------------------------------
(***************************************************************************)
(* CeioCrypto with the block cipher of Xtea: crypto_encrypt_buffer calls   *)
(* xtea_encrypt_block, and crypto_decrypt_buffer xtea_decrypt_block, with  *)
(* the key words that derive_xtea_key made.                                *)
(***************************************************************************)
EXTENDS CeioCrypto, Xtea

ASSUME CipherIsXtea ==
  /\ BlockSize = 2 * WordBytes /\ Byte = 0 .. ByteValues - 1
  /\ \A k \in Key : Derive(k) \in [0 .. 3 -> Word]
  /\ \A k \in Key, b \in Block :
       /\ Encrypt(Derive(k), b) = xtea_encrypt_block(b, Derive(k))
       /\ Decrypt(Derive(k), b) = xtea_decrypt_block(b, Derive(k))

\* The exclusive or with a byte undoes itself.
ASSUME XorUndoesItself == \A x, y \in Byte : XorByte(XorByte(x, y), y) = x
=============================================================================
