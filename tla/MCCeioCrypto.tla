---------------------------- MODULE MCCeioCrypto ----------------------------
(* Bytes of three bits, blocks of four bytes, and the cipher of Xtea.      *)
EXTENDS CeioXtea, Bitwise

Bytes == 0 .. 7
Texts == BoundedSeq({1, 2}, 5) \cup {<<0, 4, 4, 4>>, <<1, 1, 1, 1, 1, 1>>, <<2, 2, 2, 2, 2, 2, 2>>}
SomeKeys == {<<3, 5>>, <<6>>, << >>}
SomeIvs  == {<<0, 0, 0, 0>>, <<7, 1, 4, 2>>}
OneBlock == {f \in [1 .. 4 -> Bytes] : f[1] \in {0, 3}} \cup {<<1>>, <<1, 1, 1, 1, 1>>}

XorTable == [x \in 0 .. 63 |-> [y \in 0 .. 63 |-> x ^^ y]]
XorNumbers(x, y) == XorTable[x][y]

\* A check sum that depends on the order.
CheckSum(t) ==
  LET sum[n \in 0 .. Len(t)] == IF n = 0 THEN 63 ELSE (5 * sum[n - 1] + t[n] + 1) % 64
  IN  <<sum[Len(t)] % 8, sum[Len(t)] \div 8>>

Words(k) == [i \in 0 .. 3 |-> (CheckSum(k)[1] * (i + 1) + 39 * Len(k) + 21 * i) % 64]

\* The cipher as tables over the numbers of the blocks.
Number(b) == b[1] + 8 * b[2] + 64 * b[3] + 512 * b[4]
Numbered(n) == [i \in 1 .. 4 |-> (n \div 8^(i - 1)) % 8]
WordsOfKeys == {Words(k) : k \in SomeKeys}
EncryptTable ==
  [w \in WordsOfKeys |-> [n \in 0 .. 4095 |-> xtea_encrypt_block(Numbered(n), w)]]
DecryptTable ==
  [w \in WordsOfKeys |-> [n \in 0 .. 4095 |-> xtea_decrypt_block(Numbered(n), w)]]
XteaEncrypt(w, b) == EncryptTable[w][Number(b)]
XteaDecrypt(w, b) == DecryptTable[w][Number(b)]
=============================================================================
