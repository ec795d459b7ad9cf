-------------------------- MODULE CeioCrypto_proofs -------------------------
(***************************************************************************)
(* Proofs about module CeioCrypto, for every size of a block and of the    *)
(* CRC, every set of texts, keys and IVs, and every block cipher whose two *)
(* directions undo each other; and about module Xtea, that it is such a    *)
(* cipher, for every width of a word, number of rounds and key.            *)
(***************************************************************************)
EXTENDS CeioXtea, SequenceTheorems, NaturalsInduction, WellFoundedInduction, TLAPS

-----------------------------------------------------------------------------
(* Multiples of the size of a block.                                       *)

LEMMA Division ==
  ASSUME NEW n \in Nat
  PROVE  /\ n \div BlockSize \in Nat /\ n % BlockSize \in 0 .. BlockSize - 1
         /\ n = (n \div BlockSize) * BlockSize + (n % BlockSize)
<1>1. \A x \in Nat, b \in Nat \ {0} :
        x \div b \in Nat /\ x % b \in 0 .. b - 1 /\ x = (x \div b) * b + (x % b)
  OBVIOUS
<1> QED
  BY <1>1, SizeAssumption

LEMMA ProductGrows ==
  ASSUME NEW a \in Nat, NEW c \in Nat, a <= c, NEW b \in Nat
  PROVE  a * b <= c * b /\ a * b \in Nat /\ c * b \in Nat /\ (a + 1) * b = a * b + b
<1>1. PICK d \in Nat : c = a + d
  <2>1. c - a \in Nat /\ c = a + (c - a)
    OBVIOUS
  <2> QED
    BY <2>1
<1>2. \A x, y \in Nat : x * y \in Nat
  OBVIOUS
<1>3. a * b \in Nat /\ d * b \in Nat /\ c * b \in Nat
  BY <1>2
<1>4. c * b = a * b + d * b
  BY <1>1
<1>5. (a + 1) * b = a * b + b
  OBVIOUS
<1> QED
  BY <1>3, <1>4, <1>5

LEMMA DivisionUnique ==
  ASSUME NEW a \in Nat, NEW r \in 0 .. BlockSize - 1,
         NEW c \in Nat, NEW s \in 0 .. BlockSize - 1,
         a * BlockSize + r = c * BlockSize + s
  PROVE  a = c /\ r = s
<1> DEFINE A == a * BlockSize
           C == c * BlockSize
<1>1. BlockSize \in Nat \ {0}
  BY SizeAssumption
<1>2. A \in Nat /\ C \in Nat /\ A + r = C + s
  BY <1>1, ProductGrows
<1>3. ASSUME a < c PROVE FALSE
  <2>1. a + 1 \in Nat /\ a + 1 <= c
    BY <1>3
  <2>2. (a + 1) * BlockSize <= C /\ (a + 1) * BlockSize = A + BlockSize
    BY <1>1, <2>1, ProductGrows
  <2> HIDE DEF A, C
  <2>3. A + BlockSize <= C
    BY <2>2
  <2> QED
    BY <1>1, <1>2, <2>3
<1>4. ASSUME c < a PROVE FALSE
  <2>1. c + 1 \in Nat /\ c + 1 <= a
    BY <1>4
  <2>2. (c + 1) * BlockSize <= A /\ (c + 1) * BlockSize = C + BlockSize
    BY <1>1, <2>1, ProductGrows
  <2> HIDE DEF A, C
  <2>3. C + BlockSize <= A
    BY <2>2
  <2> QED
    BY <1>1, <1>2, <2>3
<1>5. a = c
  BY <1>3, <1>4
<1> QED
  BY <1>1, <1>2, <1>5

LEMMA Multiples ==
  ASSUME NEW n \in Nat
  PROVE  n % BlockSize = 0 <=> \E q \in Nat : n = q * BlockSize
<1>1. ASSUME n % BlockSize = 0 PROVE n = (n \div BlockSize) * BlockSize
  BY <1>1, Division, ProductGrows, SizeAssumption
<1>2. ASSUME NEW q \in Nat, n = q * BlockSize PROVE n % BlockSize = 0
  <2>1. 0 \in 0 .. BlockSize - 1 /\ q * BlockSize \in Nat /\ n = q * BlockSize + 0
    BY <1>2, ProductGrows, SizeAssumption
  <2>2. /\ n \div BlockSize \in Nat /\ n % BlockSize \in 0 .. BlockSize - 1
        /\ (n \div BlockSize) * BlockSize + (n % BlockSize) = q * BlockSize + 0
    BY <2>1, Division
  <2> QED
    BY <2>1, <2>2, DivisionUnique
<1> QED
  BY <1>1, <1>2, Division

\* Between two multiples there is room for a block.
LEMMA BlocksFit ==
  ASSUME NEW o \in Nat, o % BlockSize = 0, NEW l \in Nat, l % BlockSize = 0, o < l
  PROVE  o + BlockSize <= l
<1>1. PICK p \in Nat, q \in Nat : o = p * BlockSize /\ l = q * BlockSize
  BY Multiples
<1>2. p < q
  BY <1>1, ProductGrows, SizeAssumption
<1>3. p + 1 \in Nat /\ p + 1 <= q /\ BlockSize \in Nat
  BY <1>2, SizeAssumption
<1>4. (p + 1) * BlockSize <= q * BlockSize /\ (p + 1) * BlockSize = p * BlockSize + BlockSize
  BY <1>3, ProductGrows
<1> QED
  BY <1>1, <1>4

LEMMA NextMultiple ==
  ASSUME NEW o \in Nat, o % BlockSize = 0
  PROVE  /\ o + BlockSize \in Nat /\ (o + BlockSize) % BlockSize = 0
         /\ o # 0 => o - BlockSize \in Nat /\ (o - BlockSize) % BlockSize = 0
<1>1. PICK q \in Nat : o = q * BlockSize
  BY Multiples
<1>2. BlockSize \in Nat \ {0} /\ q + 1 \in Nat
  BY SizeAssumption
<1>3. o + BlockSize \in Nat /\ o + BlockSize = (q + 1) * BlockSize
  BY <1>1, <1>2, ProductGrows
<1>4. ASSUME o # 0 PROVE o - BlockSize \in Nat /\ (o - BlockSize) % BlockSize = 0
  <2>1. q # 0
    BY <1>1, <1>2, <1>4
  <2>2. q - 1 \in Nat /\ q - 1 + 1 = q
    BY <2>1
  <2>3. /\ (q - 1) * BlockSize \in Nat
        /\ q * BlockSize = (q - 1) * BlockSize + BlockSize
    BY <1>2, <2>2, ProductGrows
  <2>4. o - BlockSize = (q - 1) * BlockSize
    BY <1>1, <1>2, <2>3
  <2> QED
    BY <2>2, <2>3, <2>4, Multiples
<1> QED
  BY <1>2, <1>3, <1>4, Multiples

\* Every position of a buffer of whole blocks lies in one of them.
LEMMA BlockOfPosition ==
  ASSUME NEW l \in Nat, l % BlockSize = 0, NEW p \in 1 .. l
  PROVE  \E o \in Nat : /\ o % BlockSize = 0 /\ o < p /\ p <= o + BlockSize
                        /\ o + BlockSize <= l
<1> DEFINE o == ((p - 1) \div BlockSize) * BlockSize
<1>1. /\ p - 1 \in Nat /\ (p - 1) \div BlockSize \in Nat
      /\ p - 1 = o + ((p - 1) % BlockSize) /\ (p - 1) % BlockSize \in 0 .. BlockSize - 1
  BY Division
<1>2. o \in Nat /\ BlockSize \in Nat \ {0}
  BY <1>1, ProductGrows, SizeAssumption
<1>3. o % BlockSize = 0
  BY <1>1, <1>2, Multiples
<1> HIDE DEF o
<1>4. o < p /\ p <= o + BlockSize /\ o < l
  BY <1>1, <1>2
<1>5. o + BlockSize <= l
  BY <1>2, <1>3, <1>4, BlocksFit
<1> QED
  BY <1>2, <1>3, <1>4, <1>5

-----------------------------------------------------------------------------
(* Padding.                                                                *)

LEMMA PaddedSize ==
  ASSUME NEW n \in Nat
  PROVE  /\ pkcs7_padded_size(n) \in Nat
         /\ pkcs7_padded_size(n) - n \in 1 .. BlockSize
         /\ pkcs7_padded_size(n) = (n \div BlockSize + 1) * BlockSize
         /\ pkcs7_padded_size(n) % BlockSize = 0
<1>1. /\ n \div BlockSize \in Nat /\ n % BlockSize \in 0 .. BlockSize - 1
      /\ n = (n \div BlockSize) * BlockSize + (n % BlockSize)
      /\ BlockSize \in Nat \ {0}
  BY Division, SizeAssumption
<1>2. /\ (n \div BlockSize) * BlockSize \in Nat
      /\ (n \div BlockSize + 1) * BlockSize = (n \div BlockSize) * BlockSize + BlockSize
  BY <1>1, ProductGrows
<1>3. pkcs7_padded_size(n) = (n \div BlockSize + 1) * BlockSize
  BY <1>1, <1>2 DEF pkcs7_padded_size
<1>4. /\ pkcs7_padded_size(n) \in Nat /\ pkcs7_padded_size(n) - n \in 1 .. BlockSize
  BY <1>1 DEF pkcs7_padded_size
<1>5. n \div BlockSize + 1 \in Nat
  BY <1>1
<1> QED
  BY <1>3, <1>4, <1>5, Multiples

\* There is only one padding that makes whole blocks.
LEMMA PaddingUnique ==
  ASSUME NEW n \in Nat, NEW pad \in 1 .. BlockSize, (n + pad) % BlockSize = 0
  PROVE  pkcs7_padded_size(n) = n + pad
<1> DEFINE m == pkcs7_padded_size(n)
<1>1. m \in Nat /\ m - n \in 1 .. BlockSize /\ m % BlockSize = 0
  BY PaddedSize
<1>2. n + pad \in Nat /\ BlockSize \in Nat
  BY SizeAssumption
<1> HIDE DEF m
<1>3. m < n + pad => m + BlockSize <= n + pad
  BY <1>1, <1>2, BlocksFit
<1>4. n + pad < m => n + pad + BlockSize <= m
  BY <1>1, <1>2, BlocksFit
<1>5. m = n + pad
  BY <1>1, <1>2, <1>3, <1>4
<1> QED
  BY <1>5 DEF m

LEMMA CrcType ==
  ASSUME NEW t \in Text
  PROVE  /\ t \in Seq(Byte) /\ Len(t) \in Nat
         /\ Crc(t) \in Seq(Byte) /\ Len(Crc(t)) = CrcSize
         /\ CrcSize \in Nat /\ CrcSize + Len(t) \in Nat
<1>1. t \in Seq(Byte) /\ Crc(t) \in [1 .. CrcSize -> Byte] /\ CrcSize \in Nat
  BY DataAssumption, SizeAssumption
<1>2. Len(t) \in Nat
  BY <1>1, LenProperties
<1>3. Crc(t) \in Seq(Byte)
  BY <1>1, SeqDef
<1>4. Len(Crc(t)) = CrcSize
  BY <1>1, <1>3, LenProperties
<1> QED
  BY <1>1, <1>2, <1>3, <1>4

\* The bytes of a padded text, one by one.
LEMMA PaddedBytes ==
  ASSUME NEW t \in Seq(Byte), NEW c, c = Crc(t), c \in Seq(Byte), Len(c) = CrcSize,
         NEW n \in Nat, n = CrcSize + Len(t),
         NEW pad \in 1 .. BlockSize, pad = pkcs7_padded_size(n) - n
  PROVE  /\ Padded(t) \in Seq(Byte) /\ Len(Padded(t)) = n + pad
         /\ \A i \in 1 .. n + pad :
              Padded(t)[i] = IF i <= CrcSize THEN c[i]
                             ELSE IF i <= n THEN t[i - CrcSize] ELSE pad
<1> DEFINE padding == [i \in 1 .. pad |-> pad]
<1>1. Len(t) \in Nat /\ CrcSize \in Nat /\ pad \in Nat /\ pad \in Byte
  BY LenProperties, SizeAssumption
<1>2. padding \in Seq(Byte) /\ Len(padding) = pad /\ \A i \in 1 .. pad : padding[i] = pad
  <2>1. padding \in Seq(Byte)
    BY <1>1, IsASeq
  <2> QED
    BY <1>1, <2>1
<1> HIDE DEF padding
<1> DEFINE ct == c \o t
<1>3. /\ ct \in Seq(Byte) /\ Len(ct) = n
      /\ \A i \in 1 .. n : ct[i] = IF i <= CrcSize THEN c[i] ELSE t[i - CrcSize]
  BY <1>1, ConcatProperties
<1> HIDE DEF ct
<1>4. /\ ct \o padding \in Seq(Byte) /\ Len(ct \o padding) = n + pad
      /\ \A i \in 1 .. n + pad : (ct \o padding)[i] = IF i <= n THEN ct[i] ELSE padding[i - n]
  <2>1. /\ ct \o padding \in Seq(Byte) /\ Len(ct \o padding) = Len(ct) + Len(padding)
        /\ \A i \in 1 .. Len(ct) + Len(padding) : (ct \o padding)[i] =
             IF i <= Len(ct) THEN ct[i] ELSE padding[i - Len(ct)]
    <3>1. ct \in Seq(Byte) /\ padding \in Seq(Byte)
      BY <1>2, <1>3
    <3> QED
      BY <3>1, ConcatProperties
  <2> QED
    BY <1>2, <1>3, <2>1
<1>5. Padded(t) = ct \o padding
  BY DEF Padded, ct, padding
<1>6. ASSUME NEW i \in 1 .. n + pad
      PROVE  Padded(t)[i] = IF i <= CrcSize THEN c[i]
                            ELSE IF i <= n THEN t[i - CrcSize] ELSE pad
  <2>1. CASE i <= n
    <3>1. i \in 1 .. n /\ Padded(t)[i] = ct[i]
      BY <1>4, <1>5, <2>1
    <3> QED
      BY <1>3, <2>1, <3>1
  <2>2. CASE ~ (i <= n)
    <3>1. i - n \in 1 .. pad /\ ~ (i <= CrcSize)
      BY <1>1, <2>2
    <3>2. Padded(t)[i] = padding[i - n]
      BY <1>4, <1>5, <2>2
    <3> QED
      BY <1>2, <2>2, <3>1, <3>2
  <2> QED
    BY <2>1, <2>2
<1> QED
  BY <1>4, <1>5, <1>6

LEMMA PaddedType ==
  ASSUME NEW t \in Text
  PROVE  /\ Padded(t) \in Seq(Byte) /\ Len(Padded(t)) \in Nat \ {0}
         /\ Len(Padded(t)) % BlockSize = 0
         /\ Len(Padded(t)) = ((CrcSize + Len(t)) \div BlockSize + 1) * BlockSize
<1> DEFINE n == CrcSize + Len(t)
           pad == pkcs7_padded_size(n) - n
<1>1. n \in Nat /\ t \in Seq(Byte) /\ Crc(t) \in Seq(Byte) /\ Len(Crc(t)) = CrcSize
  BY CrcType
<1> HIDE DEF n
<1>2. /\ pkcs7_padded_size(n) \in Nat /\ pad \in 1 .. BlockSize
      /\ pkcs7_padded_size(n) = (n \div BlockSize + 1) * BlockSize
      /\ pkcs7_padded_size(n) % BlockSize = 0
  BY <1>1, PaddedSize
<1> HIDE DEF pad
<1>3. Padded(t) \in Seq(Byte) /\ Len(Padded(t)) = n + pad
  BY <1>1, <1>2, PaddedBytes DEF n, pad
<1>4. n + pad = pkcs7_padded_size(n) /\ n + pad # 0
  BY <1>1, <1>2 DEF pad
<1> QED
  BY <1>2, <1>3, <1>4 DEF n

\* A padded text is stripped to the text.
LEMMA StripPadded ==
  ASSUME NEW t \in Text, Len(t) <= UintMax
  PROVE  Stripped(Padded(t)) = Done(t)
<1> DEFINE b == Padded(t)
<1>0. PICK n \in Nat : n = CrcSize + Len(t)
  BY CrcType
<1>1. /\ t \in Seq(Byte) /\ Len(t) \in Nat /\ Crc(t) \in Seq(Byte) /\ Len(Crc(t)) = CrcSize
      /\ CrcSize \in Nat /\ n = CrcSize + Len(t)
  BY <1>0, CrcType
<1>2. PICK pad \in 1 .. BlockSize : pad = pkcs7_padded_size(n) - n
  BY <1>1, PaddedSize
<1>3. pad \in Nat \ {0} /\ pad <= BlockSize
  BY <1>2, SizeAssumption
<1>4. /\ b \in Seq(Byte) /\ Len(b) = n + pad
      /\ \A i \in 1 .. n + pad :
           b[i] = IF i <= CrcSize THEN Crc(t)[i]
                  ELSE IF i <= n THEN t[i - CrcSize] ELSE pad
  BY <1>1, <1>2, PaddedBytes
<1> HIDE DEF b
<1>5. \A i \in 0 .. pad - 1 : b[Len(b) - i] = pad
  <2> SUFFICES ASSUME NEW i \in 0 .. pad - 1 PROVE b[n + pad - i] = pad
    BY <1>4
  <2>1. n + pad - i \in 1 .. n + pad /\ ~ (n + pad - i <= n) /\ ~ (n + pad - i <= CrcSize)
    BY <1>1, <1>3
  <2> QED
    BY <1>4, <2>1
<1>6. b[Len(b)] = pad
  <2>1. 0 \in 0 .. pad - 1 /\ Len(b) - 0 = Len(b)
    BY <1>1, <1>3, <1>4
  <2> QED
    BY <1>5, <2>1
<1>7. Len(b) - b[Len(b)] = n
  BY <1>1, <1>3, <1>4, <1>6
<1>8. SubSeq(b, CrcSize + 1, n) = t
  <2> DEFINE u == SubSeq(b, CrcSize + 1, n)
  <2>1. u \in Seq(Byte) /\ Len(u) = Len(t) /\ \A i \in 1 .. Len(t) : u[i] = b[CrcSize + i]
    <3>1. CrcSize + 1 \in 1 .. n + 1 /\ n \in CrcSize .. n + pad /\ n - CrcSize = Len(t)
      BY <1>1, <1>3
    <3>2. /\ Len(u) = n - (CrcSize + 1) + 1
          /\ \A i \in 1 .. n - (CrcSize + 1) + 1 : u[i] = b[CrcSize + 1 + i - 1]
      BY <1>1, <1>3, <1>4, <3>1, SubSeqProperties
    <3>3. \A i \in CrcSize + 1 .. n : b[i] \in Byte
      <4> SUFFICES ASSUME NEW i \in CrcSize + 1 .. n PROVE b[i] \in Byte
        OBVIOUS
      <4>1. i \in 1 .. Len(b)
        BY <1>1, <1>3, <1>4
      <4> QED
        BY <1>4, <4>1, ElementOfSeq
    <3>4. u \in Seq(Byte)
      BY <1>1, <3>3, SubSeqProperties
    <3>5. n - (CrcSize + 1) + 1 = Len(t) /\ \A i \in 1 .. Len(t) : CrcSize + 1 + i - 1 = CrcSize + i
      BY <1>1
    <3> QED
      BY <3>2, <3>4, <3>5
  <2>2. \A i \in 1 .. Len(t) : u[i] = t[i]
    <3> SUFFICES ASSUME NEW i \in 1 .. Len(t) PROVE b[CrcSize + i] = t[i]
      BY <2>1
    <3> HIDE DEF u
    <3>1. /\ CrcSize + i \in 1 .. n + pad /\ CrcSize + i <= n /\ ~ (CrcSize + i <= CrcSize)
          /\ CrcSize + i - CrcSize = i
      BY <1>1, <1>3
    <3>2. \A k \in 1 .. n + pad : k <= n /\ ~ (k <= CrcSize) => b[k] = t[k - CrcSize]
      BY <1>4
    <3>3. PICK k \in Nat : k = CrcSize + i
      BY <1>1
    <3>4. k - CrcSize = i
      BY <1>1, <3>3
    <3>5. b[k] = t[i]
      BY <3>1, <3>2, <3>3, <3>4
    <3> QED
      BY <3>3, <3>5
  <2> HIDE DEF u
  <2>3. u = t
    BY <1>1, <2>1, <2>2, SeqEqual
  <2> QED
    BY <2>3 DEF u
<1>9. SubSeq(b, 1, CrcSize) = Crc(t)
  <2> DEFINE u == SubSeq(b, 1, CrcSize)
  <2>1. \A i \in 1 .. CrcSize : b[i] \in Byte
    <3> SUFFICES ASSUME NEW i \in 1 .. CrcSize PROVE b[i] \in Byte
      OBVIOUS
    <3>1. i \in 1 .. Len(b)
      BY <1>1, <1>3, <1>4
    <3> QED
      BY <1>4, <3>1, ElementOfSeq
  <2>2. u \in Seq(Byte) /\ Len(u) = CrcSize /\ \A i \in 1 .. CrcSize : u[i] = b[i]
    BY <1>1, <2>1, SubSeqProperties
  <2>3. \A i \in 1 .. CrcSize : u[i] = Crc(t)[i]
    <3> SUFFICES ASSUME NEW i \in 1 .. CrcSize PROVE b[i] = Crc(t)[i]
      BY <2>2
    <3>1. i \in 1 .. n + pad /\ i <= CrcSize
      BY <1>1, <1>3
    <3> QED
      BY <1>4, <3>1
  <2> HIDE DEF u
  <2>4. u = Crc(t)
    BY <1>1, <2>2, <2>3, SeqEqual
  <2> QED
    BY <2>4 DEF u
<1>10. n >= CrcSize /\ n - CrcSize <= UintMax
  BY <1>1
<1>11. b[Len(b)] # 0 /\ b[Len(b)] <= BlockSize
       /\ \A i \in 0 .. b[Len(b)] - 1 : b[Len(b) - i] = b[Len(b)]
  BY <1>3, <1>5, <1>6
<1>12. Stripped(b) = Done(SubSeq(b, CrcSize + 1, n))
  <2> QED
    BY <1>7, <1>8, <1>9, <1>10, <1>11 DEF Stripped
<1> QED
  BY <1>8, <1>12 DEF b

\* A buffer that is stripped to a text is the padded text.
LEMMA StrippedIsPadded ==
  ASSUME NEW b \in Seq(Byte), Len(b) % BlockSize = 0, Len(b) # 0, Stripped(b).ok
  PROVE  b = Padded(Stripped(b).bytes)
<1> DEFINE pad == b[Len(b)]
           n == Len(b) - pad
           t == SubSeq(b, CrcSize + 1, n)
           c == SubSeq(b, 1, CrcSize)
<1>1. ~ Failed.ok
  BY DEF Failed
<1>2. /\ pad # 0 /\ pad <= BlockSize
      /\ \A i \in 0 .. pad - 1 : b[Len(b) - i] = pad
      /\ n >= CrcSize /\ c = Crc(t) /\ Stripped(b) = Done(t)
  <2> HIDE DEF pad, t, c
  <2>1. Stripped(b) # Failed
    BY <1>1
  <2> QED
    BY <2>1 DEF Stripped, pad, t, c
<1>3. Stripped(b).bytes = t
  <2> HIDE DEF t
  <2> QED
    BY <1>2 DEF Done
<1>4. Len(b) \in Nat \ {0} /\ CrcSize \in Nat /\ BlockSize \in Nat \ {0} /\ Byte \subseteq Nat
  BY SizeAssumption, LenProperties
<1>5. \A i \in 1 .. Len(b) : b[i] \in Byte
  BY <1>4, ElementOfSeq
<1>6. pad \in Nat
  <2>1. Len(b) \in 1 .. Len(b)
    BY <1>4
  <2> QED
    BY <1>4, <1>5, <2>1
<1> HIDE DEF pad
<1>7. n \in Nat /\ n + pad = Len(b) /\ pad \in 1 .. BlockSize
  BY <1>2, <1>4, <1>6
<1>8. pad = pkcs7_padded_size(n) - n
  <2> HIDE DEF n
  <2>1. pkcs7_padded_size(n) = n + pad
    BY <1>7, PaddingUnique
  <2> QED
    BY <1>6, <1>7, <2>1
<1>9. c \in Seq(Byte) /\ Len(c) = CrcSize /\ \A i \in 1 .. CrcSize : c[i] = b[i]
  <2> HIDE DEF n
  <2>1. \A i \in 1 .. CrcSize : b[i] \in Byte
    BY <1>2, <1>4, <1>5, <1>6, <1>7
  <2> QED
    BY <1>4, <2>1, SubSeqProperties
<1>10. /\ t \in Seq(Byte) /\ n = CrcSize + Len(t)
       /\ \A i \in CrcSize + 1 .. n : t[i - CrcSize] = b[i]
  <2> HIDE DEF n
  <2>1. \A i \in CrcSize + 1 .. n : b[i] \in Byte
    BY <1>2, <1>4, <1>5, <1>6, <1>7
  <2>2. t \in Seq(Byte)
    BY <1>4, <1>7, <2>1, SubSeqProperties
  <2>3. /\ Len(t) = n - CrcSize
        /\ \A i \in 1 .. n - CrcSize : t[i] = b[CrcSize + i]
    BY <1>2, <1>4, <1>7, SubSeqProperties
  <2> HIDE DEF t
  <2>4. \A i \in CrcSize + 1 .. n : i - CrcSize \in 1 .. n - CrcSize /\ CrcSize + (i - CrcSize) = i
    BY <1>2, <1>4, <1>7
  <2> QED
    BY <1>2, <1>4, <1>7, <2>2, <2>3, <2>4
<1> HIDE DEF n, t, c
<1>11. /\ Padded(t) \in Seq(Byte) /\ Len(Padded(t)) = n + pad
       /\ \A i \in 1 .. n + pad :
            Padded(t)[i] = IF i <= CrcSize THEN c[i]
                           ELSE IF i <= n THEN t[i - CrcSize] ELSE pad
  BY <1>2, <1>7, <1>8, <1>9, <1>10, PaddedBytes
<1>12. ASSUME NEW i \in 1 .. Len(b) PROVE b[i] = Padded(t)[i]
  <2>1. CASE i <= CrcSize
    BY <1>4, <1>7, <1>9, <1>11, <2>1
  <2>2. CASE ~ (i <= CrcSize) /\ i <= n
    <3>1. i \in CrcSize + 1 .. n
      BY <1>4, <1>7, <2>2
    <3> QED
      BY <1>7, <1>10, <1>11, <2>2, <3>1
  <2>3. CASE ~ (i <= n)
    <3>1. Len(b) - i \in 0 .. pad - 1 /\ Len(b) - (Len(b) - i) = i
      BY <1>4, <1>6, <1>7, <2>3
    <3>2. b[i] = pad
      BY <1>2, <3>1
    <3>3. ~ (i <= CrcSize)
      BY <1>2, <1>4, <1>7, <2>3
    <3> QED
      BY <1>7, <1>11, <2>3, <3>2, <3>3
  <2> QED
    BY <2>1, <2>2, <2>3
<1>13. b = Padded(t)
  BY <1>4, <1>7, <1>11, <1>12, SeqEqual
<1> QED
  BY <1>3, <1>13

-----------------------------------------------------------------------------
(* What may be in a file is a sequence of bytes.                           *)

LEMMA LeastNatural ==
  ASSUME NEW S, S \subseteq Nat, S # {}
  PROVE  \E n \in S : \A m \in S : n <= m
<1>1. PICK n \in S : \A m \in S : ~ (<<m, n>> \in OpToRel(<, Nat))
  BY NatLessThanWellFounded, WFMin
<1>2. \A m \in S : m < n <=> <<m, n>> \in OpToRel(<, Nat)
  BY DEF OpToRel
<1>3. \A m \in S : ~ (m < n)
  BY <1>1, <1>2
<1> QED
  BY <1>3

\* g is the function that FlattenSeq computes, on its first m arguments.
Flattens(g, f, m) ==
  g = [i \in 1 .. m |-> IF i = 1 THEN f[i] ELSE g[i - 1] \o f[i]]

LEMMA FlattenExists ==
  ASSUME NEW f, NEW n \in Nat \ {0}
  PROVE  \E g : Flattens(g, f, n)
<1> DEFINE S == {m \in 1 .. n : ~ \E g : Flattens(g, f, m)}
<1> SUFFICES ASSUME S # {} PROVE FALSE
  OBVIOUS
<1>1. PICK m \in S : \A l \in S : m <= l
  <2>1. S \subseteq Nat
    OBVIOUS
  <2> HIDE DEF S
  <2> QED
    BY <2>1, LeastNatural
<1>2. CASE m = 1
  <2> DEFINE h == [i \in 1 .. 1 |-> f[i]]
  <2>1. Flattens(h, f, 1)
    BY DEF Flattens
  <2> QED
    BY <1>1, <1>2, <2>1
<1>3. CASE m # 1
  <2>1. m - 1 \in 1 .. n /\ m - 1 \notin S /\ m \in Nat
    BY <1>1, <1>3
  <2>2. PICK g : Flattens(g, f, m - 1)
    BY <2>1
  <2> DEFINE h == [i \in 1 .. m |-> IF i <= m - 1 THEN g[i] ELSE g[m - 1] \o f[m]]
  <2>3. ASSUME NEW i \in 1 .. m
        PROVE  h[i] = IF i = 1 THEN f[i] ELSE h[i - 1] \o f[i]
    <3>1. CASE i = m
      <4>1. h[i] = g[m - 1] \o f[m] /\ h[m - 1] = g[m - 1]
        <5>1. m - 1 \in 1 .. m /\ m \in 1 .. m /\ ~ (m <= m - 1)
          BY <2>1
        <5> DEFINE last == g[m - 1] \o f[m]
        <5>2. \A x \in 1 .. m : h[x] = IF x <= m - 1 THEN g[x] ELSE last
          OBVIOUS
        <5> HIDE DEF h, last
        <5>3. h[m] = last /\ h[m - 1] = g[m - 1]
          BY <2>1, <5>1, <5>2
        <5> QED
          BY <3>1, <5>3 DEF last
      <4> QED
        BY <1>3, <3>1, <4>1
    <3>2. CASE i # m
      <4>1. i \in 1 .. m - 1 /\ h[i] = g[i]
        BY <2>1, <3>2
      <4>2. g[i] = IF i = 1 THEN f[i] ELSE g[i - 1] \o f[i]
        BY <2>2, <4>1 DEF Flattens
      <4>3. i # 1 => h[i - 1] = g[i - 1]
        BY <2>1, <4>1
      <4> QED
        BY <4>1, <4>2, <4>3
    <3> QED
      BY <3>1, <3>2
  <2>4. Flattens(h, f, m)
    <3>1. h = [i \in 1 .. m |-> h[i]]
      OBVIOUS
    <3> HIDE DEF h
    <3> QED
      BY <2>3, <3>1 DEF Flattens
  <2> QED
    BY <1>1, <2>4
<1> QED
  BY <1>2, <1>3

LEMMA FlattenType ==
  ASSUME NEW T, NEW f \in Seq(Seq(T))
  PROVE  FlattenSeq(f) \in Seq(T)
<1>1. Len(f) \in Nat /\ \A i \in 1 .. Len(f) : f[i] \in Seq(T)
  BY LenProperties, ElementOfSeq
<1>2. CASE Len(f) = 0
  BY <1>2, EmptySeq DEF FlattenSeq
<1>3. CASE Len(f) # 0
  <2> DEFINE g == CHOOSE g : Flattens(g, f, Len(f))
  <2>1. FlattenSeq(f) = g[Len(f)]
    BY <1>3 DEF FlattenSeq, Flattens
  <2>2. Flattens(g, f, Len(f))
    BY <1>1, <1>3, FlattenExists
  <2> HIDE DEF g
  <2> DEFINE S == {m \in 1 .. Len(f) : g[m] \notin Seq(T)}
  <2>3. ASSUME S # {} PROVE FALSE
    <3>1. PICK m \in S : \A l \in S : m <= l
      <4>1. S \subseteq Nat
        BY <1>1
      <4> HIDE DEF S
      <4> QED
        BY <2>3, <4>1, LeastNatural
    <3>2. m \in 1 .. Len(f) /\ m \in Nat
      BY <1>1, <3>1
    <3>3. g[m] = IF m = 1 THEN f[m] ELSE g[m - 1] \o f[m]
      BY <2>2, <3>2 DEF Flattens
    <3>4. CASE m = 1
      BY <1>1, <3>1, <3>2, <3>3, <3>4
    <3>5. CASE m # 1
      <4>1. m - 1 \in 1 .. Len(f) /\ m - 1 \notin S
        BY <3>1, <3>2, <3>5
      <4>2. g[m - 1] \in Seq(T) /\ f[m] \in Seq(T)
        BY <1>1, <3>2, <4>1
      <4>3. g[m - 1] \o f[m] \in Seq(T)
        BY <4>2, ConcatProperties
      <4> QED
        BY <3>1, <3>3, <3>5, <4>3
    <3> QED
      BY <3>4, <3>5
  <2>4. Len(f) \in 1 .. Len(f)
    BY <1>1, <1>3
  <2> QED
    BY <2>1, <2>3, <2>4
<1> QED
  BY <1>2, <1>3

LEMMA BlocksOfType ==
  ASSUME NEW c \in Seq(Byte)
  PROVE  BlocksOf(c) \subseteq Seq(Byte)
<1>1. Len(c) \in Nat /\ BlockSize \in Nat \ {0}
  BY LenProperties, SizeAssumption
<1>2. PICK m \in Nat : m = Len(c) \div BlockSize
  BY <1>1, Division
<1>3. m * BlockSize \in Nat /\ m * BlockSize <= Len(c)
  <2>1. m * BlockSize \in Nat
    BY <1>1, ProductGrows
  <2>2. /\ Len(c) % BlockSize \in 0 .. BlockSize - 1
        /\ Len(c) = m * BlockSize + (Len(c) % BlockSize)
    BY <1>1, <1>2, Division
  <2> QED
    BY <1>1, <2>1, <2>2
<1>4. ASSUME NEW i \in 0 .. m - 1
      PROVE  SubSeq(c, i * BlockSize + 1, (i + 1) * BlockSize) \in Seq(Byte)
  <2>1. i \in Nat /\ i + 1 \in Nat /\ i <= i + 1 /\ i + 1 <= m
    BY <1>2
  <2>2. /\ i * BlockSize \in Nat /\ (i + 1) * BlockSize \in Nat
        /\ (i + 1) * BlockSize <= m * BlockSize
    BY <1>1, <1>2, <2>1, ProductGrows
  <2>3. PICK a \in Nat, z \in Nat : a = i * BlockSize /\ z = (i + 1) * BlockSize
    BY <2>2
  <2>4. z <= Len(c)
    BY <1>1, <1>3, <2>2, <2>3
  <2>5. \A j \in a + 1 .. z : c[j] \in Byte
    BY <1>1, <2>4, ElementOfSeq
  <2>6. SubSeq(c, a + 1, z) \in Seq(Byte)
    BY <2>5, SubSeqProperties
  <2> QED
    BY <2>3, <2>6
<1> QED
  BY <1>2, <1>4 DEF BlocksOf

LEMMA MessagesType ==
  ASSUME \A s \in stored : s.cipher \in Seq(Byte)
  PROVE  \A m \in Messages : m \in Seq(Byte)
<1>1. CASE stored = {}
  BY <1>1, DataAssumption DEF Messages
<1>2. CASE stored # {}
  <2>1. ASSUME NEW s \in stored, NEW f \in BoundedSeq(BlocksOf(s.cipher), Len(s.cipher) \div BlockSize)
        PROVE  FlattenSeq(f) \in Seq(Byte)
    <3>1. s.cipher \in Seq(Byte) /\ Len(s.cipher) \in Nat /\ BlockSize \in Nat \ {0}
      BY LenProperties, SizeAssumption
    <3>2. BlocksOf(s.cipher) \subseteq Seq(Byte)
      BY <3>1, BlocksOfType
    <3>3. PICK n \in Nat : f \in [1 .. n -> Seq(Byte)]
      <4>1. PICK n \in 0 .. Len(s.cipher) \div BlockSize : f \in [1 .. n -> BlocksOf(s.cipher)]
        BY <2>1 DEF BoundedSeq, SeqOf
      <4> QED
        BY <3>2, <4>1
    <3>4. f \in Seq(Seq(Byte))
      BY <3>3, SeqDef
    <3> QED
      BY <3>4, FlattenType
  <2> QED
    BY <1>2, <2>1 DEF Messages
<1> QED
  BY <1>1, <1>2

-----------------------------------------------------------------------------
(* Blocks of a buffer.                                                     *)

BlockAt(s, o) == SubSeq(s, o + 1, o + BlockSize)

\* Where the blocks of a buffer begin.
Starts(s) == {o \in Nat : o % BlockSize = 0 /\ o + BlockSize <= Len(s)}

\* The block that the block at o is chained to.
Before(s, iv, o) == IF o = 0 THEN iv ELSE BlockAt(s, o - BlockSize)

LEMMA BlockAtType ==
  ASSUME NEW s \in Seq(Byte), NEW o \in Nat, o + BlockSize <= Len(s)
  PROVE  BlockAt(s, o) \in Block /\ \A i \in 1 .. BlockSize : BlockAt(s, o)[i] = s[o + i]
<1>1. Len(s) \in Nat /\ BlockSize \in Nat \ {0}
  BY LenProperties, SizeAssumption
<1>2. \A i \in o + 1 .. o + BlockSize : s[i] \in Byte
  BY <1>1, ElementOfSeq
<1> DEFINE b == SubSeq(s, o + 1, o + BlockSize)
<1>3. /\ b \in Seq(Byte) /\ Len(b) = o + BlockSize - (o + 1) + 1
      /\ \A i \in 1 .. o + BlockSize - (o + 1) + 1 : b[i] = s[o + 1 + i - 1]
  BY <1>1, <1>2, SubSeqProperties
<1> HIDE DEF b
<1>4. Len(b) = BlockSize /\ \A i \in 1 .. BlockSize : b[i] = s[o + i]
  BY <1>1, <1>3
<1>5. b \in [1 .. BlockSize -> Byte]
  BY <1>3, <1>4, LenProperties
<1> QED
  BY <1>4, <1>5 DEF BlockAt, Block, b

LEMMA SameBlock ==
  ASSUME NEW b \in [1 .. BlockSize -> Byte], NEW c \in [1 .. BlockSize -> Byte],
         \A i \in 1 .. BlockSize : b[i] = c[i]
  PROVE  b = c
<1>1. b = [i \in 1 .. BlockSize |-> b[i]] /\ c = [i \in 1 .. BlockSize |-> c[i]]
  OBVIOUS
<1>2. [i \in 1 .. BlockSize |-> b[i]] = [i \in 1 .. BlockSize |-> c[i]]
  BY Zenon
<1> QED
  BY <1>1, <1>2, Zenon

\* Buffers of whole blocks are equal when their blocks are.
LEMMA BlocksDecide ==
  ASSUME NEW s \in Seq(Byte), NEW t \in Seq(Byte), Len(s) = Len(t), Len(s) % BlockSize = 0,
         \A o \in Starts(s) : BlockAt(s, o) = BlockAt(t, o)
  PROVE  s = t
<1>1. Len(s) \in Nat /\ BlockSize \in Nat \ {0}
  BY LenProperties, SizeAssumption
<1>2. ASSUME NEW p \in 1 .. Len(s) PROVE s[p] = t[p]
  <2>1. PICK o \in Nat : o % BlockSize = 0 /\ o < p /\ p <= o + BlockSize /\ o + BlockSize <= Len(s)
    BY <1>1, BlockOfPosition
  <2>2. BlockAt(s, o) = BlockAt(t, o)
    BY <2>1 DEF Starts
  <2>3. p \in Nat /\ p - o \in 1 .. BlockSize /\ o + (p - o) = p
    BY <1>1, <2>1
  <2>4. BlockAt(s, o)[p - o] = s[o + (p - o)] /\ BlockAt(t, o)[p - o] = t[o + (p - o)]
    BY <2>1, <2>3, BlockAtType
  <2> QED
    BY <2>2, <2>3, <2>4
<1> QED
  BY <1>2, SeqEqual

\* s with the block at o replaced.
Patched(s, o, b) ==
  [p \in 1 .. Len(s) |-> IF o < p /\ p <= o + BlockSize THEN b[p - o] ELSE s[p]]

LEMMA PatchedBlocks ==
  ASSUME NEW s \in Seq(Byte), NEW o \in Starts(s), NEW b \in Block
  PROVE  /\ Patched(s, o, b) \in Seq(Byte) /\ Len(Patched(s, o, b)) = Len(s)
         /\ BlockAt(Patched(s, o, b), o) = b
         /\ \A q \in Starts(s) : q # o => BlockAt(Patched(s, o, b), q) = BlockAt(s, q)
<1> DEFINE r == Patched(s, o, b)
<1>1. /\ Len(s) \in Nat /\ BlockSize \in Nat \ {0} /\ o \in Nat
      /\ o % BlockSize = 0 /\ o + BlockSize <= Len(s)
  BY LenProperties, SizeAssumption DEF Starts
<1>2. b \in [1 .. BlockSize -> Byte]
  BY DEF Block
<1>3. r \in Seq(Byte) /\ Len(r) = Len(s)
      /\ \A p \in 1 .. Len(s) : r[p] = IF o < p /\ p <= o + BlockSize THEN b[p - o] ELSE s[p]
  <2> DEFINE e(p) == IF o < p /\ p <= o + BlockSize THEN b[p - o] ELSE s[p]
  <2>1. ASSUME NEW p \in 1 .. Len(s) PROVE e(p) \in Byte
    <3>1. CASE o < p /\ p <= o + BlockSize
      <4>1. p - o \in 1 .. BlockSize
        BY <1>1, <3>1
      <4> QED
        BY <1>2, <3>1, <4>1
    <3>2. CASE ~ (o < p /\ p <= o + BlockSize)
      BY <3>2, ElementOfSeq
    <3> QED
      BY <3>1, <3>2
  <2>2. r = [p \in 1 .. Len(s) |-> e(p)]
    BY DEF Patched
  <2> HIDE DEF e, r
  <2>3. r \in Seq(Byte)
    BY <1>1, <2>1, <2>2, IsASeq
  <2>4. Len(r) = Len(s) /\ \A p \in 1 .. Len(s) : r[p] = e(p)
    BY <1>1, <2>2, <2>3
  <2> QED
    BY <2>3, <2>4 DEF e
<1> HIDE DEF r
<1>4. BlockAt(r, o) = b
  <2>1. BlockAt(r, o) \in [1 .. BlockSize -> Byte]
        /\ \A i \in 1 .. BlockSize : BlockAt(r, o)[i] = r[o + i]
    BY <1>1, <1>3, BlockAtType DEF Block
  <2>2. ASSUME NEW i \in 1 .. BlockSize PROVE r[o + i] = b[i]
    <3>1. o + i \in 1 .. Len(s) /\ o < o + i /\ o + i <= o + BlockSize /\ o + i - o = i
      BY <1>1
    <3>2. PICK p \in 1 .. Len(s) : p = o + i
      BY <3>1
    <3>3. r[p] = b[p - o]
      BY <1>3, <3>1, <3>2
    <3>4. p - o = i
      BY <1>1, <3>2
    <3> QED
      BY <3>2, <3>3, <3>4
  <2>3. \A i \in 1 .. BlockSize : BlockAt(r, o)[i] = b[i]
    <3> SUFFICES ASSUME NEW i \in 1 .. BlockSize PROVE BlockAt(r, o)[i] = b[i]
      OBVIOUS
    <3>1. BlockAt(r, o)[i] = r[o + i] /\ r[o + i] = b[i]
      BY <2>1, <2>2
    <3> QED
      BY <3>1
  <2> QED
    BY <1>2, <2>1, <2>3, SameBlock
<1>5. ASSUME NEW q \in Starts(s), q # o PROVE BlockAt(r, q) = BlockAt(s, q)
  <2>1. q \in Nat /\ q % BlockSize = 0 /\ q + BlockSize <= Len(s)
    BY DEF Starts
  <2>2. q + BlockSize <= o \/ o + BlockSize <= q
    BY <1>1, <1>5, <2>1, BlocksFit
  <2>3. /\ BlockAt(r, q) \in [1 .. BlockSize -> Byte]
        /\ BlockAt(s, q) \in [1 .. BlockSize -> Byte]
        /\ \A i \in 1 .. BlockSize : BlockAt(r, q)[i] = r[q + i] /\ BlockAt(s, q)[i] = s[q + i]
    BY <1>1, <1>3, <2>1, BlockAtType DEF Block
  <2>4. ASSUME NEW i \in 1 .. BlockSize PROVE r[q + i] = s[q + i]
    <3>1. q + i \in 1 .. Len(s) /\ ~ (o < q + i /\ q + i <= o + BlockSize)
      BY <1>1, <2>1, <2>2
    <3>2. PICK p \in 1 .. Len(s) : p = q + i
      BY <3>1
    <3>3. r[p] = s[p]
      BY <1>3, <3>1, <3>2
    <3> QED
      BY <3>2, <3>3
  <2>5. \A i \in 1 .. BlockSize : BlockAt(r, q)[i] = BlockAt(s, q)[i]
    <3> SUFFICES ASSUME NEW i \in 1 .. BlockSize PROVE BlockAt(r, q)[i] = BlockAt(s, q)[i]
      OBVIOUS
    <3>1. BlockAt(r, q)[i] = r[q + i] /\ BlockAt(s, q)[i] = s[q + i] /\ r[q + i] = s[q + i]
      BY <2>3, <2>4
    <3> QED
      BY <3>1
  <2> QED
    BY <2>3, <2>5, SameBlock
<1> QED
  BY <1>3, <1>4, <1>5 DEF r

-----------------------------------------------------------------------------
(* Chaining.                                                               *)

\* c is p with the blocks before n encrypted, each chained to the one before.
IsEncrypted(c, p, w, iv, n) ==
  /\ Len(c) = Len(p)
  /\ \A o \in Starts(c) :
       BlockAt(c, o) = IF o < n THEN Encrypt(w, XorBlock(BlockAt(p, o), Before(c, iv, o)))
                                ELSE BlockAt(p, o)

\* d is c with the blocks before n decrypted.
IsDecrypted(d, c, w, iv, n) ==
  /\ Len(d) = Len(c)
  /\ \A o \in Starts(d) :
       BlockAt(d, o) = IF o < n THEN XorBlock(Decrypt(w, BlockAt(c, o)), Before(c, iv, o))
                                ELSE BlockAt(c, o)

LEMMA XorType ==
  ASSUME NEW b \in Block, NEW c \in Block
  PROVE  XorBlock(b, c) \in Block
BY CipherAssumption DEF XorBlock, Block

LEMMA BeforeType ==
  ASSUME NEW s \in Seq(Byte), NEW iv \in Block,
         NEW o \in Nat, o % BlockSize = 0, o <= Len(s)
  PROVE  /\ Before(s, iv, o) \in Block
         /\ o # 0 => o - BlockSize \in Starts(s) /\ o - BlockSize < o
<1>1. BlockSize \in Nat \ {0} /\ Len(s) \in Nat
  BY SizeAssumption, LenProperties
<1>2. ASSUME o # 0 PROVE o - BlockSize \in Starts(s) /\ o - BlockSize < o
  BY <1>1, <1>2, NextMultiple DEF Starts
<1>3. ASSUME o # 0 PROVE BlockAt(s, o - BlockSize) \in Block
  <2>1. o - BlockSize \in Nat /\ o - BlockSize + BlockSize <= Len(s)
    BY <1>1, <1>2, <1>3 DEF Starts
  <2> QED
    BY <2>1, BlockAtType
<1> QED
  BY <1>2, <1>3 DEF Before

\* The blocks before the next one are those up to this one.
LEMMA StartsBefore ==
  ASSUME NEW s, NEW n \in Starts(s), NEW o \in Starts(s)
  PROVE  o < n + BlockSize <=> o < n \/ o = n
<1>1. /\ BlockSize \in Nat \ {0} /\ n \in Nat /\ o \in Nat
      /\ n % BlockSize = 0 /\ o % BlockSize = 0
  BY SizeAssumption DEF Starts
<1>2. n < o => n + BlockSize <= o
  BY <1>1, BlocksFit
<1> QED
  BY <1>1, <1>2

LEMMA EncryptStep ==
  ASSUME NEW c \in Seq(Byte), NEW p, NEW w, NEW iv \in Block, NEW n \in Starts(c),
         IsEncrypted(c, p, w, iv, n),
         NEW b \in Block, b = Encrypt(w, XorBlock(BlockAt(c, n), Before(c, iv, n)))
  PROVE  /\ IsEncrypted(Patched(c, n, b), p, w, iv, n + BlockSize)
         /\ b = Before(Patched(c, n, b), iv, n + BlockSize)
<1> DEFINE r == Patched(c, n, b)
<1>1. /\ r \in Seq(Byte) /\ Len(r) = Len(c) /\ BlockAt(r, n) = b
      /\ \A q \in Starts(c) : q # n => BlockAt(r, q) = BlockAt(c, q)
  BY PatchedBlocks
<1> HIDE DEF r
<1>2. Starts(r) = Starts(c)
  BY <1>1 DEF Starts
<1>3. n \in Nat /\ BlockSize \in Nat \ {0}
  BY SizeAssumption DEF Starts
<1>4. ASSUME NEW o \in Starts(c), o < n \/ o = n PROVE Before(r, iv, o) = Before(c, iv, o)
  <2>1. /\ o \in Nat /\ o % BlockSize = 0 /\ o + BlockSize <= Len(c) /\ o <= Len(c)
    BY <1>3, LenProperties DEF Starts
  <2>2. o # 0 => o - BlockSize \in Starts(c) /\ o - BlockSize < o
    BY <2>1, BeforeType
  <2>3. o # 0 => o - BlockSize # n
    BY <1>3, <1>4, <2>1, <2>2
  <2> QED
    BY <1>1, <2>2, <2>3 DEF Before
<1>5. ASSUME NEW o \in Starts(c)
      PROVE  BlockAt(r, o) =
               IF o < n + BlockSize THEN Encrypt(w, XorBlock(BlockAt(p, o), Before(r, iv, o)))
                                    ELSE BlockAt(p, o)
  <2>1. BlockAt(c, o) = IF o < n THEN Encrypt(w, XorBlock(BlockAt(p, o), Before(c, iv, o)))
                                 ELSE BlockAt(p, o)
    BY DEF IsEncrypted
  <2>2. CASE o = n
    <3>1. BlockAt(c, o) = BlockAt(p, o) /\ ~ (o < n)
      BY <1>3, <2>1, <2>2
    <3> QED
      BY <1>1, <1>4, <2>2, <3>1, StartsBefore
  <2>3. CASE o # n
    <3>1. BlockAt(r, o) = BlockAt(c, o)
      BY <1>1, <2>3
    <3>2. o < n + BlockSize <=> o < n
      BY <2>3, StartsBefore
    <3> QED
      BY <1>4, <2>1, <3>1, <3>2
  <2> QED
    BY <2>2, <2>3
<1>6. IsEncrypted(r, p, w, iv, n + BlockSize)
  BY <1>1, <1>2, <1>5 DEF IsEncrypted
<1>7. b = Before(r, iv, n + BlockSize)
  <2>1. PICK l \in Nat : l = n + BlockSize
    BY <1>3
  <2>2. l # 0 /\ l - BlockSize = n
    BY <1>3, <2>1
  <2> QED
    BY <1>1, <2>1, <2>2 DEF Before
<1> QED
  BY <1>6, <1>7 DEF r

LEMMA DecryptStep ==
  ASSUME NEW d \in Seq(Byte), NEW c, NEW w, NEW iv \in Block, NEW n \in Starts(d),
         IsDecrypted(d, c, w, iv, n),
         NEW b \in Block, b = XorBlock(Decrypt(w, BlockAt(d, n)), Before(c, iv, n))
  PROVE  /\ IsDecrypted(Patched(d, n, b), c, w, iv, n + BlockSize)
         /\ BlockAt(d, n) = Before(c, iv, n + BlockSize)
<1> DEFINE r == Patched(d, n, b)
<1>1. /\ r \in Seq(Byte) /\ Len(r) = Len(d) /\ BlockAt(r, n) = b
      /\ \A q \in Starts(d) : q # n => BlockAt(r, q) = BlockAt(d, q)
  BY PatchedBlocks
<1> HIDE DEF r
<1>2. Starts(r) = Starts(d)
  BY <1>1 DEF Starts
<1>3. n \in Nat /\ BlockSize \in Nat \ {0} /\ ~ (n < n)
  BY SizeAssumption DEF Starts
<1>4. BlockAt(d, n) = BlockAt(c, n)
  BY <1>3 DEF IsDecrypted
<1>5. ASSUME NEW o \in Starts(d)
      PROVE  BlockAt(r, o) =
               IF o < n + BlockSize THEN XorBlock(Decrypt(w, BlockAt(c, o)), Before(c, iv, o))
                                    ELSE BlockAt(c, o)
  <2>1. BlockAt(d, o) = IF o < n THEN XorBlock(Decrypt(w, BlockAt(c, o)), Before(c, iv, o))
                                 ELSE BlockAt(c, o)
    BY DEF IsDecrypted
  <2>2. CASE o = n
    BY <1>1, <1>4, <2>2, StartsBefore
  <2>3. CASE o # n
    <3>1. BlockAt(r, o) = BlockAt(d, o)
      BY <1>1, <2>3
    <3>2. o < n + BlockSize <=> o < n
      BY <2>3, StartsBefore
    <3> QED
      BY <2>1, <3>1, <3>2
  <2> QED
    BY <2>2, <2>3
<1>6. IsDecrypted(r, c, w, iv, n + BlockSize)
  BY <1>1, <1>2, <1>5 DEF IsDecrypted
<1>7. BlockAt(d, n) = Before(c, iv, n + BlockSize)
  <2>1. PICK l \in Nat : l = n + BlockSize
    BY <1>3
  <2>2. l # 0 /\ l - BlockSize = n
    BY <1>3, <2>1
  <2> QED
    BY <1>4, <2>1, <2>2 DEF Before
<1> QED
  BY <1>6, <1>7 DEF r

\* What BlocksComeBack checks of the cipher and the code's ^ is on bytes.
CipherUndone ==
  /\ \A k \in Key, b \in Block : Decrypt(Derive(k), Encrypt(Derive(k), b)) = b
  /\ \A x, y \in Byte : XorByte(XorByte(x, y), y) = x

LEMMA XorUndone ==
  ASSUME CipherUndone, NEW b \in Block, NEW c \in Block
  PROVE  XorBlock(XorBlock(b, c), c) = b
<1>1. b \in [1 .. BlockSize -> Byte] /\ c \in [1 .. BlockSize -> Byte]
      /\ XorBlock(b, c) \in [1 .. BlockSize -> Byte]
      /\ XorBlock(XorBlock(b, c), c) \in [1 .. BlockSize -> Byte]
  BY XorType DEF Block
<1>2. ASSUME NEW i \in 1 .. BlockSize PROVE XorBlock(XorBlock(b, c), c)[i] = b[i]
  <2>1. b[i] \in Byte /\ c[i] \in Byte
    BY <1>1
  <2>2. XorBlock(XorBlock(b, c), c)[i] = XorByte(XorByte(b[i], c[i]), c[i])
    BY DEF XorBlock
  <2> QED
    BY <2>1, <2>2 DEF CipherUndone
<1> QED
  BY <1>1, <1>2, SameBlock

\* A buffer that was encrypted, and then decrypted, is what it was.
LEMMA DecryptUndoesEncrypt ==
  ASSUME CipherUndone, NEW k \in Key, NEW iv \in Block,
         NEW p \in Seq(Byte), Len(p) % BlockSize = 0,
         NEW c \in Seq(Byte), NEW n \in Nat, n >= Len(c), IsEncrypted(c, p, Derive(k), iv, n),
         NEW d \in Seq(Byte), NEW m \in Nat, m >= Len(d), IsDecrypted(d, c, Derive(k), iv, m)
  PROVE  d = p
<1>1. /\ Len(d) = Len(c) /\ Len(c) = Len(p) /\ Len(c) \in Nat /\ BlockSize \in Nat \ {0}
      /\ Starts(c) = Starts(d) /\ Starts(p) = Starts(d)
  BY LenProperties, SizeAssumption DEF IsEncrypted, IsDecrypted, Starts
<1>2. ASSUME NEW o \in Starts(d) PROVE BlockAt(d, o) = BlockAt(p, o)
  <2>1. o \in Nat /\ o % BlockSize = 0 /\ o + BlockSize <= Len(c) /\ o <= Len(c) /\ o < n /\ o < m
    BY <1>1 DEF Starts
  <2> DEFINE x == BlockAt(p, o)
             y == Before(c, iv, o)
  <2>2. x \in Block /\ y \in Block
    BY <1>1, <2>1, BlockAtType, BeforeType
  <2>3. BlockAt(c, o) = Encrypt(Derive(k), XorBlock(x, y))
    BY <1>1, <2>1 DEF IsEncrypted
  <2>4. BlockAt(d, o) = XorBlock(Decrypt(Derive(k), BlockAt(c, o)), y)
    BY <2>1 DEF IsDecrypted
  <2> HIDE DEF x, y
  <2>5. Decrypt(Derive(k), BlockAt(c, o)) = XorBlock(x, y)
    BY <2>2, <2>3, XorType DEF CipherUndone
  <2>6. BlockAt(d, o) = x
    BY <2>2, <2>4, <2>5, XorUndone
  <2> QED
    BY <2>6 DEF x
<1> QED
  BY <1>1, <1>2, BlocksDecide

-----------------------------------------------------------------------------
(* The inductive invariant.                                                *)

\* A call that has begun has its arguments and its words.
BegunOK ==
  call \in [input : Seq(Byte), key : Key, iv : Iv] /\ words = Derive(call.key)

\* In its loop, its buffer holds whole blocks, at least one, and the offset is
\* at the beginning of one or at the end.
WorkingOK ==
  /\ call \in [input : Seq(Byte), key : Key, iv : Iv] /\ words = Derive(call.key)
  /\ working \in Seq(Byte) /\ Len(working) % BlockSize = 0 /\ Len(working) # 0
  /\ offset \in Nat /\ offset % BlockSize = 0 /\ offset <= Len(working)

EncryptOK ==
  /\ call.input \in Text /\ Len(call.input) <= UintMax
  /\ IsEncrypted(working, Padded(call.input), words, call.iv, offset)
  /\ previous = Before(working, call.iv, offset)

DecryptOK ==
  /\ IsDecrypted(working, call.input, words, call.iv, offset)
  /\ previous = Before(call.input, call.iv, offset)

StoredOK(s) ==
  /\ s.call \in [input : Text, key : Key, iv : Iv] /\ Len(s.call.input) <= UintMax
  /\ s.cipher \in Seq(Byte)
  /\ IsEncrypted(s.cipher, Padded(s.call.input), Derive(s.call.key), s.call.iv, Len(s.cipher))

\* After its loop, decryption still owns the whole buffer, until it is freed.
WipingOK ==
  /\ working \in Seq(Byte) /\ Len(working) = Len(call.input) /\ Len(working) % BlockSize = 0
  /\ pc = "free" => working = Zeros(Len(working))

IInv ==
  /\ pc \in {"idle", "pad", "encrypt", "copy", "decrypt", "wipe", "free"}
  /\ pc \in {"idle", "pad", "copy"} => working = << >>
  /\ pc \in {"pad", "copy"} => BegunOK
  /\ pc = "pad" => call.input \in Text
  /\ pc = "copy" => Len(call.input) # 0 /\ Len(call.input) % BlockSize = 0
  /\ pc \in {"encrypt", "decrypt"} => WorkingOK
  /\ pc = "encrypt" => EncryptOK
  /\ pc = "decrypt" => DecryptOK
  /\ pc \in {"wipe", "free"} => WipingOK
  /\ pc \in {"wipe", "free", "idle"} => words = << >>
  /\ \A s \in stored : StoredOK(s)
  /\ freed = Zeros(Len(freed))

LEMMA CallType ==
  ASSUME WorkingOK
  PROVE  /\ call.input \in Seq(Byte) /\ call.key \in Key /\ call.iv \in Iv /\ call.iv \in Block
         /\ Len(working) \in Nat /\ BlockSize \in Nat \ {0}
BY DataAssumption, SizeAssumption, LenProperties DEF WorkingOK

LEMMA InitInvariant == Init => IInv
<1> SUFFICES ASSUME Init PROVE IInv
  OBVIOUS
<1>1. freed = Zeros(Len(freed))
  BY DEF Init, Zeros
<1> QED
  BY <1>1 DEF Init, IInv

\* A step that leaves the history and the freed memory alone.
LEMMA HistoryStays ==
  ASSUME IInv, UNCHANGED <<freed, stored>>
  PROVE  freed' = Zeros(Len(freed')) /\ \A s \in stored' : StoredOK(s)
BY DEF IInv

LEMMA RejectInvariant ==
  ASSUME IInv, pc = "idle", Reject
  PROVE  IInv'
<1>1. freed' = Zeros(Len(freed')) /\ \A s \in stored' : StoredOK(s)
  BY HistoryStays DEF Reject
<1>2. pc' = "idle" /\ working' = << >> /\ words' = << >>
  BY DEF Reject, locals, IInv
<1> QED
  BY <1>1, <1>2 DEF IInv

\* A call that has its words and no buffer yet.
LEMMA BeginInvariant ==
  ASSUME IInv, pc = "idle", NEW next \in {"pad", "copy"}, NEW input \in Seq(Byte), NEW key \in Key,
         NEW iv \in Iv, Begin(next, input, key, iv),
         IF next = "pad" THEN input \in Text
                         ELSE Len(input) # 0 /\ Len(input) % BlockSize = 0
  PROVE  IInv'
<1>1. /\ pc' = next /\ call'.input = input /\ call'.key = key
      /\ call' \in [input : Seq(Byte), key : Key, iv : Iv]
      /\ words' = Derive(key) /\ working' = << >>
  BY DEF Begin, IInv
<1>2. freed' = Zeros(Len(freed')) /\ \A s \in stored' : StoredOK(s)
  BY HistoryStays DEF Begin
<1>3. BegunOK'
  BY <1>1 DEF BegunOK
<1> QED
  BY <1>1, <1>2, <1>3 DEF IInv

LEMMA BeginEncryptInvariant ==
  ASSUME IInv, NEW t \in Text, NEW k \in Key, NEW v \in Iv, BeginEncrypt(t, k, v)
  PROVE  IInv'
<1>1. t \in Seq(Byte)
  BY DataAssumption
<1> QED
  BY <1>1, BeginInvariant, RejectInvariant DEF BeginEncrypt

LEMMA BeginDecryptInvariant ==
  ASSUME IInv, NEW c \in Messages, NEW k \in Key, NEW v \in Iv, BeginDecrypt(c, k, v)
  PROVE  IInv'
<1>1. c \in Seq(Byte)
  BY MessagesType DEF IInv, StoredOK
<1> QED
  BY <1>1, BeginInvariant, RejectInvariant DEF BeginDecrypt

\* Nothing is encrypted or decrypted at the beginning of a loop.
LEMMA LoopInvariant ==
  ASSUME IInv, BegunOK, NEW next \in {"encrypt", "decrypt"}, NEW buffer \in Seq(Byte),
         Loop(next, buffer),
         Len(buffer) % BlockSize = 0, Len(buffer) # 0,
         IF next = "encrypt"
           THEN call.input \in Text /\ Len(call.input) <= UintMax /\ buffer = Padded(call.input)
           ELSE buffer = call.input
  PROVE  IInv'
<1>1. /\ pc' = next /\ call' = call /\ words' = words /\ working' = buffer
      /\ offset' = 0 /\ previous' = call.iv
  BY DEF Loop
<1>2. freed' = Zeros(Len(freed')) /\ \A s \in stored' : StoredOK(s)
  BY HistoryStays DEF Loop
<1>3. WorkingOK'
  <2>1. 0 \in Nat /\ 0 % BlockSize = 0 /\ Len(buffer) \in Nat
    BY LenProperties, Multiples, SizeAssumption
  <2> QED
    BY <1>1, <2>1 DEF WorkingOK, BegunOK
<1>4. \A o \in Starts(buffer) : ~ (o < 0)
  BY DEF Starts
<1>5. next = "encrypt" => EncryptOK'
  BY <1>1, <1>4 DEF EncryptOK, IsEncrypted, Before
<1>6. next = "decrypt" => DecryptOK'
  BY <1>1, <1>4 DEF DecryptOK, IsDecrypted, Before
<1> QED
  BY <1>1, <1>2, <1>3, <1>5, <1>6 DEF IInv

LEMMA NoBufferInvariant ==
  ASSUME IInv, NoBuffer
  PROVE  IInv'
<1>1. freed' = Zeros(Len(freed')) /\ \A s \in stored' : StoredOK(s)
  BY HistoryStays DEF NoBuffer
<1>2. pc' = "idle" /\ working' = << >> /\ words' = << >>
  BY DEF NoBuffer, Return
<1> QED
  BY <1>1, <1>2 DEF IInv

LEMMA PadInvariant ==
  ASSUME IInv, Pad
  PROVE  IInv'
<1>1. BegunOK /\ call.input \in Text
  BY DEF IInv, Pad
<1>2. /\ Padded(call.input) \in Seq(Byte) /\ Len(Padded(call.input)) # 0
      /\ Len(Padded(call.input)) % BlockSize = 0
  BY <1>1, PaddedType
<1> QED
  BY <1>1, <1>2, LoopInvariant, NoBufferInvariant DEF Pad

LEMMA CopyInvariant ==
  ASSUME IInv, Copy
  PROVE  IInv'
<1>1. BegunOK /\ Len(call.input) # 0 /\ Len(call.input) % BlockSize = 0
  BY DEF IInv, Copy
<1>2. call.input \in Seq(Byte)
  BY <1>1 DEF BegunOK
<1> QED
  BY <1>1, <1>2, LoopInvariant, NoBufferInvariant DEF Copy

\* The block at the offset is the next one.
LEMMA NextBlock ==
  ASSUME WorkingOK, offset < Len(working)
  PROVE  /\ offset \in Starts(working) /\ Current = BlockAt(working, offset) /\ Current \in Block
         /\ \A b : WithCurrent(b) = Patched(working, offset, b)
         /\ offset + BlockSize \in Nat /\ (offset + BlockSize) % BlockSize = 0
         /\ offset + BlockSize <= Len(working)
<1>1. Len(working) \in Nat
  BY CallType
<1>2. offset + BlockSize <= Len(working)
  BY <1>1, BlocksFit DEF WorkingOK
<1>3. offset \in Starts(working)
  BY <1>2 DEF WorkingOK, Starts
<1>4. Current = BlockAt(working, offset) /\ \A b : WithCurrent(b) = Patched(working, offset, b)
  BY DEF Current, BlockAt, WithCurrent, Patched
<1>5. Current \in Block
  BY <1>2, <1>4, BlockAtType DEF WorkingOK
<1> QED
  BY <1>2, <1>3, <1>4, <1>5, NextMultiple DEF WorkingOK

LEMMA EncryptBlockInvariant ==
  ASSUME IInv, EncryptBlock
  PROVE  IInv'
<1>1. WorkingOK /\ EncryptOK /\ pc = "encrypt" /\ offset < Len(working)
  BY DEF IInv, EncryptBlock
<1>2. /\ offset \in Starts(working) /\ Current = BlockAt(working, offset) /\ Current \in Block
      /\ \A b : WithCurrent(b) = Patched(working, offset, b)
      /\ offset + BlockSize \in Nat /\ (offset + BlockSize) % BlockSize = 0
      /\ offset + BlockSize <= Len(working)
  BY <1>1, NextBlock
<1>3. previous \in Block /\ working \in Seq(Byte) /\ call.iv \in Block /\ call.key \in Key
  BY <1>1, CallType, BeforeType DEF WorkingOK, EncryptOK
<1> DEFINE b == Encrypt(words, XorBlock(Current, previous))
<1>4. b \in Block
  BY <1>1, <1>2, <1>3, XorType, CipherAssumption DEF WorkingOK
<1>5. b = Encrypt(words, XorBlock(BlockAt(working, offset), Before(working, call.iv, offset)))
  BY <1>1, <1>2 DEF EncryptOK
<1>6. /\ working' = Patched(working, offset, b) /\ previous' = b
      /\ offset' = offset + BlockSize
      /\ pc' = pc /\ call' = call /\ words' = words /\ UNCHANGED <<freed, stored>>
  BY <1>2 DEF EncryptBlock
<1> HIDE DEF b
<1>7. working' \in Seq(Byte) /\ Len(working') = Len(working)
  BY <1>2, <1>3, <1>4, <1>6, PatchedBlocks
<1>8. /\ IsEncrypted(Patched(working, offset, b), Padded(call.input), words, call.iv,
                     offset + BlockSize)
      /\ b = Before(Patched(working, offset, b), call.iv, offset + BlockSize)
  BY <1>1, <1>2, <1>3, <1>4, <1>5, EncryptStep DEF EncryptOK
<1>9. WorkingOK'
  BY <1>1, <1>2, <1>6, <1>7 DEF WorkingOK
<1>10. EncryptOK'
  BY <1>1, <1>6, <1>8 DEF EncryptOK
<1> QED
  BY <1>1, <1>6, <1>9, <1>10, HistoryStays DEF IInv

LEMMA DecryptBlockInvariant ==
  ASSUME IInv, DecryptBlock
  PROVE  IInv'
<1>1. WorkingOK /\ DecryptOK /\ pc = "decrypt" /\ offset < Len(working)
  BY DEF IInv, DecryptBlock
<1>2. /\ offset \in Starts(working) /\ Current = BlockAt(working, offset) /\ Current \in Block
      /\ \A b : WithCurrent(b) = Patched(working, offset, b)
      /\ offset + BlockSize \in Nat /\ (offset + BlockSize) % BlockSize = 0
      /\ offset + BlockSize <= Len(working)
  BY <1>1, NextBlock
<1>3. /\ previous \in Block /\ working \in Seq(Byte) /\ call.iv \in Block /\ call.key \in Key
  BY <1>1, CallType, BeforeType DEF WorkingOK, DecryptOK, IsDecrypted
<1> DEFINE b == XorBlock(Decrypt(words, Current), previous)
<1>4. b \in Block
  BY <1>1, <1>2, <1>3, XorType, CipherAssumption DEF WorkingOK
<1>5. b = XorBlock(Decrypt(words, BlockAt(working, offset)), Before(call.input, call.iv, offset))
  BY <1>1, <1>2 DEF DecryptOK
<1>6. /\ working' = Patched(working, offset, b) /\ previous' = BlockAt(working, offset)
      /\ offset' = offset + BlockSize
      /\ pc' = pc /\ call' = call /\ words' = words /\ UNCHANGED <<freed, stored>>
  BY <1>2 DEF DecryptBlock
<1> HIDE DEF b
<1>7. working' \in Seq(Byte) /\ Len(working') = Len(working)
  BY <1>2, <1>3, <1>4, <1>6, PatchedBlocks
<1>8. /\ IsDecrypted(Patched(working, offset, b), call.input, words, call.iv, offset + BlockSize)
      /\ BlockAt(working, offset) = Before(call.input, call.iv, offset + BlockSize)
  BY <1>1, <1>2, <1>3, <1>4, <1>5, DecryptStep DEF DecryptOK
<1>9. WorkingOK'
  BY <1>1, <1>2, <1>6, <1>7 DEF WorkingOK
<1>10. DecryptOK'
  BY <1>1, <1>6, <1>8 DEF DecryptOK
<1> QED
  BY <1>1, <1>6, <1>9, <1>10, HistoryStays DEF IInv

LEMMA EndEncryptInvariant ==
  ASSUME IInv, EndEncrypt
  PROVE  IInv'
<1>1. WorkingOK /\ EncryptOK /\ pc = "encrypt" /\ offset >= Len(working)
  BY DEF IInv, EndEncrypt
<1>2. offset = Len(working)
  BY <1>1, CallType DEF WorkingOK
<1> DEFINE s == [call |-> call, cipher |-> working]
<1>3. StoredOK(s)
  <2>1. s.call = call /\ s.cipher = working
    OBVIOUS
  <2>2. call \in [input : Text, key : Key, iv : Iv]
    BY <1>1 DEF WorkingOK, EncryptOK
  <2> HIDE DEF s
  <2> QED
    BY <1>1, <1>2, <2>1, <2>2 DEF StoredOK, WorkingOK, EncryptOK
<1> HIDE DEF s
<1>4. /\ pc' = "idle" /\ working' = << >> /\ words' = << >>
      /\ freed' = freed /\ stored' = stored \cup {s}
  BY DEF EndEncrypt, Return, s
<1> QED
  BY <1>3, <1>4 DEF IInv

LEMMA EndDecryptInvariant ==
  ASSUME IInv, EndDecrypt
  PROVE  IInv'
<1>1. WorkingOK /\ DecryptOK
  BY DEF IInv, EndDecrypt
<1>2. pc' = "wipe" /\ words' = << >> /\ working' = working /\ call' = call
  BY DEF EndDecrypt
<1>3. freed' = Zeros(Len(freed')) /\ \A s \in stored' : StoredOK(s)
  BY HistoryStays DEF EndDecrypt
<1>4. WipingOK'
  BY <1>1, <1>2 DEF WipingOK, WorkingOK, DecryptOK, IsDecrypted
<1> QED
  BY <1>2, <1>3, <1>4 DEF IInv

LEMMA ZerosType ==
  ASSUME NEW n \in Nat
  PROVE  Zeros(n) \in Seq(Byte) /\ Len(Zeros(n)) = n
<1>1. 0 \in Byte
  BY SizeAssumption
<1>2. Zeros(n) = [i \in 1 .. n |-> Zeros(n)[i]] /\ \A i \in 1 .. n : Zeros(n)[i] \in Byte
  BY <1>1 DEF Zeros
<1> QED
  BY <1>2, IsASeq

\* Wiping with the size of the message reaches every byte of the buffer.
LEMMA WipeInvariant ==
  ASSUME IInv, Wipe
  PROVE  IInv'
<1>1. /\ WipingOK /\ pc = "wipe" /\ Len(working) \in Nat
      /\ DOMAIN working = 1 .. Len(working)
  BY LenProperties DEF IInv, Wipe, WipingOK
<1>2. pc' = "free" /\ words' = words /\ call' = call /\ words = << >>
  BY DEF Wipe, IInv
<1>3. freed' = Zeros(Len(freed')) /\ \A s \in stored' : StoredOK(s)
  BY HistoryStays DEF Wipe
<1>4. working' = Zeros(Len(working))
  <2>1. working' = [i \in 1 .. Len(working) |-> IF i <= Len(working) THEN 0 ELSE working[i]]
    BY <1>1 DEF Wipe, WipingOK, secure_zero_memory
  <2>2. \A i \in 1 .. Len(working) : i <= Len(working)
    BY <1>1
  <2> QED
    BY <2>1, <2>2 DEF Zeros
<1>5. working' \in Seq(Byte) /\ Len(working') = Len(working)
  BY <1>1, <1>4, ZerosType
<1>6. WipingOK'
  BY <1>1, <1>2, <1>4, <1>5 DEF WipingOK
<1> QED
  BY <1>2, <1>3, <1>6 DEF IInv

LEMMA FreeInvariant ==
  ASSUME IInv, Free
  PROVE  IInv'
<1>1. working = Zeros(Len(working)) /\ words = << >>
  BY DEF IInv, WipingOK, Free
<1>2. /\ pc' = "idle" /\ working' = << >> /\ words' = words
      /\ freed' = working /\ stored' = stored
  BY DEF Free, Return
<1> QED
  BY <1>1, <1>2 DEF IInv

LEMMA NextInvariant ==
  ASSUME IInv, [Next]_vars
  PROVE  IInv'
<1>1. CASE UNCHANGED vars
  BY <1>1, HistoryStays
     DEF vars, locals, IInv, BegunOK, WorkingOK, EncryptOK, DecryptOK, WipingOK
<1> QED
  BY <1>1, BeginEncryptInvariant, PadInvariant, EncryptBlockInvariant, EndEncryptInvariant,
     BeginDecryptInvariant, CopyInvariant, DecryptBlockInvariant, EndDecryptInvariant,
     WipeInvariant, FreeInvariant DEF Next

\* Each call has encrypted or decrypted the blocks before its offset, and no
\* other, and every stored message is its whole padded text encrypted.
THEOREM Invariant == Spec => []IInv
BY InitInvariant, NextInvariant, PTL DEF Spec

\* The loop ends exactly at the end of its buffer, and an encrypted text has
\* the size that the format gives it.
THEOREM TypeCorrect == Spec => []TypeOK
<1>1. IInv => TypeOK
  <2> SUFFICES ASSUME IInv PROVE TypeOK
    OBVIOUS
  <2>1. working \in Seq(Byte) /\ Len(working) % BlockSize = 0
    <3>1. CASE pc \in {"idle", "pad", "copy"}
      <4>1. Len(<< >>) % BlockSize = 0
        BY Multiples, SizeAssumption
      <4>2. working = << >>
        BY <3>1 DEF IInv
      <4>3. << >> \in Seq(Byte)
        OBVIOUS
      <4> QED
        BY <4>1, <4>2, <4>3
    <3>2. CASE pc \in {"encrypt", "decrypt"}
      BY <3>2 DEF IInv, WorkingOK
    <3>3. CASE pc \in {"wipe", "free"}
      BY <3>3 DEF IInv, WipingOK
    <3> QED
      BY <3>1, <3>2, <3>3 DEF IInv
  <2>2. ASSUME pc \in {"encrypt", "decrypt"}
        PROVE  offset <= Len(working) /\ offset % BlockSize = 0 /\ previous \in Block
    <3>1. WorkingOK /\ call.input \in Seq(Byte) /\ call.iv \in Block
      BY <2>2, CallType DEF IInv
    <3>2. CASE pc = "encrypt"
      BY <3>1, <3>2, BeforeType DEF IInv, WorkingOK, EncryptOK
    <3>3. CASE pc = "decrypt"
      BY <3>1, <3>3, BeforeType DEF IInv, WorkingOK, DecryptOK, IsDecrypted
    <3> QED
      BY <2>2, <3>2, <3>3
  <2>3. ASSUME NEW s \in stored
        PROVE  Len(s.cipher) = ((CrcSize + Len(s.call.input)) \div BlockSize + 1) * BlockSize
    BY PaddedType DEF IInv, StoredOK, IsEncrypted
  <2> QED
    BY <2>1, <2>2, <2>3 DEF TypeOK, IInv
<1> QED
  BY <1>1, Invariant, PTL

\* Decryption, under the key and the IV of a stored message, ends with the
\* padded text in the buffer, and takes the text out of it: for every text,
\* and for every block cipher whose directions undo each other.
THEOREM TextsComeBack ==
  ASSUME CipherUndone
  PROVE  Spec => []RoundTrip
<1>1. IInv => RoundTrip
  <2> SUFFICES ASSUME IInv, NEW s \in stored, pc = "decrypt", offset >= Len(working),
                      call = [s.call EXCEPT !.input = s.cipher]
               PROVE  Stripped(working) = Done(s.call.input)
    BY DEF RoundTrip
  <2>1. /\ StoredOK(s) /\ WorkingOK /\ DecryptOK
    BY DEF IInv
  <2> DEFINE t == s.call.input
             c == s.cipher
             k == s.call.key
             iv == s.call.iv
  <2>2. /\ t \in Text /\ k \in Key /\ iv \in Iv /\ Len(t) <= UintMax /\ c \in Seq(Byte)
        /\ IsEncrypted(c, Padded(t), Derive(k), iv, Len(c))
    BY <2>1 DEF StoredOK
  <2>3. call.input = c /\ call.key = k /\ call.iv = iv
    BY <2>1 DEF StoredOK
  <2>4. IsDecrypted(working, c, Derive(k), iv, offset)
    BY <2>1, <2>3 DEF WorkingOK, DecryptOK
  <2> HIDE DEF t, c, k, iv
  <2>5. /\ Padded(t) \in Seq(Byte) /\ Len(Padded(t)) % BlockSize = 0
        /\ iv \in Block /\ Len(c) \in Nat /\ offset \in Nat /\ working \in Seq(Byte)
    BY <2>1, <2>2, PaddedType, DataAssumption, LenProperties DEF WorkingOK
  <2>6. Len(c) >= Len(c)
    BY <2>5
  <2>7. working = Padded(t)
    BY <2>2, <2>4, <2>5, <2>6, DecryptUndoesEncrypt
  <2> QED
    BY <2>2, <2>7, StripPadded DEF t
<1> QED
  BY <1>1, Invariant, PTL

\* Whatever the file holds, a text that comes out is the text whose padded
\* form was in the buffer.
THEOREM AcceptsOnlyWhatIsWritten == Spec => OnlyWhatIsWritten
<1>1. IInv /\ [Next]_vars => [EndDecrypt /\ result'.ok => working = Padded(result'.bytes)]_vars
  <2> SUFFICES ASSUME IInv, EndDecrypt, result'.ok PROVE working = Padded(result'.bytes)
    OBVIOUS
  <2>1. WorkingOK
    BY DEF IInv, EndDecrypt
  <2>2. result' = Stripped(working)
    BY DEF EndDecrypt, Failed
  <2> QED
    BY <2>1, <2>2, StrippedIsPadded DEF WorkingOK
<1> QED
  BY <1>1, Invariant, PTL DEF Spec, OnlyWhatIsWritten

\* On every way out of either call the buffer of decryption is zero to its last
\* byte when it is freed, since the size it is wiped with is still its size, and
\* the key words are gone from the frame.
THEOREM NothingIsLeft == Spec => []NothingLeft
<1>1. IInv => NothingLeft
  BY DEF IInv, NothingLeft
<1> QED
  BY <1>1, Invariant, PTL

-----------------------------------------------------------------------------
(* Quotients and remainders of any divisor.                                *)

LEMMA DivisionBy ==
  ASSUME NEW n \in Int, NEW b \in Nat \ {0}
  PROVE  /\ n \div b \in Int /\ n % b \in 0 .. b - 1
         /\ n = (n \div b) * b + (n % b)
         /\ n \in Nat => n \div b \in Nat
OBVIOUS

LEMMA QuotientUnique ==
  ASSUME NEW b \in Nat \ {0}, NEW a \in Int, NEW r \in 0 .. b - 1,
         NEW c \in Int, NEW s \in 0 .. b - 1,
         a * b + r = c * b + s
  PROVE  a = c /\ r = s
<1>0. ASSUME NEW x \in Int, NEW y \in Int, x < y PROVE x * b + b <= y * b
  <2>1. PICK d \in Nat : y = x + 1 + d
    <3>1. y - x - 1 \in Nat /\ y = x + 1 + (y - x - 1)
      BY <1>0
    <3> QED
      BY <3>1
  <2>2. y * b = x * b + b + d * b
    BY <2>1
  <2>3. \A p, q \in Nat : p * q \in Nat
    OBVIOUS
  <2>4. \A p, q \in Int : p * q \in Int
    OBVIOUS
  <2>5. d * b \in Nat /\ x * b \in Int /\ y * b \in Int
    BY <2>3, <2>4
  <2> QED
    BY <2>2, <2>5
<1> DEFINE A == a * b
           C == c * b
<1>1. A \in Int /\ C \in Int
  <2>1. \A p, q \in Int : p * q \in Int
    OBVIOUS
  <2> QED
    BY <2>1
<1>2. (a < c => A + b <= C) /\ (c < a => C + b <= A) /\ A + r = C + s
  BY <1>0
<1> HIDE DEF A, C
<1>3. ~ (a < c) /\ ~ (c < a)
  BY <1>1, <1>2
<1>4. a = c
  BY <1>3
<1>5. A = C
  BY <1>4 DEF A, C
<1> QED
  BY <1>1, <1>2, <1>4, <1>5

\* The remainder of a number that is written as quotient and remainder.
LEMMA QuotientIs ==
  ASSUME NEW b \in Nat \ {0}, NEW q \in Int, NEW r \in 0 .. b - 1, NEW n \in Int, n = q * b + r
  PROVE  n \div b = q /\ n % b = r
BY DivisionBy, QuotientUnique

-----------------------------------------------------------------------------
(* Recursive functions of an argument that counts from 0.                  *)

LEMMA IterationType ==
  ASSUME NEW T, NEW m \in Nat, NEW step \in [1 .. m -> [T -> T]], NEW f, f[0] \in T,
         \A n \in 1 .. m : f[n - 1] \in T => f[n] = step[n][f[n - 1]]
  PROVE  \A n \in 0 .. m : f[n] \in T
<1> DEFINE S == {n \in 0 .. m : f[n] \notin T}
<1> SUFFICES ASSUME S # {} PROVE FALSE
  OBVIOUS
<1>1. PICK n \in S : \A l \in S : n <= l
  <2>1. S \subseteq Nat
    OBVIOUS
  <2> HIDE DEF S
  <2> QED
    BY <2>1, LeastNatural
<1>2. n # 0 /\ n \in 1 .. m
  BY <1>1
<1>3. n - 1 \in 0 .. m /\ n - 1 \notin S
  BY <1>1, <1>2
<1>4. f[n - 1] \in T /\ f[n] = step[n][f[n - 1]] /\ step[n] \in [T -> T]
  BY <1>2, <1>3
<1> QED
  BY <1>1, <1>4

\* There is a function that starts with a, and whose value at n is step[n] of
\* the value before.
LEMMA IterationExists ==
  ASSUME NEW T, NEW a \in T, NEW m \in Nat, NEW step \in [1 .. m -> [T -> T]]
  PROVE  \E f \in [0 .. m -> T] : f[0] = a /\ \A n \in 1 .. m : f[n] = step[n][f[n - 1]]
<1> DEFINE Iterates(f, n) ==
             /\ f \in [0 .. n -> T] /\ f[0] = a
             /\ \A i \in 1 .. n : f[i] = step[i][f[i - 1]]
           S == {n \in 0 .. m : ~ \E f : Iterates(f, n)}
<1>1. ASSUME S # {} PROVE FALSE
  <2>1. PICK n \in S : \A l \in S : n <= l
    <3>1. S \subseteq Nat
      OBVIOUS
    <3> HIDE DEF S
    <3> QED
      BY <1>1, <3>1, LeastNatural
  <2>2. CASE n = 0
    <3> DEFINE h == [i \in 0 .. 0 |-> a]
    <3>1. Iterates(h, 0)
      OBVIOUS
    <3> QED
      BY <2>1, <2>2, <3>1
  <2>3. CASE n # 0
    <3>1. n \in 1 .. m /\ n - 1 \in 0 .. m /\ n - 1 \notin S
      BY <2>1, <2>3
    <3>2. PICK g : Iterates(g, n - 1)
      BY <3>1
    <3> DEFINE last == step[n][g[n - 1]]
               h == [i \in 0 .. n |-> IF i <= n - 1 THEN g[i] ELSE last]
    <3>3. h[n] = last /\ \A i \in 0 .. n - 1 : h[i] = g[i]
      BY <3>1
    <3>4. last \in T
      <4>1. n - 1 \in 0 .. n - 1 /\ step[n] \in [T -> T]
        BY <3>1
      <4> QED
        BY <3>2, <4>1
    <3> HIDE DEF last
    <3>5. h \in [0 .. n -> T]
      BY <3>2, <3>4
    <3> HIDE DEF h
    <3>6. ASSUME NEW i \in 1 .. n PROVE h[i] = step[i][h[i - 1]]
      <4>1. CASE i = n
        BY <3>1, <3>3, <4>1 DEF last
      <4>2. CASE i # n
        <5>1. i \in 1 .. n - 1 /\ i \in 0 .. n - 1 /\ i - 1 \in 0 .. n - 1
          BY <3>1, <4>2
        <5> QED
          BY <3>2, <3>3, <5>1
      <4> QED
        BY <4>1, <4>2
    <3>7. h[0] = a
      BY <3>1, <3>2, <3>3
    <3>8. Iterates(h, n)
      BY <3>5, <3>6, <3>7
    <3> QED
      BY <2>1, <3>8
  <2> QED
    BY <2>2, <2>3
<1>2. PICK f : Iterates(f, m)
  <2>1. m \in 0 .. m
    OBVIOUS
  <2> QED
    BY <1>1, <2>1
<1> QED
  BY <1>2

-----------------------------------------------------------------------------
(* The powers and the words.                                               *)

LEMMA Powers ==
  /\ \A n \in 0 .. WordBytes : Power[n] \in Nat \ {0}
  /\ Power[0] = 1
  /\ \A n \in 1 .. WordBytes : Power[n] = ByteValues * Power[n - 1]
<1> DEFINE T == Nat \ {0}
           step == [n \in 1 .. WordBytes |-> [x \in T |-> ByteValues * x]]
           Body(f) == f = [n \in 0 .. WordBytes |-> IF n = 0 THEN 1 ELSE ByteValues * f[n - 1]]
<1>1. WordBytes \in Nat /\ ByteValues \in Nat \ {0} /\ 1 \in T
  BY XteaAssumption
<1>2. \A x \in T : ByteValues * x \in T
  <2>1. \A x, y \in Nat \ {0} : x * y \in Nat \ {0}
    OBVIOUS
  <2> QED
    BY <1>1, <2>1
<1>3. /\ step \in [1 .. WordBytes -> [T -> T]]
      /\ \A n \in 1 .. WordBytes, x \in T : step[n][x] = ByteValues * x
  BY <1>2
<1> HIDE DEF step, T
<1>4. PICK g \in [0 .. WordBytes -> T] :
        g[0] = 1 /\ \A n \in 1 .. WordBytes : g[n] = step[n][g[n - 1]]
  BY <1>1, <1>3, IterationExists
<1>5. Body(g)
  <2>1. ASSUME NEW n \in 0 .. WordBytes PROVE g[n] = IF n = 0 THEN 1 ELSE ByteValues * g[n - 1]
    <3>1. CASE n = 0
      BY <1>4, <3>1
    <3>2. CASE n # 0
      <4>1. n \in 1 .. WordBytes /\ n - 1 \in 0 .. WordBytes
        BY <1>1, <3>2
      <4> QED
        BY <1>3, <1>4, <3>2, <4>1
    <3> QED
      BY <3>1, <3>2
  <2>2. g = [n \in 0 .. WordBytes |-> g[n]]
    BY <1>4
  <2> QED
    BY <2>1, <2>2
<1>6. Body(Power)
  <2>1. Power = CHOOSE f : Body(f)
    BY DEF Power
  <2> HIDE DEF Body
  <2> QED
    BY <1>5, <2>1
<1>7. Power[0] = 1 /\ \A n \in 1 .. WordBytes : Power[n] = ByteValues * Power[n - 1]
  BY <1>1, <1>6
<1>8. ASSUME NEW n \in 1 .. WordBytes, Power[n - 1] \in T PROVE Power[n] = step[n][Power[n - 1]]
  BY <1>3, <1>7, <1>8
<1>9. \A n \in 0 .. WordBytes : Power[n] \in T
  BY <1>1, <1>3, <1>7, <1>8, IterationType
<1> QED
  BY <1>7, <1>9 DEF T

LEMMA WordType ==
  /\ Power[WordBytes] \in Nat \ {0} /\ Word \subseteq Nat /\ 0 \in Word
  /\ \A n \in Int : Wrap(n) \in Word
  /\ \A n \in Word : Wrap(n) = n
<1>1. WordBytes \in 0 .. WordBytes
  BY XteaAssumption
<1>2. Power[WordBytes] \in Nat \ {0}
  BY <1>1, Powers
<1> DEFINE P == Power[WordBytes]
<1> HIDE DEF P
<1>3. P \in Nat \ {0} /\ Word = 0 .. P - 1 /\ \A n : Wrap(n) = n % P
  BY <1>2 DEF P, Word, Wrap
<1>4. ASSUME NEW n \in 0 .. P - 1 PROVE n % P = n
  <2>1. n = 0 * P + n /\ 0 \in Int /\ n \in Int
    BY <1>3
  <2> QED
    BY <1>3, <2>1, QuotientIs
<1>5. \A n \in Int : n % P \in 0 .. P - 1
  BY <1>3, DivisionBy
<1>6. (\A n \in Int : Wrap(n) \in Word) /\ (\A n \in Word : Wrap(n) = n)
  BY <1>3, <1>4, <1>5
<1>7. Word \subseteq Nat /\ 0 \in Word
  BY <1>3
<1> QED
  BY <1>2, <1>6, <1>7

\* What Wrap forgets is a multiple.
LEMMA RemainderIs ==
  ASSUME NEW b \in Nat \ {0}, NEW q \in Int, NEW r \in 0 .. b - 1
  PROVE  (q * b + r) % b = r
<1>1. q * b + r \in Int
  <2>1. q * b \in Int /\ r \in Int
    OBVIOUS
  <2> QED
    BY <2>1
<1>2. PICK n \in Int : n = q * b + r
  BY <1>1
<1> QED
  BY <1>2, QuotientIs

LEMMA WrapMultiple ==
  ASSUME NEW y \in Int, NEW k \in Int
  PROVE  Wrap(y + k * Power[WordBytes]) = Wrap(y)
<1>1. PICK p \in Nat \ {0} : p = Power[WordBytes]
  BY WordType
<1>2. PICK q \in Int, r \in 0 .. p - 1 : y = q * p + r
  BY DivisionBy
<1>3. q + k \in Int /\ y + k * p = (q + k) * p + r
  <2>1. \A a, b, c \in Int : (a + b) * c = a * c + b * c /\ a * c \in Int
    OBVIOUS
  <2>2. (q + k) * p = q * p + k * p /\ q * p \in Int /\ k * p \in Int /\ r \in Int
    BY <2>1
  <2> QED
    BY <1>2, <2>2
<1>4. y % p = r
  BY <1>2, RemainderIs
<1>5. (y + k * p) % p = r
  BY <1>3, RemainderIs
<1> QED
  BY <1>1, <1>4, <1>5 DEF Wrap

LEMMA WrapPlus ==
  ASSUME NEW x \in Int, NEW y \in Int
  PROVE  Wrap(Wrap(x) + y) = Wrap(x + y) /\ Wrap(Wrap(x) - y) = Wrap(x - y)
<1> DEFINE P == Power[WordBytes]
<1>1. P \in Nat \ {0} /\ \A z : Wrap(z) = z % P
  BY WordType DEF Wrap
<1> HIDE DEF P
<1>2. PICK k \in Int : Wrap(x) = x - k * P
  <2>1. x \div P \in Int /\ x % P \in Int /\ x = (x \div P) * P + (x % P)
    BY <1>1, DivisionBy
  <2>2. PICK k \in Int : k = x \div P
    BY <2>1
  <2>3. k * P \in Int
    BY <1>1
  <2>4. x % P = x - k * P
    BY <2>1, <2>2, <2>3
  <2> QED
    BY <1>1, <2>4
<1>3. Wrap(x) \in Int
  <2>1. Wrap(x) \in Word /\ Word \subseteq Nat
    BY WordType
  <2>2. Wrap(x) \in Nat
    BY <2>1, Zenon
  <2> QED
    BY <2>2
<1>4. x + y = (Wrap(x) + y) + k * P /\ x - y = (Wrap(x) - y) + k * P
  <2>1. k * P \in Int
    BY <1>1
  <2> QED
    BY <1>2, <1>3, <2>1
<1>5. x + y \in Int /\ Wrap(x) + y \in Int /\ x - y \in Int /\ Wrap(x) - y \in Int
  BY <1>3
<1> QED
  BY <1>4, <1>5, WrapMultiple DEF P

\* An addition that wraps around is undone by the subtraction, and the other
\* way round.
LEMMA WrapUndone ==
  ASSUME NEW x \in Word, NEW m \in Word
  PROVE  Wrap(Wrap(x + m) - m) = x /\ Wrap(Wrap(x - m) + m) = x
<1>1. x \in Int /\ m \in Int /\ x + m \in Int /\ x - m \in Int
  BY WordType
<1>2. Wrap(Wrap(x + m) - m) = Wrap(x + m - m) /\ Wrap(Wrap(x - m) + m) = Wrap(x - m + m)
  BY <1>1, WrapPlus
<1>3. x + m - m = x /\ x - m + m = x
  BY <1>1
<1> QED
  BY <1>2, <1>3, WordType

-----------------------------------------------------------------------------
(* Words and their bytes.                                                  *)

\* value[n] is the number that the first n digits make.
Values(d, value) ==
  /\ value[0] = 0
  /\ \A n \in 1 .. WordBytes : value[n] = value[n - 1] + d[n] * Power[n - 1]

Digits == [1 .. WordBytes -> 0 .. ByteValues - 1]

LEMMA ValueBelow ==
  ASSUME NEW d \in Digits, NEW value, Values(d, value)
  PROVE  \A n \in 0 .. WordBytes : value[n] \in 0 .. Power[n] - 1
<1> DEFINE S == {n \in 0 .. WordBytes : value[n] \notin 0 .. Power[n] - 1}
<1> SUFFICES ASSUME S # {} PROVE FALSE
  OBVIOUS
<1>0. WordBytes \in Nat /\ ByteValues \in Nat \ {0}
  BY XteaAssumption
<1>1. PICK n \in S : \A l \in S : n <= l
  <2>1. S \subseteq Nat
    BY <1>0
  <2> HIDE DEF S
  <2> QED
    BY <2>1, LeastNatural
<1>2. n # 0
  <2>1. 0 \in 0 .. Power[0] - 1
    BY Powers
  <2> QED
    BY <1>1, <2>1 DEF Values
<1>3. n \in 1 .. WordBytes /\ n - 1 \in 0 .. WordBytes /\ n - 1 \notin S
  BY <1>0, <1>1, <1>2
<1>4. PICK p \in Nat \ {0} : p = Power[n - 1]
  BY <1>3, Powers
<1>5. PICK v \in 0 .. p - 1 : v = value[n - 1]
  BY <1>3, <1>4
<1>6. PICK c \in 0 .. ByteValues - 1 : c = d[n]
  BY <1>3 DEF Digits
<1>7. Power[n] = ByteValues * p /\ value[n] = v + c * p
  BY <1>3, <1>4, <1>5, <1>6, Powers DEF Values
<1>8. c + 1 \in Nat /\ c \in Nat /\ c + 1 <= ByteValues /\ p \in Nat
  BY <1>0, <1>4, <1>6
<1>9. (c + 1) * p <= ByteValues * p /\ (c + 1) * p = c * p + p /\ c * p \in Nat
      /\ ByteValues * p \in Nat
  BY <1>0, <1>8, ProductGrows
<1>10. v + c * p \in 0 .. ByteValues * p - 1
  <2>2. PICK x \in Nat, y \in Nat : x = c * p /\ y = ByteValues * p
    BY <1>9
  <2>3. x + p <= y
    BY <1>9, <2>2
  <2>4. v + x \in 0 .. y - 1
    BY <1>4, <1>5, <2>2, <2>3
  <2> QED
    BY <2>2, <2>4
<1> QED
  BY <1>1, <1>7, <1>10

\* Two words with the same value have the same digits.
LEMMA ValueDecides ==
  ASSUME NEW d \in Digits, NEW value, Values(d, value),
         NEW e \in Digits, NEW other, Values(e, other),
         value[WordBytes] = other[WordBytes]
  PROVE  d = e
<1>0. WordBytes \in Nat /\ ByteValues \in Nat \ {0}
  BY XteaAssumption
<1>1. ASSUME NEW n \in 1 .. WordBytes, value[n] = other[n]
      PROVE  value[n - 1] = other[n - 1] /\ d[n] = e[n]
  <2>1. n - 1 \in 0 .. WordBytes
    BY <1>0
  <2>2. PICK p \in Nat \ {0} : p = Power[n - 1]
    BY <2>1, Powers
  <2>3. PICK v \in 0 .. p - 1 : v = value[n - 1]
    BY <2>1, <2>2, ValueBelow
  <2>4. PICK w \in 0 .. p - 1 : w = other[n - 1]
    BY <2>1, <2>2, ValueBelow
  <2>5. PICK a \in 0 .. ByteValues - 1 : a = d[n]
    BY DEF Digits
  <2>6. PICK b \in 0 .. ByteValues - 1 : b = e[n]
    BY DEF Digits
  <2>7. v + a * p = w + b * p
    BY <1>1, <2>2, <2>3, <2>4, <2>5, <2>6 DEF Values
  <2>8. a * p + v = b * p + w /\ a \in Int /\ b \in Int
    <3>1. a * p \in Int /\ b * p \in Int /\ a \in Int /\ b \in Int
      BY <1>0
    <3> QED
      BY <2>7, <3>1
  <2>9. a = b /\ v = w
    BY <2>8, QuotientUnique, Zenon
  <2> QED
    BY <2>3, <2>4, <2>5, <2>6, <2>9
<1> DEFINE S == {k \in 0 .. WordBytes : value[WordBytes - k] # other[WordBytes - k]}
<1>2. ASSUME S # {} PROVE FALSE
  <2>1. PICK k \in S : \A l \in S : k <= l
    <3>1. S \subseteq Nat
      BY <1>0
    <3> HIDE DEF S
    <3> QED
      BY <1>2, <3>1, LeastNatural
  <2>2. k # 0
    BY <1>0, <2>1
  <2>3. k - 1 \in 0 .. WordBytes /\ k - 1 \notin S
    BY <1>0, <2>1, <2>2
  <2>4. PICK n \in 1 .. WordBytes : n = WordBytes - (k - 1) /\ n - 1 = WordBytes - k
    <3>1. /\ WordBytes - (k - 1) \in 1 .. WordBytes
          /\ WordBytes - (k - 1) - 1 = WordBytes - k
      BY <1>0, <2>1, <2>2
    <3> QED
      BY <3>1
  <2>5. value[n] = other[n]
    BY <2>3, <2>4
  <2>6. value[WordBytes - k] = other[WordBytes - k]
    BY <1>1, <2>4, <2>5
  <2> QED
    BY <2>1, <2>6
<1>3. ASSUME NEW n \in 1 .. WordBytes PROVE d[n] = e[n]
  <2>1. WordBytes - n \in 0 .. WordBytes /\ WordBytes - (WordBytes - n) = n
    BY <1>0
  <2>2. value[n] = other[n]
    BY <1>2, <2>1
  <2> QED
    BY <1>1, <2>2
<1>4. d = [n \in 1 .. WordBytes |-> d[n]] /\ e = [n \in 1 .. WordBytes |-> e[n]]
  BY DEF Digits
<1> HIDE DEF S
<1> QED
  BY <1>3, <1>4

\* The bytes that store_u32_le writes make the word again.
LEMMA ValueOfStored ==
  ASSUME NEW v \in Word, NEW d \in Digits, NEW value, Values(d, value),
         \A n \in 1 .. WordBytes : d[n] = (v \div Power[n - 1]) % ByteValues
  PROVE  value[WordBytes] = v
<1> DEFINE S == {n \in 0 .. WordBytes : value[n] # v % Power[n]}
<1>0. WordBytes \in Nat /\ ByteValues \in Nat \ {0} /\ v \in Nat
  BY XteaAssumption, WordType
<1>1. ASSUME S # {} PROVE FALSE
  <2>1. PICK n \in S : \A l \in S : n <= l
    <3>1. S \subseteq Nat
      BY <1>0
    <3> HIDE DEF S
    <3> QED
      BY <1>1, <3>1, LeastNatural
  <2>2. n # 0
    <3>1. v % 1 = 0
      BY <1>0
    <3> QED
      BY <2>1, <3>1, Powers DEF Values
  <2>3. n \in 1 .. WordBytes /\ n - 1 \in 0 .. WordBytes /\ n - 1 \notin S
    BY <1>0, <2>1, <2>2
  <2>4. PICK p \in Nat \ {0} : p = Power[n - 1]
    BY <2>3, Powers
  <2>5. PICK q \in Nat, r \in Nat : v \div p = q /\ v % p = r /\ v = q * p + r /\ r < p
    <3>1. v \div p \in Nat /\ v % p \in 0 .. p - 1 /\ v = (v \div p) * p + (v % p)
      BY <1>0, <2>4
    <3>2. v % p \in Nat /\ v % p < p
      BY <2>4, <3>1
    <3> QED
      BY <3>1, <3>2
  <2>6. PICK t \in Nat, c \in Nat : /\ q % ByteValues = c /\ q = t * ByteValues + c
                                    /\ c < ByteValues
    <3>1. q \div ByteValues \in Nat /\ q % ByteValues \in 0 .. ByteValues - 1
          /\ q = (q \div ByteValues) * ByteValues + (q % ByteValues)
      BY <1>0, <2>5
    <3>2. q % ByteValues \in Nat /\ q % ByteValues < ByteValues
      BY <1>0, <3>1
    <3> QED
      BY <3>1, <3>2
  <2>7. value[n] = r + c * p /\ Power[n] = ByteValues * p
    <3>1. value[n - 1] = r /\ d[n] = c
      BY <2>3, <2>4, <2>5, <2>6
    <3> QED
      BY <2>3, <2>4, <3>1, Powers DEF Values
  <2>8. PICK m \in Nat \ {0} : m = ByteValues * p
    <3>1. \A x, y \in Nat \ {0} : x * y \in Nat \ {0}
      OBVIOUS
    <3> QED
      BY <1>0, <3>1
  <2>9. v = t * m + (r + c * p)
    <3>1. q * p = t * m + c * p
      BY <1>0, <2>6, <2>8
    <3>2. t * m \in Nat /\ c * p \in Nat
      <4>1. \A x, y \in Nat : x * y \in Nat
        OBVIOUS
      <4> QED
        BY <2>4, <2>8, <4>1
    <3> QED
      BY <2>5, <3>1, <3>2
  <2>10. r + c * p \in 0 .. m - 1
    <3>1. c + 1 \in Nat /\ c + 1 <= ByteValues /\ p \in Nat /\ ByteValues \in Nat
      BY <1>0, <2>4, <2>6
    <3>2. (c + 1) * p <= m /\ (c + 1) * p = c * p + p /\ c * p \in Nat
      BY <2>8, <3>1, ProductGrows
    <3>3. PICK x \in Nat : x = c * p
      BY <3>2
    <3>4. r + x \in 0 .. m - 1
      BY <2>5, <2>8, <3>2, <3>3
    <3> QED
      BY <3>3, <3>4
  <2>11. v % m = r + c * p
    <3>1. PICK z \in 0 .. m - 1 : z = r + c * p
      BY <2>10
    <3>2. v = t * m + z /\ t \in Int /\ v \in Int
      BY <1>0, <2>9, <3>1
    <3>3. v % m = z
      BY <2>8, <3>1, <3>2, QuotientIs, Zenon
    <3> QED
      BY <3>1, <3>3
  <2> QED
    BY <2>1, <2>7, <2>8, <2>11
<1>2. WordBytes \in 0 .. WordBytes
  BY <1>0
<1>3. value[WordBytes] = v % Power[WordBytes]
  BY <1>1, <1>2
<1> QED
  BY <1>3, WordType DEF Wrap

XteaBlock == [1 .. 2 * WordBytes -> 0 .. ByteValues - 1]

\* The bytes of a word, the lowest first.
BytesAt(block, at) == [n \in 1 .. WordBytes |-> block[at + n]]

LEMMA LoadWordIs ==
  ASSUME NEW block \in XteaBlock, NEW at \in {0, WordBytes}
  PROVE  /\ BytesAt(block, at) \in Digits
         /\ \E value : /\ Values(BytesAt(block, at), value)
                       /\ LoadWord(block, at) = value[WordBytes]
<1> DEFINE d == BytesAt(block, at)
           T == Nat
           first == 0
           Term(n) == block[at + n] * Power[n - 1]
           step == [n \in 1 .. WordBytes |-> [x \in T |-> x + Term(n)]]
           Body(f) == f = [n \in 0 .. WordBytes |->
                             IF n = 0 THEN 0 ELSE f[n - 1] + block[at + n] * Power[n - 1]]
<1>1. WordBytes \in Nat /\ ByteValues \in Nat \ {0}
  BY XteaAssumption
<1>2. ASSUME NEW n \in 1 .. WordBytes
      PROVE  d[n] = block[at + n] /\ block[at + n] \in 0 .. ByteValues - 1 /\ Term(n) \in Nat
  <2>1. at + n \in 1 .. 2 * WordBytes /\ n - 1 \in 0 .. WordBytes
    BY <1>1
  <2>2. PICK c \in 0 .. ByteValues - 1 : c = block[at + n]
    BY <2>1 DEF XteaBlock
  <2>3. PICK p \in Nat : p = Power[n - 1]
    BY <2>1, Powers
  <2>4. c \in Nat /\ \A x, y \in Nat : x * y \in Nat
    BY <1>1
  <2>5. c * p \in Nat
    BY <2>4
  <2> QED
    BY <2>2, <2>3, <2>5 DEF BytesAt
<1>3. d \in Digits
  BY <1>2 DEF Digits, BytesAt
<1> HIDE DEF d
<1>4. /\ step \in [1 .. WordBytes -> [T -> T]] /\ first \in T
      /\ \A n \in 1 .. WordBytes, x \in T : step[n][x] = x + Term(n)
  BY <1>2
<1> HIDE DEF step, T, first
<1>5. PICK g \in [0 .. WordBytes -> T] :
        g[0] = first /\ \A n \in 1 .. WordBytes : g[n] = step[n][g[n - 1]]
  <2>1. WordBytes \in Nat /\ step \in [1 .. WordBytes -> [T -> T]] /\ first \in T
    BY <1>1, <1>4
  <2> QED
    BY <2>1, IterationExists
<1>6. Body(g)
  <2>1. ASSUME NEW n \in 0 .. WordBytes PROVE g[n] = IF n = 0 THEN 0 ELSE g[n - 1] + Term(n)
    <3>1. CASE n = 0
      BY <1>5, <3>1 DEF first
    <3>2. CASE n # 0
      <4>1. n \in 1 .. WordBytes /\ n - 1 \in 0 .. WordBytes
        BY <1>1, <3>2
      <4> HIDE DEF Term
      <4> QED
        BY <1>4, <1>5, <3>2, <4>1
    <3> QED
      BY <3>1, <3>2
  <2>2. g = [n \in 0 .. WordBytes |-> g[n]]
    BY <1>5
  <2> QED
    BY <2>1, <2>2
<1> DEFINE value == CHOOSE f : Body(f)
<1>7. LoadWord(block, at) = value[WordBytes]
  BY DEF LoadWord
<1>8. Body(value)
  <2> HIDE DEF Body
  <2> QED
    BY <1>6
<1> HIDE DEF value
<1>9. value[0] = 0 /\ \A n \in 1 .. WordBytes : value[n] = value[n - 1] + Term(n)
  BY <1>1, <1>8
<1>10. Values(d, value)
  BY <1>2, <1>9 DEF Values
<1> QED
  BY <1>3, <1>7, <1>10 DEF d

LEMMA LoadType ==
  ASSUME NEW block \in XteaBlock, NEW at \in {0, WordBytes}
  PROVE  LoadWord(block, at) \in Word
<1>1. PICK value : Values(BytesAt(block, at), value) /\ LoadWord(block, at) = value[WordBytes]
  BY LoadWordIs
<1>2. WordBytes \in 0 .. WordBytes /\ BytesAt(block, at) \in Digits
  BY XteaAssumption, LoadWordIs
<1>3. value[WordBytes] \in 0 .. Power[WordBytes] - 1
  BY <1>1, <1>2, ValueBelow
<1> QED
  BY <1>1, <1>3 DEF Word

\* The words that are stored are loaded again.
LEMMA LoadStored ==
  ASSUME NEW v0 \in Word, NEW v1 \in Word
  PROVE  /\ StoreWords(v0, v1) \in XteaBlock
         /\ LoadWord(StoreWords(v0, v1), 0) = v0
         /\ LoadWord(StoreWords(v0, v1), WordBytes) = v1
<1> DEFINE b == StoreWords(v0, v1)
<1>1. WordBytes \in Nat /\ ByteValues \in Nat \ {0} /\ v0 \in Nat /\ v1 \in Nat
  BY XteaAssumption, WordType
<1>2. ASSUME NEW v \in Nat, NEW n \in 1 .. WordBytes
      PROVE  (v \div Power[n - 1]) % ByteValues \in 0 .. ByteValues - 1
  <2>1. PICK p \in Nat \ {0} : p = Power[n - 1]
    <3>1. n - 1 \in 0 .. WordBytes
      BY <1>1
    <3> QED
      BY <3>1, Powers
  <2>2. PICK q \in Nat : q = v \div p
    OBVIOUS
  <2>3. q % ByteValues \in 0 .. ByteValues - 1
    BY <1>1
  <2> QED
    BY <2>1, <2>2, <2>3
<1>3. \A n \in 1 .. WordBytes :
        /\ n \in 1 .. 2 * WordBytes /\ WordBytes + n \in 1 .. 2 * WordBytes
        /\ n <= WordBytes /\ ~ (WordBytes + n <= WordBytes)
        /\ WordBytes + n - WordBytes - 1 = n - 1 /\ 0 + n = n
  BY <1>1
<1>4. ASSUME NEW n \in 1 .. WordBytes
      PROVE  /\ b[0 + n] = (v0 \div Power[n - 1]) % ByteValues
             /\ b[WordBytes + n] = (v1 \div Power[n - 1]) % ByteValues
  <2>1. PICK m \in Nat : m = WordBytes + n
    BY <1>1
  <2>2. m \in 1 .. 2 * WordBytes /\ ~ (m <= WordBytes) /\ m - WordBytes - 1 = n - 1
    BY <1>1, <2>1
  <2>3. b[m] = (v1 \div Power[n - 1]) % ByteValues
    BY <2>2 DEF StoreWords
  <2>4. b[n] = (v0 \div Power[n - 1]) % ByteValues
    BY <1>3 DEF StoreWords
  <2> QED
    BY <1>3, <2>1, <2>3, <2>4
<1>5. b \in XteaBlock
  <2>1. ASSUME NEW m \in 1 .. 2 * WordBytes PROVE b[m] \in 0 .. ByteValues - 1
    <3>1. CASE m <= WordBytes
      <4>1. m \in 1 .. WordBytes /\ 0 + m = m
        BY <1>1, <3>1
      <4> HIDE DEF b
      <4> QED
        BY <1>1, <1>2, <1>4, <4>1
    <3>2. CASE ~ (m <= WordBytes)
      <4>1. PICK n \in 1 .. WordBytes : m = WordBytes + n
        <5>1. m - WordBytes \in 1 .. WordBytes /\ m = WordBytes + (m - WordBytes)
          BY <1>1, <3>2
        <5> QED
          BY <5>1
      <4> HIDE DEF b
      <4> QED
        BY <1>1, <1>2, <1>4, <4>1
    <3> QED
      BY <3>1, <3>2
  <2>2. b = [m \in 1 .. 2 * WordBytes |-> b[m]]
    BY DEF StoreWords
  <2> HIDE DEF b
  <2> QED
    BY <2>1, <2>2 DEF XteaBlock
<1> HIDE DEF b
<1>6. ASSUME NEW v \in Word, NEW at \in {0, WordBytes},
             \A n \in 1 .. WordBytes : b[at + n] = (v \div Power[n - 1]) % ByteValues
      PROVE  LoadWord(b, at) = v
  <2>1. PICK value : Values(BytesAt(b, at), value) /\ LoadWord(b, at) = value[WordBytes]
    BY <1>5, LoadWordIs
  <2>2. BytesAt(b, at) \in Digits
    BY <1>5, LoadWordIs
  <2>3. \A n \in 1 .. WordBytes : BytesAt(b, at)[n] = (v \div Power[n - 1]) % ByteValues
    BY <1>6 DEF BytesAt
  <2> QED
    BY <2>1, <2>2, <2>3, ValueOfStored
<1>7. LoadWord(b, 0) = v0 /\ LoadWord(b, WordBytes) = v1
  BY <1>4, <1>6
<1> QED
  BY <1>5, <1>7 DEF b

\* The bytes that are loaded are stored again.
LEMMA StoreLoaded ==
  ASSUME NEW b \in XteaBlock
  PROVE  StoreWords(LoadWord(b, 0), LoadWord(b, WordBytes)) = b
<1> DEFINE c == StoreWords(LoadWord(b, 0), LoadWord(b, WordBytes))
<1>0. WordBytes \in Nat
  BY XteaAssumption
<1>1. LoadWord(b, 0) \in Word /\ LoadWord(b, WordBytes) \in Word
  BY LoadType
<1>2. /\ c \in XteaBlock
      /\ LoadWord(c, 0) = LoadWord(b, 0) /\ LoadWord(c, WordBytes) = LoadWord(b, WordBytes)
  BY <1>1, LoadStored
<1> HIDE DEF c
<1>3. ASSUME NEW at \in {0, WordBytes}, LoadWord(c, at) = LoadWord(b, at), NEW n \in 1 .. WordBytes
      PROVE  c[at + n] = b[at + n]
  <2>1. PICK value : Values(BytesAt(c, at), value) /\ LoadWord(c, at) = value[WordBytes]
    BY <1>2, LoadWordIs
  <2>2. PICK other : Values(BytesAt(b, at), other) /\ LoadWord(b, at) = other[WordBytes]
    BY LoadWordIs
  <2>3. BytesAt(c, at) \in Digits /\ BytesAt(b, at) \in Digits
    BY <1>2, LoadWordIs
  <2>4. BytesAt(c, at) = BytesAt(b, at)
    BY <1>3, <2>1, <2>2, <2>3, ValueDecides
  <2>5. BytesAt(c, at)[n] = c[at + n] /\ BytesAt(b, at)[n] = b[at + n]
    BY DEF BytesAt
  <2> QED
    BY <2>4, <2>5
<1>4. ASSUME NEW m \in 1 .. 2 * WordBytes PROVE c[m] = b[m]
  <2>1. CASE m <= WordBytes
    <3>1. m \in 1 .. WordBytes /\ 0 + m = m
      BY <1>0, <2>1
    <3>2. c[0 + m] = b[0 + m]
      BY <1>2, <1>3, <3>1
    <3> QED
      BY <3>1, <3>2
  <2>2. CASE ~ (m <= WordBytes)
    <3>1. PICK n \in 1 .. WordBytes : m = WordBytes + n
      <4>1. m - WordBytes \in 1 .. WordBytes /\ m = WordBytes + (m - WordBytes)
        BY <1>0, <2>2
      <4> QED
        BY <4>1
    <3> QED
      BY <1>2, <1>3, <3>1
  <2> QED
    BY <2>1, <2>2
<1>5. c = b
  <2>1. c = [m \in 1 .. 2 * WordBytes |-> c[m]] /\ b = [m \in 1 .. 2 * WordBytes |-> b[m]]
    BY <1>2 DEF XteaBlock
  <2> QED
    BY <1>4, <2>1
<1> QED
  BY <1>5 DEF c

-----------------------------------------------------------------------------
(* The rounds.                                                             *)

State == [v0 : Word, v1 : Word, sum : Word]
KeyWords == [0 .. 3 -> Word]

LEMMA MixType ==
  ASSUME NEW v \in Word, NEW sum \in Word, NEW word \in Word
  PROVE  Mix(v, sum, word) \in Word
<1>1. v \in Nat /\ sum \in Nat /\ word \in Nat /\ Left \in Nat /\ Right \in Nat \ {0}
  BY WordType, XteaAssumption
<1>2. Wrap(v * Left) \in Word /\ Wrap(sum + word) \in Word
  <2>1. v * Left \in Int /\ sum + word \in Int
    BY <1>1
  <2> QED
    BY <2>1, WordType
<1>3. v \div Right \in Word
  <2>1. v \div Right \in Nat /\ v \div Right <= v
    BY <1>1
  <2> QED
    BY <1>1, <2>1, WordType DEF Word
<1>4. XorWord(Wrap(v * Left), v \div Right) \in Word
  BY <1>2, <1>3, XteaAssumption
<1>5. Wrap(XorWord(Wrap(v * Left), v \div Right) + v) \in Word
  <2>1. \A x \in Word : x + v \in Int
    BY <1>1, WordType
  <2>2. XorWord(Wrap(v * Left), v \div Right) + v \in Int
    BY <1>4, <2>1
  <2> QED
    BY <2>2, WordType
<1> QED
  BY <1>2, <1>5, XteaAssumption DEF Mix

LEMMA KeyWord ==
  ASSUME NEW key \in KeyWords, NEW sum \in Word
  PROVE  key[sum % 4] \in Word /\ key[(sum \div IndexShift) % 4] \in Word
<1>1. sum \in Nat /\ IndexShift \in Nat \ {0}
  BY WordType, XteaAssumption
<1>2. sum % 4 \in 0 .. 3 /\ (sum \div IndexShift) % 4 \in 0 .. 3
  <2>1. PICK q \in Nat : q = sum \div IndexShift
    BY <1>1
  <2>2. sum % 4 \in 0 .. 3 /\ q % 4 \in 0 .. 3
    BY <1>1
  <2> QED
    BY <2>1, <2>2
<1> QED
  BY <1>2 DEF KeyWords

LEMMA WrapType ==
  ASSUME NEW x \in Word, NEW m \in Word
  PROVE  Wrap(x + m) \in Word /\ Wrap(x - m) \in Word
<1>1. x + m \in Int /\ x - m \in Int
  BY WordType
<1> QED
  BY <1>1, WordType

LEMMA RoundType ==
  ASSUME NEW s \in State, NEW key \in KeyWords
  PROVE  EncryptRound(s, key) \in State /\ DecryptRound(s, key) \in State
<1>1. s.v0 \in Word /\ s.v1 \in Word /\ s.sum \in Word /\ Delta \in Word
  BY XteaAssumption DEF State
<1>2. EncryptRound(s, key) \in State
  BY <1>1, KeyWord, MixType, WrapType DEF EncryptRound, State
<1>3. DecryptRound(s, key) \in State
  BY <1>1, KeyWord, MixType, WrapType DEF DecryptRound, State
<1> QED
  BY <1>2, <1>3

\* Each round undoes the other.
LEMMA RoundUndone ==
  ASSUME NEW s \in State, NEW key \in KeyWords
  PROVE  /\ DecryptRound(EncryptRound(s, key), key) = s
         /\ EncryptRound(DecryptRound(s, key), key) = s
<1>1. /\ s.v0 \in Word /\ s.v1 \in Word /\ s.sum \in Word /\ Delta \in Word
      /\ s = [v0 |-> s.v0, v1 |-> s.v1, sum |-> s.sum]
  BY XteaAssumption DEF State
<1>2. DecryptRound(EncryptRound(s, key), key) = s
  <2>1. PICK m0 \in Word : m0 = Mix(s.v1, s.sum, key[s.sum % 4])
    BY <1>1, KeyWord, MixType
  <2>2. PICK v0 \in Word : v0 = Wrap(s.v0 + m0)
    BY <1>1, WrapType
  <2>3. PICK sum \in Word : sum = Wrap(s.sum + Delta)
    BY <1>1, WrapType
  <2>4. PICK m1 \in Word : m1 = Mix(v0, sum, key[(sum \div IndexShift) % 4])
    BY KeyWord, MixType
  <2>5. PICK v1 \in Word : v1 = Wrap(s.v1 + m1)
    BY <1>1, WrapType
  <2>6. EncryptRound(s, key) = [v0 |-> v0, v1 |-> v1, sum |-> sum]
    BY <2>1, <2>2, <2>3, <2>4, <2>5 DEF EncryptRound
  <2>7. Wrap(v1 - m1) = s.v1 /\ Wrap(sum - Delta) = s.sum /\ Wrap(v0 - m0) = s.v0
    BY <1>1, <2>2, <2>3, <2>5, WrapUndone
  <2>8. DecryptRound([v0 |-> v0, v1 |-> v1, sum |-> sum], key)
          = [v0 |-> s.v0, v1 |-> s.v1, sum |-> s.sum]
    BY <2>1, <2>4, <2>7 DEF DecryptRound
  <2> QED
    BY <1>1, <2>6, <2>8
<1>3. EncryptRound(DecryptRound(s, key), key) = s
  <2>1. PICK m1 \in Word : m1 = Mix(s.v0, s.sum, key[(s.sum \div IndexShift) % 4])
    BY <1>1, KeyWord, MixType
  <2>2. PICK v1 \in Word : v1 = Wrap(s.v1 - m1)
    BY <1>1, WrapType
  <2>3. PICK sum \in Word : sum = Wrap(s.sum - Delta)
    BY <1>1, WrapType
  <2>4. PICK m0 \in Word : m0 = Mix(v1, sum, key[sum % 4])
    BY KeyWord, MixType
  <2>5. PICK v0 \in Word : v0 = Wrap(s.v0 - m0)
    BY <1>1, WrapType
  <2>6. DecryptRound(s, key) = [v0 |-> v0, v1 |-> v1, sum |-> sum]
    BY <2>1, <2>2, <2>3, <2>4, <2>5 DEF DecryptRound
  <2>7. Wrap(v1 + m1) = s.v1 /\ Wrap(sum + Delta) = s.sum /\ Wrap(v0 + m0) = s.v0
    BY <1>1, <2>2, <2>3, <2>5, WrapUndone
  <2>8. EncryptRound([v0 |-> v0, v1 |-> v1, sum |-> sum], key)
          = [v0 |-> s.v0, v1 |-> s.v1, sum |-> s.sum]
    BY <2>1, <2>4, <2>7 DEF EncryptRound
  <2> QED
    BY <1>1, <2>6, <2>8
<1> QED
  BY <1>2, <1>3

LastSumOf(r) == Wrap(Delta * r)

LEMMA SumType ==
  /\ \A r \in Nat : LastSumOf(r) \in Word /\ LastSumOf(r + 1) = Wrap(LastSumOf(r) + Delta)
  /\ LastSumOf(0) = 0 /\ LastSumOf(Rounds) = LastSum
<1>1. Delta \in Nat /\ Rounds \in Nat
  BY XteaAssumption, WordType
<1>2. ASSUME NEW r \in Nat
      PROVE  LastSumOf(r) \in Word /\ LastSumOf(r + 1) = Wrap(LastSumOf(r) + Delta)
  <2>1. PICK x \in Int : x = Delta * r
    BY <1>1
  <2>2. Delta * (r + 1) = x + Delta
    BY <1>1, <2>1
  <2>3. Wrap(Wrap(x) + Delta) = Wrap(x + Delta)
    <3>1. Delta \in Int
      BY <1>1
    <3> QED
      BY <3>1, WrapPlus
  <2> QED
    BY <2>1, <2>2, <2>3, WordType DEF LastSumOf
<1>3. LastSumOf(0) = 0
  BY <1>1, WordType DEF LastSumOf
<1> QED
  BY <1>2, <1>3 DEF LastSumOf, LastSum

Encrypts(key, e) ==
  /\ e \in [0 .. Rounds -> State]
  /\ \A r \in 1 .. Rounds : e[r] = EncryptRound(e[r - 1], key)

Decrypts(key, d) ==
  /\ d \in [0 .. Rounds -> State]
  /\ \A r \in 1 .. Rounds : d[r] = DecryptRound(d[r - 1], key)

LEMMA LoadedType ==
  ASSUME NEW b \in XteaBlock, NEW sum \in Word
  PROVE  Loaded(b, sum) \in State
<1>1. LoadWord(b, 0) \in Word /\ LoadWord(b, WordBytes) \in Word
  BY LoadType
<1> QED
  BY <1>1 DEF Loaded, State

LEMMA EncryptIs ==
  ASSUME NEW b \in XteaBlock, NEW key \in KeyWords
  PROVE  \E e : /\ Encrypts(key, e) /\ e[0] = Loaded(b, 0)
                /\ xtea_encrypt_block(b, key) = StoreWords(e[Rounds].v0, e[Rounds].v1)
<1> DEFINE first == Loaded(b, 0)
           step == [r \in 1 .. Rounds |-> [s \in State |-> EncryptRound(s, key)]]
           Body(f) == f = [r \in 0 .. Rounds |->
                             IF r = 0 THEN Loaded(b, 0) ELSE EncryptRound(f[r - 1], key)]
<1>1. Rounds \in Nat /\ first \in State
  BY XteaAssumption, WordType, LoadedType
<1>2. /\ step \in [1 .. Rounds -> [State -> State]]
      /\ \A r \in 1 .. Rounds, s \in State : step[r][s] = EncryptRound(s, key)
  BY RoundType
<1> HIDE DEF step, first
<1>3. PICK g \in [0 .. Rounds -> State] :
        g[0] = first /\ \A r \in 1 .. Rounds : g[r] = step[r][g[r - 1]]
  BY <1>1, <1>2, IterationExists
<1>4. Body(g)
  <2>1. ASSUME NEW r \in 0 .. Rounds
        PROVE  g[r] = IF r = 0 THEN Loaded(b, 0) ELSE EncryptRound(g[r - 1], key)
    <3>1. CASE r = 0
      BY <1>3, <3>1 DEF first
    <3>2. CASE r # 0
      <4>1. r \in 1 .. Rounds /\ r - 1 \in 0 .. Rounds
        BY <1>1, <3>2
      <4> QED
        BY <1>2, <1>3, <3>2, <4>1
    <3> QED
      BY <3>1, <3>2
  <2>2. g = [r \in 0 .. Rounds |-> g[r]]
    BY <1>3
  <2> QED
    BY <2>1, <2>2
<1> DEFINE e == CHOOSE f : Body(f)
<1>5. xtea_encrypt_block(b, key) = StoreWords(e[Rounds].v0, e[Rounds].v1)
  BY DEF xtea_encrypt_block
<1>6. Body(e)
  <2> HIDE DEF Body
  <2> QED
    BY <1>4
<1> HIDE DEF e
<1>7. e[0] = first /\ \A r \in 1 .. Rounds : e[r] = EncryptRound(e[r - 1], key)
  BY <1>1, <1>6 DEF first
<1>8. \A r \in 1 .. Rounds : e[r - 1] \in State => e[r] = step[r][e[r - 1]]
  BY <1>2, <1>7
<1>9. \A r \in 0 .. Rounds : e[r] \in State
  BY <1>1, <1>2, <1>7, <1>8, IterationType
<1>10. e = [r \in 0 .. Rounds |-> e[r]]
  BY <1>6
<1>11. Encrypts(key, e)
  BY <1>7, <1>9, <1>10 DEF Encrypts
<1> QED
  BY <1>5, <1>7, <1>11 DEF first

LEMMA DecryptIs ==
  ASSUME NEW b \in XteaBlock, NEW key \in KeyWords
  PROVE  \E d : /\ Decrypts(key, d) /\ d[0] = Loaded(b, LastSum)
                /\ xtea_decrypt_block(b, key) = StoreWords(d[Rounds].v0, d[Rounds].v1)
<1> DEFINE first == Loaded(b, LastSum)
           step == [r \in 1 .. Rounds |-> [s \in State |-> DecryptRound(s, key)]]
           Body(f) == f = [r \in 0 .. Rounds |->
                             IF r = 0 THEN Loaded(b, LastSum) ELSE DecryptRound(f[r - 1], key)]
<1>1. Rounds \in Nat /\ first \in State
  <2>1. Rounds \in Nat /\ LastSum \in Word
    BY XteaAssumption, SumType
  <2> QED
    BY <2>1, LoadedType
<1>2. /\ step \in [1 .. Rounds -> [State -> State]]
      /\ \A r \in 1 .. Rounds, s \in State : step[r][s] = DecryptRound(s, key)
  BY RoundType
<1> HIDE DEF step, first
<1>3. PICK g \in [0 .. Rounds -> State] :
        g[0] = first /\ \A r \in 1 .. Rounds : g[r] = step[r][g[r - 1]]
  BY <1>1, <1>2, IterationExists
<1>4. Body(g)
  <2>1. ASSUME NEW r \in 0 .. Rounds
        PROVE  g[r] = IF r = 0 THEN Loaded(b, LastSum) ELSE DecryptRound(g[r - 1], key)
    <3>1. CASE r = 0
      BY <1>3, <3>1 DEF first
    <3>2. CASE r # 0
      <4>1. r \in 1 .. Rounds /\ r - 1 \in 0 .. Rounds
        BY <1>1, <3>2
      <4> QED
        BY <1>2, <1>3, <3>2, <4>1
    <3> QED
      BY <3>1, <3>2
  <2>2. g = [r \in 0 .. Rounds |-> g[r]]
    BY <1>3
  <2> QED
    BY <2>1, <2>2
<1> DEFINE d == CHOOSE f : Body(f)
<1>5. xtea_decrypt_block(b, key) = StoreWords(d[Rounds].v0, d[Rounds].v1)
  BY DEF xtea_decrypt_block
<1>6. Body(d)
  <2> HIDE DEF Body
  <2> QED
    BY <1>4
<1> HIDE DEF d
<1>7. d[0] = first /\ \A r \in 1 .. Rounds : d[r] = DecryptRound(d[r - 1], key)
  BY <1>1, <1>6 DEF first
<1>8. \A r \in 1 .. Rounds : d[r - 1] \in State => d[r] = step[r][d[r - 1]]
  BY <1>2, <1>7
<1>9. \A r \in 0 .. Rounds : d[r] \in State
  BY <1>1, <1>2, <1>7, <1>8, IterationType
<1>10. d = [r \in 0 .. Rounds |-> d[r]]
  BY <1>6
<1>11. Decrypts(key, d)
  BY <1>7, <1>9, <1>10 DEF Decrypts
<1> QED
  BY <1>5, <1>7, <1>11 DEF first

\* What holds at 0 and is kept by each step holds at the end: S is where it
\* does not hold.
LEMMA NeverFirst ==
  ASSUME NEW m \in Nat, NEW S, S \subseteq 0 .. m, 0 \notin S,
         \A r \in 1 .. m : r - 1 \notin S => r \notin S
  PROVE  S = {}
<1> SUFFICES ASSUME S # {} PROVE FALSE
  OBVIOUS
<1>1. S \subseteq Nat
  OBVIOUS
<1>2. PICK r \in S : \A l \in S : r <= l
  BY <1>1, LeastNatural
<1>3. r \in 1 .. m /\ r - 1 \notin S
  BY <1>2
<1> QED
  BY <1>2, <1>3

LEMMA RoundSum ==
  \A s, key : /\ EncryptRound(s, key).sum = Wrap(s.sum + Delta)
              /\ DecryptRound(s, key).sum = Wrap(s.sum - Delta)
BY DEF EncryptRound, DecryptRound

\* The sum is a multiple of Delta in each round.
LEMMA SumInRounds ==
  ASSUME NEW key \in KeyWords
  PROVE  /\ \A e : Encrypts(key, e) /\ e[0].sum = 0 => e[Rounds].sum = LastSum
         /\ \A d : Decrypts(key, d) /\ d[0].sum = LastSum => d[Rounds].sum = 0
<1>1. Rounds \in Nat /\ Rounds \in 0 .. Rounds /\ Delta \in Word
  BY XteaAssumption
<1>2. ASSUME NEW e, Encrypts(key, e), e[0].sum = 0 PROVE e[Rounds].sum = LastSum
  <2> DEFINE S == {r \in 0 .. Rounds : e[r].sum # LastSumOf(r)}
  <2>1. 0 \notin S
    BY <1>2, SumType
  <2>2. ASSUME NEW r \in 1 .. Rounds, r - 1 \notin S PROVE r \notin S
    <3>1. r - 1 \in 0 .. Rounds /\ r - 1 \in Nat /\ r - 1 + 1 = r
      BY <1>1
    <3>2. e[r - 1].sum = LastSumOf(r - 1) /\ e[r].sum = Wrap(e[r - 1].sum + Delta)
      BY <1>2, <2>2, <3>1, RoundSum DEF Encrypts
    <3>3. LastSumOf(r - 1 + 1) = Wrap(LastSumOf(r - 1) + Delta)
      BY <3>1, SumType
    <3> QED
      BY <3>1, <3>2, <3>3
  <2>3. S \subseteq 0 .. Rounds
    OBVIOUS
  <2> HIDE DEF S
  <2>4. S = {}
    BY <1>1, <2>1, <2>2, <2>3, NeverFirst
  <2> QED
    BY <1>1, <2>4, SumType DEF S
<1>3. ASSUME NEW d, Decrypts(key, d), d[0].sum = LastSum PROVE d[Rounds].sum = 0
  <2> DEFINE S == {r \in 0 .. Rounds : d[r].sum # LastSumOf(Rounds - r)}
  <2>1. 0 \notin S
    BY <1>1, <1>3, SumType
  <2>2. ASSUME NEW r \in 1 .. Rounds, r - 1 \notin S PROVE r \notin S
    <3>1. PICK n \in Nat : n = Rounds - r /\ Rounds - (r - 1) = n + 1
      <4>1. Rounds - r \in Nat /\ Rounds - (r - 1) = Rounds - r + 1
        BY <1>1
      <4> QED
        BY <4>1
    <3>2. r - 1 \in 0 .. Rounds
      BY <1>1
    <3>3. d[r - 1].sum = LastSumOf(n + 1) /\ d[r].sum = Wrap(d[r - 1].sum - Delta)
      BY <1>3, <2>2, <3>1, <3>2, RoundSum DEF Decrypts
    <3>4. LastSumOf(n) \in Word /\ LastSumOf(n + 1) = Wrap(LastSumOf(n) + Delta)
      BY SumType
    <3>5. Wrap(LastSumOf(n + 1) - Delta) = LastSumOf(n)
      BY <1>1, <3>4, WrapUndone
    <3> QED
      BY <3>1, <3>3, <3>5
  <2>3. S \subseteq 0 .. Rounds
    OBVIOUS
  <2> HIDE DEF S
  <2>4. S = {}
    BY <1>1, <2>1, <2>2, <2>3, NeverFirst
  <2>5. Rounds - Rounds = 0
    BY <1>1
  <2> QED
    BY <1>1, <2>4, <2>5, SumType DEF S
<1> QED
  BY <1>2, <1>3

\* What goes on from where the other direction ended goes its way back.
LEMMA RoundsUndone ==
  ASSUME NEW key \in KeyWords, NEW e, Encrypts(key, e), NEW d, Decrypts(key, d)
  PROVE  /\ d[0] = e[Rounds] => d[Rounds] = e[0]
         /\ e[0] = d[Rounds] => e[Rounds] = d[0]
<1>1. Rounds \in Nat /\ Rounds \in 0 .. Rounds /\ Rounds - 0 = Rounds /\ Rounds - Rounds = 0
  BY XteaAssumption
<1>2. ASSUME NEW r \in 1 .. Rounds
      PROVE  \E n \in 1 .. Rounds : n = Rounds - (r - 1) /\ n - 1 = Rounds - r
  <2>1. Rounds - (r - 1) \in 1 .. Rounds /\ Rounds - (r - 1) - 1 = Rounds - r
    BY <1>1
  <2> QED
    BY <2>1
<1>3. \A n \in 1 .. Rounds : n - 1 \in 0 .. Rounds /\ e[n - 1] \in State /\ d[n - 1] \in State
  <2>1. \A n \in 1 .. Rounds : n - 1 \in 0 .. Rounds
    BY <1>1
  <2> QED
    BY <2>1 DEF Encrypts, Decrypts
<1>4. ASSUME d[0] = e[Rounds] PROVE d[Rounds] = e[0]
  <2> DEFINE S == {r \in 0 .. Rounds : d[r] # e[Rounds - r]}
  <2>1. 0 \notin S
    BY <1>1, <1>4
  <2>2. ASSUME NEW r \in 1 .. Rounds, r - 1 \notin S PROVE r \notin S
    <3>1. PICK n \in 1 .. Rounds : n = Rounds - (r - 1) /\ n - 1 = Rounds - r
      BY <1>2
    <3>2. d[r - 1] = e[n] /\ d[r] = DecryptRound(d[r - 1], key)
      BY <1>3, <2>2, <3>1 DEF Decrypts
    <3>3. e[n] = EncryptRound(e[n - 1], key) /\ e[n - 1] \in State
      BY <1>3 DEF Encrypts
    <3>4. d[r] = e[n - 1]
      BY <3>2, <3>3, RoundUndone
    <3> QED
      BY <3>1, <3>4
  <2>3. S \subseteq 0 .. Rounds
    OBVIOUS
  <2> HIDE DEF S
  <2>4. S = {}
    BY <1>1, <2>1, <2>2, <2>3, NeverFirst
  <2> QED
    BY <1>1, <2>4 DEF S
<1>5. ASSUME e[0] = d[Rounds] PROVE e[Rounds] = d[0]
  <2> DEFINE S == {r \in 0 .. Rounds : e[r] # d[Rounds - r]}
  <2>1. 0 \notin S
    BY <1>1, <1>5
  <2>2. ASSUME NEW r \in 1 .. Rounds, r - 1 \notin S PROVE r \notin S
    <3>1. PICK n \in 1 .. Rounds : n = Rounds - (r - 1) /\ n - 1 = Rounds - r
      BY <1>2
    <3>2. e[r - 1] = d[n] /\ e[r] = EncryptRound(e[r - 1], key)
      BY <1>3, <2>2, <3>1 DEF Encrypts
    <3>3. d[n] = DecryptRound(d[n - 1], key) /\ d[n - 1] \in State
      BY <1>3 DEF Decrypts
    <3>4. e[r] = d[n - 1]
      BY <3>2, <3>3, RoundUndone
    <3> QED
      BY <3>1, <3>4
  <2>3. S \subseteq 0 .. Rounds
    OBVIOUS
  <2> HIDE DEF S
  <2>4. S = {}
    BY <1>1, <2>1, <2>2, <2>3, NeverFirst
  <2> QED
    BY <1>1, <2>4 DEF S
<1> QED
  BY <1>4, <1>5

\* What was stored from a state is loaded as that state, its sum aside.
LEMMA StateStored ==
  ASSUME NEW s \in State
  PROVE  /\ StoreWords(s.v0, s.v1) \in XteaBlock
         /\ Loaded(StoreWords(s.v0, s.v1), s.sum) = s
<1>1. /\ s.v0 \in Word /\ s.v1 \in Word
      /\ s = [v0 |-> s.v0, v1 |-> s.v1, sum |-> s.sum]
  BY DEF State
<1> QED
  BY <1>1, LoadStored DEF Loaded

\* The two directions of XTEA undo each other: for every width of a word,
\* every number of rounds, every delta and every key.
THEOREM XteaUndone ==
  ASSUME NEW b \in XteaBlock, NEW key \in KeyWords
  PROVE  /\ xtea_encrypt_block(b, key) \in XteaBlock
         /\ xtea_decrypt_block(b, key) \in XteaBlock
         /\ xtea_decrypt_block(xtea_encrypt_block(b, key), key) = b
         /\ xtea_encrypt_block(xtea_decrypt_block(b, key), key) = b
<1>1. Rounds \in 0 .. Rounds /\ 0 \in 0 .. Rounds
  BY XteaAssumption
<1>2. \A x : StoreWords(Loaded(b, x).v0, Loaded(b, x).v1) = b /\ Loaded(b, x).sum = x
  BY StoreLoaded DEF Loaded
<1>3. /\ xtea_encrypt_block(b, key) \in XteaBlock
      /\ xtea_decrypt_block(xtea_encrypt_block(b, key), key) = b
  <2>1. PICK e : /\ Encrypts(key, e) /\ e[0] = Loaded(b, 0)
                 /\ xtea_encrypt_block(b, key) = StoreWords(e[Rounds].v0, e[Rounds].v1)
    BY EncryptIs
  <2>2. e[Rounds] \in State /\ e[Rounds].sum = LastSum
    BY <1>1, <1>2, <2>1, SumInRounds DEF Encrypts
  <2>3. PICK c \in XteaBlock : c = xtea_encrypt_block(b, key) /\ Loaded(c, LastSum) = e[Rounds]
    BY <2>1, <2>2, StateStored
  <2>4. PICK d : /\ Decrypts(key, d) /\ d[0] = Loaded(c, LastSum)
                 /\ xtea_decrypt_block(c, key) = StoreWords(d[Rounds].v0, d[Rounds].v1)
    BY DecryptIs
  <2>5. d[Rounds] = Loaded(b, 0)
    BY <2>1, <2>3, <2>4, RoundsUndone
  <2> QED
    BY <1>2, <2>3, <2>4, <2>5
<1>4. /\ xtea_decrypt_block(b, key) \in XteaBlock
      /\ xtea_encrypt_block(xtea_decrypt_block(b, key), key) = b
  <2>1. PICK d : /\ Decrypts(key, d) /\ d[0] = Loaded(b, LastSum)
                 /\ xtea_decrypt_block(b, key) = StoreWords(d[Rounds].v0, d[Rounds].v1)
    BY DecryptIs
  <2>2. d[Rounds] \in State /\ d[Rounds].sum = 0
    BY <1>1, <1>2, <2>1, SumInRounds DEF Decrypts
  <2>3. PICK c \in XteaBlock : c = xtea_decrypt_block(b, key) /\ Loaded(c, 0) = d[Rounds]
    BY <2>1, <2>2, StateStored
  <2>4. PICK e : /\ Encrypts(key, e) /\ e[0] = Loaded(c, 0)
                 /\ xtea_encrypt_block(c, key) = StoreWords(e[Rounds].v0, e[Rounds].v1)
    BY EncryptIs
  <2>5. e[Rounds] = Loaded(b, LastSum)
    BY <2>1, <2>3, <2>4, RoundsUndone
  <2> QED
    BY <1>2, <2>3, <2>4, <2>5
<1> QED
  BY <1>3, <1>4

-----------------------------------------------------------------------------
(* CBC mode with this cipher.                                              *)

LEMMA CipherComesBack ==
  ASSUME NEW k \in Key, NEW b \in Block
  PROVE  /\ Decrypt(Derive(k), Encrypt(Derive(k), b)) = b
         /\ Encrypt(Derive(k), Decrypt(Derive(k), b)) = b
<1>1. Block = XteaBlock /\ Derive(k) \in KeyWords
  BY CipherIsXtea DEF Block, XteaBlock, KeyWords
<1>2. /\ xtea_encrypt_block(b, Derive(k)) \in Block
      /\ xtea_decrypt_block(b, Derive(k)) \in Block
      /\ xtea_decrypt_block(xtea_encrypt_block(b, Derive(k)), Derive(k)) = b
      /\ xtea_encrypt_block(xtea_decrypt_block(b, Derive(k)), Derive(k)) = b
  BY <1>1, XteaUndone
<1> QED
  BY <1>2, CipherIsXtea

\* The words that an encryption has derived decrypt every block that they
\* encrypt to itself, and encrypt every block that they decrypt to itself.
THEOREM EveryBlockComesBack == Spec => []BlocksComeBack
<1>1. IInv => BlocksComeBack
  BY CipherComesBack, CallType DEF IInv, WorkingOK, BlocksComeBack
<1> QED
  BY <1>1, Invariant, PTL

\* With XTEA every text comes back: nothing is left to assume of the cipher.
THEOREM TextsComeBackWithXtea == Spec => []RoundTrip
<1>1. CipherUndone
  BY CipherComesBack, XorUndoesItself DEF CipherUndone
<1> QED
  BY <1>1, TextsComeBack
=============================================================================
