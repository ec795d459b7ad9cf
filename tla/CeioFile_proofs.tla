-------------------------- MODULE CeioFile_proofs --------------------------
(***************************************************************************)
(* Proofs about modules CeioFile and CeioPowerLoss, for any number of      *)
(* editors and for one alone, every set of texts and keys, and every size  *)
(* of a block and of an integer.                                           *)
(***************************************************************************)
EXTENDS CeioPowerLoss, SequenceTheorems, FiniteSetTheorems, TLAPS

-----------------------------------------------------------------------------
(* Types.                                                                  *)

Char == UNION {ToSet(u) : u \in Text}

SizesCell == [original_size : Nat, compressed_size : Nat, encrypted_size : Nat]
CrcCell   == [crc32 : Seq(Char)]
IvCell    == [iv : Nat]
BlockCell == [text : Text, key : Key, iv : Nat, index : Nat]
Cell      == {Zero} \cup SizesCell \cup CrcCell \cup IvCell \cup BlockCell

SaveJob == [ kind : Modes, text : Text, key : Key, image : Seq(Cell),
             todo : SUBSET Nat, result : {OK, ERROR} ]
LoadJob == [kind : {"load"}, key : Key, size : Nat, data : Seq(Cell)]

Labels == {"idle", "open", "write", "close", "ftruncate", "memcpy", "msync", "read", "parse"}
SavePcs == {"open", "write", "close", "ftruncate", "memcpy", "msync"}
LoadPcs == {"read", "parse"}

Answer == {OK, ERROR, None} \cup [code : {0}, text : Text, key : Key]

-----------------------------------------------------------------------------
(* Images.                                                                 *)

LEMMA TextType ==
  ASSUME NEW t \in Text
  PROVE  t \in Seq(Char) /\ Len(t) \in Nat
BY CeioFormatAssumption DEF Char

LEMMA BlocksType ==
  ASSUME NEW t \in Text
  PROVE  Blocks(t) \in Nat \ {0}
<1>1. CrcSize + CompressedSize[t] \in Nat
  BY CeioFormatAssumption
<1>2. \A x \in Nat, b \in Nat \ {0} : x \div b \in Nat
  OBVIOUS
<1> QED
  BY <1>1, <1>2, CeioFormatAssumption DEF Blocks

\* A size that is cast to uint32_t.
LEMMA CastType ==
  ASSUME NEW n \in Nat
  PROVE  n % Uint32 \in Nat /\ n % Uint32 < Uint32 /\ n % Uint32 <= n
<1>1. \A x \in Nat, m \in Nat \ {0} : x % m \in 0 .. m - 1
  OBVIOUS
<1>2. n % Uint32 \in 0 .. Uint32 - 1
  BY <1>1, CeioFormatAssumption
<1>3. CASE n < Uint32
  BY <1>2, <1>3, CeioFormatAssumption
<1>4. CASE n >= Uint32
  BY <1>2, <1>4, CeioFormatAssumption
<1> QED
  BY <1>2, <1>3, <1>4, CeioFormatAssumption

LEMMA CastFits ==
  ASSUME NEW n \in Nat, n < Uint32
  PROVE  n % Uint32 = n
BY CeioFormatAssumption

LEMMA PayloadType ==
  ASSUME NEW t \in Text
  PROVE  /\ PayloadBlocks(t) \in Nat
         /\ Blocks(t) * BlockSize < Uint32 => PayloadBlocks(t) = Blocks(t)
<1>1. Blocks(t) \in Nat /\ BlockSize \in Nat \ {0}
  BY BlocksType, CeioFormatAssumption
<1>2. \A x, y \in Nat : x * y \in Nat
  OBVIOUS
<1>3. PICK n \in Nat : n = Blocks(t) * BlockSize
  BY <1>1, <1>2
<1>4. \A x \in Nat, b \in Nat \ {0} : x \div b \in Nat
  OBVIOUS
<1>5. n % Uint32 \in Nat /\ PayloadBlocks(t) = (n % Uint32) \div BlockSize
  BY <1>3, CastType DEF PayloadBlocks
<1>6. PayloadBlocks(t) \in Nat
  BY <1>1, <1>4, <1>5
<1>7. \A x \in Nat, b \in Nat \ {0} : (x * b) \div b = x
  OBVIOUS
<1>8. Blocks(t) * BlockSize < Uint32 => PayloadBlocks(t) = Blocks(t)
  BY <1>1, <1>3, <1>5, <1>7, CastFits
<1> QED
  BY <1>6, <1>8

\* The cells of an image, one by one.
IsImage(d, t, k, v) ==
  /\ d \in Seq(Cell) /\ Len(d) = HeaderSize + PayloadBlocks(t)
  /\ d[1] = [ original_size   |-> Len(t) % Uint32,
              compressed_size |-> CompressedSize[t] % Uint32,
              encrypted_size  |-> PayloadBlocks(t) ]
  /\ d[2] = [crc32 |-> Crc(t, Len(t) % Uint32)]
  /\ d[3] = [iv |-> v]
  /\ \A i \in 1 .. PayloadBlocks(t) :
       d[HeaderSize + i] = [text |-> t, key |-> k, iv |-> v, index |-> i]

LEMMA ImageProperties ==
  ASSUME NEW t \in Text, NEW k \in Key, NEW v \in Nat
  PROVE  IsImage(ceio_format_build(t, k, v), t, k, v)
<1> DEFINE d == ceio_format_build(t, k, v)
           sizes == [ original_size   |-> Len(t) % Uint32,
                      compressed_size |-> CompressedSize[t] % Uint32,
                      encrypted_size  |-> PayloadBlocks(t) ]
           crc   == [crc32 |-> Crc(t, Len(t) % Uint32)]
           iv    == [iv |-> v]
           block(i) == [text |-> t, key |-> k, iv |-> v, index |-> i]
           header  == <<sizes, crc, iv>>
           payload == [i \in 1 .. PayloadBlocks(t) |-> block(i)]
<1>1. PayloadBlocks(t) \in Nat /\ Len(t) \in Nat /\ CompressedSize[t] \in Nat
  BY PayloadType, TextType, CeioFormatAssumption
<1>2. sizes \in SizesCell
  BY <1>1, CastType DEF SizesCell
<1>3. crc \in CrcCell
  <2>1. Len(t) % Uint32 \in 0 .. Len(t)
    BY <1>1, CastType
  <2>2. Crc(t, Len(t) % Uint32) \in Seq(Char)
    <3> HIDE DEF Char
    <3>1. \A i \in 1 .. Len(t) % Uint32 : t[i] \in Char
      BY <2>1, TextType, ElementOfSeq
    <3> QED
      BY <2>1, <3>1, SubSeqProperties DEF Crc
  <2> QED
    BY <2>2 DEF CrcCell
<1>4. iv \in IvCell
  BY DEF IvCell
<1>5. \A i \in 1 .. PayloadBlocks(t) : block(i) \in BlockCell
  BY <1>1 DEF BlockCell
<1>6. header \in Seq(Cell) /\ Len(header) = 3
      /\ header[1] = sizes /\ header[2] = crc /\ header[3] = iv
  <2> HIDE DEF sizes, crc, iv
  <2>1. sizes \in Cell /\ crc \in Cell /\ iv \in Cell
    BY <1>2, <1>3, <1>4 DEF Cell
  <2> QED
    BY <2>1
<1>7. payload \in Seq(Cell) /\ Len(payload) = PayloadBlocks(t)
      /\ \A i \in 1 .. PayloadBlocks(t) : payload[i] = block(i)
  <2> HIDE DEF block
  <2>1. \A i \in 1 .. PayloadBlocks(t) : block(i) \in Cell
    BY <1>5 DEF Cell
  <2>2. payload \in Seq(Cell)
    BY <1>1, <2>1, IsASeq
  <2> QED
    BY <1>1, <2>2
<1>8. d = header \o payload
  BY DEF ceio_format_build
<1> HIDE DEF d, header, payload
<1>9. /\ d \in Seq(Cell) /\ Len(d) = 3 + PayloadBlocks(t)
      /\ \A i \in 1 .. 3 : d[i] = header[i]
      /\ \A i \in 1 .. PayloadBlocks(t) : d[3 + i] = payload[i]
  <2> HIDE DEF sizes, crc, iv, block
  <2>1. /\ header \o payload \in Seq(Cell)
        /\ Len(header \o payload) = Len(header) + Len(payload)
        /\ \A i \in 1 .. Len(header) + Len(payload) : (header \o payload)[i] =
              IF i <= Len(header) THEN header[i] ELSE payload[i - Len(header)]
    BY <1>6, <1>7, ConcatProperties
  <2>2. /\ d \in Seq(Cell) /\ Len(d) = 3 + PayloadBlocks(t)
        /\ \A i \in 1 .. 3 + PayloadBlocks(t) : d[i] = IF i <= 3 THEN header[i] ELSE payload[i - 3]
    BY <2>1, <1>6, <1>7, <1>8
  <2>3. ASSUME NEW i \in 1 .. PayloadBlocks(t) PROVE d[3 + i] = payload[i]
    <3>1. 3 + i \in 1 .. 3 + PayloadBlocks(t) /\ ~ (3 + i <= 3) /\ 3 + i - 3 = i
      BY <1>1
    <3> QED
      BY <2>2, <3>1
  <2> QED
    BY <1>1, <2>2, <2>3
<1> QED
  BY <1>1, <1>6, <1>7, <1>9 DEF HeaderSize, IsImage, d

\* Cells of different kinds differ.
LEMMA NotZero ==
  /\ \A c \in SizesCell \cup CrcCell \cup IvCell \cup BlockCell : c # Zero
  /\ \A s : [crc32 |-> s] # Zero
  /\ \A v : [iv |-> v] # Zero
  /\ \A t, k, v, i : [text |-> t, key |-> k, iv |-> v, index |-> i] # Zero
  /\ \A x, y, z : [original_size |-> x, compressed_size |-> y, encrypted_size |-> z] # Zero
<1>1. DOMAIN Zero = {"zero"}
  BY DEF Zero
<1>2. \A c \in SizesCell : "original_size" \in DOMAIN c
  BY DEF SizesCell
<1>3. \A c \in CrcCell : "crc32" \in DOMAIN c
  BY DEF CrcCell
<1>4. \A c \in IvCell \cup BlockCell : "iv" \in DOMAIN c
  BY DEF IvCell, BlockCell
<1>5. \A s : "crc32" \in DOMAIN [crc32 |-> s]
  OBVIOUS
<1>6. \A v : "iv" \in DOMAIN [iv |-> v]
  OBVIOUS
<1>7. \A t, k, v, i : "iv" \in DOMAIN [text |-> t, key |-> k, iv |-> v, index |-> i]
  OBVIOUS
<1>8. \A x, y, z : "original_size" \in
        DOMAIN [original_size |-> x, compressed_size |-> y, encrypted_size |-> z]
  OBVIOUS
<1>9. "original_size" # "zero" /\ "crc32" # "zero" /\ "iv" # "zero"
  OBVIOUS
<1> HIDE DEF Zero
<1>10. \A c : DOMAIN c # DOMAIN Zero => c # Zero
  OBVIOUS
<1> QED
  BY <1>1, <1>2, <1>3, <1>4, <1>5, <1>6, <1>7, <1>8, <1>9, <1>10

-----------------------------------------------------------------------------
(* What a load makes of cells that belong where they are.                  *)

SavesType == saves \in Seq([text : Text, key : Key])

\* A sequence of cells, each of which some save writes at its position.
Good(d) == d \in Seq(Cell) /\ \A i \in 1 .. Len(d) : d[i] \in Cells(i)

LEMMA SaveType ==
  ASSUME SavesType, NEW n \in DOMAIN saves
  PROVE  saves[n].text \in Text /\ saves[n].key \in Key /\ n \in Nat
<1>1. n \in 1 .. Len(saves) /\ n \in Nat
  BY LenProperties DEF SavesType
<1>2. saves[n] \in [text : Text, key : Key]
  BY <1>1, ElementOfSeq DEF SavesType
<1> QED
  BY <1>1, <1>2

LEMMA SavedImage ==
  ASSUME SavesType, NEW n \in DOMAIN saves
  PROVE  IsImage(Image(n), saves[n].text, saves[n].key, n)
BY SaveType, ImageProperties DEF Image

LEMMA CellsAreOfImages ==
  ASSUME NEW i, NEW c \in Cells(i), c # Zero
  PROVE  \E n \in DOMAIN saves : i <= Len(Image(n)) /\ c = Image(n)[i]
BY DEF Cells

LEMMA FirstBlock ==
  ASSUME SavesType, NEW c \in Cells(HeaderSize + 1), c # Zero
  PROVE  \E n \in DOMAIN saves :
           c = [text |-> saves[n].text, key |-> saves[n].key, iv |-> n, index |-> 1]
<1>1. PICK n \in DOMAIN saves : HeaderSize + 1 <= Len(Image(n)) /\ c = Image(n)[HeaderSize + 1]
  BY CellsAreOfImages
<1>2. PayloadBlocks(saves[n].text) \in Nat
  BY SaveType, PayloadType
<1>3. Len(Image(n)) = HeaderSize + PayloadBlocks(saves[n].text)
  BY SavedImage DEF IsImage
<1>4. 1 \in 1 .. PayloadBlocks(saves[n].text)
  BY <1>1, <1>2, <1>3 DEF HeaderSize
<1> QED
  BY <1>1, <1>4, SavedImage DEF IsImage

LEMMA CrcOfSave ==
  ASSUME SavesType, NEW c \in Cells(2), c # Zero
  PROVE  \E n \in DOMAIN saves :
           c = [crc32 |-> Crc(saves[n].text, Len(saves[n].text) % Uint32)]
<1>1. PICK n \in DOMAIN saves : c = Image(n)[2]
  BY CellsAreOfImages
<1> QED
  BY <1>1, SavedImage DEF IsImage

\* A text that a load accepts begins with a text saved under its key, and is
\* the part of a saved text that the CRC of that text covers: all of it when
\* its length fits the header.
LoadIsOfSaves(u, k) ==
  /\ \E n \in DOMAIN saves : u = Crc(saves[n].text, Len(saves[n].text) % Uint32)
  /\ \E n \in DOMAIN saves : saves[n].key = k /\ IsPrefix(saves[n].text, u)

LEMMA LoadedIsOfSaves ==
  ASSUME SavesType, NEW d, Good(d), NEW k, NEW u \in Loaded(d, k)
  PROVE  LoadIsOfSaves(u, k)
<1>1. /\ ceio_format_parse(d)
      /\ d[2] = [crc32 |-> Crc(u, d[1].original_size)]
      /\ u \in UNION {Decompressed(d, t) : t \in Decrypted(d, k)}
  BY DEF Loaded
<1>2. PICK t \in Decrypted(d, k) : u \in Decompressed(d, t)
  BY <1>1
<1>3. /\ t \in Text /\ u \in Text
      /\ d[1].encrypted_size = Blocks(t)
      /\ \A i \in 1 .. Blocks(t) :
           d[HeaderSize + i] = [text |-> t, key |-> k, iv |-> d[3].iv, index |-> i]
      /\ Len(u) = d[1].original_size /\ IsPrefix(t, u)
  BY <1>2 DEF Decrypted, Decompressed
<1>4. Blocks(t) \in Nat \ {0} /\ Len(d) = HeaderSize + Blocks(t)
  BY <1>1, <1>3, BlocksType DEF ceio_format_parse
<1>5. d[2] \in Cells(2) /\ d[HeaderSize + 1] \in Cells(HeaderSize + 1)
  BY <1>4 DEF Good, HeaderSize
<1>6. d[2] # Zero /\ d[HeaderSize + 1] # Zero
  <2>1. d[HeaderSize + 1] = [text |-> t, key |-> k, iv |-> d[3].iv, index |-> 1]
    BY <1>3, <1>4
  <2> QED
    BY <1>1, <2>1, NotZero
<1>7. \E n \in DOMAIN saves : u = Crc(saves[n].text, Len(saves[n].text) % Uint32)
  <2>1. PICK n \in DOMAIN saves :
          d[2] = [crc32 |-> Crc(saves[n].text, Len(saves[n].text) % Uint32)]
    BY <1>5, <1>6, CrcOfSave
  <2>2. Crc(u, d[1].original_size) = u
    BY <1>3, TextType, SubSeqFull DEF Crc
  <2>3. [crc32 |-> u] = [crc32 |-> Crc(saves[n].text, Len(saves[n].text) % Uint32)]
    BY <1>1, <2>1, <2>2
  <2>4. u = Crc(saves[n].text, Len(saves[n].text) % Uint32)
    BY <2>3
  <2> QED
    BY <2>4
<1>8. \E n \in DOMAIN saves : saves[n].key = k /\ IsPrefix(saves[n].text, u)
  <2>1. PICK n \in DOMAIN saves : d[HeaderSize + 1] =
          [text |-> saves[n].text, key |-> saves[n].key, iv |-> n, index |-> 1]
    BY <1>5, <1>6, FirstBlock
  <2>2. d[HeaderSize + 1] = [text |-> t, key |-> k, iv |-> d[3].iv, index |-> 1]
    BY <1>3, <1>4
  <2>3. saves[n].text = t /\ saves[n].key = k
    BY <2>1, <2>2
  <2> QED
    BY <1>3, <2>3
<1> QED
  BY <1>7, <1>8 DEF LoadIsOfSaves

-----------------------------------------------------------------------------
(* The inductive invariant, in parts.                                      *)

\* A save in progress writes the image of a save that is on record, and is in
\* a loop only as long as there are cells to write.
SaveJobOK(e) ==
  /\ job[e] \in SaveJob
  /\ \E n \in DOMAIN saves : /\ job[e].image = Image(n)
                             /\ job[e].text = saves[n].text /\ job[e].key = saves[n].key
  /\ job[e].todo \subseteq 1 .. Len(job[e].image)
  /\ pc[e] \in {"open", "ftruncate"} => job[e].todo = 1 .. Len(job[e].image)
  /\ pc[e] \in {"write", "memcpy"} => job[e].todo # {}

\* What a load has read so far are cells that belong where they are.
LoadJobOK(e) ==
  /\ job[e] \in LoadJob
  /\ Good(job[e].data) /\ Len(job[e].data) <= job[e].size
  /\ pc[e] = "parse" => Len(job[e].data) = job[e].size

JobOK(e) ==
  /\ pc[e] = "idle" => job[e] = NoJob
  /\ pc[e] \in SavePcs => SaveJobOK(e)
  /\ pc[e] \in LoadPcs => LoadJobOK(e)
  /\ pc[e] \notin {"idle", "open"} => Good(file)

\* What a load returned was saved, as far as the CRC can tell.
AnswerOK(e) ==
  answer[e] \notin {OK, ERROR, None} => LoadIsOfSaves(answer[e].text, answer[e].key)

Types ==
  /\ SavesType
  /\ pc \in [Editor -> Labels]
  /\ job \in [Editor -> {NoJob} \cup SaveJob \cup LoadJob]
  /\ answer \in [Editor -> Answer]

IInv ==
  /\ Types
  /\ file = Missing \/ Good(file)
  /\ \A e \in Editor : JobOK(e) /\ AnswerOK(e)

LEMMA InitInvariant == Init => IInv
<1> SUFFICES ASSUME Init PROVE IInv
  OBVIOUS
<1>1. Types
  BY DEF Init, Types, SavesType, Labels, Answer
<1>2. ASSUME NEW e \in Editor PROVE JobOK(e) /\ AnswerOK(e)
  BY DEF Init, JobOK, AnswerOK, SavePcs, LoadPcs
<1> QED
  BY <1>1, <1>2 DEF Init, IInv

\* A step of one editor that leaves the record of saves alone keeps the
\* invariant, when it leaves the file, the editor's call and its answer right.
LEMMA OneEditorSteps ==
  ASSUME IInv, NEW e \in Editor, UNCHANGED saves,
         NEW p \in Labels, NEW j \in {NoJob} \cup SaveJob \cup LoadJob, NEW a \in Answer,
         pc' = [pc EXCEPT ![e] = p],
         job' = [job EXCEPT ![e] = j],
         answer' = [answer EXCEPT ![e] = a],
         file' = file \/ Good(file'),
         JobOK(e)', AnswerOK(e)'
  PROVE  IInv'
<1>1. Types'
  BY DEF IInv, Types, SavesType
<1>2. \A s : Good(s)' <=> Good(s)
  BY DEF Good, Cells, Image
<1>3. file' = Missing \/ Good(file)'
  BY <1>2 DEF IInv
<1>4. ASSUME NEW d \in Editor \ {e} PROVE JobOK(d)' /\ AnswerOK(d)'
  <2>1. pc'[d] = pc[d] /\ job'[d] = job[d] /\ answer'[d] = answer[d]
    BY <1>4 DEF IInv, Types
  <2>2. JobOK(d) /\ AnswerOK(d)
    BY <1>4 DEF IInv
  <2>3. Good(file) => Good(file)'
    BY <1>2
  <2>4. SaveJobOK(d) => SaveJobOK(d)'
    BY <2>1 DEF SaveJobOK, Image
  <2>5. LoadJobOK(d) => LoadJobOK(d)'
    BY <2>1, <1>2 DEF LoadJobOK
  <2> QED
    BY <2>1, <2>2, <2>3, <2>4, <2>5 DEF JobOK, AnswerOK, LoadIsOfSaves
<1> QED
  BY <1>1, <1>3, <1>4 DEF IInv

-----------------------------------------------------------------------------
(* The steps of a save.                                                    *)

LEMMA LeastNatural ==
  ASSUME NEW S, S \subseteq Nat, S # {}
  PROVE  \E n \in S : \A m \in S : n <= m
<1>1. PICK n \in S : \A m \in S : ~ (<<m, n>> \in OpToRel(<, Nat))
  BY NatLessThanWellFounded, WFMin
<1>2. \A m \in S : m < n <=> <<m, n>> \in OpToRel(<, Nat)
  BY DEF OpToRel
<1>3. \A m \in S : ~ (m < n)
  BY <1>1, <1>2
<1> QED
  BY <1>3

\* Max and Min of a set of naturals below a bound.
LEMMA MaxProperties ==
  ASSUME NEW b \in Nat, NEW S, S \subseteq 0 .. b, S # {}
  PROVE  Max(S) \in S /\ \A x \in S : x <= Max(S)
<1> DEFINE D == {b - x : x \in S}
<1>1. D \subseteq Nat /\ D # {}
  <2>1. \A x \in S : b - x \in Nat
    OBVIOUS
  <2> QED
    BY <2>1
<1> HIDE DEF D
<1>2. PICK d \in D : \A c \in D : d <= c
  BY <1>1, LeastNatural
<1>3. PICK m \in S : d = b - m
  BY <1>2 DEF D
<1>4. ASSUME NEW x \in S PROVE m >= x
  <2>1. b - m <= b - x
    BY <1>2, <1>3 DEF D
  <2> QED
    BY <2>1
<1>5. \E y \in S : \A x \in S : y >= x
  BY <1>4
<1>6. Max(S) \in S /\ \A x \in S : Max(S) >= x
  BY <1>5 DEF Max
<1> QED
  BY <1>6

LEMMA MinProperties ==
  ASSUME NEW S, S \subseteq Nat, S # {}
  PROVE  Min(S) \in S /\ \A x \in S : Min(S) <= x
BY LeastNatural DEF Min

\* What Put makes of the file.
LEMMA PutProperties ==
  ASSUME file \in Seq(Cell), NEW image \in Seq(Cell), NEW P, P \subseteq 1 .. Len(image)
  PROVE  /\ Put(image, P) \in Seq(Cell)
         /\ Len(file) <= Len(Put(image, P)) /\ P \subseteq 1 .. Len(Put(image, P))
         /\ Len(Put(image, P)) = Len(file) \/ Len(Put(image, P)) \in P
         /\ \A i \in 1 .. Len(Put(image, P)) : Put(image, P)[i] =
              IF i \in P THEN image[i] ELSE IF i <= Len(file) THEN file[i] ELSE Zero
<1> DEFINE S == {Len(file)} \cup P
           m == Max(S)
           cell(i) == IF i \in P THEN image[i] ELSE IF i <= Len(file) THEN file[i] ELSE Zero
           g == [i \in 1 .. m |-> cell(i)]
<1>1. Len(file) \in Nat /\ Len(image) \in Nat
  BY LenProperties
<1>2. m \in S /\ \A x \in S : x <= m
  <2>1. \A f, l \in Nat : f + l \in Nat /\ f \in 0 .. f + l /\ 1 .. l \subseteq 0 .. f + l
    OBVIOUS
  <2>2. Len(file) + Len(image) \in Nat /\ S \subseteq 0 .. Len(file) + Len(image) /\ S # {}
    BY <1>1, <2>1
  <2> HIDE DEF S
  <2> QED
    BY <2>2, MaxProperties
<1> HIDE DEF m
<1>3. m \in Nat /\ Len(file) <= m /\ P \subseteq 1 .. m /\ (m = Len(file) \/ m \in P)
  <2>1. \A x \in P : x \in Nat /\ 1 <= x
    BY <1>1
  <2>2. m = Len(file) \/ m \in P
    BY <1>2
  <2>3. m \in Nat
    BY <1>1, <2>1, <2>2
  <2>4. Len(file) <= m /\ \A x \in P : x <= m
    BY <1>2
  <2> QED
    BY <2>1, <2>2, <2>3, <2>4
<1>4. \A i \in 1 .. m : cell(i) \in Cell
  <2> SUFFICES ASSUME NEW i \in 1 .. m PROVE cell(i) \in Cell
    OBVIOUS
  <2>1. CASE i \in P
    BY <2>1, ElementOfSeq
  <2>2. CASE i \notin P /\ i <= Len(file)
    BY <2>2, <1>1, <1>3, ElementOfSeq
  <2>3. CASE i \notin P /\ ~ (i <= Len(file))
    BY <2>3 DEF Cell
  <2> QED
    BY <2>1, <2>2, <2>3
<1>5. g \in Seq(Cell) /\ Len(g) = m /\ \A i \in 1 .. m : g[i] = cell(i)
  <2> HIDE DEF cell
  <2>1. g \in Seq(Cell)
    BY <1>3, <1>4, IsASeq
  <2> QED
    BY <1>3, <2>1
<1>6. Put(image, P) = g
  BY DEF Put, m
<1> HIDE DEF g
<1> QED
  BY <1>3, <1>5, <1>6

\* What a process writes, wherever the file ends by then, belongs there.
LEMMA PutIsGood ==
  ASSUME SavesType, Good(file), NEW n \in DOMAIN saves,
         NEW P, P \subseteq 1 .. Len(Image(n))
  PROVE  Good(Put(Image(n), P))
<1> DEFINE g == Put(Image(n), P)
<1>1. Image(n) \in Seq(Cell) /\ file \in Seq(Cell) /\ Len(file) \in Nat
  BY SavedImage, LenProperties DEF IsImage, Good
<1>2. /\ g \in Seq(Cell)
      /\ \A i \in 1 .. Len(g) :
           g[i] = IF i \in P THEN Image(n)[i] ELSE IF i <= Len(file) THEN file[i] ELSE Zero
  BY <1>1, PutProperties
<1> HIDE DEF g
<1>3. ASSUME NEW i \in 1 .. Len(g) PROVE g[i] \in Cells(i)
  <2>1. CASE i \in P
    <3>1. i <= Len(Image(n)) /\ g[i] = Image(n)[i]
      BY <1>1, <1>2, <2>1, LenProperties
    <3> QED
      BY <3>1 DEF Cells
  <2>2. CASE i \notin P /\ i <= Len(file)
    <3>1. i \in 1 .. Len(file) /\ g[i] = file[i]
      BY <1>1, <1>2, <2>2
    <3> QED
      BY <3>1 DEF Good
  <2>3. CASE i \notin P /\ ~ (i <= Len(file))
    BY <1>2, <2>3 DEF Cells
  <2> QED
    BY <2>1, <2>2, <2>3
<1> QED
  BY <1>2, <1>3 DEF Good, g

\* The file after ftruncate to another size.
LEMMA ResizedIsGood ==
  ASSUME Good(file), NEW l \in Nat
  PROVE  Good([i \in 1 .. l |-> IF i <= Len(file) THEN file[i] ELSE Zero])
<1> DEFINE cell(i) == IF i <= Len(file) THEN file[i] ELSE Zero
           g == [i \in 1 .. l |-> cell(i)]
<1>1. file \in Seq(Cell) /\ Len(file) \in Nat
  BY LenProperties DEF Good
<1>2. ASSUME NEW i \in 1 .. l PROVE cell(i) \in Cell /\ cell(i) \in Cells(i)
  <2>1. CASE i <= Len(file)
    <3>1. i \in 1 .. Len(file)
      BY <1>1, <2>1
    <3> QED
      BY <1>1, <2>1, <3>1, ElementOfSeq DEF Good
  <2>2. CASE ~ (i <= Len(file))
    BY <2>2 DEF Cell, Cells
  <2> QED
    BY <2>1, <2>2
<1> HIDE DEF cell
<1>3. g \in Seq(Cell)
  BY <1>2, IsASeq
<1>4. Len(g) = l /\ \A i \in 1 .. l : g[i] = cell(i)
  BY <1>3
<1> HIDE DEF g
<1>5. Good(g)
  BY <1>2, <1>3, <1>4 DEF Good
<1> QED
  BY <1>5 DEF g, cell

\* A new save is on record under the next number; the others keep theirs.
LEMMA SavesGrow ==
  ASSUME SavesType, NEW t \in Text, NEW k \in Key,
         NEW l \in Nat, l = Len(saves) + 1,
         saves' = Append(saves, [text |-> t, key |-> k])
  PROVE  /\ SavesType'
         /\ DOMAIN saves \subseteq (DOMAIN saves)'
         /\ \A n \in DOMAIN saves : saves'[n] = saves[n] /\ Image(n)' = Image(n)
         /\ l \in (DOMAIN saves)' /\ saves'[l] = [text |-> t, key |-> k]
         /\ Image(l)' = ceio_format_build(t, k, l)
         /\ \A i : Cells(i) \subseteq Cells(i)'
         /\ \A d : Good(d) => Good(d)'
<1> DEFINE r == [text |-> t, key |-> k]
           R == [text : Text, key : Key]
<1>1. saves \in Seq(R) /\ r \in R
  BY DEF SavesType
<1> HIDE DEF R, r
<1>2. /\ saves' \in Seq(R) /\ Len(saves') = l /\ Len(saves) \in Nat
      /\ DOMAIN saves = 1 .. Len(saves) /\ DOMAIN saves' = 1 .. Len(saves')
      /\ \A n \in 1 .. Len(saves) : saves'[n] = saves[n]
      /\ saves'[l] = r
  <2>1. saves' = Append(saves, r)
    BY DEF r
  <2>2. saves' \in Seq(R)
    BY <1>1, <2>1, AppendProperties
  <2> QED
    BY <1>1, <2>1, <2>2, AppendProperties, LenProperties
<1>3. SavesType' /\ DOMAIN saves \subseteq (DOMAIN saves)' /\ l \in (DOMAIN saves)'
  BY <1>2 DEF SavesType, R
<1>4. \A n \in DOMAIN saves : saves'[n] = saves[n] /\ Image(n)' = Image(n)
  BY <1>2 DEF Image
<1>5. Image(l)' = ceio_format_build(t, k, l)
  BY <1>2 DEF Image, r
<1>6. ASSUME NEW i PROVE Cells(i) \subseteq Cells(i)'
  BY <1>3, <1>4 DEF Cells
<1>7. \A d : Good(d) => Good(d)'
  BY <1>6 DEF Good
<1> QED
  BY <1>2, <1>3, <1>4, <1>5, <1>6, <1>7 DEF r

\* A call that returns leaves no locals behind.
LEMMA CallReturns ==
  ASSUME IInv, NEW e \in Editor, NEW a \in Answer, Return(e, a), UNCHANGED saves,
         file' = file \/ Good(file'),
         a \in {OK, ERROR, None} \/ LoadIsOfSaves(a.text, a.key)
  PROVE  IInv'
<1>1. /\ pc' = [pc EXCEPT ![e] = "idle"] /\ job' = [job EXCEPT ![e] = NoJob]
      /\ answer' = [answer EXCEPT ![e] = a]
      /\ "idle" \in Labels /\ NoJob \in {NoJob} \cup SaveJob \cup LoadJob
  BY DEF Return, Labels
<1>2. pc'[e] = "idle" /\ job'[e] = NoJob /\ answer'[e] = a
  BY <1>1 DEF IInv, Types
<1>3. JobOK(e)'
  BY <1>2 DEF JobOK, SavePcs, LoadPcs
<1>4. AnswerOK(e)'
  BY <1>2 DEF AnswerOK, LoadIsOfSaves
<1> QED
  BY <1>1, <1>3, <1>4, OneEditorSteps

LEMMA AnswerTypes == {OK, ERROR, None} \subseteq Answer
BY DEF Answer

LEMMA SaveBegins ==
  ASSUME IInv, NEW e \in Editor, NEW t \in Text, NEW k \in Key, NEW m \in Modes,
         editor_file_save(e, t, k, m)
  PROVE  IInv'
<1>1. pc[e] = "idle" /\ job[e] = NoJob /\ JobOK(e)
  BY DEF editor_file_save, IInv, JobOK
<1>2. CASE Return(e, ERROR) /\ UNCHANGED <<file, saves>>
  BY <1>2, CallReturns, AnswerTypes
<1>3. CASE /\ UNCHANGED file
           /\ job' = [job EXCEPT ![e] =
                 [ kind |-> m, text |-> t, key |-> k,
                   image |-> ceio_format_build(t, k, Len(saves) + 1),
                   todo |-> DOMAIN ceio_format_build(t, k, Len(saves) + 1), result |-> OK ]]
           /\ saves' = Append(saves, [text |-> t, key |-> k])
           /\ pc' = [pc EXCEPT ![e] = "open"]
           /\ answer' = [answer EXCEPT ![e] = None]
  <2> DEFINE l == Len(saves) + 1
             image == ceio_format_build(t, k, l)
             j == [ kind |-> m, text |-> t, key |-> k, image |-> image,
                    todo |-> DOMAIN image, result |-> OK ]
  <2>1. SavesType /\ l \in Nat
    BY DEF IInv, Types, SavesType
  <2>2. image \in Seq(Cell) /\ DOMAIN image = 1 .. Len(image) /\ DOMAIN image \subseteq Nat
    <3>1. image \in Seq(Cell)
      BY <2>1, ImageProperties DEF IsImage
    <3>2. DOMAIN image = 1 .. Len(image) /\ Len(image) \in Nat
      BY <3>1, LenProperties
    <3> QED
      BY <3>1, <3>2
  <2> HIDE DEF image
  <2>3. j \in SaveJob
    BY <2>2 DEF SaveJob
  <2>4. j.image = image /\ j.text = t /\ j.key = k /\ j.todo = 1 .. Len(image)
    BY <2>2
  <2>5. job' = [job EXCEPT ![e] = j]
    BY <1>3 DEF image
  <2> HIDE DEF j
  <2>6. /\ pc'[e] = "open" /\ job'[e] = j /\ answer'[e] = None
        /\ \A d \in Editor \ {e} : pc'[d] = pc[d] /\ job'[d] = job[d] /\ answer'[d] = answer[d]
    BY <1>3, <2>5 DEF IInv, Types
  <2>7. Types'
    BY <1>3, <2>1, <2>3, <2>5, SavesGrow DEF IInv, Types, Labels, Answer
  <2>8. JobOK(e)' /\ AnswerOK(e)'
    <3>1. SaveJobOK(e)'
      <4>1. \E n \in (DOMAIN saves)' :
              saves'[n] = [text |-> t, key |-> k] /\ image = Image(n)'
        <5> HIDE DEF l
        <5> QED
          BY <1>3, <2>1, SavesGrow DEF image, l
      <4>2. PICK n \in (DOMAIN saves)' :
              saves'[n].text = t /\ saves'[n].key = k /\ image = Image(n)'
        BY <4>1
      <4> QED
        BY <2>3, <2>4, <2>6, <4>2 DEF SaveJobOK
    <3> QED
      BY <2>6, <3>1 DEF JobOK, AnswerOK, LoadPcs
  <2>9. ASSUME NEW d \in Editor \ {e} PROVE JobOK(d)' /\ AnswerOK(d)'
    <3>1. JobOK(d) /\ AnswerOK(d)
      BY <2>9 DEF IInv
    <3>2. SaveJobOK(d) => SaveJobOK(d)'
      BY <1>3, <2>1, <2>6, <2>9, SavesGrow DEF SaveJobOK
    <3>3. LoadJobOK(d) => LoadJobOK(d)'
      BY <1>3, <2>1, <2>6, <2>9, SavesGrow DEF LoadJobOK
    <3>4. Good(file) => Good(file)'
      BY <1>3, <2>1, SavesGrow
    <3>5. AnswerOK(d)'
      <4>1. DOMAIN saves \subseteq (DOMAIN saves)' /\ \A n \in DOMAIN saves : saves'[n] = saves[n]
        BY <1>3, <2>1, SavesGrow
      <4> QED
        BY <2>6, <2>9, <3>1, <4>1 DEF AnswerOK, LoadIsOfSaves
    <3> QED
      BY <2>6, <2>9, <3>1, <3>2, <3>3, <3>4, <3>5 DEF JobOK
  <2>10. file' = Missing \/ Good(file)'
    BY <1>3, <2>1, SavesGrow DEF IInv
  <2> QED
    BY <2>7, <2>8, <2>9, <2>10 DEF IInv
<1> QED
  BY <1>2, <1>3 DEF editor_file_save, GoTo

\* The image of a save has cells, the cells of the save on record.
LEMMA JobImage ==
  ASSUME IInv, NEW e \in Editor, SaveJobOK(e)
  PROVE  /\ job[e].image \in Seq(Cell)
         /\ DOMAIN job[e].image = 1 .. Len(job[e].image)
         /\ Len(job[e].image) \in Nat /\ 1 \in 1 .. Len(job[e].image)
         /\ Good(file) => \A P : P \subseteq 1 .. Len(job[e].image) =>
                                   Good(Put(job[e].image, P))
<1>1. PICK n \in DOMAIN saves : job[e].image = Image(n)
  BY DEF SaveJobOK
<1>2. SavesType
  BY DEF IInv, Types
<1>3. IsImage(Image(n), saves[n].text, saves[n].key, n)
      /\ PayloadBlocks(saves[n].text) \in Nat
  BY <1>2, SavedImage, SaveType, PayloadType
<1>4. 1 \in 1 .. Len(Image(n))
  BY <1>3 DEF IsImage, HeaderSize
<1> QED
  BY <1>1, <1>2, <1>3, <1>4, PutIsGood, LenProperties DEF IsImage

\* A step of a save that goes on.
LEMMA SaveGoesOn ==
  ASSUME IInv, NEW e \in Editor, SaveJobOK(e),
         NEW p \in SavePcs, NEW j \in SaveJob,
         j.image = job[e].image /\ j.text = job[e].text /\ j.key = job[e].key,
         j.todo \subseteq job[e].todo,
         p \in {"open", "ftruncate"} => j.todo = 1 .. Len(j.image),
         p \in {"write", "memcpy"} => j.todo # {},
         pc' = [pc EXCEPT ![e] = p],
         job' = [job EXCEPT ![e] = j],
         Good(file'),
         UNCHANGED <<answer, saves>>
  PROVE  IInv'
<1>1. /\ p \in Labels /\ j \in {NoJob} \cup SaveJob \cup LoadJob /\ answer[e] \in Answer
      /\ answer' = [answer EXCEPT ![e] = answer[e]]
  BY DEF SavePcs, Labels, IInv, Types
<1>2. pc'[e] = p /\ job'[e] = j
  BY DEF IInv, Types
<1>3. SaveJobOK(e)'
  BY <1>2 DEF SaveJobOK, Image
<1>4. Good(file)'
  BY DEF Good, Cells, Image
<1>5. JobOK(e)'
  BY <1>2, <1>3, <1>4 DEF JobOK, SavePcs, LoadPcs
<1>6. AnswerOK(e)'
  BY DEF IInv, AnswerOK, LoadIsOfSaves
<1> QED
  BY <1>1, <1>5, <1>6, OneEditorSteps

LEMMA OpenInvariant ==
  ASSUME IInv, NEW e \in Editor, OpenForWriting(e)
  PROVE  IInv'
<1>1. pc[e] = "open" /\ SaveJobOK(e) /\ UNCHANGED saves
  BY DEF OpenForWriting, IInv, JobOK, SavePcs
<1>2. CASE Return(e, ERROR) /\ UNCHANGED file
  BY <1>1, <1>2, CallReturns, AnswerTypes
<1>3. CASE /\ file' = << >> /\ UNCHANGED <<job, answer>>
           /\ pc' = [pc EXCEPT ![e] = IF job[e].kind = "mmap" THEN "ftruncate" ELSE "write"]
  <2> DEFINE p == IF job[e].kind = "mmap" THEN "ftruncate" ELSE "write"
  <2>1. p \in SavePcs /\ pc' = [pc EXCEPT ![e] = p]
    BY <1>3 DEF SavePcs
  <2> HIDE DEF p
  <2>2. Good(file')
    BY <1>3 DEF Good
  <2>3. job[e].todo = 1 .. Len(job[e].image) /\ job[e].todo # {}
    BY <1>1, JobImage DEF SaveJobOK
  <2>4. job[e] \in SaveJob /\ job' = [job EXCEPT ![e] = job[e]]
    BY <1>1, <1>3 DEF SaveJobOK, IInv, Types
  <2>5. UNCHANGED <<answer, saves>>
    BY <1>1, <1>3
  <2> QED
    BY <1>1, <2>1, <2>2, <2>3, <2>4, <2>5, SaveGoesOn
<1> QED
  BY <1>1, <1>2, <1>3 DEF OpenForWriting, GoTo

\* The cells that an iteration of write_all takes.
Chunk(X, n) == {i \in X : i < Min(X) + n}

LEMMA WriteInvariant ==
  ASSUME IInv, NEW e \in Editor, WriteChunk(e)
  PROVE  IInv'
<1>1. /\ pc[e] = "write" /\ SaveJobOK(e) /\ Good(file) /\ job[e] \in SaveJob
      /\ UNCHANGED <<answer, saves>>
  BY DEF WriteChunk, IInv, JobOK, SavePcs, SaveJobOK
<1>2. CASE \E n \in 1 .. Cardinality(job[e].todo) :
             LET chunk == {i \in job[e].todo : i < Min(job[e].todo) + n}
             IN  /\ file' = Put(job[e].image, chunk)
                 /\ job' = [job EXCEPT ![e].todo = @ \ chunk]
                 /\ GoTo(e, IF chunk = job[e].todo THEN "close" ELSE "write")
  <2>1. PICK n \in 1 .. Cardinality(job[e].todo) :
             /\ file' = Put(job[e].image, Chunk(job[e].todo, n))
             /\ job' = [job EXCEPT ![e].todo = @ \ Chunk(job[e].todo, n)]
             /\ pc' = [pc EXCEPT ![e] =
                         IF Chunk(job[e].todo, n) = job[e].todo THEN "close" ELSE "write"]
    BY <1>2 DEF Chunk, GoTo
  <2> DEFINE chunk == Chunk(job[e].todo, n)
             j == [job[e] EXCEPT !.todo = job[e].todo \ chunk]
             p == IF chunk = job[e].todo THEN "close" ELSE "write"
  <2>2. chunk \subseteq job[e].todo
    BY DEF Chunk
  <2> HIDE DEF chunk
  <2>3. job' = [job EXCEPT ![e] = j] /\ pc' = [pc EXCEPT ![e] = p] /\ file' = Put(job[e].image, chunk)
    BY <2>1 DEF chunk, IInv, Types
  <2>4. /\ j \in SaveJob /\ j.todo = job[e].todo \ chunk
        /\ j.image = job[e].image /\ j.text = job[e].text /\ j.key = job[e].key
    BY <1>1 DEF SaveJob
  <2>5. p \in {"close", "write"} /\ (p = "write" => j.todo # {})
    BY <2>2, <2>4
  <2>6. Good(file')
    BY <1>1, <2>2, <2>3, JobImage DEF SaveJobOK
  <2> HIDE DEF j, p
  <2>7. p \in SavePcs
    BY <2>5 DEF SavePcs
  <2> QED
    BY <1>1, <2>3, <2>4, <2>5, <2>6, <2>7, SaveGoesOn
<1>3. CASE /\ job' = [job EXCEPT ![e].result = ERROR] /\ GoTo(e, "close") /\ UNCHANGED file
  <2> DEFINE j == [job[e] EXCEPT !.result = ERROR]
  <2>1. /\ j \in SaveJob /\ j.todo = job[e].todo
        /\ j.image = job[e].image /\ j.text = job[e].text /\ j.key = job[e].key
    BY <1>1 DEF SaveJob
  <2>2. job' = [job EXCEPT ![e] = j] /\ pc' = [pc EXCEPT ![e] = "close"] /\ Good(file')
    BY <1>1, <1>3 DEF GoTo, IInv, Types
  <2> HIDE DEF j
  <2> QED
    BY <1>1, <2>1, <2>2, SaveGoesOn DEF SavePcs
<1> QED
  BY <1>2, <1>3 DEF WriteChunk

LEMMA CloseInvariant ==
  ASSUME IInv, NEW e \in Editor, Close(e)
  PROVE  IInv'
<1>1. job[e] \in SaveJob
  BY DEF Close, IInv, JobOK, SavePcs, SaveJobOK
<1>2. PICK a \in {job[e].result, ERROR} : Return(e, a) /\ UNCHANGED <<file, saves>>
  BY DEF Close
<1>3. a \in {OK, ERROR, None}
  BY <1>1 DEF SaveJob
<1> QED
  BY <1>2, <1>3, CallReturns, AnswerTypes

LEMMA FtruncateInvariant ==
  ASSUME IInv, NEW e \in Editor, FtruncateAndMmap(e)
  PROVE  IInv'
<1>1. /\ pc[e] = "ftruncate" /\ SaveJobOK(e) /\ Good(file) /\ job[e] \in SaveJob
      /\ UNCHANGED saves
  BY DEF FtruncateAndMmap, IInv, JobOK, SavePcs, SaveJobOK
<1>2. CASE Return(e, ERROR) /\ UNCHANGED file
  BY <1>1, <1>2, CallReturns, AnswerTypes
<1>3. CASE /\ file' = [i \in DOMAIN job[e].image |-> IF i <= Len(file) THEN file[i] ELSE Zero]
           /\ \/ GoTo(e, "memcpy") /\ UNCHANGED <<job, answer>>
              \/ Return(e, ERROR)
  <2>1. Good(file')
    BY <1>1, <1>3, JobImage, ResizedIsGood
  <2>2. CASE Return(e, ERROR)
    BY <1>1, <2>1, <2>2, CallReturns, AnswerTypes
  <2>3. CASE GoTo(e, "memcpy") /\ UNCHANGED <<job, answer>>
    <3>1. job[e].todo # {}
      BY <1>1, JobImage DEF SaveJobOK
    <3>2. job' = [job EXCEPT ![e] = job[e]] /\ pc' = [pc EXCEPT ![e] = "memcpy"]
      BY <2>3 DEF GoTo, IInv, Types
    <3> QED
      BY <1>1, <2>1, <2>3, <3>1, <3>2, SaveGoesOn DEF SavePcs
  <2> QED
    BY <1>3, <2>2, <2>3
<1> QED
  BY <1>2, <1>3 DEF FtruncateAndMmap

LEMMA MemcpyInvariant ==
  ASSUME IInv, NEW e \in Editor, Memcpy(e)
  PROVE  IInv'
<1>1. /\ pc[e] = "memcpy" /\ SaveJobOK(e) /\ Good(file) /\ job[e] \in SaveJob
      /\ UNCHANGED saves
  BY DEF Memcpy, IInv, JobOK, SavePcs, SaveJobOK
<1>2. PICK i \in job[e].todo :
       \/ /\ file' = IF i <= Len(file) THEN Put(job[e].image, {i}) ELSE file
          /\ job' = [job EXCEPT ![e].todo = @ \ {i}]
          /\ GoTo(e, IF job[e].todo = {i} THEN "msync" ELSE "memcpy")
          /\ UNCHANGED answer
       \/ Return(e, None) /\ UNCHANGED file
  BY DEF Memcpy
<1>3. CASE Return(e, None) /\ UNCHANGED file
  BY <1>1, <1>3, CallReturns, AnswerTypes
<1>4. CASE /\ file' = IF i <= Len(file) THEN Put(job[e].image, {i}) ELSE file
           /\ job' = [job EXCEPT ![e].todo = @ \ {i}]
           /\ GoTo(e, IF job[e].todo = {i} THEN "msync" ELSE "memcpy")
           /\ UNCHANGED answer
  <2> DEFINE j == [job[e] EXCEPT !.todo = job[e].todo \ {i}]
             p == IF job[e].todo = {i} THEN "msync" ELSE "memcpy"
  <2>1. job' = [job EXCEPT ![e] = j] /\ pc' = [pc EXCEPT ![e] = p]
    BY <1>4 DEF GoTo, IInv, Types
  <2>2. /\ j \in SaveJob /\ j.todo = job[e].todo \ {i}
        /\ j.image = job[e].image /\ j.text = job[e].text /\ j.key = job[e].key
    BY <1>1 DEF SaveJob
  <2>3. p \in {"msync", "memcpy"} /\ (p = "memcpy" => j.todo # {})
    BY <1>2, <2>2
  <2>4. Good(file')
    <3>1. {i} \subseteq 1 .. Len(job[e].image)
      BY <1>1, <1>2 DEF SaveJobOK
    <3>2. Good(Put(job[e].image, {i}))
      BY <1>1, <3>1, JobImage
    <3> QED
      BY <1>1, <1>4, <3>2
  <2> HIDE DEF j, p
  <2>5. p \in SavePcs
    BY <2>3 DEF SavePcs
  <2> QED
    BY <1>1, <1>4, <2>1, <2>2, <2>3, <2>4, <2>5, SaveGoesOn
<1> QED
  BY <1>2, <1>3, <1>4

LEMMA MsyncInvariant ==
  ASSUME IInv, NEW e \in Editor, Msync(e)
  PROVE  IInv'
BY CallReturns, AnswerTypes DEF Msync

-----------------------------------------------------------------------------
(* The steps of a load.                                                    *)

\* What is read next to what was read already stands where it stood in the
\* file, whatever other processes did to the file between the two reads.
LEMMA ReadsMore ==
  ASSUME Good(file), NEW d, Good(d), NEW u \in Len(d) + 1 .. Len(file)
  PROVE  LET r == d \o SubSeq(file, Len(d) + 1, u) IN
         /\ Good(r) /\ Len(r) = u
         /\ (\A i \in 1 .. Len(d) : d[i] = file[i]) => \A i \in 1 .. u : r[i] = file[i]
<1> DEFINE have == Len(d)
           s == SubSeq(file, have + 1, u)
           r == d \o s
<1>1. /\ file \in Seq(Cell) /\ Len(file) \in Nat /\ d \in Seq(Cell) /\ have \in Nat
      /\ u \in Nat /\ have < u /\ u <= Len(file)
  BY LenProperties DEF Good
<1> HIDE DEF have
<1>2. \A i \in have + 1 .. u : i \in 1 .. Len(file) /\ file[i] \in Cell
  BY <1>1, ElementOfSeq
<1>3. /\ s \in Seq(Cell) /\ Len(s) = u - have
      /\ \A i \in 1 .. u - have : s[i] = file[have + i]
  BY <1>1, <1>2, SubSeqProperties
<1> HIDE DEF s
<1>4. /\ r \in Seq(Cell) /\ Len(r) = u
      /\ \A i \in 1 .. u : r[i] = IF i <= have THEN d[i] ELSE s[i - have]
  BY <1>1, <1>3, ConcatProperties DEF have
<1> HIDE DEF r
<1>5. \A i \in 1 .. u : r[i] = IF i <= have THEN d[i] ELSE file[i]
  <2> SUFFICES ASSUME NEW i \in 1 .. u, ~ (i <= have) PROVE s[i - have] = file[i]
    BY <1>4
  <2>1. i - have \in 1 .. u - have /\ have + (i - have) = i
    BY <1>1
  <2> QED
    BY <1>3, <2>1
<1>6. ASSUME NEW i \in 1 .. u PROVE r[i] \in Cells(i)
  <2>1. CASE i <= have
    <3>1. i \in 1 .. Len(d) /\ r[i] = d[i]
      BY <1>1, <1>5, <2>1 DEF have
    <3> QED
      BY <3>1 DEF Good
  <2>2. CASE ~ (i <= have)
    <3>1. i \in 1 .. Len(file) /\ r[i] = file[i]
      BY <1>1, <1>5, <2>2
    <3> QED
      BY <3>1 DEF Good
  <2> QED
    BY <2>1, <2>2
<1>7. Good(r) /\ Len(r) = u
  BY <1>4, <1>6 DEF Good
<1>8. (\A i \in 1 .. Len(d) : d[i] = file[i]) => \A i \in 1 .. u : r[i] = file[i]
  BY <1>1, <1>5 DEF have
<1> QED
  BY <1>7, <1>8 DEF r, s, have

LEMMA LoadBegins ==
  ASSUME IInv, NEW e \in Editor, NEW k \in Key, editor_file_load(e, k)
  PROVE  IInv'
<1>1. CASE Return(e, ERROR) /\ UNCHANGED <<file, saves>>
  BY <1>1, CallReturns, AnswerTypes
<1>2. CASE /\ file \notin {Missing, << >>}
           /\ job' = [job EXCEPT ![e] =
                [kind |-> "load", key |-> k, size |-> Len(file), data |-> << >>]]
           /\ pc' = [pc EXCEPT ![e] = "read"]
           /\ answer' = [answer EXCEPT ![e] = None]
           /\ UNCHANGED <<file, saves>>
  <2> DEFINE j == [kind |-> "load", key |-> k, size |-> Len(file), data |-> << >>]
  <2>1. Good(file) /\ Len(file) \in Nat
    BY <1>2, LenProperties DEF IInv, Good
  <2>2. j \in LoadJob /\ j.data = << >> /\ j.size = Len(file)
    BY <2>1 DEF LoadJob
  <2>3. job' = [job EXCEPT ![e] = j]
    BY <1>2
  <2> HIDE DEF j
  <2>4. pc'[e] = "read" /\ job'[e] = j /\ answer'[e] = None
    BY <1>2, <2>3 DEF IInv, Types
  <2>5. Good(<< >>)' /\ Good(file)'
    BY <1>2, <2>1 DEF Good, Cells, Image
  <2>6. LoadJobOK(e)'
    BY <2>1, <2>2, <2>4, <2>5 DEF LoadJobOK
  <2>7. JobOK(e)' /\ AnswerOK(e)'
    BY <2>4, <2>5, <2>6 DEF JobOK, AnswerOK, SavePcs
  <2>8. "read" \in Labels /\ None \in Answer
    BY DEF Labels, Answer
  <2> QED
    BY <1>2, <2>2, <2>3, <2>7, <2>8, OneEditorSteps
<1> QED
  BY <1>1, <1>2 DEF editor_file_load, GoTo

LEMMA ReadInvariant ==
  ASSUME IInv, NEW e \in Editor, ReadChunk(e)
  PROVE  IInv'
<1>1. /\ pc[e] = "read" /\ LoadJobOK(e) /\ Good(file) /\ job[e] \in LoadJob
      /\ UNCHANGED <<file, saves>>
  BY DEF ReadChunk, IInv, JobOK, LoadPcs, LoadJobOK
<1>2. CASE Return(e, ERROR)
  BY <1>1, <1>2, CallReturns, AnswerTypes
<1> DEFINE d == job[e].data
           size == job[e].size
<1>3. CASE \E u \in Len(d) + 1 .. Min({size, Len(file)}) :
             /\ job' = [job EXCEPT ![e].data = @ \o SubSeq(file, Len(d) + 1, u)]
             /\ pc' = [pc EXCEPT ![e] = IF u = size THEN "parse" ELSE "read"]
             /\ UNCHANGED answer
  <2>1. PICK u \in Len(d) + 1 .. Min({size, Len(file)}) :
             /\ job' = [job EXCEPT ![e].data = @ \o SubSeq(file, Len(d) + 1, u)]
             /\ pc' = [pc EXCEPT ![e] = IF u = size THEN "parse" ELSE "read"]
             /\ UNCHANGED answer
    BY <1>3
  <2>2. size \in Nat /\ Len(file) \in Nat /\ Len(d) \in Nat /\ Good(d)
    BY <1>1, LenProperties DEF LoadJob, LoadJobOK, Good
  <2>3. Min({size, Len(file)}) <= size /\ Min({size, Len(file)}) <= Len(file)
        /\ Min({size, Len(file)}) \in Nat
    <3>1. {size, Len(file)} \subseteq Nat /\ {size, Len(file)} # {}
      BY <2>2
    <3> QED
      BY <3>1, MinProperties
  <2>4. u \in Nat /\ u <= size /\ u \in Len(d) + 1 .. Len(file)
    BY <2>2, <2>3
  <2> DEFINE r == d \o SubSeq(file, Len(d) + 1, u)
             j == [job[e] EXCEPT !.data = r]
             p == IF u = size THEN "parse" ELSE "read"
  <2>5. Good(r) /\ Len(r) = u
    BY <1>1, <2>2, <2>4, ReadsMore
  <2>6. job' = [job EXCEPT ![e] = j] /\ pc' = [pc EXCEPT ![e] = p] /\ p \in {"parse", "read"}
        /\ answer' = [answer EXCEPT ![e] = answer[e]] /\ answer[e] \in Answer
    BY <2>1 DEF IInv, Types
  <2> HIDE DEF r
  <2>7. j \in LoadJob /\ j.data = r /\ j.size = size
    BY <1>1, <2>5 DEF LoadJob, Good
  <2> HIDE DEF j
  <2>8. pc'[e] = p /\ job'[e] = j /\ answer'[e] = answer[e]
    BY <2>6 DEF IInv, Types
  <2>9. \A s : Good(s)' <=> Good(s)
    BY <1>1 DEF Good, Cells, Image
  <2>10. LoadJobOK(e)'
    BY <2>4, <2>5, <2>7, <2>8, <2>9 DEF LoadJobOK
  <2>11. JobOK(e)'
    <3>1. Good(file)'
      BY <1>1, <2>9
    <3> QED
      BY <2>6, <2>8, <2>10, <3>1 DEF JobOK, SavePcs
  <2>12. AnswerOK(e)'
    BY <1>1, <2>8 DEF IInv, AnswerOK, LoadIsOfSaves
  <2>13. p \in Labels
    BY <2>6 DEF Labels
  <2> HIDE DEF p
  <2> QED
    BY <1>1, <2>6, <2>7, <2>11, <2>12, <2>13, OneEditorSteps
<1> QED
  BY <1>2, <1>3 DEF ReadChunk, GoTo

LEMMA ParseInvariant ==
  ASSUME IInv, NEW e \in Editor, Parse(e)
  PROVE  IInv'
<1>1. /\ LoadJobOK(e) /\ job[e] \in LoadJob /\ UNCHANGED <<file, saves>>
  BY DEF Parse, IInv, JobOK, LoadPcs, LoadJobOK
<1>2. CASE Return(e, ERROR)
  BY <1>1, <1>2, CallReturns, AnswerTypes
<1>3. ASSUME NEW t \in Loaded(job[e].data, job[e].key),
             Return(e, Returned(t, job[e].key))
      PROVE  IInv'
  <2> DEFINE a == Returned(t, job[e].key)
  <2>1. t \in Text /\ job[e].key \in Key
    BY <1>1 DEF LoadJob, Loaded, Decompressed
  <2>2. a \in Answer /\ a.text = t /\ a.key = job[e].key
    BY <2>1 DEF Answer, Returned
  <2>3. LoadIsOfSaves(t, job[e].key)
    BY <1>1, LoadedIsOfSaves DEF LoadJobOK, IInv, Types
  <2> HIDE DEF a
  <2>4. Return(e, a)
    BY <1>3 DEF a
  <2> QED
    BY <1>1, <2>2, <2>3, <2>4, CallReturns
<1> QED
  BY <1>2, <1>3 DEF Parse

-----------------------------------------------------------------------------
(* The specification.                                                      *)

LEMMA ContinueInvariant ==
  ASSUME IInv, NEW e \in Editor, Continue(e)
  PROVE  IInv'
BY OpenInvariant, WriteInvariant, CloseInvariant, FtruncateInvariant, MemcpyInvariant,
   MsyncInvariant, ReadInvariant, ParseInvariant DEF Continue

LEMMA KillInvariant ==
  ASSUME IInv, NEW e \in Editor, Kill(e)
  PROVE  IInv'
BY CallReturns, AnswerTypes DEF Kill

LEMMA CallInvariant ==
  ASSUME IInv, NEW e \in Editor, Call(e)
  PROVE  IInv'
BY SaveBegins, LoadBegins DEF Call

LEMMA StutterInvariant ==
  ASSUME IInv, UNCHANGED vars
  PROVE  IInv'
<1>1. /\ file' = file /\ pc' = pc /\ job' = job /\ answer' = answer /\ saves' = saves
      /\ \A s : Good(s)' <=> Good(s)
  BY DEF vars, Good, Cells, Image
<1>2. Types' /\ (file' = Missing \/ Good(file)')
  BY <1>1 DEF IInv, Types, SavesType
<1>3. ASSUME NEW e \in Editor PROVE JobOK(e)' /\ AnswerOK(e)'
  <2>1. JobOK(e) /\ AnswerOK(e)
    BY DEF IInv
  <2>2. Good(file)' <=> Good(file)
    BY <1>1
  <2>3. SaveJobOK(e)' <=> SaveJobOK(e)
    BY <1>1 DEF SaveJobOK, Image
  <2>4. LoadJobOK(e)' <=> LoadJobOK(e)
    BY <1>1 DEF LoadJobOK
  <2> QED
    BY <1>1, <2>1, <2>2, <2>3, <2>4 DEF JobOK, AnswerOK, LoadIsOfSaves
<1> QED
  BY <1>2, <1>3 DEF IInv

\* However many editors use the file, the cells in it, and in the memory of a
\* load, are cells that some save writes there.
THEOREM Invariant == Spec => []IInv
<1>1. Init => IInv
  BY InitInvariant
<1>2. IInv /\ [Next]_vars => IInv'
  BY CallInvariant, ContinueInvariant, KillInvariant, StutterInvariant DEF Next
<1> QED
  BY <1>1, <1>2, PTL DEF Spec

LEMMA InvariantImpliesType == IInv => TypeOK
<1> SUFFICES ASSUME IInv PROVE TypeOK
  OBVIOUS
<1>1. file # Missing => \A i \in DOMAIN file : file[i] \in Cells(i)
  BY LenProperties DEF IInv, Good
<1>2. ASSUME NEW e \in Editor
      PROVE  /\ pc[e] = "idle" <=> job[e] = NoJob
             /\ job[e].kind \in Modes =>
                  /\ \E n \in DOMAIN saves : job[e].image = Image(n)
                  /\ job[e].todo \subseteq DOMAIN job[e].image
                  /\ pc[e] \in {"write", "memcpy"} => job[e].todo # {}
             /\ job[e].kind = "load" =>
                  /\ Len(job[e].data) <= job[e].size
                  /\ \A i \in DOMAIN job[e].data : job[e].data[i] \in Cells(i)
  <2>1. JobOK(e) /\ pc[e] \in Labels
    BY DEF IInv, Types
  <2>2. CASE pc[e] = "idle"
    BY <2>1, <2>2 DEF JobOK, NoJob, Modes
  <2>3. CASE pc[e] \in SavePcs
    <3>1. SaveJobOK(e) /\ job[e] \in SaveJob
      BY <2>1, <2>3 DEF JobOK, SaveJobOK
    <3>2. DOMAIN job[e].image = 1 .. Len(job[e].image)
      BY <3>1, JobImage
    <3>3. job[e].kind \in Modes
      BY <3>1 DEF SaveJob
    <3>4. job[e] # NoJob /\ job[e].kind # "load" /\ pc[e] # "idle"
      BY <2>3, <3>3 DEF NoJob, Modes, SavePcs
    <3> QED
      BY <3>1, <3>2, <3>3, <3>4 DEF SaveJobOK
  <2>4. CASE pc[e] \in LoadPcs
    <3>1. LoadJobOK(e) /\ job[e].kind = "load" /\ Good(job[e].data)
      BY <2>1, <2>4 DEF JobOK, LoadJobOK, LoadJob
    <3>2. job[e] # NoJob /\ job[e].kind \notin Modes /\ pc[e] # "idle"
      BY <2>4, <3>1 DEF NoJob, Modes, LoadPcs
    <3>3. \A i \in DOMAIN job[e].data : job[e].data[i] \in Cells(i)
      BY <3>1, LenProperties DEF Good
    <3> QED
      BY <3>1, <3>2, <3>3 DEF LoadJobOK
  <2> QED
    BY <2>1, <2>2, <2>3, <2>4 DEF Labels, SavePcs, LoadPcs
<1> QED
  BY <1>1, <1>2 DEF TypeOK

\* Every cell of the file and of the memory of a load is zero or was written
\* there by some save, at its own position; calls hold the locals they need.
THEOREM TypeCorrect == Spec => []TypeOK
BY Invariant, InvariantImpliesType, PTL

\* The sizes of every text fit the 32 bits of the header.
TextsFit == \A t \in Text :
  Len(t) < Uint32 /\ CompressedSize[t] < Uint32 /\ Blocks(t) * BlockSize < Uint32

LEMMA FittingLoadsWereSaved ==
  ASSUME TextsFit, SavesType, NEW u, NEW k, LoadIsOfSaves(u, k)
  PROVE  /\ \E n \in DOMAIN saves : saves[n].text = u
         /\ \E n \in DOMAIN saves : saves[n].key = k /\ IsPrefix(saves[n].text, u)
<1>1. PICK n \in DOMAIN saves : u = Crc(saves[n].text, Len(saves[n].text) % Uint32)
  BY DEF LoadIsOfSaves
<1>2. saves[n].text \in Text /\ saves[n].text \in Seq(Char) /\ Len(saves[n].text) \in Nat
  BY SaveType, TextType
<1>3. Len(saves[n].text) % Uint32 = Len(saves[n].text)
  BY <1>2, CastFits DEF TextsFit
<1>4. u = saves[n].text
  BY <1>1, <1>2, <1>3, SubSeqFull DEF Crc
<1> QED
  BY <1>4 DEF LoadIsOfSaves

\* Whatever any number of editors do to the file at the same time, a load that
\* succeeds returns a text that was saved and decrypted one saved under its
\* key, when the sizes of the texts fit the header.
THEOREM LoadsWereSaved ==
  ASSUME TextsFit
  PROVE  Spec => []LoadedTextWasSaved
<1>1. IInv => LoadedTextWasSaved
  <2> SUFFICES ASSUME IInv, NEW e \in Editor, "text" \in DOMAIN answer[e]
               PROVE  LoadIsOfSaves(answer[e].text, answer[e].key)
    BY FittingLoadsWereSaved DEF LoadedTextWasSaved, IInv, Types
  <2>1. answer[e] \notin {OK, ERROR, None}
    BY DEF OK, ERROR, None
  <2> QED
    BY <2>1 DEF IInv, AnswerOK
<1> QED
  BY <1>1, Invariant, PTL

-----------------------------------------------------------------------------
(* A call runs out of steps, whatever the other editors do.                *)

\* The most steps that a call still takes, which has come to label p with the
\* variables j.
StepsLeft(p, j) ==
  CASE p = "idle"                        -> 0
    [] p \in {"close", "msync", "parse"} -> 1
    [] p = "read"                        -> j.size - Len(j.data) + 1
    [] p \in {"write", "memcpy"}         -> Cardinality(j.todo) + 1
    [] p = "ftruncate"                   -> Cardinality(j.todo) + 2
    [] p = "open"                        -> Cardinality(j.todo) + 3

\* A step of a call leaves it fewer steps, and a step of another editor no more.
CallsRunOut ==
  [][ \A e \in Editor : pc[e] # "idle" =>
        /\ StepsLeft(pc[e], job[e]) \in Nat /\ StepsLeft(pc'[e], job'[e]) \in Nat
        /\ StepsLeft(pc'[e], job'[e]) <= StepsLeft(pc[e], job[e])
        /\ Continue(e) => StepsLeft(pc'[e], job'[e]) < StepsLeft(pc[e], job[e]) ]_vars

LEMMA FewerLeft ==
  ASSUME NEW l \in Nat, NEW X, X \subseteq 1 .. l
  PROVE  /\ Cardinality(X) \in Nat
         /\ \A P : P \cap X # {} =>
              Cardinality(X \ P) \in Nat /\ Cardinality(X \ P) < Cardinality(X)
<1>1. ASSUME NEW Y, Y \subseteq 1 .. l PROVE IsFiniteSet(Y) /\ Cardinality(Y) \in Nat
  <2> DEFINE first == 1
  <2>1. first \in Int /\ l \in Int
    OBVIOUS
  <2> HIDE DEF first
  <2>2. IsFiniteSet(first .. l)
    BY <2>1, FS_Interval
  <2>3. Y \in SUBSET (first .. l)
    BY <1>1 DEF first
  <2>4. IsFiniteSet(Y)
    BY <2>2, <2>3, FS_Subset
  <2> QED
    BY <2>4, FS_CardinalityType
<1>2. ASSUME NEW P, P \cap X # {}
      PROVE  Cardinality(X \ P) \in Nat /\ Cardinality(X \ P) < Cardinality(X)
  <2>1. X \ P \in SUBSET X /\ X \ P # X
    BY <1>2
  <2>2. Cardinality(X \ P) <= Cardinality(X) /\ Cardinality(X \ P) # Cardinality(X)
    BY <1>1, <2>1, FS_Subset
  <2>3. X \ P \subseteq 1 .. l
    OBVIOUS
  <2>4. Cardinality(X) \in Nat /\ Cardinality(X \ P) \in Nat
    BY <1>1, <2>3
  <2> DEFINE x == Cardinality(X)
             y == Cardinality(X \ P)
  <2>5. x \in Nat /\ y \in Nat /\ y <= x /\ y # x
    BY <2>2, <2>4
  <2> HIDE DEF x, y
  <2>6. y \in Nat /\ y < x
    BY <2>5
  <2> QED
    BY <2>6 DEF x, y
<1> QED
  BY <1>1, <1>2

LEMMA StepsAt ==
  /\ \A j : StepsLeft("idle", j) = 0
  /\ \A p \in {"close", "msync", "parse"} : \A j : StepsLeft(p, j) = 1
  /\ \A j : StepsLeft("read", j) = j.size - Len(j.data) + 1
  /\ \A p \in {"write", "memcpy"} : \A j : StepsLeft(p, j) = Cardinality(j.todo) + 1
BY DEF StepsLeft

\* A call in progress has a step left at least.
StepsCounted ==
  \A e \in Editor : /\ StepsLeft(pc[e], job[e]) \in Nat
                    /\ pc[e] # "idle" => StepsLeft(pc[e], job[e]) >= 1

LEMMA StepsLeftType == IInv => StepsCounted
<1> SUFFICES ASSUME IInv, NEW e \in Editor
             PROVE  /\ StepsLeft(pc[e], job[e]) \in Nat
                    /\ pc[e] # "idle" => StepsLeft(pc[e], job[e]) >= 1
  BY DEF StepsCounted
<1>1. JobOK(e) /\ pc[e] \in Labels
  BY DEF IInv, Types
<1>2. CASE pc[e] \in SavePcs
  <2>1. SaveJobOK(e)
    BY <1>1, <1>2 DEF JobOK
  <2>2. Len(job[e].image) \in Nat /\ job[e].todo \subseteq 1 .. Len(job[e].image)
    BY <2>1, JobImage DEF SaveJobOK
  <2>3. Cardinality(job[e].todo) \in Nat
    BY <2>2, FewerLeft
  <2> QED
    BY <1>2, <2>3 DEF SavePcs, StepsLeft
<1>3. CASE pc[e] \in LoadPcs
  <2>1. LoadJobOK(e)
    BY <1>1, <1>3 DEF JobOK
  <2>2. job[e].size \in Nat /\ Len(job[e].data) \in Nat /\ Len(job[e].data) <= job[e].size
    BY <2>1, LenProperties DEF LoadJobOK, LoadJob, Good
  <2> QED
    BY <1>3, <2>2, StepsAt DEF LoadPcs
<1>4. CASE pc[e] = "idle"
  BY <1>4 DEF StepsLeft
<1> QED
  BY <1>1, <1>2, <1>3, <1>4 DEF Labels, SavePcs, LoadPcs

LEMMA ReturnIsLast ==
  ASSUME IInv, NEW e \in Editor, NEW a, Return(e, a)
  PROVE  pc'[e] = "idle"
BY DEF Return, IInv, Types

\* A chunk is not empty: the loop of write_all goes on with fewer cells.
LEMMA WriteLowers ==
  ASSUME IInv, NEW e \in Editor, WriteChunk(e)
  PROVE  StepsLeft(pc'[e], job'[e]) < StepsLeft(pc[e], job[e])
<1>1. /\ SaveJobOK(e) /\ pc[e] = "write" /\ job[e] \in SaveJob /\ job[e].todo # {}
      /\ Len(job[e].image) \in Nat /\ job[e].todo \subseteq 1 .. Len(job[e].image)
  BY JobImage DEF WriteChunk, IInv, JobOK, SaveJobOK, SavePcs
<1>2. Cardinality(job[e].todo) \in Nat
      /\ \A P : P \cap job[e].todo # {} =>
           /\ Cardinality(job[e].todo \ P) \in Nat
           /\ Cardinality(job[e].todo \ P) < Cardinality(job[e].todo)
  BY <1>1, FewerLeft
<1>3. StepsLeft(pc[e], job[e]) = Cardinality(job[e].todo) + 1
  BY <1>1 DEF StepsLeft
<1>4. Cardinality(job[e].todo) >= 1
  <2>1. job[e].todo \cap job[e].todo # {}
    BY <1>1
  <2>2. PICK c \in Nat : c < Cardinality(job[e].todo)
    BY <1>2, <2>1
  <2> QED
    BY <1>2, <2>2
<1>5. CASE \E n \in 1 .. Cardinality(job[e].todo) :
             /\ job' = [job EXCEPT ![e].todo = @ \ Chunk(job[e].todo, n)]
             /\ pc' = [pc EXCEPT ![e] =
                         IF Chunk(job[e].todo, n) = job[e].todo THEN "close" ELSE "write"]
  <2>1. PICK n \in 1 .. Cardinality(job[e].todo) :
             /\ job' = [job EXCEPT ![e].todo = @ \ Chunk(job[e].todo, n)]
             /\ pc' = [pc EXCEPT ![e] =
                         IF Chunk(job[e].todo, n) = job[e].todo THEN "close" ELSE "write"]
    BY <1>5
  <2>2. job'[e].todo = job[e].todo \ Chunk(job[e].todo, n) /\ pc'[e] \in {"close", "write"}
    BY <1>1, <2>1 DEF IInv, Types, SaveJob
  <2>3. Chunk(job[e].todo, n) \cap job[e].todo # {}
    <3>1. job[e].todo \subseteq Nat
      BY <1>1
    <3>2. Min(job[e].todo) \in job[e].todo /\ Min(job[e].todo) \in Nat
      BY <1>1, <3>1, MinProperties
    <3> QED
      BY <1>2, <3>2 DEF Chunk
  <2>4. StepsLeft(pc'[e], job'[e]) \in {1, Cardinality(job'[e].todo) + 1}
    BY <2>2 DEF StepsLeft
  <2> QED
    BY <1>2, <1>3, <1>4, <2>2, <2>3, <2>4
<1>6. CASE pc' = [pc EXCEPT ![e] = "close"]
  <2>1. pc'[e] = "close"
    BY <1>6 DEF IInv, Types
  <2> QED
    BY <1>2, <1>3, <1>4, <2>1, StepsAt
<1> QED
  BY <1>5, <1>6 DEF WriteChunk, GoTo, Chunk

LEMMA MemcpyLowers ==
  ASSUME IInv, NEW e \in Editor, Memcpy(e)
  PROVE  StepsLeft(pc'[e], job'[e]) < StepsLeft(pc[e], job[e])
<1>1. /\ SaveJobOK(e) /\ pc[e] = "memcpy" /\ job[e] \in SaveJob
      /\ Len(job[e].image) \in Nat /\ job[e].todo \subseteq 1 .. Len(job[e].image)
  BY JobImage DEF Memcpy, IInv, JobOK, SaveJobOK, SavePcs
<1>2. PICK i \in job[e].todo :
       \/ /\ job' = [job EXCEPT ![e].todo = @ \ {i}]
          /\ pc' = [pc EXCEPT ![e] = IF job[e].todo = {i} THEN "msync" ELSE "memcpy"]
       \/ Return(e, None)
  BY DEF Memcpy, GoTo
<1>3. /\ Cardinality(job[e].todo) \in Nat
      /\ Cardinality(job[e].todo \ {i}) \in Nat
      /\ Cardinality(job[e].todo \ {i}) < Cardinality(job[e].todo)
  <2>1. {i} \cap job[e].todo # {}
    OBVIOUS
  <2> QED
    BY <1>1, <2>1, FewerLeft
<1>4. StepsLeft(pc[e], job[e]) = Cardinality(job[e].todo) + 1
  BY <1>1 DEF StepsLeft
<1>5. CASE Return(e, None)
  BY <1>3, <1>4, <1>5, ReturnIsLast, StepsAt
<1>6. CASE /\ job' = [job EXCEPT ![e].todo = @ \ {i}]
           /\ pc' = [pc EXCEPT ![e] = IF job[e].todo = {i} THEN "msync" ELSE "memcpy"]
  <2>1. job'[e].todo = job[e].todo \ {i} /\ pc'[e] \in {"msync", "memcpy"}
    BY <1>1, <1>6 DEF IInv, Types, SaveJob
  <2>2. StepsLeft(pc'[e], job'[e]) \in {1, Cardinality(job'[e].todo) + 1}
    BY <2>1 DEF StepsLeft
  <2> QED
    BY <1>3, <1>4, <2>1, <2>2
<1> QED
  BY <1>2, <1>5, <1>6

\* Opening and ftruncate leave the loop that follows.
LEMMA OpenLowers ==
  ASSUME IInv, NEW e \in Editor, OpenForWriting(e) \/ FtruncateAndMmap(e)
  PROVE  StepsLeft(pc'[e], job'[e]) < StepsLeft(pc[e], job[e])
<1>1. SaveJobOK(e) /\ pc[e] \in {"open", "ftruncate"}
  BY DEF OpenForWriting, FtruncateAndMmap, IInv, JobOK, SavePcs
<1>2. Cardinality(job[e].todo) \in Nat
  BY <1>1, JobImage, FewerLeft DEF SaveJobOK
<1>3. CASE pc'[e] = "idle"
  BY <1>1, <1>2, <1>3 DEF StepsLeft
<1>4. CASE /\ UNCHANGED job
           /\ \/ pc[e] = "open" /\ pc'[e] \in {"ftruncate", "write"}
              \/ pc[e] = "ftruncate" /\ pc'[e] = "memcpy"
  <2>1. job'[e].todo = job[e].todo
    BY <1>4
  <2> QED
    BY <1>2, <1>4, <2>1 DEF StepsLeft
<1> QED
  BY <1>3, <1>4, ReturnIsLast DEF OpenForWriting, FtruncateAndMmap, GoTo, IInv, Types

\* A read that gives nothing ends the call; any other leaves less to read.
LEMMA ReadLowers ==
  ASSUME IInv, NEW e \in Editor, ReadChunk(e)
  PROVE  StepsLeft(pc'[e], job'[e]) < StepsLeft(pc[e], job[e])
<1> DEFINE d == job[e].data
           size == job[e].size
<1>1. /\ pc[e] = "read" /\ LoadJobOK(e) /\ Good(file) /\ job[e] \in LoadJob
  BY DEF ReadChunk, IInv, JobOK, LoadPcs, LoadJobOK
<1>2. /\ size \in Nat /\ Len(file) \in Nat /\ Len(d) \in Nat /\ Good(d) /\ Len(d) <= size
  BY <1>1, LenProperties DEF LoadJob, LoadJobOK, Good
<1>3. StepsLeft(pc[e], job[e]) = size - Len(d) + 1
  BY <1>1 DEF StepsLeft
<1>4. CASE Return(e, ERROR)
  BY <1>2, <1>3, <1>4, ReturnIsLast, StepsAt
<1>5. CASE \E u \in Len(d) + 1 .. Min({size, Len(file)}) :
             /\ job' = [job EXCEPT ![e].data = @ \o SubSeq(file, Len(d) + 1, u)]
             /\ pc' = [pc EXCEPT ![e] = IF u = size THEN "parse" ELSE "read"]
  <2>1. PICK u \in Len(d) + 1 .. Min({size, Len(file)}) :
             /\ job' = [job EXCEPT ![e].data = @ \o SubSeq(file, Len(d) + 1, u)]
             /\ pc' = [pc EXCEPT ![e] = IF u = size THEN "parse" ELSE "read"]
    BY <1>5
  <2>2. Min({size, Len(file)}) <= size /\ Min({size, Len(file)}) <= Len(file)
        /\ Min({size, Len(file)}) \in Nat
    <3>1. {size, Len(file)} \subseteq Nat /\ {size, Len(file)} # {}
      BY <1>2
    <3> QED
      BY <3>1, MinProperties
  <2>3. u \in Nat /\ u <= size /\ u > Len(d) /\ u \in Len(d) + 1 .. Len(file)
    BY <1>2, <2>2
  <2> DEFINE r == d \o SubSeq(file, Len(d) + 1, u)
  <2>4. Len(r) = u
    BY <1>1, <1>2, <2>3, ReadsMore
  <2>5. job'[e].data = r /\ job'[e].size = size /\ pc'[e] \in {"parse", "read"}
    BY <1>1, <2>1 DEF IInv, Types, LoadJob
  <2> HIDE DEF r
  <2>6. StepsLeft(pc'[e], job'[e]) \in {1, job'[e].size - Len(job'[e].data) + 1}
    BY <2>5 DEF StepsLeft
  <2> QED
    BY <1>2, <1>3, <2>3, <2>4, <2>5, <2>6
<1> QED
  BY <1>4, <1>5 DEF ReadChunk, GoTo

LEMMA ContinueLowers ==
  ASSUME IInv, NEW e \in Editor, Continue(e)
  PROVE  StepsLeft(pc'[e], job'[e]) < StepsLeft(pc[e], job[e])
<1>1. CASE Close(e) \/ Msync(e) \/ Parse(e)
  <2>1. pc[e] # "idle" /\ \E a : Return(e, a)
    BY <1>1 DEF Close, Msync, Parse
  <2>2. pc'[e] = "idle"
    BY <2>1, ReturnIsLast
  <2>3. StepsLeft(pc[e], job[e]) \in Nat /\ StepsLeft(pc[e], job[e]) >= 1
    BY <2>1, StepsLeftType DEF StepsCounted
  <2>4. StepsLeft(pc'[e], job'[e]) = 0
    BY <2>2 DEF StepsLeft
  <2> QED
    BY <2>3, <2>4
<1> QED
  BY <1>1, WriteLowers, MemcpyLowers, OpenLowers, ReadLowers DEF Continue

\* The variables of an editor are its own.
LEMMA OthersKeepTheirs ==
  ASSUME IInv, NEW d \in Editor, NEW e \in Editor, d # e, Call(d) \/ Continue(d) \/ Kill(d)
  PROVE  pc'[e] = pc[e] /\ job'[e] = job[e]
<1>1. \/ pc' = pc
      \/ \E p : pc' = [pc EXCEPT ![d] = p]
  BY DEF Call, Continue, Kill, editor_file_save, editor_file_load, OpenForWriting, WriteChunk,
         Close, FtruncateAndMmap, Memcpy, Msync, ReadChunk, Parse, GoTo, Return
<1>2. \/ job' = job
      \/ \E j : job' = [job EXCEPT ![d] = j]
  BY DEF Call, Continue, Kill, editor_file_save, editor_file_load, OpenForWriting, WriteChunk,
         Close, FtruncateAndMmap, Memcpy, Msync, ReadChunk, Parse, GoTo, Return
<1> QED
  BY <1>1, <1>2 DEF IInv, Types

\* Whatever any number of editors do to the file during a call, the call ends
\* after a number of its own steps that is known when it begins: no write that
\* is short, no truncation by another editor and no missing byte adds one.
\* CallsReturn follows as long as an editor that is in a call keeps running.
THEOREM CallsRunOutOfSteps == Spec => CallsRunOut
<1>1. ASSUME IInv, IInv', [Next]_vars, NEW e \in Editor, pc[e] # "idle"
      PROVE  /\ StepsLeft(pc[e], job[e]) \in Nat /\ StepsLeft(pc'[e], job'[e]) \in Nat
             /\ StepsLeft(pc'[e], job'[e]) <= StepsLeft(pc[e], job[e])
             /\ Continue(e) => StepsLeft(pc'[e], job'[e]) < StepsLeft(pc[e], job[e])
  <2>1. StepsCounted /\ StepsCounted'
    <3>1. (IInv => StepsCounted) /\ (IInv => StepsCounted)'
      BY StepsLeftType, PTL
    <3> QED
      BY <1>1, <3>1
  <2>2. /\ StepsLeft(pc[e], job[e]) \in Nat /\ StepsLeft(pc[e], job[e]) >= 1
        /\ StepsLeft(pc'[e], job'[e]) \in Nat
    BY <1>1, <2>1 DEF StepsCounted
  <2>3. CASE Continue(e)
    BY <1>1, <2>2, <2>3, ContinueLowers
  <2>4. CASE ~ Continue(e)
    <3>1. CASE Kill(e)
      <4>1. StepsLeft(pc'[e], job'[e]) = 0
        BY <1>1, <3>1, ReturnIsLast DEF Kill, StepsLeft
      <4> QED
        BY <2>2, <2>4, <4>1
    <3>2. CASE pc'[e] = pc[e] /\ job'[e] = job[e]
      BY <2>2, <2>4, <3>2
    <3>3. ~ Call(e)
      BY <1>1 DEF Call, editor_file_save, editor_file_load
    <3> QED
      BY <1>1, <2>4, <3>1, <3>2, <3>3, OthersKeepTheirs DEF Next, vars
  <2> QED
    BY <2>3, <2>4
<1>2. IInv /\ IInv' /\ [Next]_vars =>
        [ \A e \in Editor : pc[e] # "idle" =>
            /\ StepsLeft(pc[e], job[e]) \in Nat /\ StepsLeft(pc'[e], job'[e]) \in Nat
            /\ StepsLeft(pc'[e], job'[e]) <= StepsLeft(pc[e], job[e])
            /\ Continue(e) => StepsLeft(pc'[e], job'[e]) < StepsLeft(pc[e], job[e]) ]_vars
  BY <1>1
<1> QED
  BY <1>2, Invariant, PTL DEF Spec, CallsRunOut

-----------------------------------------------------------------------------
(* What can be loaded from an image, and from parts of one.                *)

LEMMA WholeImageLoads ==
  ASSUME TextsFit, NEW t \in Text, NEW k \in Key, NEW v \in Nat, NEW d, IsImage(d, t, k, v),
         NEW k2
  PROVE  Loaded(d, k2) = IF k2 = k THEN {t} ELSE {}
<1>1. /\ t \in Seq(Char) /\ Len(t) \in Nat /\ Blocks(t) \in Nat \ {0}
      /\ CompressedSize[t] \in Nat
  BY TextType, BlocksType, CeioFormatAssumption
<1>2. /\ Len(t) % Uint32 = Len(t) /\ CompressedSize[t] % Uint32 = CompressedSize[t]
      /\ PayloadBlocks(t) = Blocks(t)
  BY <1>1, CastFits, PayloadType DEF TextsFit
<1>3. d[1] = [ original_size |-> Len(t), compressed_size |-> CompressedSize[t],
               encrypted_size |-> Blocks(t) ]
  BY <1>2 DEF IsImage
<1>4. /\ d[1] # Zero /\ d[1].original_size = Len(t)
      /\ d[1].compressed_size = CompressedSize[t] /\ d[1].encrypted_size = Blocks(t)
  BY <1>3, NotZero
<1>5. d[2] = [crc32 |-> Crc(t, Len(t))] /\ d[3] # Zero /\ d[3].iv = v
  BY <1>2, NotZero DEF IsImage
<1>6. ceio_format_parse(d)
  BY <1>1, <1>4 DEF ceio_format_parse, IsImage, HeaderSize
<1>7. ASSUME NEW t2 \in Decrypted(d, k2) PROVE t2 = t /\ k2 = k
  <2>1. /\ t2 \in Text /\ \A i \in 1 .. Blocks(t2) :
             d[HeaderSize + i] = [text |-> t2, key |-> k2, iv |-> d[3].iv, index |-> i]
    BY <1>7 DEF Decrypted
  <2>2. 1 \in 1 .. Blocks(t2) /\ 1 \in 1 .. Blocks(t)
    BY <1>1, <2>1, BlocksType
  <2>3. [text |-> t2, key |-> k2, iv |-> d[3].iv, index |-> 1]
        = [text |-> t, key |-> k, iv |-> v, index |-> 1]
    BY <1>2, <2>1, <2>2 DEF IsImage
  <2> QED
    BY <2>3
<1>8. t \in Decrypted(d, k)
  BY <1>2, <1>4, <1>5 DEF Decrypted, IsImage
<1>9. ASSUME NEW u \in Decompressed(d, t) PROVE u = t
  <2>1. u \in Seq(Char) /\ Len(u) = Len(t) /\ IsPrefix(t, u)
    BY <1>4, <1>9, TextType DEF Decompressed
  <2>2. SubSeq(t, 1, Len(t)) = SubSeq(u, 1, Len(u))
    BY <2>1 DEF IsPrefix
  <2> QED
    BY <1>1, <2>1, <2>2, SubSeqFull
<1>10. t \in Decompressed(d, t)
  BY <1>1, <1>4 DEF Decompressed, IsPrefix
<1>11. \A u \in Loaded(d, k2) : u = t /\ k2 = k
  BY <1>7, <1>9 DEF Loaded
<1>12. t \in Loaded(d, k)
  <2>1. t \in UNION {Decompressed(d, x) : x \in Decrypted(d, k)}
    BY <1>8, <1>10
  <2> QED
    BY <1>4, <1>5, <1>6, <2>1 DEF Loaded
<1> QED
  BY <1>11, <1>12

\* What a save, alone with the file, makes of it: cells that are written and
\* zeros, and X are the positions that are still to be written.
PartOf(d, image, X) ==
  /\ d \in Seq(Cell) /\ Len(d) <= Len(image)
  /\ \A i \in 1 .. Len(image) :
       IF i \in X THEN i <= Len(d) => d[i] = Zero
                  ELSE i <= Len(d) /\ d[i] = image[i]

\* A load needs every cell.
LEMMA PartDoesNotLoad ==
  ASSUME NEW t \in Text, NEW k \in Key, NEW v \in Nat, NEW image, IsImage(image, t, k, v),
         NEW d, NEW X, PartOf(d, image, X), X \subseteq 1 .. Len(image), X # {},
         NEW k2
  PROVE  Loaded(d, k2) = {}
<1> SUFFICES ASSUME NEW u \in Loaded(d, k2) PROVE FALSE
  OBVIOUS
<1>1. PICK t2 \in Decrypted(d, k2) : ceio_format_parse(d) /\ u \in Decompressed(d, t2)
      /\ d[2] = [crc32 |-> Crc(u, d[1].original_size)]
  BY DEF Loaded
<1>2. /\ t2 \in Text /\ d[3] # Zero /\ d[1].encrypted_size = Blocks(t2)
      /\ \A i \in 1 .. Blocks(t2) :
           d[HeaderSize + i] = [text |-> t2, key |-> k2, iv |-> d[3].iv, index |-> i]
  BY <1>1 DEF Decrypted
<1>3. /\ Blocks(t2) \in Nat \ {0} /\ PayloadBlocks(t) \in Nat
      /\ d[1] # Zero /\ Len(d) = HeaderSize + Blocks(t2)
      /\ Len(image) = HeaderSize + PayloadBlocks(t)
  BY <1>1, <1>2, BlocksType, PayloadType DEF ceio_format_parse, IsImage
<1>4. d[2] # Zero /\ \A i \in 1 .. Blocks(t2) : d[HeaderSize + i] # Zero
  <2>1. d[2] # Zero
    BY <1>1, NotZero
  <2>2. ASSUME NEW i \in 1 .. Blocks(t2) PROVE d[HeaderSize + i] # Zero
    <3>1. d[HeaderSize + i] = [text |-> t2, key |-> k2, iv |-> d[3].iv, index |-> i]
      BY <1>2
    <3> QED
      BY <3>1, NotZero
  <2> QED
    BY <2>1, <2>2
<1>5. ASSUME NEW i \in 1 .. Len(d) PROVE d[i] # Zero /\ i \notin X /\ d[i] = image[i]
  <2>1. d[i] # Zero
    <3>1. CASE i \in {1, 2, 3}
      BY <1>2, <1>3, <1>4, <3>1
    <3>2. CASE i \notin {1, 2, 3}
      <4>1. i - HeaderSize \in 1 .. Blocks(t2) /\ HeaderSize + (i - HeaderSize) = i
        BY <1>3, <3>2 DEF HeaderSize
      <4> QED
        BY <1>4, <4>1
    <3> QED
      BY <3>1, <3>2
  <2>2. i \in 1 .. Len(image) /\ i <= Len(d)
    BY <1>3 DEF PartOf, HeaderSize
  <2> QED
    BY <2>1, <2>2 DEF PartOf
<1>6. d[1] = image[1]
  BY <1>3, <1>5 DEF HeaderSize
<1>7. d[1].encrypted_size = PayloadBlocks(t)
  <2>1. image[1] = [ original_size   |-> Len(t) % Uint32,
                     compressed_size |-> CompressedSize[t] % Uint32,
                     encrypted_size  |-> PayloadBlocks(t) ]
    BY DEF IsImage
  <2> QED
    BY <1>6, <2>1
<1>8. Len(d) = Len(image)
  BY <1>2, <1>3, <1>7
<1> QED
  BY <1>5, <1>8

\* When nothing is left to be written the file is the image.
LEMMA NothingLeftToWrite ==
  ASSUME NEW d, NEW image \in Seq(Cell), PartOf(d, image, {})
  PROVE  d = image
<1>1. d \in Seq(Cell) /\ Len(d) \in Nat /\ Len(image) \in Nat /\ Len(d) <= Len(image)
      /\ \A i \in 1 .. Len(image) : i <= Len(d) /\ d[i] = image[i]
  BY LenProperties DEF PartOf
<1>2. Len(d) = Len(image)
  <2>1. CASE Len(image) = 0
    BY <1>1, <2>1
  <2>2. CASE Len(image) # 0
    <3>1. Len(image) \in 1 .. Len(image)
      BY <1>1, <2>2
    <3> QED
      BY <1>1, <3>1
  <2> QED
    BY <2>1, <2>2
<1> QED
  BY <1>1, <1>2, SeqEqual

-----------------------------------------------------------------------------
(* One editor that is alone with the file.                                 *)

\* During a save the file is a part of the image and during a load what was
\* read is a part of the file; a call that is about to succeed left nothing out.
AloneOK(e) ==
  /\ pc[e] \in SavePcs \ {"open"} => PartOf(file, job[e].image, job[e].todo)
  /\ pc[e] = "memcpy" => Len(file) = Len(job[e].image)
  /\ pc[e] = "msync" \/ (pc[e] = "close" /\ job[e].result = OK) => job[e].todo = {}
  /\ pc[e] \in LoadPcs =>
       /\ file # Missing /\ job[e].size = Len(file)
       /\ \A i \in 1 .. Len(job[e].data) : job[e].data[i] = file[i]

AloneInv ==
  /\ IInv
  /\ Len(saves) <= MaxSaves
  /\ \A e \in Editor : AloneOK(e)

LEMMA ReturnsAlone ==
  ASSUME IInv, NEW e \in Editor, Editor = {e}, NEW a, Return(e, a)
  PROVE  \A d \in Editor : AloneOK(d)'
<1>1. pc'[e] = "idle"
  BY DEF IInv, Types, Return
<1> QED
  BY <1>1 DEF AloneOK, SavePcs, LoadPcs

\* Cells written into a part of the image make more of it.
LEMMA PutMakesMore ==
  ASSUME NEW image \in Seq(Cell), NEW X, PartOf(file, image, X),
         NEW P, P \subseteq X, X \subseteq 1 .. Len(image)
  PROVE  PartOf(Put(image, P), image, X \ P)
         /\ Len(file) <= Len(Put(image, P))
<1> DEFINE g == Put(image, P)
<1>1. file \in Seq(Cell) /\ Len(file) \in Nat /\ Len(image) \in Nat /\ Len(file) <= Len(image)
  BY LenProperties DEF PartOf
<1>2. /\ g \in Seq(Cell) /\ Len(file) <= Len(g) /\ P \subseteq 1 .. Len(g)
      /\ Len(g) = Len(file) \/ Len(g) \in P
      /\ \A i \in 1 .. Len(g) :
           g[i] = IF i \in P THEN image[i] ELSE IF i <= Len(file) THEN file[i] ELSE Zero
  BY <1>1, PutProperties
<1>3. Len(g) \in Nat
  BY <1>2, LenProperties
<1> HIDE DEF g
<1>4. Len(g) <= Len(image)
  <2>1. \A x \in P : x <= Len(image)
    BY <1>1
  <2> QED
    BY <1>1, <1>2, <2>1
<1>5. ASSUME NEW i \in 1 .. Len(image)
      PROVE  IF i \in X \ P THEN i <= Len(g) => g[i] = Zero
                            ELSE i <= Len(g) /\ g[i] = image[i]
  <2>1. IF i \in X THEN i <= Len(file) => file[i] = Zero
                   ELSE i <= Len(file) /\ file[i] = image[i]
    BY DEF PartOf
  <2>2. CASE i \in P
    <3>1. i <= Len(g) /\ i \in 1 .. Len(g)
      BY <1>2, <1>3, <2>2
    <3> QED
      BY <1>2, <2>2, <3>1
  <2>3. CASE i \in X \ P
    <3>1. ASSUME i <= Len(g) PROVE g[i] = Zero
      <4>1. i \in 1 .. Len(g)
        BY <1>3, <3>1
      <4> QED
        BY <1>2, <2>1, <2>3, <4>1
    <3> QED
      BY <2>3, <3>1
  <2>4. CASE i \notin X
    <3>1. i <= Len(g) /\ i \in 1 .. Len(g)
      BY <1>1, <1>2, <1>3, <2>1, <2>4
    <3> QED
      BY <1>2, <2>1, <2>4, <3>1
  <2> QED
    BY <2>2, <2>3, <2>4
<1>6. PartOf(g, image, X \ P)
  BY <1>2, <1>4, <1>5 DEF PartOf
<1> QED
  BY <1>2, <1>6 DEF g

LEMMA AloneInit == Init => AloneInv
<1> SUFFICES ASSUME Init PROVE AloneInv
  OBVIOUS
<1>1. IInv
  BY InitInvariant
<1>2. Len(saves) <= MaxSaves
  BY CeioFileAssumption DEF Init
<1>3. \A e \in Editor : AloneOK(e)
  BY DEF Init, AloneOK, SavePcs, LoadPcs
<1> QED
  BY <1>1, <1>2, <1>3 DEF AloneInv

LEMMA AloneCall ==
  ASSUME AloneInv, NEW e \in Editor, Editor = {e}, Call(e)
  PROVE  Len(saves') <= MaxSaves /\ AloneOK(e)'
<1>1. IInv
  BY DEF AloneInv
<1>2. CASE \E t \in Text, k \in Key, m \in Modes : editor_file_save(e, t, k, m)
  <2>1. PICK t \in Text, k \in Key, m \in Modes : editor_file_save(e, t, k, m)
    BY <1>2
  <2>2. CASE Return(e, ERROR) /\ UNCHANGED saves
    BY <1>1, <2>2, ReturnsAlone DEF AloneInv
  <2>3. CASE /\ Len(saves) < MaxSaves
             /\ saves' = Append(saves, [text |-> t, key |-> k])
             /\ pc' = [pc EXCEPT ![e] = "open"]
    <3>1. pc'[e] = "open"
      BY <1>1, <2>3 DEF IInv, Types
    <3>2. Len(saves') = Len(saves) + 1 /\ Len(saves) \in Nat
      BY <1>1, <2>3 DEF IInv, Types, SavesType
    <3> QED
      BY <2>3, <3>1, <3>2, CeioFileAssumption DEF AloneOK, SavePcs, LoadPcs
  <2> QED
    BY <2>1, <2>2, <2>3 DEF editor_file_save, GoTo
<1>3. CASE \E k \in Key : editor_file_load(e, k)
  <2>1. PICK k \in Key : editor_file_load(e, k)
    BY <1>3
  <2>2. saves' = saves /\ file' = file
    BY <2>1 DEF editor_file_load
  <2>3. CASE Return(e, ERROR)
    BY <1>1, <2>2, <2>3, ReturnsAlone DEF AloneInv
  <2>4. CASE /\ file # Missing
             /\ job' = [job EXCEPT ![e] =
                  [kind |-> "load", key |-> k, size |-> Len(file), data |-> << >>]]
             /\ pc' = [pc EXCEPT ![e] = "read"]
    <3>1. pc'[e] = "read" /\ job'[e].size = Len(file) /\ job'[e].data = << >>
      BY <1>1, <2>4 DEF IInv, Types
    <3> QED
      BY <2>2, <2>4, <3>1 DEF AloneOK, SavePcs, LoadPcs, AloneInv
  <2> QED
    BY <2>1, <2>3, <2>4 DEF editor_file_load, GoTo
<1> QED
  BY <1>2, <1>3 DEF Call

LEMMA AloneOpen ==
  ASSUME AloneInv, NEW e \in Editor, Editor = {e}, OpenForWriting(e)
  PROVE  AloneOK(e)'
<1>1. IInv /\ SaveJobOK(e) /\ pc[e] = "open"
  BY DEF AloneInv, OpenForWriting, IInv, JobOK, SavePcs
<1>2. CASE Return(e, ERROR)
  BY <1>1, <1>2, ReturnsAlone
<1>3. CASE /\ file' = << >> /\ UNCHANGED job
           /\ pc' = [pc EXCEPT ![e] = IF job[e].kind = "mmap" THEN "ftruncate" ELSE "write"]
  <2>1. pc'[e] \in {"ftruncate", "write"} /\ job'[e] = job[e]
    BY <1>1, <1>3 DEF IInv, Types
  <2>2. job[e].todo = 1 .. Len(job[e].image) /\ Len(job[e].image) \in Nat
    BY <1>1, JobImage DEF SaveJobOK
  <2>3. PartOf(file', job[e].image, job[e].todo)
    BY <1>3, <2>2 DEF PartOf
  <2> QED
    BY <2>1, <2>3 DEF AloneOK, SavePcs, LoadPcs
<1> QED
  BY <1>2, <1>3 DEF OpenForWriting, GoTo

LEMMA AloneWrite ==
  ASSUME AloneInv, NEW e \in Editor, Editor = {e}, WriteChunk(e)
  PROVE  AloneOK(e)'
<1>1. /\ IInv /\ SaveJobOK(e) /\ pc[e] = "write" /\ PartOf(file, job[e].image, job[e].todo)
      /\ job[e] \in SaveJob /\ job[e].image \in Seq(Cell)
      /\ job[e].todo \subseteq 1 .. Len(job[e].image)
  BY JobImage DEF AloneInv, WriteChunk, IInv, JobOK, SaveJobOK, SavePcs, AloneOK
<1>2. CASE \E n \in 1 .. Cardinality(job[e].todo) :
             /\ file' = Put(job[e].image, Chunk(job[e].todo, n))
             /\ job' = [job EXCEPT ![e].todo = @ \ Chunk(job[e].todo, n)]
             /\ pc' = [pc EXCEPT ![e] =
                         IF Chunk(job[e].todo, n) = job[e].todo THEN "close" ELSE "write"]
  <2>1. PICK P \in SUBSET job[e].todo :
             /\ file' = Put(job[e].image, P)
             /\ job' = [job EXCEPT ![e].todo = @ \ P]
             /\ pc' = [pc EXCEPT ![e] = IF P = job[e].todo THEN "close" ELSE "write"]
    <3>1. \A n : Chunk(job[e].todo, n) \in SUBSET job[e].todo
      BY DEF Chunk
    <3> QED
      BY <1>2, <3>1
  <2>2. /\ job'[e].todo = job[e].todo \ P /\ job'[e].image = job[e].image
        /\ pc'[e] = IF P = job[e].todo THEN "close" ELSE "write"
    BY <1>1, <2>1 DEF IInv, Types, SaveJob
  <2>3. PartOf(file', job'[e].image, job'[e].todo)
    BY <1>1, <2>1, <2>2, PutMakesMore
  <2>4. pc'[e] = "close" => job'[e].todo = {}
    BY <2>2
  <2> QED
    BY <2>2, <2>3, <2>4 DEF AloneOK, SavePcs, LoadPcs
<1>3. CASE /\ job' = [job EXCEPT ![e].result = ERROR]
           /\ pc' = [pc EXCEPT ![e] = "close"] /\ UNCHANGED file
  <2>1. /\ job'[e].todo = job[e].todo /\ job'[e].image = job[e].image
        /\ job'[e].result = ERROR /\ ERROR # OK /\ pc'[e] = "close"
    BY <1>1, <1>3 DEF IInv, Types, SaveJob, OK, ERROR
  <2> QED
    BY <1>1, <1>3, <2>1 DEF AloneOK, SavePcs, LoadPcs
<1> QED
  BY <1>2, <1>3 DEF WriteChunk, GoTo, Chunk

LEMMA AloneFtruncate ==
  ASSUME AloneInv, NEW e \in Editor, Editor = {e}, FtruncateAndMmap(e)
  PROVE  AloneOK(e)'
<1>1. /\ IInv /\ SaveJobOK(e) /\ pc[e] = "ftruncate" /\ Good(file)
      /\ PartOf(file, job[e].image, job[e].todo)
      /\ job[e].todo = 1 .. Len(job[e].image) /\ Len(job[e].image) \in Nat
      /\ DOMAIN job[e].image = 1 .. Len(job[e].image)
  BY JobImage DEF AloneInv, FtruncateAndMmap, IInv, JobOK, SaveJobOK, SavePcs, AloneOK
<1>2. CASE Return(e, ERROR)
  BY <1>1, <1>2, ReturnsAlone
<1>3. CASE /\ file' = [i \in DOMAIN job[e].image |-> IF i <= Len(file) THEN file[i] ELSE Zero]
           /\ pc' = [pc EXCEPT ![e] = "memcpy"] /\ UNCHANGED job
  <2>1. pc'[e] = "memcpy" /\ job'[e] = job[e]
    BY <1>1, <1>3 DEF IInv, Types
  <2>2. file' \in Seq(Cell)
    BY <1>1, <1>3, ResizedIsGood DEF Good
  <2>3. /\ Len(file') = Len(job[e].image)
        /\ \A i \in 1 .. Len(job[e].image) :
             file'[i] = IF i <= Len(file) THEN file[i] ELSE Zero
    BY <1>1, <1>3
  <2>4. \A i \in 1 .. Len(job[e].image) : file'[i] = Zero
    BY <1>1, <2>3 DEF PartOf
  <2>5. PartOf(file', job[e].image, job[e].todo)
    BY <1>1, <2>2, <2>3, <2>4 DEF PartOf
  <2> QED
    BY <2>1, <2>3, <2>5 DEF AloneOK, SavePcs, LoadPcs
<1> QED
  BY <1>2, <1>3 DEF FtruncateAndMmap, GoTo

LEMMA AloneMemcpy ==
  ASSUME AloneInv, NEW e \in Editor, Editor = {e}, Memcpy(e)
  PROVE  AloneOK(e)'
<1>1. /\ IInv /\ SaveJobOK(e) /\ pc[e] = "memcpy" /\ PartOf(file, job[e].image, job[e].todo)
      /\ Len(file) = Len(job[e].image)
      /\ job[e] \in SaveJob /\ job[e].image \in Seq(Cell) /\ Len(job[e].image) \in Nat
      /\ job[e].todo \subseteq 1 .. Len(job[e].image)
  BY JobImage DEF AloneInv, Memcpy, IInv, JobOK, SaveJobOK, SavePcs, AloneOK
<1>2. PICK i \in job[e].todo :
       \/ /\ file' = IF i <= Len(file) THEN Put(job[e].image, {i}) ELSE file
          /\ job' = [job EXCEPT ![e].todo = @ \ {i}]
          /\ pc' = [pc EXCEPT ![e] = IF job[e].todo = {i} THEN "msync" ELSE "memcpy"]
       \/ Return(e, None)
  BY DEF Memcpy, GoTo
<1>3. CASE Return(e, None)
  BY <1>1, <1>3, ReturnsAlone
<1>4. CASE /\ file' = IF i <= Len(file) THEN Put(job[e].image, {i}) ELSE file
           /\ job' = [job EXCEPT ![e].todo = @ \ {i}]
           /\ pc' = [pc EXCEPT ![e] = IF job[e].todo = {i} THEN "msync" ELSE "memcpy"]
  <2>1. /\ job'[e].todo = job[e].todo \ {i} /\ job'[e].image = job[e].image
        /\ pc'[e] = IF job[e].todo = {i} THEN "msync" ELSE "memcpy"
    BY <1>1, <1>4 DEF IInv, Types, SaveJob
  <2>2. file' = Put(job[e].image, {i})
    BY <1>1, <1>4
  <2>3. /\ PartOf(file', job'[e].image, job'[e].todo)
        /\ Len(file) <= Len(file')
    <3>1. {i} \subseteq job[e].todo
      OBVIOUS
    <3>2. /\ PartOf(Put(job[e].image, {i}), job[e].image, job[e].todo \ {i})
          /\ Len(file) <= Len(Put(job[e].image, {i}))
      BY <1>1, <3>1, PutMakesMore
    <3> QED
      BY <2>1, <2>2, <3>2
  <2>4. Len(file') = Len(job'[e].image)
    BY <1>1, <2>1, <2>3, LenProperties DEF PartOf
  <2>5. pc'[e] = "msync" => job'[e].todo = {}
    BY <2>1
  <2> QED
    BY <2>1, <2>3, <2>4, <2>5 DEF AloneOK, SavePcs, LoadPcs
<1> QED
  BY <1>2, <1>3, <1>4

LEMMA AloneRead ==
  ASSUME AloneInv, NEW e \in Editor, Editor = {e}, ReadChunk(e)
  PROVE  AloneOK(e)'
<1>1. /\ IInv /\ LoadJobOK(e) /\ pc[e] = "read" /\ Good(file) /\ Good(job[e].data)
      /\ job[e] \in LoadJob /\ job[e].size = Len(file) /\ file' = file /\ file # Missing
      /\ \A i \in 1 .. Len(job[e].data) : job[e].data[i] = file[i]
  BY DEF AloneInv, ReadChunk, IInv, JobOK, LoadJobOK, LoadPcs, AloneOK
<1>2. CASE Return(e, ERROR)
  BY <1>1, <1>2, ReturnsAlone
<1> DEFINE d == job[e].data
<1>3. CASE \E u \in Len(d) + 1 .. Min({job[e].size, Len(file)}) :
             /\ job' = [job EXCEPT ![e].data = @ \o SubSeq(file, Len(d) + 1, u)]
             /\ pc' = [pc EXCEPT ![e] = IF u = job[e].size THEN "parse" ELSE "read"]
  <2>1. PICK u \in Len(d) + 1 .. Min({job[e].size, Len(file)}) :
             /\ job' = [job EXCEPT ![e].data = @ \o SubSeq(file, Len(d) + 1, u)]
             /\ pc' = [pc EXCEPT ![e] = IF u = job[e].size THEN "parse" ELSE "read"]
    BY <1>3
  <2>2. u \in Len(d) + 1 .. Len(file)
    <3>1. Len(file) \in Nat /\ Len(d) \in Nat
      BY <1>1, LenProperties DEF Good
    <3>2. Min({job[e].size, Len(file)}) \in {Len(file)}
      <4>1. {job[e].size, Len(file)} \subseteq Nat /\ {job[e].size, Len(file)} # {}
            /\ {job[e].size, Len(file)} = {Len(file)}
        BY <1>1, <3>1
      <4> QED
        BY <4>1, MinProperties
    <3> QED
      BY <3>1, <3>2
  <2> DEFINE r == d \o SubSeq(file, Len(d) + 1, u)
  <2>3. job'[e].data = r /\ job'[e].size = job[e].size /\ pc'[e] \in {"parse", "read"}
    BY <1>1, <2>1 DEF IInv, Types, LoadJob
  <2>4. Len(r) = u /\ \A i \in 1 .. u : r[i] = file[i]
    BY <1>1, <2>2, ReadsMore
  <2> HIDE DEF r
  <2> QED
    BY <1>1, <2>3, <2>4 DEF AloneOK, SavePcs, LoadPcs
<1> QED
  BY <1>2, <1>3 DEF ReadChunk, GoTo

\* What is true of one editor alone with the file, at each step of a call.
LEMMA AloneNext ==
  ASSUME AloneInv, NEW e \in Editor, Editor = {e}, [Next]_vars
  PROVE  AloneInv'
<1>1. IInv'
  BY CallInvariant, ContinueInvariant, KillInvariant, StutterInvariant DEF AloneInv, Next
<1>2. CASE Call(e)
  BY <1>1, <1>2, AloneCall DEF AloneInv
<1>3. CASE Continue(e)
  <2>1. saves' = saves
    BY <1>3 DEF Continue, OpenForWriting, WriteChunk, Close, FtruncateAndMmap, Memcpy, Msync,
                ReadChunk, Parse
  <2>2. ASSUME Close(e) \/ Msync(e) \/ Parse(e) PROVE AloneOK(e)'
    <3>1. \E a : Return(e, a)
      BY <2>2 DEF Close, Msync, Parse
    <3> QED
      BY <3>1, ReturnsAlone DEF AloneInv
  <2>3. AloneOK(e)'
    BY <1>3, <2>2, AloneOpen, AloneWrite, AloneFtruncate, AloneMemcpy, AloneRead DEF Continue
  <2> QED
    BY <1>1, <2>1, <2>3 DEF AloneInv
<1>4. CASE Kill(e)
  BY <1>1, <1>4, ReturnsAlone DEF AloneInv, Kill
<1>5. CASE UNCHANGED vars
  <2>1. \A d \in Editor : AloneOK(d)'
    BY <1>5 DEF vars, AloneInv, AloneOK
  <2> QED
    BY <1>1, <1>5, <2>1 DEF AloneInv, vars
<1> QED
  BY <1>2, <1>3, <1>4, <1>5 DEF Next

-----------------------------------------------------------------------------
(* What a file keeps for one editor that is alone with it: TextStore.      *)

\* Readable, of a file that holds d.
ReadableOf(d) ==
  IF d = Missing THEN {}
  ELSE {r \in [text : Text, key : Key] : r.text \in Loaded(d, r.key)}

LEMMA PartHoldsNothing ==
  ASSUME NEW t \in Text, NEW k \in Key, NEW v \in Nat, NEW image, IsImage(image, t, k, v),
         NEW d, NEW X, PartOf(d, image, X), X \subseteq 1 .. Len(image), X # {}
  PROVE  ReadableOf(d) = {}
<1>1. \A k2 : Loaded(d, k2) = {}
  BY PartDoesNotLoad
<1> QED
  BY <1>1 DEF ReadableOf

LEMMA ImageHoldsItsText ==
  ASSUME TextsFit, NEW t \in Text, NEW k \in Key, NEW v \in Nat,
         NEW d, IsImage(d, t, k, v), d # Missing
  PROVE  ReadableOf(d) = {[text |-> t, key |-> k]}
<1>1. \A k2 : Loaded(d, k2) = IF k2 = k THEN {t} ELSE {}
  BY WholeImageLoads
<1>2. \A r \in [text : Text, key : Key] :
        r.text \in Loaded(d, r.key) <=> r.text = t /\ r.key = k
  BY <1>1
<1>3. \A r \in [text : Text, key : Key] :
        r = [text |-> t, key |-> k] <=> r.text = t /\ r.key = k
  OBVIOUS
<1>4. [text |-> t, key |-> k] \in [text : Text, key : Key]
  OBVIOUS
<1> QED
  BY <1>2, <1>3, <1>4 DEF ReadableOf

LEMMA PendingOfJob ==
  /\ \A j \in SaveJob : BeingSaved(j) = [text |-> j.text, key |-> j.key]
  /\ \A j \in LoadJob : BeingSaved(j) = NoJob
  /\ BeingSaved(NoJob) = NoJob
  /\ \A t, k : [text |-> t, key |-> k] # NoJob
<1>1. \A t, k : "text" \in DOMAIN [text |-> t, key |-> k]
  OBVIOUS
<1>2. "text" \notin DOMAIN NoJob
  BY DEF NoJob
<1>3. \A t, k : [text |-> t, key |-> k] # NoJob
  BY <1>1, <1>2
<1>4. \A j \in SaveJob : j.kind \in Modes
  BY DEF SaveJob
<1>5. \A j \in LoadJob : j.kind \notin Modes
  BY DEF LoadJob, Modes
<1>6. NoJob.kind \notin Modes
  BY DEF NoJob, Modes
<1> QED
  BY <1>3, <1>4, <1>5, <1>6 DEF BeingSaved

\* The steps of the abstract specification, in the terms of CeioFile.
LEMMA StoreSteps ==
  ASSUME NEW e \in Editor, Editor = {e},
         \/ /\ ReadableOf(file') = ReadableOf(file)
            /\ BeingSaved(job'[e]) = BeingSaved(job[e]) /\ answer'[e] = answer[e]
         \/ /\ ReadableOf(file') = ReadableOf(file)
            /\ BeingSaved(job[e]) = NoJob /\ answer'[e] = None
            /\ \E t \in Text, k \in Key : BeingSaved(job'[e]) = [text |-> t, key |-> k]
         \/ /\ ReadableOf(file') = {} /\ BeingSaved(job[e]) # NoJob
            /\ BeingSaved(job'[e]) = BeingSaved(job[e]) /\ answer'[e] = answer[e]
         \/ /\ ReadableOf(file) = {} /\ ReadableOf(file') = {BeingSaved(job[e])}
            /\ BeingSaved(job[e]) # NoJob
            /\ BeingSaved(job'[e]) = BeingSaved(job[e]) /\ answer'[e] = answer[e]
         \/ /\ ReadableOf(file) = {BeingSaved(job[e])} /\ ReadableOf(file') = ReadableOf(file)
            /\ BeingSaved(job[e]) # NoJob /\ BeingSaved(job'[e]) = NoJob /\ answer'[e] = OK
         \/ /\ ReadableOf(file') = ReadableOf(file)
            /\ BeingSaved(job'[e]) = NoJob /\ answer'[e] \in {ERROR, None}
         \/ /\ ReadableOf(file') = ReadableOf(file)
            /\ BeingSaved(job[e]) = NoJob /\ BeingSaved(job'[e]) = NoJob
            /\ \E k \in Key : \E r \in ReadableOf(file) :
                 r.key = k /\ answer'[e] = Returned(r.text, k)
  PROVE  [Store!Next]_(Store!vars)
<1>1. TheEditor = e
  BY DEF TheEditor
<1>2. Readable = ReadableOf(file) /\ Readable' = ReadableOf(file')
  BY DEF Readable, ReadableOf
<1>3. /\ BeingSaved(job[TheEditor]) = BeingSaved(job[e])
      /\ BeingSaved(job[TheEditor])' = BeingSaved(job'[e])
      /\ answer[TheEditor] = answer[e] /\ answer[TheEditor]' = answer'[e]
  BY <1>1 DEF TheEditor
<1> QED
  BY <1>2, <1>3 DEF Store!Next, Store!vars, Store!Save, Store!Lose, Store!Store, Store!Succeed,
    Store!Fail, Store!Forget, Store!Load, Store!Nothing, Store!OK, Store!ERROR, Store!None,
    Store!Returned, NoJob, OK, ERROR, None, Returned

\* A call that fails, is killed or is done has nothing in progress.
LEMMA ReturnToStore ==
  ASSUME IInv, NEW e \in Editor, NEW a, Return(e, a)
  PROVE  BeingSaved(job'[e]) = NoJob /\ answer'[e] = a
BY PendingOfJob DEF IInv, Types, Return

LEMMA FailureOfStore ==
  ASSUME IInv, NEW e \in Editor, Editor = {e}, NEW a \in {ERROR, None}, Return(e, a),
         ReadableOf(file') = ReadableOf(file)
  PROVE  [Store!Next]_(Store!vars)
BY ReturnToStore, StoreSteps

\* The save that the editor is at.
LEMMA AloneSave ==
  ASSUME AloneInv, NEW e \in Editor, pc[e] \in SavePcs
  PROVE  /\ SaveJobOK(e) /\ job[e].text \in Text /\ job[e].key \in Key
         /\ \E n \in Nat : IsImage(job[e].image, job[e].text, job[e].key, n)
         /\ job[e].image \in Seq(Cell) /\ job[e].image # Missing
         /\ job[e].todo \subseteq 1 .. Len(job[e].image)
         /\ BeingSaved(job[e]) = [text |-> job[e].text, key |-> job[e].key]
         /\ BeingSaved(job[e]) # NoJob
<1>1. SaveJobOK(e) /\ SavesType /\ Len(saves) <= MaxSaves
  BY DEF AloneInv, IInv, JobOK, Types
<1>2. PICK n \in DOMAIN saves :
        job[e].image = Image(n) /\ job[e].text = saves[n].text /\ job[e].key = saves[n].key
  BY <1>1 DEF SaveJobOK
<1>3. n \in 1 .. MaxSaves /\ n \in Nat
  BY <1>1, CeioFileAssumption DEF SavesType
<1>4. job[e].text \in Text /\ job[e].key \in Key
  BY <1>1, <1>2, SaveType
<1>5. IsImage(job[e].image, job[e].text, job[e].key, n)
  BY <1>1, <1>2, SavedImage
<1>6. job[e].image # Missing
  BY <1>2, <1>3, <1>4, CeioFileAssumption DEF Image
<1>7. /\ BeingSaved(job[e]) = [text |-> job[e].text, key |-> job[e].key]
      /\ BeingSaved(job[e]) # NoJob
  BY <1>1, PendingOfJob DEF SaveJobOK
<1>8. job[e].image \in Seq(Cell) /\ job[e].todo \subseteq 1 .. Len(job[e].image)
  BY <1>1 DEF SaveJobOK, SaveJob
<1> QED
  BY <1>1, <1>3, <1>4, <1>5, <1>6, <1>7, <1>8

\* Until the last cell is written the file holds no text.
LEMMA UnfinishedSave ==
  ASSUME AloneInv, NEW e \in Editor, pc[e] \in SavePcs,
         NEW d, PartOf(d, job[e].image, job[e].todo), job[e].todo # {}
  PROVE  ReadableOf(d) = {}
BY AloneSave, PartHoldsNothing

\* When it is written the file holds the text.
LEMMA FinishedSave ==
  ASSUME TextsFit, AloneInv, NEW e \in Editor, pc[e] \in SavePcs,
         NEW d, PartOf(d, job[e].image, {})
  PROVE  ReadableOf(d) = {BeingSaved(job[e])}
<1>1. /\ d = job[e].image /\ d # Missing /\ job[e].text \in Text /\ job[e].key \in Key
      /\ BeingSaved(job[e]) = [text |-> job[e].text, key |-> job[e].key]
  BY AloneSave, NothingLeftToWrite
<1>2. PICK n \in Nat : IsImage(d, job[e].text, job[e].key, n)
  BY <1>1, AloneSave
<1>3. ReadableOf(d) = {[text |-> job[e].text, key |-> job[e].key]}
  BY <1>1, <1>2, ImageHoldsItsText
<1> QED
  BY <1>1, <1>3

\* Some of what was left of a save is written.
LEMMA SaveToStore ==
  ASSUME TextsFit, AloneInv, NEW e \in Editor, Editor = {e}, pc[e] \in SavePcs \ {"open"},
         NEW X, job[e].todo # {}, PartOf(file', job[e].image, X), X \subseteq job[e].todo,
         BeingSaved(job'[e]) = BeingSaved(job[e]), answer'[e] = answer[e]
  PROVE  [Store!Next]_(Store!vars)
<1>1. ReadableOf(file) = {}
  BY UnfinishedSave DEF AloneInv, AloneOK
<1>2. CASE X = {}
  <2>1. ReadableOf(file') = {BeingSaved(job[e])}
    BY <1>2, FinishedSave
  <2> QED
    BY <1>1, <2>1, AloneSave, StoreSteps
<1>3. CASE X # {}
  <2>1. ReadableOf(file') = {}
    BY <1>3, AloneSave, PartHoldsNothing
  <2> QED
    BY <1>1, <2>1, StoreSteps
<1> QED
  BY <1>2, <1>3

LEMMA CallToStore ==
  ASSUME AloneInv, NEW e \in Editor, Editor = {e}, Call(e)
  PROVE  [Store!Next]_(Store!vars)
<1>1. IInv
  BY DEF AloneInv
<1>2. CASE \E t \in Text, k \in Key, m \in Modes : editor_file_save(e, t, k, m)
  <2>1. PICK t \in Text, k \in Key, m \in Modes : editor_file_save(e, t, k, m)
    BY <1>2
  <2>2. /\ ReadableOf(file') = ReadableOf(file) /\ BeingSaved(job[e]) = NoJob
    BY <1>1, <2>1, PendingOfJob DEF editor_file_save, IInv, JobOK
  <2>3. CASE Return(e, ERROR)
    BY <1>1, <2>2, <2>3, FailureOfStore
  <2>4. CASE \E image, todo :
               /\ job' = [job EXCEPT ![e] =
                    [ kind |-> m, text |-> t, key |-> k, image |-> image,
                      todo |-> todo, result |-> OK ]]
               /\ answer' = [answer EXCEPT ![e] = None]
    <3>1. answer'[e] = None /\ job'[e].kind = m /\ job'[e].text = t /\ job'[e].key = k
      BY <1>1, <2>4 DEF IInv, Types
    <3>2. BeingSaved(job'[e]) = [text |-> t, key |-> k]
      BY <3>1 DEF BeingSaved
    <3> QED
      BY <2>2, <3>1, <3>2, StoreSteps
  <2> QED
    BY <2>1, <2>3, <2>4 DEF editor_file_save
<1>3. CASE \E k \in Key : editor_file_load(e, k)
  <2>1. PICK k \in Key : editor_file_load(e, k)
    BY <1>3
  <2>2. file' = file
    BY <2>1 DEF editor_file_load
  <2>3. CASE Return(e, ERROR)
    BY <1>1, <2>2, <2>3, FailureOfStore
  <2>4. CASE /\ job' = [job EXCEPT ![e] =
                  [kind |-> "load", key |-> k, size |-> Len(file), data |-> << >>]]
             /\ answer' = [answer EXCEPT ![e] = None]
    <3>1. answer'[e] = None /\ job'[e].kind = "load"
      BY <1>1, <2>4 DEF IInv, Types
    <3>2. BeingSaved(job'[e]) = NoJob
      BY <3>1 DEF BeingSaved, Modes
    <3> QED
      BY <2>2, <3>1, <3>2, StoreSteps
  <2> QED
    BY <2>1, <2>3, <2>4 DEF editor_file_load
<1> QED
  BY <1>2, <1>3 DEF Call

LEMMA OpenToStore ==
  ASSUME AloneInv, NEW e \in Editor, Editor = {e}, OpenForWriting(e)
  PROVE  [Store!Next]_(Store!vars)
<1>1. IInv /\ pc[e] \in SavePcs /\ pc[e] = "open"
  BY DEF AloneInv, OpenForWriting, SavePcs
<1>2. CASE Return(e, ERROR) /\ UNCHANGED file
  BY <1>1, <1>2, FailureOfStore
<1>3. CASE file' = << >> /\ UNCHANGED <<job, answer>>
  <2>1. job[e].todo = 1 .. Len(job[e].image) /\ Len(job[e].image) \in Nat \ {0}
    <3>1. PICK n \in Nat : IsImage(job[e].image, job[e].text, job[e].key, n)
      BY <1>1, AloneSave
    <3>2. PayloadBlocks(job[e].text) \in Nat
      BY <1>1, AloneSave, PayloadType
    <3> QED
      BY <1>1, <3>1, <3>2, AloneSave DEF SaveJobOK, IsImage, HeaderSize
  <2>2. job[e].todo # {}
    <3>1. 1 \in 1 .. Len(job[e].image)
      BY <2>1
    <3> QED
      BY <2>1, <3>1
  <2>3. PartOf(file', job[e].image, job[e].todo)
    BY <1>3, <2>1 DEF PartOf
  <2>4. ReadableOf(file') = {}
    BY <1>1, <2>2, <2>3, UnfinishedSave
  <2> QED
    BY <1>1, <1>3, <2>4, AloneSave, StoreSteps
<1> QED
  BY <1>2, <1>3 DEF OpenForWriting

LEMMA WriteToStore ==
  ASSUME TextsFit, AloneInv, NEW e \in Editor, Editor = {e}, WriteChunk(e)
  PROVE  [Store!Next]_(Store!vars)
<1>1. /\ IInv /\ pc[e] = "write" /\ pc[e] \in SavePcs \ {"open"}
      /\ PartOf(file, job[e].image, job[e].todo) /\ job[e] \in SaveJob
      /\ answer' = answer /\ job[e].todo # {}
  BY AloneSave DEF AloneInv, WriteChunk, SavePcs, AloneOK, SaveJobOK
<1>2. CASE \E n \in 1 .. Cardinality(job[e].todo) :
             /\ file' = Put(job[e].image, Chunk(job[e].todo, n))
             /\ job' = [job EXCEPT ![e].todo = @ \ Chunk(job[e].todo, n)]
  <2>1. PICK P \in SUBSET job[e].todo :
             /\ file' = Put(job[e].image, P)
             /\ job' = [job EXCEPT ![e].todo = @ \ P]
    <3>1. \A n : Chunk(job[e].todo, n) \in SUBSET job[e].todo
      BY DEF Chunk
    <3> QED
      BY <1>2, <3>1
  <2>2. PartOf(Put(job[e].image, P), job[e].image, job[e].todo \ P)
    BY <1>1, <2>1, AloneSave, PutMakesMore
  <2>3. /\ job'[e].kind = job[e].kind /\ job'[e].text = job[e].text
        /\ job'[e].key = job[e].key /\ answer'[e] = answer[e]
    BY <1>1, <2>1 DEF IInv, Types, SaveJob
  <2>4. BeingSaved(job'[e]) = BeingSaved(job[e])
    BY <2>3 DEF BeingSaved
  <2> QED
    BY <1>1, <2>1, <2>2, <2>3, <2>4, SaveToStore
<1>3. CASE job' = [job EXCEPT ![e].result = ERROR] /\ UNCHANGED file
  <2>1. /\ job'[e].kind = job[e].kind /\ job'[e].text = job[e].text
        /\ job'[e].key = job[e].key /\ answer'[e] = answer[e]
    BY <1>1, <1>3 DEF IInv, Types, SaveJob
  <2>2. BeingSaved(job'[e]) = BeingSaved(job[e])
    BY <2>1 DEF BeingSaved
  <2> QED
    BY <1>3, <2>1, <2>2, StoreSteps
<1> QED
  BY <1>2, <1>3 DEF WriteChunk, Chunk

LEMMA CloseToStore ==
  ASSUME TextsFit, AloneInv, NEW e \in Editor, Editor = {e}, Close(e) \/ Msync(e)
  PROVE  [Store!Next]_(Store!vars)
<1>1. /\ IInv /\ pc[e] \in SavePcs /\ file' = file
      /\ PartOf(file, job[e].image, job[e].todo) /\ job[e].result \in {OK, ERROR}
  BY AloneSave DEF AloneInv, Close, Msync, SavePcs, AloneOK, SaveJobOK, SaveJob
<1>2. CASE Return(e, ERROR)
  BY <1>1, <1>2, FailureOfStore
<1>3. CASE Return(e, OK) /\ job[e].todo = {}
  <2>1. ReadableOf(file) = {BeingSaved(job[e])}
    BY <1>1, <1>3, FinishedSave
  <2>2. BeingSaved(job'[e]) = NoJob /\ answer'[e] = OK
    BY <1>1, <1>3, ReturnToStore
  <2> QED
    BY <1>1, <2>1, <2>2, AloneSave, StoreSteps
<1>4. pc[e] = "msync" \/ (pc[e] = "close" /\ job[e].result = OK) => job[e].todo = {}
  BY DEF AloneInv, AloneOK
<1> QED
  BY <1>1, <1>2, <1>3, <1>4 DEF Close, Msync

LEMMA FtruncateToStore ==
  ASSUME TextsFit, AloneInv, NEW e \in Editor, Editor = {e}, FtruncateAndMmap(e)
  PROVE  [Store!Next]_(Store!vars)
<1>1. /\ IInv /\ pc[e] = "ftruncate" /\ pc[e] \in SavePcs \ {"open"}
      /\ Good(file) /\ PartOf(file, job[e].image, job[e].todo)
      /\ SaveJobOK(e) /\ job[e].todo = 1 .. Len(job[e].image) /\ Len(job[e].image) \in Nat
      /\ DOMAIN job[e].image = 1 .. Len(job[e].image)
  BY JobImage DEF AloneInv, FtruncateAndMmap, IInv, JobOK, SaveJobOK, SavePcs, AloneOK
<1>2. PICK n \in Nat : IsImage(job[e].image, job[e].text, job[e].key, n)
  BY <1>1, AloneSave
<1>3. 1 \in job[e].todo
  <2>1. PayloadBlocks(job[e].text) \in Nat
    BY <1>1, AloneSave, PayloadType
  <2> QED
    BY <1>1, <1>2, <2>1 DEF IsImage, HeaderSize
<1>4. ReadableOf(file) = {}
  BY <1>1, <1>3, UnfinishedSave
<1>6. CASE Return(e, ERROR) /\ UNCHANGED file
  BY <1>1, <1>6, FailureOfStore
<1>5. CASE file' = [i \in DOMAIN job[e].image |-> IF i <= Len(file) THEN file[i] ELSE Zero]
  <2>1. file' \in Seq(Cell)
    BY <1>1, <1>5, ResizedIsGood DEF Good
  <2>2. /\ Len(file') = Len(job[e].image)
        /\ \A i \in 1 .. Len(job[e].image) :
             file'[i] = IF i <= Len(file) THEN file[i] ELSE Zero
    BY <1>1, <1>5
  <2>3. \A i \in 1 .. Len(job[e].image) : file'[i] = Zero
    BY <1>1, <2>2 DEF PartOf
  <2>4. PartOf(file', job[e].image, job[e].todo)
    BY <1>1, <2>1, <2>2, <2>3 DEF PartOf
  <2>5. ReadableOf(file') = {}
    BY <1>1, <1>3, <2>4, UnfinishedSave
  <2>6. CASE UNCHANGED <<job, answer>>
    BY <1>4, <2>5, <2>6, StoreSteps
  <2>7. CASE Return(e, ERROR)
    BY <1>1, <1>4, <2>5, <2>7, FailureOfStore
  <2> QED
    BY <2>6, <2>7, <1>6 DEF FtruncateAndMmap
<1> QED
  BY <1>5, <1>6 DEF FtruncateAndMmap

LEMMA MemcpyToStore ==
  ASSUME TextsFit, AloneInv, NEW e \in Editor, Editor = {e}, Memcpy(e)
  PROVE  [Store!Next]_(Store!vars)
<1>1. /\ IInv /\ pc[e] = "memcpy" /\ pc[e] \in SavePcs \ {"open"}
      /\ PartOf(file, job[e].image, job[e].todo) /\ Len(file) = Len(job[e].image)
      /\ job[e] \in SaveJob /\ Len(job[e].image) \in Nat
  BY AloneSave, LenProperties DEF AloneInv, Memcpy, SavePcs, AloneOK, SaveJobOK
<1>2. PICK i \in job[e].todo :
       \/ /\ file' = IF i <= Len(file) THEN Put(job[e].image, {i}) ELSE file
          /\ job' = [job EXCEPT ![e].todo = @ \ {i}]
          /\ UNCHANGED answer
       \/ Return(e, None) /\ UNCHANGED file
  BY DEF Memcpy
<1>3. CASE Return(e, None) /\ UNCHANGED file
  BY <1>1, <1>3, FailureOfStore
<1>4. CASE /\ file' = IF i <= Len(file) THEN Put(job[e].image, {i}) ELSE file
           /\ job' = [job EXCEPT ![e].todo = @ \ {i}]
           /\ UNCHANGED answer
  <2>1. {i} \subseteq job[e].todo /\ i <= Len(file)
    BY <1>1, AloneSave
  <2>2. PartOf(Put(job[e].image, {i}), job[e].image, job[e].todo \ {i})
    BY <1>1, <2>1, AloneSave, PutMakesMore
  <2>3. /\ job'[e].kind = job[e].kind /\ job'[e].text = job[e].text
        /\ job'[e].key = job[e].key /\ answer'[e] = answer[e]
    BY <1>1, <1>4 DEF IInv, Types, SaveJob
  <2>4. BeingSaved(job'[e]) = BeingSaved(job[e])
    BY <2>3 DEF BeingSaved
  <2>5. PartOf(file', job[e].image, job[e].todo \ {i})
    BY <1>4, <2>1, <2>2
  <2> QED
    BY <1>1, <2>3, <2>4, <2>5, SaveToStore
<1> QED
  BY <1>2, <1>3, <1>4

LEMMA ReadToStore ==
  ASSUME AloneInv, NEW e \in Editor, Editor = {e}, ReadChunk(e)
  PROVE  [Store!Next]_(Store!vars)
<1>1. IInv /\ job[e] \in LoadJob /\ file' = file
  BY DEF AloneInv, ReadChunk, IInv, JobOK, LoadJobOK, LoadPcs
<1>2. CASE Return(e, ERROR)
  BY <1>1, <1>2, FailureOfStore
<1>3. CASE (\E d : job' = [job EXCEPT ![e].data = d]) /\ UNCHANGED answer
  <2>1. job'[e].kind = "load" /\ answer'[e] = answer[e]
    BY <1>1, <1>3 DEF IInv, Types, LoadJob
  <2>2. BeingSaved(job'[e]) = NoJob
    BY <2>1 DEF BeingSaved, Modes
  <2> QED
    BY <1>1, <2>1, <2>2, PendingOfJob, StoreSteps
<1> QED
  BY <1>2, <1>3 DEF ReadChunk

LEMMA ParseToStore ==
  ASSUME AloneInv, NEW e \in Editor, Editor = {e}, Parse(e)
  PROVE  [Store!Next]_(Store!vars)
<1>1. /\ IInv /\ pc[e] = "parse" /\ job[e] \in LoadJob /\ file' = file /\ file # Missing
      /\ Good(file) /\ Good(job[e].data)
      /\ Len(job[e].data) = Len(file)
      /\ \A i \in 1 .. Len(job[e].data) : job[e].data[i] = file[i]
      /\ answer[e] \in Answer /\ answer' = [answer EXCEPT ![e] = answer'[e]]
  BY DEF AloneInv, Parse, IInv, JobOK, LoadJobOK, LoadPcs, AloneOK, Types, Return
<1>2. CASE Return(e, ERROR)
  BY <1>1, <1>2, FailureOfStore
<1>3. CASE \E t \in Loaded(job[e].data, job[e].key) : Return(e, Returned(t, job[e].key))
  <2>1. PICK t \in Loaded(job[e].data, job[e].key) : Return(e, Returned(t, job[e].key))
    BY <1>3
  <2>2. job[e].data = file
    BY <1>1, SeqEqual DEF Good
  <2>3. t \in Text /\ job[e].key \in Key
    BY <1>1, <2>1 DEF Loaded, Decompressed, LoadJob
  <2>4. [text |-> t, key |-> job[e].key] \in ReadableOf(file)
    BY <1>1, <2>1, <2>2, <2>3 DEF ReadableOf
  <2>5. BeingSaved(job[e]) = NoJob
    BY <1>1, PendingOfJob
  <2>6. BeingSaved(job'[e]) = NoJob /\ answer'[e] = Returned(t, job[e].key)
    BY <1>1, <2>1, ReturnToStore
  <2> DEFINE r == [text |-> t, key |-> job[e].key]
  <2>7. r.key = job[e].key /\ answer'[e] = Returned(r.text, job[e].key)
    BY <2>6
  <2> QED
    BY <1>1, <2>3, <2>4, <2>5, <2>6, <2>7, StoreSteps
<1> QED
  BY <1>2, <1>3 DEF Parse

LEMMA NextToStore ==
  ASSUME TextsFit, AloneInv, NEW e \in Editor, Editor = {e}, [Next]_vars
  PROVE  [Store!Next]_(Store!vars)
<1>1. CASE Call(e)
  BY <1>1, CallToStore
<1>2. CASE Continue(e)
  BY <1>2, OpenToStore, WriteToStore, CloseToStore, FtruncateToStore, MemcpyToStore,
     ReadToStore, ParseToStore DEF Continue
<1>3. CASE Kill(e)
  BY <1>3, FailureOfStore DEF Kill, AloneInv
<1>4. CASE UNCHANGED vars
  BY <1>4, StoreSteps DEF vars
<1> QED
  BY <1>1, <1>2, <1>3, <1>4 DEF Next

LEMMA InitToStore ==
  ASSUME Init, NEW e \in Editor, Editor = {e}
  PROVE  Store!Init
<1>1. TheEditor = e
  BY DEF TheEditor
<1> QED
  BY <1>1, PendingOfJob DEF Init, Store!Init, Readable, Store!Nothing, Store!None, None, NoJob

\* What is true of one editor that is alone with the file.
THEOREM AloneInvariant ==
  ASSUME NEW e \in Editor, Editor = {e}
  PROVE  Spec => []AloneInv
<1>1. AloneInv /\ [Next]_vars => AloneInv'
  BY AloneNext
<1> QED
  BY <1>1, AloneInit, PTL DEF Spec

\* A file that one editor uses alone keeps what a save that returned success
\* stored: the steps of editor_file_save and editor_file_load, their failures
\* and kills between them are steps of TextStore, when the sizes of the texts
\* fit the header.
THEOREM ImplementsStore ==
  ASSUME TextsFit, NEW e \in Editor, Editor = {e}
  PROVE  Spec => ImplementsTextStore
<1>1. Init => Store!Init
  BY InitToStore
<1>2. AloneInv /\ [Next]_vars => [Store!Next]_(Store!vars)
  BY NextToStore
<1> QED
  BY <1>1, <1>2, AloneInvariant, PTL DEF Spec, ImplementsTextStore, Store!Spec

-----------------------------------------------------------------------------
(* The header of a file that one editor uses alone.                        *)

\* Recorded saves keep their numbers and images.
LEMMA ImagesStay ==
  ASSUME IInv, [Next]_vars, NEW n \in DOMAIN saves
  PROVE  n \in DOMAIN saves' /\ Image(n)' = Image(n)
<1>1. CASE UNCHANGED saves
  BY <1>1 DEF Image
<1>2. CASE \E t \in Text, k \in Key : saves' = Append(saves, [text |-> t, key |-> k])
  <2>1. PICK t \in Text, k \in Key : saves' = Append(saves, [text |-> t, key |-> k])
    BY <1>2
  <2>2. SavesType /\ Len(saves) \in Nat
    BY DEF IInv, Types, SavesType
  <2>3. PICK l \in Nat : l = Len(saves) + 1
    BY <2>2
  <2> QED
    BY <2>1, <2>2, <2>3, SavesGrow
<1> QED
  BY <1>1, <1>2 DEF Next, vars, Call, Continue, editor_file_save, editor_file_load, OpenForWriting,
     WriteChunk, Close, FtruncateAndMmap, Memcpy, Msync, ReadChunk, Parse, Kill

\* Cells of the image of save n, each at its place, among holes.
OfSave(d, n) ==
  \A i \in 1 .. Len(d) : d[i] = Zero \/ (i \in 1 .. Len(Image(n)) /\ d[i] = Image(n)[i])

\* Between saves and during them, the file holds nothing but cells of one of
\* them, the last that opened it.
OneSave == file # Missing => \E n \in DOMAIN saves : OfSave(file, n)

LEMMA PartIsOfSave ==
  ASSUME NEW d, NEW image \in Seq(Cell), NEW X, PartOf(d, image, X)
  PROVE  \A i \in 1 .. Len(d) : d[i] = Zero \/ (i \in 1 .. Len(image) /\ d[i] = image[i])
<1>1. Len(d) \in Nat /\ Len(image) \in Nat /\ Len(d) <= Len(image)
  BY LenProperties DEF PartOf
<1> TAKE i \in 1 .. Len(d)
<1>2. i \in 1 .. Len(image) /\ i <= Len(d)
  BY <1>1
<1> QED
  BY <1>2 DEF PartOf

\* An editor has opened the file for a save.
Writing == \E e \in Editor : pc[e] \in SavePcs \ {"open"}

LEMMA OneSaveWriting == AloneInv /\ Writing => OneSave
<1> SUFFICES ASSUME AloneInv, NEW e \in Editor, pc[e] \in SavePcs \ {"open"}
             PROVE  OneSave
  BY DEF Writing
<1>1. SaveJobOK(e) /\ IInv /\ PartOf(file, job[e].image, job[e].todo)
  BY DEF AloneInv, IInv, JobOK, AloneOK
<1>2. PICK n \in DOMAIN saves : job[e].image = Image(n)
  BY <1>1 DEF SaveJobOK
<1>3. OfSave(file, n)
  BY <1>1, <1>2, JobImage, PartIsOfSave DEF OfSave
<1> QED
  BY <1>2, <1>3 DEF OneSave

\* ftruncate changes no cell: it adds a hole, or drops the end of the file.
LEMMA OneSaveResized ==
  ASSUME AloneInv, NEW e \in Editor, Editor = {e}, FtruncateAndMmap(e)
  PROVE  OneSave'
<1>1. /\ IInv /\ SaveJobOK(e) /\ pc[e] = "ftruncate"
      /\ PartOf(file, job[e].image, job[e].todo) /\ job[e].image \in Seq(Cell)
      /\ DOMAIN job[e].image = 1 .. Len(job[e].image) /\ Len(job[e].image) \in Nat
      /\ Len(file) \in Nat /\ saves' = saves
  BY JobImage, LenProperties
  DEF AloneInv, FtruncateAndMmap, IInv, JobOK, SaveJobOK, SavePcs, AloneOK, PartOf
<1>2. PICK n \in DOMAIN saves : job[e].image = Image(n)
  BY <1>1 DEF SaveJobOK
<1>3. n \in DOMAIN saves' /\ Image(n)' = Image(n)
  BY <1>1 DEF Image
<1>4. \A i \in 1 .. Len(file) :
        file[i] = Zero \/ (i \in 1 .. Len(Image(n)) /\ file[i] = Image(n)[i])
  BY <1>1, <1>2, PartIsOfSave
<1>5. CASE file' = [i \in DOMAIN job[e].image |-> IF i <= Len(file) THEN file[i] ELSE Zero]
  <2>1. /\ Len(file') = Len(job[e].image)
        /\ \A i \in 1 .. Len(job[e].image) :
             file'[i] = IF i <= Len(file) THEN file[i] ELSE Zero
    BY <1>1, <1>5
  <2>2. ASSUME NEW i \in 1 .. Len(file')
        PROVE  file'[i] = Zero \/ (i \in 1 .. Len(Image(n)) /\ file'[i] = Image(n)[i])
    <3>1. CASE i <= Len(file)
      <4>1. i \in 1 .. Len(file)
        BY <1>1, <2>1, <3>1
      <4> QED
        BY <1>4, <2>1, <3>1, <4>1
    <3> QED
      BY <2>1, <3>1
  <2> QED
    BY <1>3, <2>2 DEF OneSave, OfSave
<1>6. CASE UNCHANGED file
  BY <1>3, <1>4, <1>6 DEF OneSave, OfSave
<1> QED
  BY <1>5, <1>6 DEF FtruncateAndMmap

LEMMA OneSaveNext ==
  ASSUME AloneInv, AloneInv', OneSave, NEW e \in Editor, Editor = {e}, [Next]_vars
  PROVE  OneSave'
<1>1. IInv
  BY DEF AloneInv
<1>2. CASE UNCHANGED file
  <2> SUFFICES ASSUME file # Missing PROVE OneSave'
    BY <1>2 DEF OneSave
  <2>1. PICK n \in DOMAIN saves : OfSave(file, n)
    BY DEF OneSave
  <2>2. n \in DOMAIN saves' /\ Image(n)' = Image(n)
    BY <1>1, ImagesStay
  <2> QED
    BY <1>2, <2>1, <2>2 DEF OneSave, OfSave
<1>3. CASE OpenForWriting(e) /\ file' = << >>
  <2>1. SaveJobOK(e) /\ saves' = saves
    BY <1>1, <1>3 DEF OpenForWriting, IInv, JobOK, SavePcs
  <2>2. PICK n \in DOMAIN saves' : TRUE
    BY <2>1 DEF SaveJobOK
  <2> QED
    BY <1>3, <2>2 DEF OneSave, OfSave
<1>4. CASE pc'[e] \in SavePcs \ {"open"}
  <2>1. /\ AloneInv /\ Writing => OneSave
        /\ (AloneInv /\ Writing => OneSave)'
    BY OneSaveWriting, PTL
  <2> QED
    BY <1>4, <2>1 DEF Writing
<1>5. CASE FtruncateAndMmap(e)
  BY <1>5, OneSaveResized
<1>6. ASSUME WriteChunk(e) \/ Memcpy(e), file' # file
      PROVE  pc'[e] \in {"write", "close", "memcpy", "msync"}
  BY <1>1, <1>6 DEF WriteChunk, Memcpy, GoTo, IInv, Types
<1> QED
  BY <1>2, <1>3, <1>4, <1>5, <1>6
  DEF Next, vars, Call, Continue, editor_file_save, editor_file_load, OpenForWriting,
      Close, Msync, ReadChunk, Parse, Kill, SavePcs

\* When the sizes of the texts fit the header, the header of a file that one
\* editor uses alone tells the size of the text whose blocks are in it, as
\* Reporte.md says, whatever was killed or failed: the run file_huge shows a
\* text that does not fit.
THEOREM FittingSizesAreTrue ==
  ASSUME TextsFit, NEW e \in Editor, Editor = {e}
  PROVE  Spec => []OriginalSizeIsTextSize
<1>1. Init => OneSave
  BY DEF Init, OneSave
<1>2. AloneInv /\ AloneInv' /\ OneSave /\ [Next]_vars => OneSave'
  BY OneSaveNext
<1>3. AloneInv /\ OneSave => OriginalSizeIsTextSize
  <2> SUFFICES ASSUME AloneInv, OneSave, file # Missing,
                      NEW i \in HeaderSize + 1 .. Len(file), file[1] # Zero, file[i] # Zero
               PROVE  file[1].original_size = Len(file[i].text)
    BY DEF OriginalSizeIsTextSize
  <2>1. SavesType /\ Len(file) \in Nat
    BY LenProperties DEF AloneInv, IInv, Types, Good
  <2>2. PICK n \in DOMAIN saves : OfSave(file, n)
    BY DEF OneSave
  <2>3. 1 \in 1 .. Len(file) /\ i \in 1 .. Len(file)
    BY <2>1 DEF HeaderSize
  <2>4. file[1] = Image(n)[1] /\ file[i] = Image(n)[i] /\ i \in 1 .. Len(Image(n))
    BY <2>2, <2>3 DEF OfSave
  <2>5. /\ saves[n].text \in Text /\ Len(saves[n].text) \in Nat
        /\ PayloadBlocks(saves[n].text) \in Nat
        /\ IsImage(Image(n), saves[n].text, saves[n].key, n)
    BY <2>1, SaveType, SavedImage, TextType, PayloadType
  <2>6. Len(saves[n].text) % Uint32 = Len(saves[n].text)
    BY <2>5, CastFits DEF TextsFit
  <2>7. file[1].original_size = Len(saves[n].text)
    BY <2>4, <2>5, <2>6 DEF IsImage
  <2>8. PICK j \in 1 .. PayloadBlocks(saves[n].text) : i = HeaderSize + j
    <3>1. Len(Image(n)) = HeaderSize + PayloadBlocks(saves[n].text)
      BY <2>5 DEF IsImage
    <3>2. i - HeaderSize \in 1 .. PayloadBlocks(saves[n].text) /\ i = HeaderSize + (i - HeaderSize)
      BY <2>3, <2>4, <2>5, <3>1 DEF HeaderSize
    <3> QED
      BY <3>2
  <2>9. file[i].text = saves[n].text
    <3>1. Image(n)[HeaderSize + j] =
            [text |-> saves[n].text, key |-> saves[n].key, iv |-> n, index |-> j]
      BY <2>5 DEF IsImage
    <3> QED
      BY <2>4, <2>8, <3>1
  <2> QED
    BY <2>7, <2>9
<1> QED
  BY <1>1, <1>2, <1>3, AloneInvariant, PTL DEF Spec

-----------------------------------------------------------------------------
(* The disk of module CeioPowerLoss, for any number of editors.            *)

\* The disk holds parts of the images of saves, each where it belongs, as the
\* file does.
DiskInv ==
  /\ IInv
  /\ disk = Missing \/ Good(disk)

\* What is good stays good while saves are recorded.
LEMMA GoodStays ==
  ASSUME IInv, [Next]_vars, NEW s, Good(s)
  PROVE  Good(s)'
<1>1. CASE UNCHANGED saves
  BY <1>1 DEF Good, Cells, Image
<1>2. CASE \E t \in Text, k \in Key : saves' = Append(saves, [text |-> t, key |-> k])
  BY <1>2, SavesGrow DEF IInv, Types
<1> QED
  BY <1>1, <1>2 DEF Next, vars, Call, Continue, editor_file_save, editor_file_load, OpenForWriting,
     WriteChunk, Close, FtruncateAndMmap, Memcpy, Msync, ReadChunk, Parse, Kill

LEMMA FileStep ==
  ASSUME IInv, [Next]_vars
  PROVE  IInv'
BY CallInvariant, ContinueInvariant, KillInvariant, StutterInvariant DEF Next

\* What the steps of the disk are to the file: a step of CeioFile, or none, or
\* the loss of everything but the disk.
LEMMA StepOnDisk ==
  ASSUME [NextOnDisk]_varsOnDisk
  PROVE  [Next]_vars \/ PowerLoss
BY DEF NextOnDisk, varsOnDisk, MsyncToDisk, InCache, Writeback, Next, Continue

\* What is good is a sequence of cells, each in its place.
LEMMA GoodIsCells ==
  ASSUME NEW d, Good(d)
  PROVE  /\ d \in Seq(Cell) /\ Len(d) \in Nat /\ DOMAIN d = 1 .. Len(d)
         /\ \A i \in 1 .. Len(d) : d[i] \in Cell /\ d[i] \in Cells(i)
<1>1. d \in Seq(Cell) /\ Len(d) \in Nat /\ DOMAIN d = 1 .. Len(d)
  BY LenProperties DEF Good
<1>2. \A i \in 1 .. Len(d) : d[i] \in Cell /\ d[i] \in Cells(i)
  BY <1>1, ElementOfSeq DEF Good
<1> QED
  BY <1>1, <1>2

LEMMA CellsAreGood ==
  ASSUME NEW n \in Nat, NEW d, d = [i \in 1 .. n |-> d[i]],
         \A i \in 1 .. n : d[i] \in Cell /\ d[i] \in Cells(i)
  PROVE  Good(d) /\ Len(d) = n
<1>1. d \in Seq(Cell) /\ Len(d) = n
  BY IsASeq
<1> QED
  BY <1>1 DEF Good

\* Bringing the size of the file to the disk.
LEMMA ResizedOnDisk ==
  ASSUME DiskInv, Good(file), NEW r, r = Resized
  PROVE  Good(r) /\ Len(r) = Len(file)
<1>1. Len(file) \in Nat /\ DOMAIN file = 1 .. Len(file)
  BY GoodIsCells
<1>2. Zero \in Cell /\ \A i : Zero \in Cells(i)
  BY DEF Cell, Cells
<1>3. \A i \in 1 .. Len(file) : r[i] \in Cell /\ r[i] \in Cells(i)
  <2> SUFFICES ASSUME NEW i \in 1 .. Len(file)
               PROVE  r[i] \in Cell /\ r[i] \in Cells(i)
    OBVIOUS
  <2>1. CASE disk # Missing /\ i <= Len(disk)
    <3>1. Good(disk)
      BY <2>1 DEF DiskInv
    <3>2. Len(disk) \in Nat
      BY <3>1, GoodIsCells
    <3>3. r[i] = disk[i] /\ i \in 1 .. Len(disk)
      BY <1>1, <2>1, <3>2 DEF Resized
    <3>4. disk[i] \in Cell /\ disk[i] \in Cells(i)
      BY <3>1, <3>3, GoodIsCells
    <3> QED
      BY <3>3, <3>4
  <2>2. CASE ~ (disk # Missing /\ i <= Len(disk))
    BY <1>1, <1>2, <2>2 DEF Resized
  <2> QED
    BY <2>1, <2>2
<1>4. r = [i \in 1 .. Len(file) |-> r[i]]
  BY <1>1 DEF Resized
<1> QED
  BY <1>1, <1>3, <1>4, CellsAreGood

LEMMA WritebackIsGood ==
  ASSUME DiskInv, Writeback
  PROVE  Good(disk')
<1>1. Good(file) /\ Len(file) \in Nat /\ DOMAIN file = 1 .. Len(file)
  <2>1. Good(file)
    BY DEF Writeback, DiskInv, IInv
  <2> QED
    BY <2>1, GoodIsCells
<1>2. ASSUME disk # Missing
      PROVE  Good(disk) /\ Len(disk) \in Nat /\ DOMAIN disk = 1 .. Len(disk)
             /\ disk = [i \in 1 .. Len(disk) |-> disk[i]]
  <2>1. Good(disk)
    BY <1>2 DEF DiskInv
  <2>2. Len(disk) \in Nat /\ DOMAIN disk = 1 .. Len(disk) /\ disk \in Seq(Cell)
    BY <2>1, GoodIsCells
  <2> QED
    BY <2>1, <2>2
<1>3. CASE disk # Missing /\ \E i \in DOMAIN file \cap DOMAIN disk :
                               disk' = [disk EXCEPT ![i] = file[i]]
  <2>1. PICK i \in DOMAIN file \cap DOMAIN disk : disk' = [disk EXCEPT ![i] = file[i]]
    BY <1>3
  <2>2. i \in 1 .. Len(file) /\ i \in 1 .. Len(disk)
    BY <1>1, <1>2, <1>3
  <2>3. file[i] \in Cell /\ file[i] \in Cells(i)
    BY <1>1, <2>2, GoodIsCells
  <2>4. \A j \in 1 .. Len(disk) : disk[j] \in Cell /\ disk[j] \in Cells(j)
    BY <1>2, <1>3, GoodIsCells
  <2>5. /\ disk' = [j \in 1 .. Len(disk) |-> disk'[j]]
        /\ \A j \in 1 .. Len(disk) : disk'[j] = IF j = i THEN file[i] ELSE disk[j]
    BY <1>2, <1>3, <2>1
  <2>6. \A j \in 1 .. Len(disk) : disk'[j] \in Cell /\ disk'[j] \in Cells(j)
    BY <2>3, <2>4, <2>5
  <2> QED
    BY <1>2, <1>3, <2>5, <2>6, CellsAreGood
<1>4. Good(<< >>)
  BY DEF Good
<1>5. CASE disk' = Resized
  BY <1>1, <1>5, ResizedOnDisk
<1>6. \/ disk' = Resized \/ (disk' = disk /\ disk # Missing) \/ disk' = << >>
      \/ disk # Missing /\ \E i \in DOMAIN file \cap DOMAIN disk :
                               disk' = [disk EXCEPT ![i] = file[i]]
  BY DEF Writeback
<1>7. CASE disk' = disk /\ disk # Missing
  BY <1>2, <1>7
<1> QED
  BY <1>3, <1>4, <1>5, <1>6, <1>7

\* msync writes cells of the file over those of the disk.
LEMMA MsyncIsGood ==
  ASSUME DiskInv, NEW e \in Editor, pc[e] = "msync",
         disk' = [i \in DOMAIN file |-> IF i \in DOMAIN job[e].image THEN file[i] ELSE Resized[i]]
  PROVE  Good(disk')
<1>1. Good(file)
  BY DEF DiskInv, IInv, JobOK
<1>2. /\ Len(file) \in Nat /\ DOMAIN file = 1 .. Len(file)
      /\ \A i \in 1 .. Len(file) : file[i] \in Cell /\ file[i] \in Cells(i)
  BY <1>1, GoodIsCells
<1>3. PICK r : r = Resized
  OBVIOUS
<1>4. \A i \in 1 .. Len(file) : r[i] \in Cell /\ r[i] \in Cells(i)
  <2>1. Good(r) /\ Len(r) = Len(file)
    BY <1>1, <1>3, ResizedOnDisk
  <2> QED
    BY <2>1, GoodIsCells
<1>5. \A i \in 1 .. Len(file) : disk'[i] \in Cell /\ disk'[i] \in Cells(i)
  BY <1>2, <1>3, <1>4
<1>6. disk' = [i \in 1 .. Len(file) |-> disk'[i]]
  BY <1>2
<1> QED
  BY <1>2, <1>5, <1>6, CellsAreGood

LEMMA PowerLossInvariant ==
  ASSUME DiskInv, PowerLoss
  PROVE  DiskInv'
<1>1. Types'
  BY DEF DiskInv, IInv, Types, SavesType, PowerLoss, Labels, Answer
<1>2. \A s : Good(s)' <=> Good(s)
  BY DEF Good, Cells, Image, PowerLoss
<1>3. (file' = Missing \/ Good(file')) /\ disk' = file'
  BY DEF DiskInv, PowerLoss, AfterPowerLoss
<1>4. \A e \in Editor : pc'[e] = "idle" /\ job'[e] = NoJob /\ answer'[e] = None
  BY DEF PowerLoss
<1>5. \A e \in Editor : JobOK(e)' /\ AnswerOK(e)'
  BY <1>4 DEF JobOK, AnswerOK, SavePcs, LoadPcs
<1> QED
  BY <1>1, <1>2, <1>3, <1>5 DEF DiskInv, IInv

\* What is good of the saves so far is good of those after the step.
LEMMA GoodOnDisk ==
  ASSUME IInv, [Next]_vars, Good(disk'), IInv'
  PROVE  DiskInv'
<1>1. \A s : Good(s) => Good(s)'
  BY GoodStays
<1>2. PICK d : d = disk'
  OBVIOUS
<1>3. Good(d)'
  BY <1>1, <1>2
<1> QED
  BY <1>2, <1>3 DEF DiskInv, Good, Cells, Image

LEMMA DiskInvariantNext ==
  ASSUME DiskInv, [NextOnDisk]_varsOnDisk
  PROVE  DiskInv'
<1>1. CASE PowerLoss
  BY <1>1, PowerLossInvariant
<1>2. CASE [Next]_vars
  <2>1. IInv /\ IInv'
    BY <1>2, FileStep DEF DiskInv
  <2>2. \A s : Good(s) => Good(s)'
    BY <1>2, <2>1, GoodStays
  <2>3. CASE Writeback
    <3>1. Good(disk')
      BY <2>3, WritebackIsGood
    <3> QED
      BY <1>2, <2>1, <3>1, GoodOnDisk
  <2>4. CASE disk' = disk
    BY <2>1, <2>2, <2>4 DEF DiskInv
  <2>5. ASSUME NEW e \in Editor, MsyncToDisk(e) PROVE DiskInv'
    <3>1. CASE disk' = [i \in DOMAIN file |->
                          IF i \in DOMAIN job[e].image THEN file[i] ELSE Resized[i]]
      <4>1. pc[e] = "msync"
        BY <2>5 DEF MsyncToDisk, Msync
      <4>2. Good(disk')
        BY <3>1, <4>1, MsyncIsGood
      <4> QED
        BY <1>2, <2>1, <4>2, GoodOnDisk
    <3> QED
      BY <2>4, <2>5, <3>1 DEF MsyncToDisk
  <2> QED
    BY <1>1, <2>3, <2>4, <2>5 DEF NextOnDisk, varsOnDisk, durable, InCache
<1> QED
  BY <1>1, <1>2, StepOnDisk

\* The disk and the file hold parts of images of saves, whatever reached the
\* disk, and whenever the power fails.
THEOREM DiskInvariant == SpecOnDisk => []DiskInv
<1>1. InitOnDisk => DiskInv
  BY InitInvariant DEF InitOnDisk, DiskInv
<1>2. DiskInv /\ [NextOnDisk]_varsOnDisk => DiskInv'
  BY DiskInvariantNext
<1> QED
  BY <1>1, <1>2, PTL DEF SpecOnDisk

\* Whatever part of which saves of whichever editors reached the disk before
\* the power failed, a load of it returns a text that was saved, when the sizes
\* of the texts fit the header.
THEOREM DiskWasSaved ==
  ASSUME TextsFit
  PROVE  SpecOnDisk => []DiskHoldsSavedText
<1>1. DiskInv => DiskHoldsSavedText
  <2> SUFFICES ASSUME DiskInv, disk # Missing, NEW k \in Key, NEW t \in Loaded(disk, k)
               PROVE  \E n \in DOMAIN saves : saves[n].text = t
    BY DEF DiskHoldsSavedText
  <2>1. SavesType /\ Good(disk)
    BY DEF DiskInv, IInv, Types
  <2>2. LoadIsOfSaves(t, k)
    BY <2>1, LoadedIsOfSaves
  <2> QED
    BY <2>1, <2>2, FittingLoadsWereSaved
<1> QED
  BY <1>1, DiskInvariant, PTL

-----------------------------------------------------------------------------
(* One editor that is alone with the file.                                 *)

\* The save that msync reported is on the disk and is what the file holds,
\* unless the file was lost since, for want of an entry.
SyncedOK ==
  synced # 0 => /\ synced \in DOMAIN saves
                /\ \/ file = Image(synced) /\ disk = Image(synced)
                   \/ file = Missing /\ ~ entry

SyncedInv == AloneInv /\ DiskInv /\ SyncedOK

LEMMA AlonePowerLoss ==
  ASSUME AloneInv, IInv', PowerLoss
  PROVE  AloneInv'
<1>1. \A e \in Editor : pc'[e] = "idle"
  BY DEF PowerLoss
<1>2. \A e \in Editor : AloneOK(e)'
  BY <1>1 DEF AloneOK, SavePcs, LoadPcs
<1>3. saves' = saves
  BY DEF PowerLoss
<1> QED
  BY <1>2, <1>3 DEF AloneInv

\* Writing back what is on the disk already changes nothing there.
LEMMA WritebackKeeps ==
  ASSUME DiskInv, Writeback, file = disk
  PROVE  disk' = disk
<1>1. /\ disk \in Seq(Cell) /\ Len(disk) \in Nat /\ DOMAIN disk = 1 .. Len(disk)
      /\ disk = [i \in 1 .. Len(disk) |-> disk[i]] /\ disk # Missing
  BY LenProperties DEF DiskInv, Writeback, Good
<1>2. Resized = disk
  <2>1. \A i \in 1 .. Len(disk) : i <= Len(disk)
    BY <1>1
  <2> QED
    BY <1>1, <2>1 DEF Resized
<1>3. CASE \E i \in DOMAIN disk : disk' = [disk EXCEPT ![i] = disk[i]]
  BY <1>1, <1>3
<1> QED
  BY <1>1, <1>2, <1>3 DEF Writeback

\* msync succeeds when the last cell of the image was copied.
LEMMA MsyncIsDone ==
  ASSUME AloneInv, NEW e \in Editor, pc[e] = "msync"
  PROVE  /\ file = job[e].image /\ SaveNumber(e) \in DOMAIN saves
         /\ Image(SaveNumber(e)) = job[e].image
<1>1. pc[e] \in SavePcs /\ PartOf(file, job[e].image, {})
  BY DEF AloneInv, AloneOK, SavePcs
<1>2. file = job[e].image
  BY <1>1, AloneSave, NothingLeftToWrite
<1>3. \E n \in DOMAIN saves : Image(n) = job[e].image
  BY <1>1, AloneSave DEF SaveJobOK
<1> QED
  BY <1>2, <1>3 DEF SaveNumber

LEMMA SyncedNext ==
  ASSUME SyncedInv, NEW e \in Editor, Editor = {e}, [NextOnDisk]_varsOnDisk
  PROVE  SyncedInv'
<1>1. DiskInv' /\ AloneInv /\ IInv
  BY DiskInvariantNext DEF SyncedInv, DiskInv
<1>2. CASE PowerLoss
  <2>1. AloneInv'
    BY <1>1, <1>2, AlonePowerLoss DEF DiskInv
  <2>2. /\ saves' = saves /\ entry' = entry /\ synced' = synced
        /\ file' = (IF entry THEN disk ELSE Missing) /\ disk' = file'
    BY <1>2 DEF PowerLoss, AfterPowerLoss
  <2>3. SyncedOK'
    BY <2>2 DEF SyncedInv, SyncedOK, Image
  <2> QED
    BY <1>1, <2>1, <2>3 DEF SyncedInv
<1>3. CASE [Next]_vars
  <2>1. AloneInv'
    BY <1>1, <1>3, AloneNext
  <2>2. \A n \in DOMAIN saves : n \in DOMAIN saves' /\ Image(n)' = Image(n)
    BY <1>1, <1>3, ImagesStay
  <2>3. ASSUME synced' = synced, file' = file, disk' = disk,
               file = Missing => entry' = entry
        PROVE  SyncedOK'
    <3>1. PICK n : n = synced
      OBVIOUS
    <3>2. n # 0 => /\ n \in DOMAIN saves'
                   /\ \/ file' = Image(n)' /\ disk' = Image(n)'
                      \/ file' = Missing /\ ~ entry'
      BY <2>2, <2>3, <3>1 DEF SyncedInv, SyncedOK
    <3> QED
      BY <2>3, <3>1, <3>2 DEF SyncedOK, Image
  <2>4. ASSUME synced' = 0 PROVE SyncedOK'
    BY <2>4 DEF SyncedOK
  <2>5. ASSUME Writeback PROVE SyncedOK'
    <3>1. synced' = synced /\ file' = file /\ file # Missing
      BY <2>5 DEF Writeback, vars
    <3>2. synced # 0 => disk' = disk
      BY <2>5, <3>1, WritebackKeeps DEF SyncedInv, SyncedOK
    <3> QED
      BY <2>3, <2>4, <3>1, <3>2
  <2>6. ASSUME MsyncToDisk(e) PROVE SyncedOK'
    <3>1. pc[e] = "msync" /\ file' = file /\ saves' = saves
      BY <2>6 DEF MsyncToDisk, Msync
    <3>2. CASE answer'[e] = OK
      <4>1. OK # ERROR
        BY DEF OK, ERROR
      <4>2. /\ disk' = [i \in DOMAIN file |->
                         IF i \in DOMAIN job[e].image THEN file[i] ELSE Resized[i]]
            /\ synced' = SaveNumber(e)
        BY <2>6, <3>2, <4>1 DEF MsyncToDisk
      <4>3. /\ file = job[e].image /\ SaveNumber(e) \in DOMAIN saves
            /\ Image(SaveNumber(e)) = job[e].image
        BY <1>1, <3>1, MsyncIsDone
      <4>7. disk' = file
        <5>1. Good(file)
          BY <1>1, <3>1 DEF IInv, JobOK
        <5>2. file = [i \in DOMAIN file |-> file[i]]
          BY <5>1, LenProperties DEF Good
        <5> QED
          BY <4>2, <4>3, <5>2
      <4>4. \A n : Image(n)' = Image(n)
        BY <3>1 DEF Image
      <4>5. PICK n : n = SaveNumber(e)
        OBVIOUS
      <4>6. n \in DOMAIN saves' /\ file' = Image(n)' /\ disk' = Image(n)' /\ synced' = n
        BY <3>1, <4>2, <4>3, <4>4, <4>5, <4>7
      <4> QED
        BY <4>6 DEF SyncedOK, Image
    <3>3. CASE answer'[e] # OK
      <4>1. synced' = 0
        BY <2>6, <3>3 DEF MsyncToDisk
      <4> QED
        BY <2>4, <4>1
    <3> QED
      BY <3>2, <3>3
  <2>7. ASSUME InCache(e) PROVE SyncedOK'
    <3>1. \/ synced' = synced /\ file' = file /\ disk' = disk /\ entry' = entry
          \/ synced' = 0
      BY <2>7 DEF InCache
    <3> QED
      BY <2>3, <2>4, <3>1
  <2>8. CASE UNCHANGED varsOnDisk
    <3>1. synced' = synced /\ file' = file /\ disk' = disk /\ entry' = entry
      BY <2>8 DEF varsOnDisk, vars, durable
    <3> QED
      BY <1>1, <2>1, <2>3, <3>1 DEF SyncedInv
  <2>9. CASE NextOnDisk /\ ~ PowerLoss
    BY <1>1, <2>1, <2>5, <2>6, <2>7, <2>9 DEF NextOnDisk, SyncedInv
  <2> QED
    BY <1>2, <2>8, <2>9
<1> QED
  BY <1>2, <1>3, StepOnDisk

\* A save with mmap that returned success is on the disk, whole, until the
\* file is opened for writing again, however often the power fails: once the
\* directory entry of the file is on the disk, a load brings back its text and
\* no other.  One editor uses the file, and the sizes of the texts fit the
\* header.
THEOREM SyncedSurvives ==
  ASSUME TextsFit, NEW e \in Editor, Editor = {e}
  PROVE  SpecOnDisk => []SyncedSaveSurvives
<1>1. InitOnDisk => SyncedInv
  BY AloneInit, InitInvariant DEF InitOnDisk, SyncedInv, DiskInv, SyncedOK
<1>2. SyncedInv /\ [NextOnDisk]_varsOnDisk => SyncedInv'
  BY SyncedNext
<1>3. SyncedInv => SyncedSaveSurvives
  <2> SUFFICES ASSUME SyncedInv, synced # 0, entry
               PROVE  /\ AfterPowerLoss = Image(synced)
                      /\ Loaded(AfterPowerLoss, saves[synced].key) = {saves[synced].text}
    BY DEF SyncedSaveSurvives
  <2>1. SavesType /\ synced \in DOMAIN saves /\ AfterPowerLoss = Image(synced)
    BY DEF SyncedInv, SyncedOK, AloneInv, IInv, Types, AfterPowerLoss
  <2>2. /\ saves[synced].text \in Text /\ saves[synced].key \in Key /\ synced \in Nat
        /\ IsImage(AfterPowerLoss, saves[synced].text, saves[synced].key, synced)
    BY <2>1, SaveType, SavedImage
  <2> QED
    BY <2>1, <2>2, WholeImageLoads
<1> QED
  BY <1>1, <1>2, <1>3, PTL DEF SpecOnDisk
=============================================================================
