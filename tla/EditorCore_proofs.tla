------------------------- MODULE EditorCore_proofs --------------------------
(***************************************************************************)
(* Proofs about module EditorCore, for every byte set, size_t width and    *)
(* default gap.                                                            *)
(***************************************************************************)
EXTENDS EditorCore, SequenceTheorems, WellFoundedInduction, TLAPS

-----------------------------------------------------------------------------
(* The arithmetic of the block.                                            *)

\* size_t addition yields a size_t, and a sum below an operand is exactly a
\* sum that wrapped around: the overflow test of ensure_gap is right.
LEMMA PlusProperties ==
  ASSUME NEW m \in Size, NEW n \in Size
  PROVE  /\ Plus(m, n) \in Size
         /\ Plus(m, n) >= m <=> Plus(m, n) = m + n
         /\ m + n <= SizeMax => Plus(m, n) = m + n
  BY GapBufferAssumption DEF Plus, Size

\* A nonempty set of naturals has a least element.
LEMMA LeastNatural ==
  ASSUME NEW S, S \subseteq Nat, S # {}
  PROVE  \E n \in S : \A m \in S : n <= m
<1>1. PICK n \in S : \A m \in S : ~ (<<m, n>> \in OpToRel(<, Nat))
  BY NatLessThanWellFounded, WFMin
<1>2. \A m \in S : m < n <=> <<m, n>> \in OpToRel(<, Nat)
  BY DEF OpToRel
<1>3. \A m \in S : ~ (m < n)
  BY <1>1, <1>2
<1> QED
  BY <1>3

\* The doubling loop ends with a capacity that is large enough and does not
\* exceed size_t.
LEMMA NewCapacityBounds ==
  ASSUME NEW c \in Size, NEW required \in Size
  PROVE  NewCapacity(c, required) \in required .. SizeMax
<1> DEFINE doublings == {n \in required .. SizeMax : \E k \in 0 .. SizeMax : n = c * 2^k}
<1>1. CASE doublings = {}
  BY <1>1, GapBufferAssumption DEF NewCapacity, Size
<1>2. CASE doublings # {}
  <2>1. doublings \subseteq Nat
    BY GapBufferAssumption DEF Size
  <2>2. \E n \in doublings : \A m \in doublings : n <= m
    BY <2>1, <1>2, LeastNatural
  <2>3. NewCapacity(c, required) \in doublings
    BY <1>2, <2>2 DEF NewCapacity
  <2> QED
    BY <2>3
<1> QED
  BY <1>1, <1>2

-----------------------------------------------------------------------------
(* Inserting into and removing from a sequence, position by position.      *)

LEMMA InsertAtProperties ==
  ASSUME NEW S, NEW s \in Seq(S), NEW e \in S, NEW i \in 1 .. Len(s) + 1
  PROVE  /\ Document!InsertAt(s, i, e) \in Seq(S)
         /\ Len(Document!InsertAt(s, i, e)) = Len(s) + 1
         /\ \A j \in 1 .. Len(s) + 1 :
              Document!InsertAt(s, i, e)[j] =
                IF j < i THEN s[j] ELSE IF j = i THEN e ELSE s[j - 1]
<1> DEFINE before == SubSeq(s, 1, i - 1)
           after  == SubSeq(s, i, Len(s))
<1>1. /\ before \in Seq(S) /\ Len(before) = i - 1
      /\ \A j \in 1 .. i - 1 : before[j] = s[j]
  BY SubSeqProperties
<1>2. /\ after \in Seq(S) /\ Len(after) = Len(s) + 1 - i
      /\ \A j \in 1 .. Len(s) + 1 - i : after[j] = s[i + j - 1]
  BY SubSeqProperties
<1> DEFINE start == before \o <<e>>
           whole == start \o after
<1>3. /\ start \in Seq(S) /\ Len(start) = i
      /\ \A j \in 1 .. i : start[j] = IF j < i THEN s[j] ELSE e
  BY <1>1, ConcatProperties
<1> HIDE DEF start, after
<1>4. /\ whole \in Seq(S)
      /\ Len(whole) = Len(start) + Len(after)
      /\ \A j \in 1 .. Len(start) + Len(after) :
           whole[j] = IF j <= Len(start) THEN start[j] ELSE after[j - Len(start)]
  BY <1>2, <1>3, ConcatProperties
<1>5. Len(start) + Len(after) = Len(s) + 1
  BY <1>2, <1>3, LenProperties
<1>6. Document!InsertAt(s, i, e) = whole
  BY DEF Document!InsertAt, start, after
<1> HIDE DEF whole
<1>7. ASSUME NEW j \in 1 .. Len(s) + 1
      PROVE  whole[j] = IF j < i THEN s[j] ELSE IF j = i THEN e ELSE s[j - 1]
  <2>1. CASE j <= i
    BY <2>1, <1>3, <1>4, <1>5
  <2>2. CASE j > i
    <3>1. j - i \in 1 .. Len(s) + 1 - i /\ i + (j - i) - 1 = j - 1
      BY <2>2, LenProperties
    <3>2. whole[j] = after[j - i]
      BY <2>2, <1>3, <1>4, <1>5
    <3>3. after[j - i] = s[j - 1]
      BY <3>1, <1>2
    <3> QED
      BY <2>2, <3>2, <3>3
  <2> QED
    BY <2>1, <2>2
<1> QED
  BY <1>4, <1>5, <1>6, <1>7

LEMMA RemoveAtProperties ==
  ASSUME NEW S, NEW s \in Seq(S), NEW i \in 1 .. Len(s)
  PROVE  /\ Document!RemoveAt(s, i) \in Seq(S)
         /\ Len(Document!RemoveAt(s, i)) = Len(s) - 1
         /\ \A j \in 1 .. Len(s) - 1 :
              Document!RemoveAt(s, i)[j] = IF j < i THEN s[j] ELSE s[j + 1]
<1> DEFINE before == SubSeq(s, 1, i - 1)
           after  == SubSeq(s, i + 1, Len(s))
<1>1. /\ before \in Seq(S) /\ Len(before) = i - 1
      /\ \A j \in 1 .. i - 1 : before[j] = s[j]
  BY SubSeqProperties
<1>2. /\ after \in Seq(S) /\ Len(after) = Len(s) - i
      /\ \A j \in 1 .. Len(s) - i : after[j] = s[i + j]
  BY SubSeqProperties
<1>3. Document!RemoveAt(s, i) = before \o after
  BY DEF Document!RemoveAt
<1> DEFINE whole == before \o after
<1> HIDE DEF before, after
<1>4. /\ whole \in Seq(S)
      /\ Len(whole) = Len(before) + Len(after)
      /\ \A j \in 1 .. Len(before) + Len(after) :
           whole[j] = IF j <= Len(before) THEN before[j] ELSE after[j - Len(before)]
  BY <1>1, <1>2, ConcatProperties
<1>5. Len(before) + Len(after) = Len(s) - 1
  BY <1>1, <1>2, LenProperties
<1> HIDE DEF whole
<1>6. ASSUME NEW j \in 1 .. Len(s) - 1
      PROVE  whole[j] = IF j < i THEN s[j] ELSE s[j + 1]
  <2>1. CASE j < i
    BY <2>1, <1>1, <1>4, <1>5
  <2>2. CASE j >= i
    <3>1. j - (i - 1) \in 1 .. Len(s) - i /\ i + (j - (i - 1)) = j + 1
      BY <2>2, LenProperties
    <3>2. whole[j] = after[j - (i - 1)]
      <4>1. j \in 1 .. Len(before) + Len(after) /\ ~ (j <= Len(before))
        BY <2>2, <1>1, <1>5, LenProperties
      <4> QED
        BY <4>1, <1>1, <1>4
    <3>3. after[j - (i - 1)] = s[j + 1]
      BY <3>1, <1>2
    <3> QED
      BY <2>2, <3>2, <3>3
  <2> QED
    BY <2>1, <2>2
<1> QED
  BY <1>3, <1>4, <1>5, <1>6 DEF whole

-----------------------------------------------------------------------------
(* What the operations do to a well-formed buffer and its text.            *)

Content == Byte \cup {Junk}

LEMMA WellFormedProperties ==
  ASSUME NEW b
  PROVE  WellFormed(b) <=>
           /\ b = [data |-> b.data, capacity |-> b.capacity,
                   gap_start |-> b.gap_start, gap_end |-> b.gap_end]
           /\ b.capacity \in 1 .. SizeMax
           /\ b.gap_end \in 0 .. b.capacity
           /\ b.gap_start \in 0 .. b.gap_end
           /\ b.data \in [0 .. b.capacity - 1 -> Content]
<1>1. ASSUME NEW n \in Nat \ {0}, NEW d \in Block(n)
      PROVE  d # NULL
  BY DEF Block, NULL
<1> QED
  BY <1>1, GapBufferAssumption DEF WellFormed, IsValid, Size, Block, Content

LEMMA TextProperties ==
  ASSUME NEW b, WellFormed(b)
  PROVE  /\ IsValid(b)
         /\ Length(b) = b.capacity - (b.gap_end - b.gap_start)
         /\ Length(b) \in b.gap_start .. b.capacity
         /\ Cursor(b) = b.gap_start
         /\ Text(b) \in Seq(Content)
         /\ Len(Text(b)) = Length(b)
         /\ \A i \in 1 .. Length(b) :
              Text(b)[i] = IF i <= b.gap_start THEN b.data[i - 1]
                           ELSE b.data[i - 1 + (b.gap_end - b.gap_start)]
<1>1. /\ IsValid(b)
      /\ Length(b) = b.capacity - (b.gap_end - b.gap_start)
      /\ Length(b) \in b.gap_start .. b.capacity
      /\ Cursor(b) = b.gap_start
  BY WellFormedProperties, GapBufferAssumption
     DEF WellFormed, IsValid, Length, GapSize, Cursor
<1>2. ASSUME NEW i \in 1 .. Length(b)
      PROVE  /\ Text(b)[i] = IF i <= b.gap_start THEN b.data[i - 1]
                             ELSE b.data[i - 1 + (b.gap_end - b.gap_start)]
             /\ Text(b)[i] \in Content
  <2>1. Text(b)[i] = IF i <= b.gap_start THEN b.data[i - 1]
                     ELSE b.data[i - 1 + (b.gap_end - b.gap_start)]
    BY DEF Text, GapSize
  <2>2. CASE i <= b.gap_start
    <3>1. i - 1 \in 0 .. b.capacity - 1
      BY <2>2, <1>1, WellFormedProperties
    <3> QED
      BY <3>1, <2>1, <2>2, WellFormedProperties
  <2>3. CASE ~ (i <= b.gap_start)
    <3>1. i - 1 + (b.gap_end - b.gap_start) \in 0 .. b.capacity - 1
      BY <2>3, <1>1, WellFormedProperties
    <3> QED
      BY <3>1, <2>1, <2>3, WellFormedProperties
  <2> QED
    BY <2>2, <2>3
<1>3. Text(b) \in [1 .. Length(b) -> Content]
  BY <1>2 DEF Text
<1>4. Length(b) \in Nat
  BY <1>1, WellFormedProperties
<1>5. Text(b) \in Seq(Content) /\ Len(Text(b)) = Length(b)
  BY <1>3, <1>4, SeqDef, LenProperties
<1> QED
  BY <1>1, <1>2, <1>5

\* Two well-formed buffers of the same length hold the same text when they
\* agree at every position.
LEMMA SameText ==
  ASSUME NEW b, WellFormed(b), NEW c, WellFormed(c),
         Length(b) = Length(c),
         \A i \in 1 .. Length(c) : Text(b)[i] = Text(c)[i]
  PROVE  Text(b) = Text(c)
  BY TextProperties, SeqEqual

\* ensure_gap: a larger block holds the same text.
LEMMA EnlargeProperties ==
  ASSUME NEW b, WellFormed(b), NEW n \in b.capacity .. SizeMax
  PROVE  /\ WellFormed(Enlarge(b, n))
         /\ Text(Enlarge(b, n)) = Text(b)
         /\ Enlarge(b, n).gap_start = b.gap_start
         /\ GapSize(Enlarge(b, n)) = GapSize(b) + (n - b.capacity)
<1> DEFINE e == Enlarge(b, n)
           newEnd == n - (b.capacity - b.gap_end)
<1>1. /\ n \in 1 .. SizeMax
      /\ newEnd \in b.gap_end .. n
      /\ e.capacity = n
      /\ e.gap_start = b.gap_start
      /\ e.gap_end = newEnd
      /\ e = [data |-> e.data, capacity |-> e.capacity,
              gap_start |-> e.gap_start, gap_end |-> e.gap_end]
      /\ e.data = [i \in 0 .. n - 1 |->
                     IF i >= newEnd THEN b.data[i - newEnd + b.gap_end]
                     ELSE IF i < b.capacity THEN b.data[i] ELSE Junk]
  BY WellFormedProperties, GapBufferAssumption DEF Enlarge
<1> HIDE DEF e
<1>2. ASSUME NEW i \in 0 .. n - 1
      PROVE  e.data[i] \in Content
  <2>1. CASE i >= newEnd
    <3>1. i - newEnd + b.gap_end \in 0 .. b.capacity - 1
      BY <2>1, WellFormedProperties
    <3> QED
      BY <3>1, <2>1, <1>1, WellFormedProperties
  <2>2. CASE ~ (i >= newEnd)
    BY <2>2, <1>1, WellFormedProperties DEF Content
  <2> QED
    BY <2>1, <2>2
<1>3. WellFormed(e)
  <2>1. e.data \in [0 .. n - 1 -> Content]
    BY <1>1, <1>2
  <2>2. b.gap_start \in 0 .. newEnd /\ newEnd \in 0 .. n
    BY <1>1, WellFormedProperties
  <2> HIDE DEF newEnd
  <2> QED
    BY <2>1, <2>2, <1>1, WellFormedProperties
<1>4. GapSize(e) = GapSize(b) + (n - b.capacity) /\ Length(e) = Length(b)
  <2>1. GapSize(e) = GapSize(b) + (n - b.capacity)
    BY <1>1, WellFormedProperties DEF GapSize
  <2>2. /\ Length(e) = n - (newEnd - b.gap_start)
        /\ Length(b) = b.capacity - (b.gap_end - b.gap_start)
    BY <1>1, <1>3, TextProperties
  <2> QED
    BY <2>1, <2>2, WellFormedProperties
<1>5. ASSUME NEW i \in 1 .. Length(b)
      PROVE  Text(e)[i] = Text(b)[i]
  <2>1. CASE i <= b.gap_start
    <3>1. i - 1 \in 0 .. n - 1 /\ ~ (i - 1 >= newEnd) /\ i - 1 < b.capacity
      BY <2>1, <1>1, WellFormedProperties
    <3>2. e.data[i - 1] = b.data[i - 1]
      BY <3>1, <1>1
    <3> QED
      BY <2>1, <3>2, <1>1, <1>3, <1>4, TextProperties
  <2>2. CASE ~ (i <= b.gap_start)
    <3> DEFINE j == i - 1 + (newEnd - b.gap_start)
               k == i - 1 + (b.gap_end - b.gap_start)
    <3>1. j \in 0 .. n - 1 /\ j >= newEnd /\ j - newEnd + b.gap_end = k
      BY <2>2, <1>1, TextProperties, WellFormedProperties
    <3>2. e.data[j] = b.data[k]
      BY <3>1, <1>1
    <3>3. Text(e)[i] = e.data[j]
      <4>1. i \in 1 .. Length(e) /\ ~ (i <= e.gap_start)
        BY <2>2, <1>1, <1>4
      <4>2. Text(e)[i] = e.data[i - 1 + (e.gap_end - e.gap_start)]
        BY <4>1, <1>3, TextProperties
      <4> QED
        BY <4>2, <1>1
    <3>4. Text(b)[i] = b.data[k]
      BY <2>2, TextProperties
    <3> QED
      BY <3>2, <3>3, <3>4
  <2> QED
    BY <2>1, <2>2
<1>6. Text(e) = Text(b)
  BY <1>3, <1>4, <1>5, SameText
<1> QED
  BY <1>1, <1>3, <1>4, <1>6 DEF e

\* Inserting into a buffer whose gap is not empty inserts into its text.
LEMMA PutCharProperties ==
  ASSUME NEW b, WellFormed(b), GapSize(b) >= 1, NEW ch \in Byte
  PROVE  /\ WellFormed(PutChar(b, ch))
         /\ Text(PutChar(b, ch)) = Document!InsertAt(Text(b), b.gap_start + 1, ch)
         /\ PutChar(b, ch).gap_start = b.gap_start + 1
<1> DEFINE e == PutChar(b, ch)
           t == Document!InsertAt(Text(b), b.gap_start + 1, ch)
<1>1. /\ e = [data |-> e.data, capacity |-> e.capacity,
              gap_start |-> e.gap_start, gap_end |-> e.gap_end]
      /\ e.capacity = b.capacity
      /\ e.gap_end = b.gap_end
      /\ e.gap_start = b.gap_start + 1
      /\ e.data = [b.data EXCEPT ![b.gap_start] = ch]
  BY WellFormedProperties DEF PutChar, WithGap
<1>2. b.gap_start \in 0 .. b.capacity - 1 /\ b.gap_start + 1 \in 0 .. b.gap_end
  BY WellFormedProperties DEF GapSize
<1> HIDE DEF e
<1>3. WellFormed(e)
  <2>1. e.data \in [0 .. b.capacity - 1 -> Content]
    BY <1>1, <1>2, WellFormedProperties DEF Content
  <2> QED
    BY <2>1, <1>1, <1>2, WellFormedProperties
<1>4. Length(e) = Length(b) + 1
  BY <1>1, <1>3, TextProperties, WellFormedProperties
<1>5. /\ t \in Seq(Content)
      /\ Len(t) = Length(e)
      /\ \A i \in 1 .. Length(e) :
           t[i] = IF i < b.gap_start + 1 THEN Text(b)[i]
                  ELSE IF i = b.gap_start + 1 THEN ch ELSE Text(b)[i - 1]
  <2> DEFINE s        == Text(b)
             position == b.gap_start + 1
  <2>1. /\ position \in 1 .. Len(s) + 1
        /\ s \in Seq(Content)
        /\ ch \in Content
        /\ Len(s) + 1 = Length(e)
    BY <1>4, TextProperties, WellFormedProperties DEF Content
  <2>2. t = Document!InsertAt(s, position, ch)
    OBVIOUS
  <2> HIDE DEF s, position, t
  <2> DEFINE inserted == Document!InsertAt(s, position, ch)
  <2>3. /\ inserted \in Seq(Content)
        /\ Len(inserted) = Len(s) + 1
        /\ \A i \in 1 .. Len(s) + 1 :
             inserted[i] = IF i < position THEN s[i] ELSE IF i = position THEN ch ELSE s[i - 1]
    BY ONLY <2>1, InsertAtProperties, SMTT(60)
  <2> HIDE DEF inserted
  <2>4. inserted = t
    BY <2>2 DEF inserted
  <2>5. /\ t \in Seq(Content)
        /\ Len(t) = Len(s) + 1
        /\ \A i \in 1 .. Len(s) + 1 :
             t[i] = IF i < position THEN s[i] ELSE IF i = position THEN ch ELSE s[i - 1]
    BY <2>3, <2>4
  <2>6. s = Text(b) /\ position = b.gap_start + 1
    BY DEF s, position
  <2> QED
    BY <2>1, <2>5, <2>6
<1> HIDE DEF t
<1>6. ASSUME NEW i \in 1 .. Length(e)
      PROVE  Text(e)[i] = t[i]
  <2>1. CASE i <= b.gap_start
    <3>1. i \in 1 .. Length(b)
      BY <2>1, TextProperties, WellFormedProperties
    <3>2. e.data[i - 1] = b.data[i - 1]
      BY <2>1, <1>1, <1>2, WellFormedProperties
    <3>3. Text(e)[i] = e.data[i - 1]
      BY <2>1, <1>1, <1>3, TextProperties, WellFormedProperties
    <3>4. Text(b)[i] = b.data[i - 1]
      BY <2>1, <3>1, TextProperties
    <3> QED
      BY <2>1, <3>2, <3>3, <3>4, <1>5, WellFormedProperties
  <2>2. CASE i = b.gap_start + 1
    <3>1. Text(e)[i] = e.data[b.gap_start]
      BY <2>2, <1>1, <1>3, TextProperties, WellFormedProperties
    <3> QED
      BY <3>1, <2>2, <1>1, <1>2, <1>5, WellFormedProperties
  <2>3. CASE i > b.gap_start + 1
    <3> DEFINE k == i - 1 + (b.gap_end - (b.gap_start + 1))
    <3>1. /\ i - 1 \in 1 .. Length(b)
          /\ ~ (i - 1 <= b.gap_start)
          /\ (i - 1) - 1 + (b.gap_end - b.gap_start) = k
          /\ k \in 0 .. b.capacity - 1 /\ k # b.gap_start
      <4>1. Length(b) = b.capacity - (b.gap_end - b.gap_start)
        BY TextProperties
      <4>2. i \in 1 .. Length(b) + 1
        BY <1>4
      <4>3. i - 1 \in 1 .. Length(b) /\ ~ (i - 1 <= b.gap_start)
        BY <4>1, <4>2, <2>3, WellFormedProperties
      <4>4. (i - 1) - 1 + (b.gap_end - b.gap_start) = k
        BY WellFormedProperties
      <4>5. k \in 0 .. b.capacity - 1 /\ k # b.gap_start
        BY <4>1, <4>2, <2>3, <1>2, WellFormedProperties
      <4> QED
        BY <4>3, <4>4, <4>5
    <3>2. Text(e)[i] = e.data[k]
      <4>1. ~ (i <= e.gap_start)
        BY <2>3, <1>1, WellFormedProperties
      <4>2. Text(e)[i] = e.data[i - 1 + (e.gap_end - e.gap_start)]
        BY <4>1, <1>3, TextProperties
      <4> QED
        BY <4>2, <1>1
    <3>3. Text(b)[i - 1] = b.data[k]
      BY <3>1, TextProperties
    <3>4. e.data[k] = b.data[k]
      BY <3>1, <1>1, WellFormedProperties
    <3> QED
      BY <2>3, <3>2, <3>3, <3>4, <1>5, WellFormedProperties
  <2> QED
    BY <2>1, <2>2, <2>3, WellFormedProperties
<1>7. Text(e) = t
  BY <1>3, <1>5, <1>6, TextProperties, SeqEqual
<1> QED
  BY <1>1, <1>3, <1>7 DEF e, t

\* Deleting before the cursor removes the character before it.
LEMMA DropBeforeProperties ==
  ASSUME NEW b, WellFormed(b), b.gap_start > 0
  PROVE  /\ WellFormed(DropBefore(b))
         /\ Text(DropBefore(b)) = Document!RemoveAt(Text(b), b.gap_start)
         /\ DropBefore(b).gap_start = b.gap_start - 1
         /\ Length(DropBefore(b)) = Length(b) - 1
<1> DEFINE e == DropBefore(b)
           t == Document!RemoveAt(Text(b), b.gap_start)
<1>1. /\ e = [data |-> e.data, capacity |-> e.capacity,
              gap_start |-> e.gap_start, gap_end |-> e.gap_end]
      /\ e.capacity = b.capacity
      /\ e.gap_end = b.gap_end
      /\ e.gap_start = b.gap_start - 1
      /\ e.data = b.data
  BY WellFormedProperties DEF DropBefore, WithGap
<1>2. b.gap_start - 1 \in 0 .. b.gap_start /\ b.gap_end \in b.gap_end .. b.capacity
  BY WellFormedProperties
<1> HIDE DEF e
<1>3. WellFormed(e)
  BY <1>1, <1>2, WellFormedProperties
<1>4. Length(e) = Length(b) - 1
  BY <1>1, <1>3, TextProperties, WellFormedProperties
<1>5. /\ t \in Seq(Content)
      /\ Len(t) = Length(e)
      /\ \A i \in 1 .. Length(e) :
           t[i] = IF i < b.gap_start THEN Text(b)[i] ELSE Text(b)[i + 1]
  <2>1. /\ b.gap_start \in 1 .. Len(Text(b))
        /\ Text(b) \in Seq(Content)
        /\ Len(Text(b)) - 1 = Length(e)
    <3>1. Length(b) \in b.gap_start .. b.capacity /\ Len(Text(b)) = Length(b)
      BY TextProperties
    <3> QED
      BY <3>1, <1>4, TextProperties, WellFormedProperties
  <2>2. /\ t \in Seq(Content)
        /\ Len(t) = Len(Text(b)) - 1
        /\ \A i \in 1 .. Len(Text(b)) - 1 :
             t[i] = IF i < b.gap_start THEN Text(b)[i] ELSE Text(b)[i + 1]
    BY <2>1, RemoveAtProperties
  <2> QED
    BY <2>1, <2>2
<1> HIDE DEF t
<1>6. ASSUME NEW i \in 1 .. Length(e)
      PROVE  Text(e)[i] = t[i]
  <2>1. Length(b) = b.capacity - (b.gap_end - b.gap_start) /\ i \in 1 .. Length(b) - 1
    BY <1>4, TextProperties
  <2>2. CASE i < b.gap_start
    <3>1. i \in 1 .. Length(b) /\ i <= b.gap_start /\ i <= e.gap_start
      BY <2>1, <2>2, <1>1, WellFormedProperties
    <3>2. Text(e)[i] = e.data[i - 1] /\ Text(b)[i] = b.data[i - 1]
      BY <3>1, <1>3, TextProperties
    <3> QED
      BY <2>2, <3>2, <1>1, <1>5
  <2>3. CASE ~ (i < b.gap_start)
    <3>1. /\ i + 1 \in 1 .. Length(b)
          /\ ~ (i + 1 <= b.gap_start)
          /\ ~ (i <= e.gap_start)
      BY <2>1, <2>3, <1>1, WellFormedProperties
    <3>2. /\ Text(e)[i] = e.data[i - 1 + (e.gap_end - e.gap_start)]
          /\ Text(b)[i + 1] = b.data[(i + 1) - 1 + (b.gap_end - b.gap_start)]
      BY <3>1, <1>3, TextProperties
    <3>3. i - 1 + (e.gap_end - e.gap_start) = (i + 1) - 1 + (b.gap_end - b.gap_start)
      BY <1>1, WellFormedProperties
    <3> QED
      BY <2>3, <3>2, <3>3, <1>1, <1>5
  <2> QED
    BY <2>2, <2>3
<1>7. Text(e) = t
  BY <1>3, <1>5, <1>6, TextProperties, SeqEqual
<1> QED
  BY <1>1, <1>3, <1>4, <1>7 DEF e, t

\* Deleting at the cursor removes the character behind it.
LEMMA DropAtProperties ==
  ASSUME NEW b, WellFormed(b), b.gap_end < b.capacity
  PROVE  /\ WellFormed(DropAt(b))
         /\ Text(DropAt(b)) = Document!RemoveAt(Text(b), b.gap_start + 1)
         /\ DropAt(b).gap_start = b.gap_start
         /\ Length(DropAt(b)) = Length(b) - 1
<1> DEFINE e == DropAt(b)
           t == Document!RemoveAt(Text(b), b.gap_start + 1)
<1>1. /\ e = [data |-> e.data, capacity |-> e.capacity,
              gap_start |-> e.gap_start, gap_end |-> e.gap_end]
      /\ e.capacity = b.capacity
      /\ e.gap_end = b.gap_end + 1
      /\ e.gap_start = b.gap_start
      /\ e.data = b.data
  BY WellFormedProperties DEF DropAt, WithGap
<1>2. b.gap_start \in 0 .. b.gap_start /\ b.gap_end + 1 \in b.gap_end .. b.capacity
  BY WellFormedProperties
<1> HIDE DEF e
<1>3. WellFormed(e)
  BY <1>1, <1>2, WellFormedProperties
<1>4. Length(e) = Length(b) - 1
  BY <1>1, <1>3, TextProperties, WellFormedProperties
<1>5. /\ t \in Seq(Content)
      /\ Len(t) = Length(e)
      /\ \A i \in 1 .. Length(e) :
           t[i] = IF i < b.gap_start + 1 THEN Text(b)[i] ELSE Text(b)[i + 1]
  <2>1. /\ b.gap_start + 1 \in 1 .. Len(Text(b))
        /\ Text(b) \in Seq(Content)
        /\ Len(Text(b)) - 1 = Length(e)
    BY <1>4, TextProperties, WellFormedProperties
  <2>2. /\ t \in Seq(Content)
        /\ Len(t) = Len(Text(b)) - 1
        /\ \A i \in 1 .. Len(Text(b)) - 1 :
             t[i] = IF i < b.gap_start + 1 THEN Text(b)[i] ELSE Text(b)[i + 1]
    BY <2>1, RemoveAtProperties
  <2> QED
    BY <2>1, <2>2
<1> HIDE DEF t
<1>6. ASSUME NEW i \in 1 .. Length(e)
      PROVE  Text(e)[i] = t[i]
  <2>1. Length(b) = b.capacity - (b.gap_end - b.gap_start) /\ i \in 1 .. Length(b) - 1
    BY <1>4, TextProperties
  <2>2. CASE i < b.gap_start + 1
    <3>1. i \in 1 .. Length(b) /\ i <= b.gap_start /\ i <= e.gap_start
      BY <2>1, <2>2, <1>1, WellFormedProperties
    <3>2. Text(e)[i] = e.data[i - 1] /\ Text(b)[i] = b.data[i - 1]
      BY <3>1, <1>3, TextProperties
    <3> QED
      BY <2>2, <3>2, <1>1, <1>5
  <2>3. CASE ~ (i < b.gap_start + 1)
    <3>1. /\ i + 1 \in 1 .. Length(b)
          /\ ~ (i + 1 <= b.gap_start)
          /\ ~ (i <= e.gap_start)
      BY <2>1, <2>3, <1>1, WellFormedProperties
    <3>2. /\ Text(e)[i] = e.data[i - 1 + (e.gap_end - e.gap_start)]
          /\ Text(b)[i + 1] = b.data[(i + 1) - 1 + (b.gap_end - b.gap_start)]
      BY <3>1, <1>3, TextProperties
    <3>3. i - 1 + (e.gap_end - e.gap_start) = (i + 1) - 1 + (b.gap_end - b.gap_start)
      BY <1>1, WellFormedProperties
    <3> QED
      BY <2>3, <3>2, <3>3, <1>1, <1>5
  <2> QED
    BY <2>2, <2>3
<1>7. Text(e) = t
  BY <1>3, <1>5, <1>6, TextProperties, SeqEqual
<1> QED
  BY <1>1, <1>3, <1>4, <1>7 DEF e, t

\* Moving left carries the byte before the cursor over the gap.
LEMMA ShiftLeftProperties ==
  ASSUME NEW b, WellFormed(b), b.gap_start # 0
  PROVE  /\ WellFormed(ShiftLeft(b))
         /\ Text(ShiftLeft(b)) = Text(b)
         /\ ShiftLeft(b).gap_start = b.gap_start - 1
         /\ Length(ShiftLeft(b)) = Length(b)
<1> DEFINE e == ShiftLeft(b)
<1>1. /\ e = [data |-> e.data, capacity |-> e.capacity,
              gap_start |-> e.gap_start, gap_end |-> e.gap_end]
      /\ e.capacity = b.capacity
      /\ e.gap_end = b.gap_end - 1
      /\ e.gap_start = b.gap_start - 1
      /\ e.data = [b.data EXCEPT ![b.gap_end - 1] = b.data[b.gap_start - 1]]
  BY WellFormedProperties DEF ShiftLeft, WithGap
<1>2. /\ b.gap_start - 1 \in 0 .. b.capacity /\ b.gap_end - 1 \in b.gap_start - 1 .. b.capacity
      /\ b.gap_end - 1 \in 0 .. b.capacity - 1 /\ b.gap_start - 1 \in 0 .. b.capacity - 1
  BY WellFormedProperties
<1> HIDE DEF e
<1>3. WellFormed(e)
  <2>1. e.data \in [0 .. b.capacity - 1 -> Content]
    BY <1>1, <1>2, WellFormedProperties
  <2> QED
    BY <2>1, <1>1, <1>2, WellFormedProperties
<1>4. Length(e) = Length(b)
  BY <1>1, <1>3, TextProperties, WellFormedProperties
<1>5. ASSUME NEW i \in 1 .. Length(b)
      PROVE  Text(e)[i] = Text(b)[i]
  <2>1. /\ Length(b) = b.capacity - (b.gap_end - b.gap_start)
        /\ Text(e)[i] = IF i <= e.gap_start THEN e.data[i - 1]
                        ELSE e.data[i - 1 + (e.gap_end - e.gap_start)]
        /\ Text(b)[i] = IF i <= b.gap_start THEN b.data[i - 1]
                        ELSE b.data[i - 1 + (b.gap_end - b.gap_start)]
    BY <1>3, <1>4, TextProperties
  <2>2. CASE i < b.gap_start
    <3>1. /\ i <= e.gap_start /\ i <= b.gap_start
          /\ i - 1 \in 0 .. b.capacity - 1 /\ i - 1 # b.gap_end - 1
      BY <2>1, <2>2, <1>1, WellFormedProperties
    <3>2. e.data[i - 1] = b.data[i - 1]
      BY <3>1, <1>1, WellFormedProperties
    <3> QED
      BY <2>1, <3>1, <3>2
  <2>3. CASE i = b.gap_start
    <3>1. e.data[b.gap_end - 1] = b.data[b.gap_start - 1]
      BY <1>1, <1>2, WellFormedProperties
    <3>2. /\ ~ (i <= e.gap_start) /\ i <= b.gap_start
          /\ i - 1 + (e.gap_end - e.gap_start) = b.gap_end - 1
          /\ i - 1 = b.gap_start - 1
      <4>1. /\ e.gap_start = i - 1 /\ e.gap_end = b.gap_end - 1
            /\ i \in 1 .. Length(b) /\ i = b.gap_start /\ b.gap_end \in Nat
        BY <2>3, <1>1, WellFormedProperties
      <4> QED
        BY <4>1
    <3> QED
      BY <2>1, <3>1, <3>2
  <2>4. CASE i > b.gap_start
    <3> DEFINE k == i - 1 + (b.gap_end - b.gap_start)
    <3>1. /\ ~ (i <= e.gap_start) /\ ~ (i <= b.gap_start)
          /\ i - 1 + (e.gap_end - e.gap_start) = k
          /\ k \in 0 .. b.capacity - 1 /\ k # b.gap_end - 1
      BY <2>1, <2>4, <1>1, WellFormedProperties
    <3>2. e.data[k] = b.data[k]
      BY <3>1, <1>1, WellFormedProperties
    <3> QED
      BY <2>1, <3>1, <3>2
  <2> QED
    BY <2>2, <2>3, <2>4, WellFormedProperties
<1>6. Text(e) = Text(b)
  BY <1>3, <1>4, <1>5, SameText
<1> QED
  BY <1>1, <1>3, <1>4, <1>6 DEF e

\* Moving right carries the byte behind the gap over it.
LEMMA ShiftRightProperties ==
  ASSUME NEW b, WellFormed(b), b.gap_end # b.capacity
  PROVE  /\ WellFormed(ShiftRight(b))
         /\ Text(ShiftRight(b)) = Text(b)
         /\ ShiftRight(b).gap_start = b.gap_start + 1
         /\ Length(ShiftRight(b)) = Length(b)
<1> DEFINE e == ShiftRight(b)
<1>1. /\ e = [data |-> e.data, capacity |-> e.capacity,
              gap_start |-> e.gap_start, gap_end |-> e.gap_end]
      /\ e.capacity = b.capacity
      /\ e.gap_end = b.gap_end + 1
      /\ e.gap_start = b.gap_start + 1
      /\ e.data = [b.data EXCEPT ![b.gap_start] = b.data[b.gap_end]]
  BY WellFormedProperties DEF ShiftRight, WithGap
<1>2. /\ b.gap_start + 1 \in 0 .. b.capacity /\ b.gap_end + 1 \in b.gap_start + 1 .. b.capacity
      /\ b.gap_start \in 0 .. b.capacity - 1 /\ b.gap_end \in 0 .. b.capacity - 1
  BY WellFormedProperties
<1> HIDE DEF e
<1>3. WellFormed(e)
  <2>1. e.data \in [0 .. b.capacity - 1 -> Content]
    BY <1>1, <1>2, WellFormedProperties
  <2> QED
    BY <2>1, <1>1, <1>2, WellFormedProperties
<1>4. Length(e) = Length(b)
  BY <1>1, <1>3, TextProperties, WellFormedProperties
<1>5. ASSUME NEW i \in 1 .. Length(b)
      PROVE  Text(e)[i] = Text(b)[i]
  <2>1. /\ Length(b) = b.capacity - (b.gap_end - b.gap_start)
        /\ Text(e)[i] = IF i <= e.gap_start THEN e.data[i - 1]
                        ELSE e.data[i - 1 + (e.gap_end - e.gap_start)]
        /\ Text(b)[i] = IF i <= b.gap_start THEN b.data[i - 1]
                        ELSE b.data[i - 1 + (b.gap_end - b.gap_start)]
    BY <1>3, <1>4, TextProperties
  <2>2. CASE i < b.gap_start + 1
    <3>1. /\ i <= e.gap_start /\ i <= b.gap_start
          /\ i - 1 \in 0 .. b.capacity - 1 /\ i - 1 # b.gap_start
      BY <2>1, <2>2, <1>1, WellFormedProperties
    <3>2. e.data[i - 1] = b.data[i - 1]
      BY <3>1, <1>1, WellFormedProperties
    <3> QED
      BY <2>1, <3>1, <3>2
  <2>3. CASE i = b.gap_start + 1
    <3>1. e.data[b.gap_start] = b.data[b.gap_end]
      BY <1>1, <1>2, WellFormedProperties
    <3>2. /\ i <= e.gap_start /\ ~ (i <= b.gap_start)
          /\ i - 1 = b.gap_start
          /\ i - 1 + (b.gap_end - b.gap_start) = b.gap_end
      BY <2>3, <1>1, WellFormedProperties
    <3> QED
      BY <2>1, <3>1, <3>2
  <2>4. CASE i > b.gap_start + 1
    <3> DEFINE k == i - 1 + (b.gap_end - b.gap_start)
    <3>1. /\ ~ (i <= e.gap_start) /\ ~ (i <= b.gap_start)
          /\ i - 1 + (e.gap_end - e.gap_start) = k
          /\ k \in 0 .. b.capacity - 1 /\ k # b.gap_start
      BY <2>1, <2>4, <1>1, WellFormedProperties
    <3>2. e.data[k] = b.data[k]
      BY <3>1, <1>1, WellFormedProperties
    <3> QED
      BY <2>1, <3>1, <3>2
  <2> QED
    BY <2>2, <2>3, <2>4, WellFormedProperties
<1>6. Text(e) = Text(b)
  BY <1>3, <1>4, <1>5, SameText
<1> QED
  BY <1>1, <1>3, <1>4, <1>6 DEF e

\* A block fresh from calloc and memcpy holds the copied text before the gap.
LEMMA NewBufferProperties ==
  ASSUME NEW t \in Seq(Byte), NEW n \in 1 .. SizeMax, Len(t) <= n
  PROVE  /\ WellFormed(NewBuffer(n, t))
         /\ Text(NewBuffer(n, t)) = t
         /\ NewBuffer(n, t).gap_start = Len(t)
<1> DEFINE e == NewBuffer(n, t)
<1>1. /\ e = [data |-> e.data, capacity |-> e.capacity,
              gap_start |-> e.gap_start, gap_end |-> e.gap_end]
      /\ e.capacity = n /\ e.gap_end = n /\ e.gap_start = Len(t)
      /\ e.data = [i \in 0 .. n - 1 |-> IF i < Len(t) THEN t[i + 1] ELSE 0]
  BY DEF NewBuffer
<1> HIDE DEF e
<1>2. \A i \in 0 .. n - 1 : i < Len(t) => i + 1 \in 1 .. Len(t)
  BY LenProperties
<1>3. WellFormed(e)
  <2>1. ASSUME NEW i \in 0 .. n - 1
        PROVE  e.data[i] \in Content
    <3>1. \A j \in 1 .. Len(t) : t[j] \in Byte
      BY ElementOfSeq
    <3> QED
      BY <3>1, <1>1, <1>2, GapBufferAssumption DEF Content
  <2>2. e.data \in [0 .. n - 1 -> Content]
    BY <2>1, <1>1
  <2> QED
    BY <2>2, <1>1, WellFormedProperties, LenProperties
<1>4. Length(e) = Len(t)
  BY <1>1, <1>3, TextProperties, LenProperties
<1>5. ASSUME NEW i \in 1 .. Len(t)
      PROVE  Text(e)[i] = t[i]
  <2>1. i - 1 \in 0 .. n - 1 /\ i - 1 < Len(t) /\ (i - 1) + 1 = i
    BY LenProperties
  <2>2. e.data[i - 1] = t[i]
    BY <2>1, <1>1
  <2> QED
    BY <2>2, <1>1, <1>3, <1>4, TextProperties
<1>6. t \in Seq(Content)
  BY SeqDef DEF Content
<1>7. Text(e) = t
  BY <1>3, <1>4, <1>5, <1>6, TextProperties, SeqEqual
<1> QED
  BY <1>1, <1>3, <1>7 DEF e

-----------------------------------------------------------------------------
(* The calls of the gap buffer on a well-formed buffer.                    *)

\* When ensure_gap does not report an overflow, the block it allocates has
\* room for the character.
LEMMA RoomAfterEnlarge ==
  ASSUME NEW b, WellFormed(b), GapSize(b) < 1, ~ RequiredOverflows(b, 1)
  PROVE  NewCapacity(b.capacity, Required(b, 1)) \in b.capacity + 1 .. SizeMax
<1>1. Length(b) = b.capacity /\ b.capacity \in 1 .. SizeMax
  BY TextProperties, WellFormedProperties DEF GapSize
<1>2. Required(b, 1) \in b.capacity + 1 .. SizeMax
  BY <1>1, GapBufferAssumption DEF RequiredOverflows, Required, Plus
<1>3. b.capacity \in Size /\ Required(b, 1) \in Size
  BY <1>1, <1>2, GapBufferAssumption DEF Size
<1>4. NewCapacity(b.capacity, Required(b, 1)) \in Required(b, 1) .. SizeMax
  BY <1>3, NewCapacityBounds
<1> HIDE DEF RequiredOverflows
<1> QED
  BY <1>1, <1>2, <1>4, GapBufferAssumption

LEMMA InsertCall ==
  ASSUME WellFormed(buf), NEW ch \in Byte, gap_buffer_insert_char(ch)
  PROVE  \/ /\ result' = OK
            /\ WellFormed(buf')
            /\ Text(buf') = Document!InsertAt(Text(buf), buf.gap_start + 1, ch)
            /\ buf'.gap_start = buf.gap_start + 1
         \/ result' = ERR_MEMORY /\ buf' = buf
<1>1. IsValid(buf)
  BY DEF WellFormed
<1>2. CASE GapSize(buf) >= 1 /\ Succeeds(PutChar(buf, ch))
  BY <1>2, PutCharProperties DEF Succeeds
<1>3. CASE /\ GapSize(buf) < 1
           /\ ~ RequiredOverflows(buf, 1)
           /\ Succeeds(PutChar(Enlarge(buf, NewCapacity(buf.capacity, Required(buf, 1))), ch))
  <2> DEFINE n == NewCapacity(buf.capacity, Required(buf, 1))
             e == Enlarge(buf, n)
  <2>1. n \in buf.capacity + 1 .. SizeMax
    BY <1>3, RoomAfterEnlarge
  <2>2. n \in buf.capacity .. SizeMax /\ n - buf.capacity >= 1 /\ GapSize(buf) \in Nat
    BY <2>1, WellFormedProperties, GapBufferAssumption DEF GapSize
  <2>3. /\ WellFormed(e)
        /\ Text(e) = Text(buf)
        /\ e.gap_start = buf.gap_start
        /\ GapSize(e) = GapSize(buf) + (n - buf.capacity)
    BY <2>2, EnlargeProperties
  <2>4. GapSize(e) >= 1
    <3> HIDE DEF n, e
    <3>1. n - buf.capacity \in Nat
      BY <2>1, WellFormedProperties, GapBufferAssumption
    <3> QED
      BY <2>2, <2>3, <3>1
  <2>5. result' = OK /\ buf' = PutChar(e, ch)
    BY <1>3 DEF Succeeds
  <2> HIDE DEF e
  <2> QED
    BY <2>3, <2>4, <2>5, PutCharProperties
<1>4. CASE Fails(ERR_MEMORY)
  BY <1>4 DEF Fails
<1> QED
  BY <1>1, <1>2, <1>3, <1>4 DEF gap_buffer_insert_char

LEMMA DeleteBeforeCall ==
  ASSUME WellFormed(buf), gap_buffer_delete_before_cursor
  PROVE  /\ result' = OK
         /\ WellFormed(buf')
         /\ \/ /\ buf.gap_start > 0
               /\ Text(buf') = Document!RemoveAt(Text(buf), buf.gap_start)
               /\ buf'.gap_start = buf.gap_start - 1
               /\ Length(buf') = Length(buf) - 1
            \/ buf.gap_start = 0 /\ buf' = buf
<1>1. IsValid(buf)
  BY DEF WellFormed
<1>2. result' = OK /\ buf' = IF buf.gap_start > 0 THEN DropBefore(buf) ELSE buf
  BY <1>1 DEF gap_buffer_delete_before_cursor, Succeeds
<1>3. CASE buf.gap_start > 0
  BY <1>2, <1>3, DropBeforeProperties
<1>4. CASE ~ (buf.gap_start > 0)
  BY <1>2, <1>4, WellFormedProperties
<1> QED
  BY <1>3, <1>4

LEMMA DeleteAtCall ==
  ASSUME WellFormed(buf), gap_buffer_delete_at_cursor
  PROVE  /\ result' = OK
         /\ WellFormed(buf')
         /\ \/ /\ buf.gap_start < Length(buf)
               /\ Text(buf') = Document!RemoveAt(Text(buf), buf.gap_start + 1)
               /\ buf'.gap_start = buf.gap_start
               /\ Length(buf') = Length(buf) - 1
            \/ buf.gap_start = Length(buf) /\ buf' = buf
<1>1. IsValid(buf)
  BY DEF WellFormed
<1>2. result' = OK /\ buf' = IF buf.gap_end < buf.capacity THEN DropAt(buf) ELSE buf
  BY <1>1 DEF gap_buffer_delete_at_cursor, Succeeds
<1>3. /\ buf.gap_end < buf.capacity => buf.gap_start < Length(buf)
      /\ ~ (buf.gap_end < buf.capacity) => buf.gap_start = Length(buf)
  BY TextProperties, WellFormedProperties
<1>4. CASE buf.gap_end < buf.capacity
  BY <1>2, <1>3, <1>4, DropAtProperties
<1>5. CASE ~ (buf.gap_end < buf.capacity)
  BY <1>2, <1>3, <1>5
<1> QED
  BY <1>4, <1>5

LEMMA MoveLeftCall ==
  ASSUME WellFormed(buf), gap_buffer_move_left
  PROVE  /\ result' = OK
         /\ WellFormed(buf')
         /\ Text(buf') = Text(buf)
         /\ Length(buf') = Length(buf)
         /\ \/ buf.gap_start > 0 /\ buf'.gap_start = buf.gap_start - 1
            \/ buf.gap_start = 0 /\ buf' = buf
<1>1. result' = OK /\ buf' = IF buf.gap_start = 0 THEN buf ELSE ShiftLeft(buf)
  BY DEF WellFormed, gap_buffer_move_left, Succeeds
<1>2. CASE buf.gap_start = 0
  BY <1>1, <1>2
<1>3. CASE buf.gap_start # 0
  BY <1>1, <1>3, ShiftLeftProperties, WellFormedProperties
<1> QED
  BY <1>2, <1>3

LEMMA MoveRightCall ==
  ASSUME WellFormed(buf), gap_buffer_move_right
  PROVE  /\ result' = OK
         /\ WellFormed(buf')
         /\ Text(buf') = Text(buf)
         /\ Length(buf') = Length(buf)
         /\ \/ buf.gap_start < Length(buf) /\ buf'.gap_start = buf.gap_start + 1
            \/ buf.gap_start = Length(buf) /\ buf' = buf
<1>1. result' = OK /\ buf' = IF buf.gap_end = buf.capacity THEN buf ELSE ShiftRight(buf)
  BY DEF WellFormed, gap_buffer_move_right, Succeeds
<1>2. /\ buf.gap_end # buf.capacity => buf.gap_start < Length(buf)
      /\ buf.gap_end = buf.capacity => buf.gap_start = Length(buf)
  BY TextProperties, WellFormedProperties
<1>3. CASE buf.gap_end = buf.capacity
  BY <1>1, <1>2, <1>3
<1>4. CASE buf.gap_end # buf.capacity
  BY <1>1, <1>2, <1>4, ShiftRightProperties
<1> QED
  BY <1>3, <1>4

LEMMA LoadCall ==
  ASSUME NEW t \in LoadTexts, gap_buffer_load_buffer(t)
  PROVE  \/ /\ result' = OK
            /\ WellFormed(buf')
            /\ Text(buf') = t
            /\ buf'.gap_start = Len(t)
         \/ result' = ERR_MEMORY /\ buf' = buf
<1>1. t \in Seq(Byte) /\ Len(t) \in 0 .. SizeMax
  BY EditorCoreAssumption DEF Size
<1>2. CASE /\ Plus(Len(t), DefaultGap) >= Len(t)
           /\ Succeeds(NewBuffer(Plus(Len(t), DefaultGap), t))
  <2>1. Plus(Len(t), DefaultGap) \in 1 .. SizeMax
    BY <1>1, <1>2, GapBufferAssumption DEF Plus
  <2> QED
    BY <1>1, <1>2, <2>1, NewBufferProperties DEF Succeeds
<1>3. CASE Fails(ERR_MEMORY)
  BY <1>3 DEF Fails
<1> QED
  BY <1>2, <1>3 DEF gap_buffer_load_buffer

LEMMA EmptyBuffer ==
  /\ WellFormed(NewBuffer(DefaultGap, << >>))
  /\ Text(NewBuffer(DefaultGap, << >>)) = << >>
  /\ NewBuffer(DefaultGap, << >>).gap_start = 0
<1>1. ASSUME NEW t \in Seq(Byte), Len(t) = 0
      PROVE  /\ WellFormed(NewBuffer(DefaultGap, t))
             /\ Text(NewBuffer(DefaultGap, t)) = t
             /\ NewBuffer(DefaultGap, t).gap_start = 0
  <2>1. DefaultGap \in 1 .. SizeMax /\ Len(t) <= DefaultGap
    BY <1>1, GapBufferAssumption
  <2> QED
    BY <1>1, <2>1, NewBufferProperties
<1>2. << >> \in Seq(Byte) /\ Len(<< >>) = 0
  OBVIOUS
<1> QED
  BY <1>1, <1>2

LEMMA InitCall ==
  ASSUME gap_buffer_init(0)
  PROVE  \/ /\ result' = OK
            /\ WellFormed(buf')
            /\ Text(buf') = << >>
            /\ buf'.gap_start = 0
         \/ result' = ERR_MEMORY /\ buf' = FreedBuffer
<1>1. 0 < DefaultGap
  BY GapBufferAssumption
<1>2. CASE Succeeds(NewBuffer(DefaultGap, << >>))
  <2> DEFINE e == NewBuffer(DefaultGap, << >>)
  <2>1. WellFormed(e) /\ Text(e) = << >> /\ e.gap_start = 0
    BY EmptyBuffer
  <2>2. result' = OK /\ buf' = e
    BY <1>2 DEF Succeeds
  <2> HIDE DEF e
  <2> QED
    BY <2>1, <2>2
<1>3. CASE result' = ERR_MEMORY /\ buf' = FreedBuffer
  BY <1>3
<1> QED
  BY <1>1, <1>2, <1>3 DEF gap_buffer_init

LEMMA FreedProperties ==
  Text(FreedBuffer) = << >> /\ Cursor(FreedBuffer) = 0 /\ Length(FreedBuffer) = 0
  BY DEF FreedBuffer, Text, Cursor, Length, IsValid

-----------------------------------------------------------------------------
(* The invariant.                                                          *)

\* The conjunction of the three invariants is inductive: TextIsWritten needs
\* the gap to be inside the block, and CleanMeansUnchanged needs the length
\* test of NoteDeletion to tell every deletion that changed the text.
IInv == TypeOK /\ TextIsWritten /\ CleanMeansUnchanged

\* The part of the invariant about the buffer and the history variable.
Holds(b, d, c) ==
  /\ Text(b) \in Seq(Byte)
  /\ ~ d => Text(b) = c

LEMMA WrittenText ==
  ASSUME NEW b, WellFormed(b)
  PROVE  Text(b) \in Seq(Byte) <=> \A i \in DOMAIN Text(b) : Text(b)[i] \in Byte
<1>1. /\ Text(b) \in [1 .. Length(b) -> Content]
      /\ DOMAIN Text(b) = 1 .. Length(b)
      /\ Length(b) \in Nat
  BY TextProperties, WellFormedProperties, LenProperties
<1>2. ASSUME Text(b) \in Seq(Byte)
      PROVE  \A i \in DOMAIN Text(b) : Text(b)[i] \in Byte
  BY <1>1, <1>2, ElementOfSeq, TextProperties
<1>3. ASSUME \A i \in DOMAIN Text(b) : Text(b)[i] \in Byte
      PROVE  Text(b) \in Seq(Byte)
  <2>1. Text(b) \in [1 .. Length(b) -> Byte]
    BY <1>1, <1>3
  <2> QED
    BY <1>1, <2>1, SeqDef
<1> QED
  BY <1>2, <1>3

LEMMA FreedText == /\ Text(FreedBuffer) = << >>
                   /\ \A i \in DOMAIN Text(FreedBuffer) : Text(FreedBuffer)[i] \in Byte
  BY FreedProperties

\* The invariant of a core that is initialized, and of one that is not.
LEMMA LiveInvariant ==
  ASSUME initialized = TRUE
  PROVE  IInv <=> /\ WellFormed(buf)
                  /\ result \in Results
                  /\ dirty \in BOOLEAN
                  /\ moving = Idle \/ moving \in 0 .. Length(buf)
                  /\ clean \in Seq(Byte)
                  /\ Holds(buf, dirty, clean)
  BY WrittenText DEF IInv, TypeOK, TextIsWritten, CleanMeansUnchanged, Holds

LEMMA LiveInvariantPrime ==
  ASSUME initialized' = TRUE
  PROVE  IInv' <=> /\ WellFormed(buf')
                   /\ result' \in Results
                   /\ dirty' \in BOOLEAN
                   /\ moving' = Idle \/ moving' \in 0 .. Length(buf')
                   /\ clean' \in Seq(Byte)
                   /\ Holds(buf', dirty', clean')
  BY WrittenText DEF IInv, TypeOK, TextIsWritten, CleanMeansUnchanged, Holds

LEMMA DeadInvariant ==
  ASSUME initialized = FALSE
  PROVE  IInv <=> /\ buf = FreedBuffer
                  /\ result \in Results
                  /\ dirty \in BOOLEAN
                  /\ moving = Idle
                  /\ clean \in Seq(Byte)
                  /\ ~ dirty => clean = << >>
<1>1. TypeOK <=> /\ buf = FreedBuffer
                 /\ result \in Results
                 /\ dirty \in BOOLEAN
                 /\ moving = Idle
                 /\ clean \in Seq(Byte)
  BY DEF TypeOK
<1>2. ASSUME buf = FreedBuffer
      PROVE  TextIsWritten /\ (CleanMeansUnchanged <=> (~ dirty => clean = << >>))
  BY <1>2, FreedText DEF TextIsWritten, CleanMeansUnchanged
<1> QED
  BY <1>1, <1>2 DEF IInv

LEMMA DeadInvariantPrime ==
  ASSUME initialized' = FALSE
  PROVE  IInv' <=> /\ buf' = FreedBuffer
                   /\ result' \in Results
                   /\ dirty' \in BOOLEAN
                   /\ moving' = Idle
                   /\ clean' \in Seq(Byte)
                   /\ ~ dirty' => clean' = << >>
<1>1. TypeOK' <=> /\ buf' = FreedBuffer
                  /\ result' \in Results
                  /\ dirty' \in BOOLEAN
                  /\ moving' = Idle
                  /\ clean' \in Seq(Byte)
  BY DEF TypeOK
<1>2. ASSUME buf' = FreedBuffer
      PROVE  TextIsWritten' /\ (CleanMeansUnchanged' <=> (~ dirty' => clean' = << >>))
  BY <1>2, FreedText DEF TextIsWritten, CleanMeansUnchanged
<1> QED
  BY <1>1, <1>2 DEF IInv

\* A call that leaves the state alone, up to its result, keeps the invariant.
LEMMA UnchangedInvariant ==
  ASSUME IInv, UNCHANGED <<buf, moving, dirty, initialized, clean>>, result' \in Results
  PROVE  IInv'
  BY DEF IInv, TypeOK, TextIsWritten, CleanMeansUnchanged

-----------------------------------------------------------------------------
(* Every step keeps the invariant and is a step, or a stutter, of the      *)
(* document.                                                               *)

Step == IInv' /\ [Document!Next]_(Document!vars)

\* Between calls the document's cursor is the buffer's, and the results agree.
LEMMA SeenIdle ==
  ASSUME WellFormed(buf), moving = Idle
  PROVE  DocumentCursor = buf.gap_start /\ DocumentResult = result
  BY TextProperties DEF DocumentCursor, DocumentResult

LEMMA SeenIdlePrime ==
  ASSUME WellFormed(buf'), moving' = Idle
  PROVE  DocumentCursor' = buf'.gap_start /\ DocumentResult' = result'
  BY TextProperties DEF DocumentCursor, DocumentResult

\* A call that fails or has nothing to do leaves the document as it is.
LEMMA ReturnStep ==
  ASSUME IInv, moving = Idle, UNCHANGED <<buf, moving, dirty, initialized, clean>>,
         NEW code \in Results, result' = code,
         Document!Returns(code) => Document!Next
  PROVE  Step
<1>1. IInv'
  BY UnchangedInvariant
<1>2. Document!Returns(code)
  BY DEF Document!Returns, DocumentCursor, DocumentResult
<1> QED
  BY <1>1, <1>2 DEF Step

LEMMA RejectedStep ==
  ASSUME IInv, moving = Idle, UNCHANGED moving, Rejected
  PROVE  Step
<1>1. /\ UNCHANGED <<buf, moving, dirty, initialized, clean>>
      /\ result' = ERR_INVALID /\ ERR_INVALID \in Results
  BY DEF Rejected, Fails, coreVars, Results
<1>2. Document!Returns(ERR_INVALID) => Document!Next
  BY DEF Document!Next, Document!Refuse, ERR_INVALID
<1> QED
  BY <1>1, <1>2, ReturnStep

LEMMA InsertStep ==
  ASSUME IInv, moving = Idle, UNCHANGED moving,
         NEW ch \in Byte, editor_core_insert_char(ch)
  PROVE  Step
<1>1. CASE Rejected
  BY <1>1, RejectedStep
<1>2. CASE /\ initialized
           /\ gap_buffer_insert_char(ch)
           /\ dirty' = (dirty \/ result' = OK)
           /\ UNCHANGED <<initialized, clean>>
  <2>1. /\ WellFormed(buf) /\ result \in Results /\ dirty \in BOOLEAN
        /\ clean \in Seq(Byte) /\ Text(buf) \in Seq(Byte)
        /\ initialized = TRUE
    BY <1>2, LiveInvariant DEF IInv, TypeOK, Holds
  <2>2. CASE /\ result' = OK
             /\ WellFormed(buf')
             /\ Text(buf') = Document!InsertAt(Text(buf), buf.gap_start + 1, ch)
             /\ buf'.gap_start = buf.gap_start + 1
    <3>1. dirty' = TRUE /\ initialized' = TRUE /\ clean' = clean
      BY <1>2, <2>1, <2>2
    <3>2. Text(buf') \in Seq(Byte)
      <4>1. buf.gap_start + 1 \in 1 .. Len(Text(buf)) + 1
        BY <2>1, TextProperties, WellFormedProperties
      <4> QED
        BY <2>1, <2>2, <4>1, InsertAtProperties
    <3>3. IInv'
      BY <2>1, <2>2, <3>1, <3>2, LiveInvariantPrime DEF Holds, Results
    <3>4. Document!Insert(ch)
      BY <2>1, <2>2, <3>1, SeenIdle, SeenIdlePrime
         DEF Document!Insert, Document!Becomes, OK
    <3> QED
      BY <3>3, <3>4 DEF Step, Document!Next
  <2>3. CASE result' = ERR_MEMORY /\ buf' = buf
    <3>1. UNCHANGED <<buf, moving, dirty, initialized, clean>>
      BY <1>2, <2>1, <2>3 DEF OK, ERR_MEMORY
    <3>2. Document!Returns(ERR_MEMORY) => Document!Next
      BY <2>1 DEF Document!Next, Document!Insert, ERR_MEMORY
    <3> QED
      BY <2>3, <3>1, <3>2, ReturnStep DEF Results
  <2> QED
    BY <1>2, <2>1, <2>2, <2>3, InsertCall
<1> QED
  BY <1>1, <1>2 DEF editor_core_insert_char

LEMMA BackspaceStep ==
  ASSUME IInv, moving = Idle, UNCHANGED moving, editor_core_backspace
  PROVE  Step
<1>1. CASE Rejected
  BY <1>1, RejectedStep
<1>2. CASE initialized /\ gap_buffer_delete_before_cursor /\ NoteDeletion
  <2>1. /\ WellFormed(buf) /\ result \in Results /\ dirty \in BOOLEAN
        /\ clean \in Seq(Byte) /\ Text(buf) \in Seq(Byte)
        /\ initialized = TRUE
    BY <1>2, LiveInvariant DEF IInv, TypeOK, Holds
  <2>2. /\ result' = OK /\ WellFormed(buf')
        /\ initialized' = TRUE /\ clean' = clean
        /\ dirty' = (dirty \/ Length(buf') # Length(buf))
    BY <1>2, <2>1, DeleteBeforeCall DEF NoteDeletion
  <2>3. CASE /\ buf.gap_start > 0
             /\ Text(buf') = Document!RemoveAt(Text(buf), buf.gap_start)
             /\ buf'.gap_start = buf.gap_start - 1
             /\ Length(buf') = Length(buf) - 1
    <3>1. dirty' = TRUE
      <4>1. Length(buf) \in Int
        BY <2>1, TextProperties, WellFormedProperties
      <4>2. Length(buf') # Length(buf)
        BY <2>3, <4>1
      <4> QED
        BY <2>2, <4>2
    <3>2. Text(buf') \in Seq(Byte)
      <4>1. buf.gap_start \in 1 .. Len(Text(buf))
        BY <2>1, <2>3, TextProperties, WellFormedProperties
      <4> QED
        BY <2>1, <2>3, <4>1, RemoveAtProperties
    <3>3. IInv'
      BY <2>1, <2>2, <3>1, <3>2, LiveInvariantPrime DEF Holds, Results
    <3>4. Document!Backspace
      BY <2>1, <2>2, <2>3, <3>1, SeenIdle, SeenIdlePrime
         DEF Document!Backspace, Document!Becomes, OK
    <3> QED
      BY <3>3, <3>4 DEF Step, Document!Next
  <2>4. CASE buf.gap_start = 0 /\ buf' = buf
    <3>1. UNCHANGED <<buf, moving, dirty, initialized, clean>>
      BY <2>1, <2>2, <2>4
    <3>2. Document!Returns(OK) => Document!Next
      BY <2>1, <2>4, SeenIdle DEF Document!Next, Document!Backspace, OK
    <3> QED
      BY <2>2, <3>1, <3>2, ReturnStep DEF Results
  <2> QED
    BY <1>2, <2>1, <2>3, <2>4, DeleteBeforeCall
<1> QED
  BY <1>1, <1>2 DEF editor_core_backspace

LEMMA DeleteStep ==
  ASSUME IInv, moving = Idle, UNCHANGED moving, editor_core_delete
  PROVE  Step
<1>1. CASE Rejected
  BY <1>1, RejectedStep
<1>2. CASE initialized /\ gap_buffer_delete_at_cursor /\ NoteDeletion
  <2>1. /\ WellFormed(buf) /\ result \in Results /\ dirty \in BOOLEAN
        /\ clean \in Seq(Byte) /\ Text(buf) \in Seq(Byte)
        /\ initialized = TRUE
    BY <1>2, LiveInvariant DEF IInv, TypeOK, Holds
  <2>2. /\ result' = OK /\ WellFormed(buf')
        /\ initialized' = TRUE /\ clean' = clean
        /\ dirty' = (dirty \/ Length(buf') # Length(buf))
    BY <1>2, <2>1, DeleteAtCall DEF NoteDeletion
  <2>3. CASE /\ buf.gap_start < Length(buf)
             /\ Text(buf') = Document!RemoveAt(Text(buf), buf.gap_start + 1)
             /\ buf'.gap_start = buf.gap_start
             /\ Length(buf') = Length(buf) - 1
    <3>1. dirty' = TRUE
      <4>1. Length(buf) \in Int
        BY <2>1, TextProperties, WellFormedProperties
      <4>2. Length(buf') # Length(buf)
        BY <2>3, <4>1
      <4> QED
        BY <2>2, <4>2
    <3>2. buf.gap_start + 1 \in 1 .. Len(Text(buf)) /\ buf.gap_start < Len(Text(buf))
      BY <2>1, <2>3, TextProperties, WellFormedProperties
    <3>3. Text(buf') \in Seq(Byte)
      BY <2>1, <2>3, <3>2, RemoveAtProperties
    <3>4. IInv'
      BY <2>1, <2>2, <3>1, <3>3, LiveInvariantPrime DEF Holds, Results
    <3>5. Document!Delete
      BY <2>1, <2>2, <2>3, <3>1, <3>2, SeenIdle, SeenIdlePrime
         DEF Document!Delete, Document!Becomes, OK
    <3> QED
      BY <3>4, <3>5 DEF Step, Document!Next
  <2>4. CASE buf.gap_start = Length(buf) /\ buf' = buf
    <3>1. UNCHANGED <<buf, moving, dirty, initialized, clean>>
      BY <2>1, <2>2, <2>4
    <3>2. ~ (DocumentCursor < Len(Text(buf)))
      BY <2>1, <2>4, SeenIdle, TextProperties, WellFormedProperties
    <3>3. Document!Returns(OK) => Document!Next
      BY <2>1, <3>2 DEF Document!Next, Document!Delete, OK
    <3> QED
      BY <2>2, <3>1, <3>3, ReturnStep DEF Results
  <2> QED
    BY <1>2, <2>1, <2>3, <2>4, DeleteAtCall
<1> QED
  BY <1>1, <1>2 DEF editor_core_delete

LEMMA MoveLeftStep ==
  ASSUME IInv, moving = Idle, UNCHANGED moving, editor_core_move_left
  PROVE  Step
<1>1. CASE Rejected
  BY <1>1, RejectedStep
<1>2. CASE initialized /\ gap_buffer_move_left /\ UNCHANGED coreVars
  <2>1. /\ WellFormed(buf) /\ result \in Results /\ dirty \in BOOLEAN
        /\ clean \in Seq(Byte) /\ Holds(buf, dirty, clean)
        /\ initialized = TRUE
    BY <1>2, LiveInvariant DEF IInv, TypeOK
  <2>2. /\ result' = OK /\ WellFormed(buf') /\ Text(buf') = Text(buf)
        /\ initialized' = TRUE /\ clean' = clean /\ dirty' = dirty
    BY <1>2, <2>1, MoveLeftCall DEF coreVars
  <2>3. IInv'
    BY <2>1, <2>2, LiveInvariantPrime DEF Holds, Results
  <2>4. CASE buf.gap_start > 0 /\ buf'.gap_start = buf.gap_start - 1
    <3>1. ~ (DocumentCursor = 0)
      BY <2>1, <2>4, SeenIdle, TextProperties, WellFormedProperties
    <3>2. Document!MoveLeft
      BY <2>1, <2>2, <2>4, <3>1, SeenIdle, SeenIdlePrime
         DEF Document!MoveLeft, Document!MoveTo, Document!Becomes, OK
    <3> QED
      BY <2>3, <3>2 DEF Step, Document!Next
  <2>5. CASE buf.gap_start = 0 /\ buf' = buf
    <3>1. UNCHANGED <<buf, moving, dirty, initialized, clean>>
      BY <2>1, <2>2, <2>5
    <3>2. DocumentCursor = 0
      BY <2>1, <2>5, SeenIdle, TextProperties
    <3>3. Document!Returns(OK) => Document!Next
      BY <2>1, <3>2 DEF Document!Next, Document!MoveLeft, OK
    <3> QED
      BY <2>2, <3>1, <3>3, ReturnStep DEF Results
  <2> QED
    BY <1>2, <2>1, <2>4, <2>5, MoveLeftCall
<1> QED
  BY <1>1, <1>2 DEF editor_core_move_left

LEMMA MoveRightStep ==
  ASSUME IInv, moving = Idle, UNCHANGED moving, editor_core_move_right
  PROVE  Step
<1>1. CASE Rejected
  BY <1>1, RejectedStep
<1>2. CASE initialized /\ gap_buffer_move_right /\ UNCHANGED coreVars
  <2>1. /\ WellFormed(buf) /\ result \in Results /\ dirty \in BOOLEAN
        /\ clean \in Seq(Byte) /\ Holds(buf, dirty, clean)
        /\ initialized = TRUE
    BY <1>2, LiveInvariant DEF IInv, TypeOK
  <2>2. /\ result' = OK /\ WellFormed(buf') /\ Text(buf') = Text(buf)
        /\ initialized' = TRUE /\ clean' = clean /\ dirty' = dirty
    BY <1>2, <2>1, MoveRightCall DEF coreVars
  <2>3. IInv'
    BY <2>1, <2>2, LiveInvariantPrime DEF Holds, Results
  <2>4. CASE buf.gap_start < Length(buf) /\ buf'.gap_start = buf.gap_start + 1
    <3>1. ~ (DocumentCursor = Len(Text(buf)))
      BY <2>1, <2>4, SeenIdle, TextProperties, WellFormedProperties
    <3>2. Document!MoveRight
      BY <2>1, <2>2, <2>4, <3>1, SeenIdle, SeenIdlePrime
         DEF Document!MoveRight, Document!MoveTo, Document!Becomes, OK
    <3> QED
      BY <2>3, <3>2 DEF Step, Document!Next
  <2>5. CASE buf.gap_start = Length(buf) /\ buf' = buf
    <3>1. UNCHANGED <<buf, moving, dirty, initialized, clean>>
      BY <2>1, <2>2, <2>5
    <3>2. DocumentCursor = Len(Text(buf))
      BY <2>1, <2>5, SeenIdle, TextProperties
    <3>3. Document!Returns(OK) => Document!Next
      BY <2>1, <3>2 DEF Document!Next, Document!MoveRight, OK
    <3> QED
      BY <2>2, <3>1, <3>3, ReturnStep DEF Results
  <2> QED
    BY <1>2, <2>1, <2>4, <2>5, MoveRightCall
<1> QED
  BY <1>1, <1>2 DEF editor_core_move_right

\* The call to move_to takes effect on the document; its loop stutters.
LEMMA MoveToStep ==
  ASSUME IInv, moving = Idle, NEW p \in Size, editor_core_move_to(p)
  PROVE  Step
<1>1. CASE Rejected /\ UNCHANGED moving
  BY <1>1, RejectedStep
<1>2. CASE /\ Fails(ERR_INVALID)
           /\ UNCHANGED <<moving, coreVars>>
  <2>1. UNCHANGED <<buf, moving, dirty, initialized, clean>> /\ result' = ERR_INVALID
    BY <1>2 DEF Fails, coreVars
  <2>2. Document!Returns(ERR_INVALID) => Document!Next
    BY DEF Document!Next, Document!Refuse, ERR_INVALID
  <2> QED
    BY <2>1, <2>2, ReturnStep DEF Results
<1>3. CASE /\ initialized
           /\ p <= Length(buf)
           /\ moving' = p
           /\ UNCHANGED <<buf, result, coreVars>>
  <2>1. /\ WellFormed(buf) /\ result \in Results /\ dirty \in BOOLEAN
        /\ clean \in Seq(Byte) /\ Holds(buf, dirty, clean)
        /\ initialized = TRUE
    BY <1>3, LiveInvariant DEF IInv, TypeOK
  <2>2. p \in 0 .. Length(buf) /\ p # Idle
    BY <1>3, <2>1, TextProperties, WellFormedProperties,
       GapBufferAssumption, EditorCoreAssumption DEF Size
  <2>3. IInv'
    BY <1>3, <2>1, <2>2, LiveInvariantPrime DEF coreVars
  <2>4. Document!MoveTo(p)
    BY <1>3, <2>1, <2>2
       DEF coreVars, Document!MoveTo, Document!Becomes, DocumentCursor, DocumentResult, OK
  <2>5. p \in 0 .. Len(Text(buf))
    BY <2>1, <2>2, TextProperties
  <2> QED
    BY <2>3, <2>4, <2>5 DEF Step, Document!Next
<1> QED
  BY <1>1, <1>2, <1>3 DEF editor_core_move_to

LEMMA MoveToLoopStep ==
  ASSUME IInv, MoveToLoop
  PROVE  Step
<1>1. moving # Idle
  BY DEF MoveToLoop, MoveToIteration, MoveToReturn
<1>2. /\ WellFormed(buf) /\ result \in Results /\ dirty \in BOOLEAN
      /\ clean \in Seq(Byte) /\ Holds(buf, dirty, clean)
      /\ initialized = TRUE
      /\ moving \in 0 .. Length(buf)
  BY <1>1, LiveInvariant DEF IInv, TypeOK
<1>3. CASE MoveToIteration
  <2>1. /\ result' = OK /\ WellFormed(buf')
        /\ Text(buf') = Text(buf) /\ Length(buf') = Length(buf)
    BY <1>2, <1>3, MoveLeftCall, MoveRightCall DEF MoveToIteration
  <2>2. /\ moving' = moving
        /\ initialized' = TRUE /\ clean' = clean /\ dirty' = dirty
    BY <1>2, <1>3, <2>1 DEF MoveToIteration, coreVars
  <2>3. IInv'
    BY <1>2, <2>1, <2>2, LiveInvariantPrime DEF Holds, Results
  <2>4. UNCHANGED Document!vars
    BY <1>1, <1>2, <2>1, <2>2 DEF Document!vars, DocumentCursor, DocumentResult
  <2> QED
    BY <2>3, <2>4 DEF Step
<1>4. CASE MoveToReturn
  <2>1. /\ moving' = Idle /\ result' = OK /\ buf' = buf /\ buf.gap_start = moving
        /\ initialized' = TRUE /\ clean' = clean /\ dirty' = dirty
    BY <1>2, <1>4 DEF MoveToReturn, coreVars
  <2>2. IInv'
    BY <1>2, <2>1, LiveInvariantPrime DEF Holds, Results
  <2>3. DocumentCursor' = DocumentCursor /\ DocumentResult' = DocumentResult
    BY <1>1, <1>2, <2>1, SeenIdlePrime DEF DocumentCursor, DocumentResult
  <2> QED
    BY <1>2, <2>1, <2>2, <2>3 DEF Step, Document!vars
<1> QED
  BY <1>3, <1>4 DEF MoveToLoop

LEMMA LoadStep ==
  ASSUME IInv, moving = Idle, UNCHANGED moving,
         NEW t \in LoadTexts, editor_core_load_buffer(t)
  PROVE  Step
<1>1. CASE Rejected
  BY <1>1, RejectedStep
<1>2. CASE /\ initialized
           /\ gap_buffer_load_buffer(t)
           /\ dirty' = (dirty /\ result' # OK)
           /\ clean' = IF result' = OK THEN t ELSE clean
           /\ UNCHANGED initialized
  <2>1. /\ WellFormed(buf) /\ result \in Results /\ dirty \in BOOLEAN
        /\ clean \in Seq(Byte)
        /\ initialized = TRUE
        /\ t \in Seq(Byte)
    BY <1>2, LiveInvariant, EditorCoreAssumption DEF IInv, TypeOK
  <2>2. CASE /\ result' = OK
             /\ WellFormed(buf')
             /\ Text(buf') = t
             /\ buf'.gap_start = Len(t)
    <3>1. dirty' = FALSE /\ initialized' = TRUE /\ clean' = t
      BY <1>2, <2>1, <2>2
    <3>2. IInv'
      BY <2>1, <2>2, <3>1, LiveInvariantPrime DEF Holds, Results
    <3>3. Document!Load(t)
      BY <2>1, <2>2, <3>1, SeenIdlePrime DEF Document!Load, Document!Becomes, OK
    <3> QED
      BY <3>2, <3>3 DEF Step, Document!Next
  <2>3. CASE result' = ERR_MEMORY /\ buf' = buf
    <3>1. UNCHANGED <<buf, moving, dirty, initialized, clean>>
      BY <1>2, <2>1, <2>3 DEF OK, ERR_MEMORY
    <3>2. Document!Returns(ERR_MEMORY) => Document!Next
      BY <2>1 DEF Document!Next, Document!Load, ERR_MEMORY
    <3> QED
      BY <2>3, <3>1, <3>2, ReturnStep DEF Results
  <2> QED
    BY <1>2, <2>2, <2>3, LoadCall
<1> QED
  BY <1>1, <1>2 DEF editor_core_load_buffer

LEMMA LoadNullStep ==
  ASSUME IInv, moving = Idle, UNCHANGED moving, editor_core_load_null
  PROVE  Step
<1>1. CASE Rejected
  BY <1>1, RejectedStep
<1>2. CASE initialized /\ gap_buffer_load_null /\ UNCHANGED coreVars
  <2>1. UNCHANGED <<buf, moving, dirty, initialized, clean>> /\ result' = ERR_INVALID
    BY <1>2 DEF gap_buffer_load_null, Fails, coreVars
  <2>2. Document!Returns(ERR_INVALID) => Document!Next
    BY DEF Document!Next, Document!Refuse, ERR_INVALID
  <2> QED
    BY <2>1, <2>2, ReturnStep DEF Results
<1> QED
  BY <1>1, <1>2 DEF editor_core_load_null

LEMMA MarkCleanStep ==
  ASSUME IInv, moving = Idle, UNCHANGED moving, editor_core_mark_clean
  PROVE  Step
<1>1. /\ WellFormed(buf) /\ result \in Results
      /\ Text(buf) \in Seq(Byte)
      /\ initialized = TRUE
  BY LiveInvariant DEF IInv, TypeOK, Holds, editor_core_mark_clean
<1>2. /\ buf' = buf /\ result' = result /\ initialized' = TRUE
      /\ dirty' = FALSE /\ clean' = Text(buf)
  BY <1>1 DEF editor_core_mark_clean
<1>3. IInv'
  BY <1>1, <1>2, LiveInvariantPrime DEF Holds
<1>4. Document!MarkClean
  BY <1>1, <1>2 DEF Document!MarkClean, DocumentCursor, DocumentResult
<1> QED
  BY <1>3, <1>4 DEF Step, Document!Next

LEMMA CreateStep ==
  ASSUME IInv, moving = Idle, UNCHANGED moving, editor_core_init
  PROVE  Step
<1>1. /\ initialized = FALSE
      /\ gap_buffer_init(0)
      /\ initialized' = (result' = OK)
      /\ dirty' = FALSE
      /\ clean' = << >>
      /\ << >> \in Seq(Byte)
  BY DEF editor_core_init, IInv, TypeOK
<1>2. CASE /\ result' = OK
           /\ WellFormed(buf')
           /\ Text(buf') = << >>
           /\ buf'.gap_start = 0
  <2>1. initialized' = TRUE
    BY <1>1, <1>2
  <2>2. IInv'
    BY <1>1, <1>2, <2>1, LiveInvariantPrime DEF Holds, Results
  <2>3. Document!Create
    BY <1>1, <1>2, <2>1, SeenIdlePrime DEF Document!Create, OK
  <2> QED
    BY <2>2, <2>3 DEF Step, Document!Next
<1>3. CASE result' = ERR_MEMORY /\ buf' = FreedBuffer
  <2>1. initialized' = FALSE
    BY <1>1, <1>3 DEF OK, ERR_MEMORY
  <2>2. IInv'
    BY <1>1, <1>3, <2>1, DeadInvariantPrime DEF Results
  <2>3. Document!Create
    BY <1>1, <1>3, <2>1, FreedProperties
       DEF Document!Create, DocumentCursor, DocumentResult, ERR_MEMORY
  <2> QED
    BY <2>2, <2>3 DEF Step, Document!Next
<1> QED
  BY <1>1, <1>2, <1>3, InitCall

LEMMA FreeStep ==
  ASSUME IInv, moving = Idle, UNCHANGED moving, editor_core_free
  PROVE  Step
<1>1. /\ initialized' = FALSE /\ dirty' = FALSE /\ clean' = << >>
      /\ buf' = FreedBuffer /\ result' = result
      /\ result \in Results /\ << >> \in Seq(Byte)
  BY DEF editor_core_free, gap_buffer_free, IInv, TypeOK
<1>2. IInv'
  BY <1>1, DeadInvariantPrime
<1>3. Document!Destroy
  BY <1>1, FreedProperties DEF Document!Destroy, DocumentCursor, DocumentResult
<1> QED
  BY <1>2, <1>3 DEF Step, Document!Next

-----------------------------------------------------------------------------
(* The theorems.                                                           *)

LEMMA Initially == Init => IInv /\ Document!Init
<1> SUFFICES ASSUME Init PROVE IInv /\ Document!Init
  OBVIOUS
<1>1. moving = Idle /\ dirty = FALSE /\ clean = << >> /\ << >> \in Seq(Byte)
  BY DEF Init
<1>2. CASE buf = NewBuffer(DefaultGap, << >>) /\ result = OK /\ initialized = TRUE
  <2>1. WellFormed(buf) /\ Text(buf) = << >> /\ buf.gap_start = 0
    BY <1>2, EmptyBuffer
  <2>2. IInv
    BY <1>1, <1>2, <2>1, LiveInvariant DEF Holds, Results
  <2>3. Document!Init
    BY <1>1, <1>2, <2>1, SeenIdle DEF Document!Init, Document!Empty, OK
  <2> QED
    BY <2>2, <2>3
<1>3. CASE buf = FreedBuffer /\ result = ERR_MEMORY /\ initialized = FALSE
  <2>1. IInv
    BY <1>1, <1>3, DeadInvariant DEF Results
  <2>2. Document!Init
    BY <1>1, <1>3, FreedProperties
       DEF Document!Init, Document!Empty, DocumentCursor, DocumentResult, ERR_MEMORY
  <2> QED
    BY <2>1, <2>2
<1> QED
  BY <1>2, <1>3 DEF Init

LEMMA EveryStep == IInv /\ [Next]_vars => Step
<1> SUFFICES ASSUME IInv, [Next]_vars PROVE Step
  OBVIOUS
<1>1. CASE moving = Idle /\ Call /\ UNCHANGED moving
  <2>1. CASE editor_core_init
    BY <1>1, <2>1, CreateStep
  <2>2. CASE editor_core_free
    BY <1>1, <2>2, FreeStep
  <2>3. CASE \E ch \in Byte : editor_core_insert_char(ch)
    BY <1>1, <2>3, InsertStep
  <2>4. CASE editor_core_backspace
    BY <1>1, <2>4, BackspaceStep
  <2>5. CASE editor_core_delete
    BY <1>1, <2>5, DeleteStep
  <2>6. CASE editor_core_move_left
    BY <1>1, <2>6, MoveLeftStep
  <2>7. CASE editor_core_move_right
    BY <1>1, <2>7, MoveRightStep
  <2>8. CASE \E t \in LoadTexts : editor_core_load_buffer(t)
    BY <1>1, <2>8, LoadStep
  <2>9. CASE editor_core_load_null
    BY <1>1, <2>9, LoadNullStep
  <2>10. CASE editor_core_mark_clean
    BY <1>1, <2>10, MarkCleanStep
  <2> QED
    BY <1>1, <2>1, <2>2, <2>3, <2>4, <2>5, <2>6, <2>7, <2>8, <2>9, <2>10 DEF Call
<1>2. CASE moving = Idle /\ \E p \in Size : editor_core_move_to(p)
  BY <1>2, MoveToStep
<1>3. CASE MoveToLoop
  BY <1>3, MoveToLoopStep
<1>4. CASE UNCHANGED vars
  <2>1. IInv'
    BY <1>4 DEF vars, IInv, TypeOK, TextIsWritten, CleanMeansUnchanged
  <2>2. UNCHANGED Document!vars
    BY <1>4 DEF vars, Document!vars, DocumentCursor, DocumentResult
  <2> QED
    BY <2>1, <2>2 DEF Step
<1> QED
  BY <1>1, <1>2, <1>3, <1>4 DEF Next

\* The invariant holds in every reachable state.
THEOREM Invariant == Spec => []IInv
<1>1. IInv /\ [Next]_vars => IInv'
  BY EveryStep DEF Step
<1> QED
  BY Initially, <1>1, PTL DEF Spec

\* The block, the gap and the flags of the core fit together in every
\* reachable state: no operation indexes outside the block.
THEOREM TypeCorrect == Spec => []TypeOK
<1>1. IInv => TypeOK
  BY DEF IInv
<1> QED
  BY Invariant, <1>1, PTL

\* No byte that realloc left uninitialized is ever part of the text.
THEOREM TextAlwaysWritten == Spec => []TextIsWritten
<1>1. IInv => TextIsWritten
  BY DEF IInv
<1> QED
  BY Invariant, <1>1, PTL

\* A core that is not dirty holds the text it was given or saved with.
THEOREM CleanIsUnchanged == Spec => []CleanMeansUnchanged
<1>1. IInv => CleanMeansUnchanged
  BY DEF IInv
<1> QED
  BY Invariant, <1>1, PTL

\* The editor core implements the abstract document: every sequence of calls
\* is one that a text with a cursor could have answered in the same way.
THEOREM CoreImplementsDocument == Spec => ImplementsDocument
<1>1. Init => Document!Init
  BY Initially
<1>2. IInv /\ [Next]_vars => [Document!Next]_(Document!vars)
  BY EveryStep DEF Step
<1> QED
  BY Invariant, <1>1, <1>2, PTL DEF Spec, ImplementsDocument, Document!Spec

-----------------------------------------------------------------------------
(* The loop of move_to runs out of iterations.                             *)

\* The steps that a call of move_to still takes: one for each byte between the
\* gap and the position, and the return.
MovesLeft(start, position) ==
  IF position = Idle THEN 0
  ELSE 1 + (IF start > position THEN start - position ELSE position - start)

\* Every step of a call of move_to is one of the steps that were left, and none
\* fails or touches the text.
MoveToRunsOut ==
  [][ moving # Idle =>
        /\ MovesLeft(buf.gap_start, moving) \in Nat
        /\ MovesLeft(buf'.gap_start, moving') = MovesLeft(buf.gap_start, moving) - 1
        /\ result' = OK /\ Text(buf') = Text(buf) ]_vars

LEMMA MoveToLoopLowers ==
  ASSUME IInv, MoveToLoop
  PROVE  /\ MovesLeft(buf.gap_start, moving) \in Nat
         /\ MovesLeft(buf'.gap_start, moving') = MovesLeft(buf.gap_start, moving) - 1
         /\ result' = OK /\ Text(buf') = Text(buf)
<1>1. moving # Idle
  BY DEF MoveToLoop, MoveToIteration, MoveToReturn
<1>2. WellFormed(buf) /\ moving \in 0 .. Length(buf)
  BY <1>1 DEF IInv, TypeOK
<1>3. /\ moving \in Nat /\ buf.gap_start \in Nat /\ Length(buf) \in Nat
      /\ buf.gap_start <= Length(buf)
  BY <1>2, WellFormedProperties, TextProperties
<1>4. MovesLeft(buf.gap_start, moving) =
        1 + (IF buf.gap_start > moving THEN buf.gap_start - moving ELSE moving - buf.gap_start)
  BY <1>1 DEF MovesLeft
<1>5. CASE MoveToIteration
  <2>1. result' = OK /\ Text(buf') = Text(buf)
    BY <1>2, <1>5, MoveLeftCall, MoveRightCall DEF MoveToIteration
  <2>2. moving' = moving
    BY <1>5, <2>1 DEF MoveToIteration
  <2>3. \/ buf.gap_start > moving /\ buf'.gap_start = buf.gap_start - 1
        \/ buf.gap_start < moving /\ buf'.gap_start = buf.gap_start + 1
    BY <1>2, <1>3, <1>5, MoveLeftCall, MoveRightCall DEF MoveToIteration
  <2>4. MovesLeft(buf'.gap_start, moving') =
          1 + (IF buf'.gap_start > moving THEN buf'.gap_start - moving
               ELSE moving - buf'.gap_start)
    BY <1>1, <2>2 DEF MovesLeft
  <2> QED
    BY <1>3, <1>4, <2>1, <2>3, <2>4
<1>6. CASE MoveToReturn
  <2>1. moving' = Idle /\ result' = OK /\ buf' = buf /\ buf.gap_start = moving
    BY <1>6 DEF MoveToReturn
  <2>2. MovesLeft(buf'.gap_start, moving') = 0
    BY <2>1 DEF MovesLeft
  <2> QED
    BY <1>3, <1>4, <2>1, <2>2
<1> QED
  BY <1>5, <1>6 DEF MoveToLoop

\* A call of move_to takes one iteration for each byte that it passes, for
\* every text and position, and then it returns OK: no iteration fails, goes
\* the wrong way or passes the position.  MoveToReturns follows as long as the
\* loop keeps running.
THEOREM MoveToRunsOutOfSteps == Spec => MoveToRunsOut
<1>1. IInv /\ [Next]_vars =>
        [ moving # Idle =>
            /\ MovesLeft(buf.gap_start, moving) \in Nat
            /\ MovesLeft(buf'.gap_start, moving') = MovesLeft(buf.gap_start, moving) - 1
            /\ result' = OK /\ Text(buf') = Text(buf) ]_vars
  BY MoveToLoopLowers DEF Next
<1> QED
  BY <1>1, Invariant, PTL DEF Spec, MoveToRunsOut
=============================================================================
