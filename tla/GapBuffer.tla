----------------------------- MODULE GapBuffer ------------------------------
(***************************************************************************)
(* The gap buffer of src/gap_buffer.c: one allocated block that holds the  *)
(* text before the cursor at its low end, the text after the cursor at its *)
(* high end, and the gap in between.                                       *)
(*                                                                         *)
(* buf is the GapBuffer struct and result the value the last call          *)
(* returned.  Each exported function is an action operator on the two;     *)
(* module EditorCore makes the calls.                                      *)
(***************************************************************************)
EXTENDS Naturals, Sequences

CONSTANTS
  Byte,        \* the values of an unsigned char the callers insert
  Junk,        \* the content of a byte that was allocated and never written
  SizeMax,     \* the largest size_t (2^64 - 1 in the build)
  DefaultGap   \* DEFAULT_GAP_SIZE (64 in the code)

ASSUME GapBufferAssumption ==
  /\ SizeMax \in Nat
  /\ DefaultGap \in 1 .. SizeMax - 1
  /\ 0 \in Byte
  /\ Junk \notin Byte

VARIABLES buf, result

Size == 0 .. SizeMax

OK             == "OK"
ERR_INVALID    == "ERR_INVALID"
ERR_MEMORY     == "ERR_MEMORY"
Results        == {OK, ERR_INVALID, ERR_MEMORY}

\* Addition of two size_t values: it wraps around at SizeMax + 1.
Plus(m, n) == IF m + n > SizeMax THEN m + n - (SizeMax + 1) ELSE m + n

-----------------------------------------------------------------------------
(* The struct and what its callers read from it.                           *)

Block(n) == [0 .. n - 1 -> Byte \cup {Junk}]   \* the contents of n bytes

NULL == << >>                                  \* no block: an empty function

FreedBuffer == [data |-> NULL, capacity |-> 0, gap_start |-> 0, gap_end |-> 0]

\* A block from calloc, with the first bytes copied from t.
NewBuffer(n, t) ==
  [ data      |-> [i \in 0 .. n - 1 |-> IF i < Len(t) THEN t[i + 1] ELSE 0],
    capacity  |-> n,
    gap_start |-> Len(t),
    gap_end   |-> n ]

GapSize(b) == b.gap_end - b.gap_start

IsValid(b) == /\ b.data # NULL
              /\ b.gap_start <= b.gap_end
              /\ b.gap_end <= b.capacity

\* What gap_buffer_init establishes and every operation preserves.
WellFormed(b) ==
  /\ b = [data |-> b.data, capacity |-> b.capacity,
          gap_start |-> b.gap_start, gap_end |-> b.gap_end]
  /\ b.capacity \in Size \ {0} /\ b.gap_start \in Size /\ b.gap_end \in Size
  /\ b.data \in Block(b.capacity)
  /\ IsValid(b)

Length(b) == IF IsValid(b) THEN b.capacity - GapSize(b) ELSE 0

Cursor(b) == IF IsValid(b) THEN b.gap_start ELSE 0

\* gap_buffer_to_buffer: the bytes before the gap, then the bytes after it.
Text(b) ==
  [i \in 1 .. Length(b) |->
     IF i <= b.gap_start THEN b.data[i - 1] ELSE b.data[i - 1 + GapSize(b)]]

-----------------------------------------------------------------------------
(* Growing the block.                                                      *)

\* The loop that doubles the capacity c until it reaches required.  It stops
\* at required itself when the next doubling would wrap around.
NewCapacity(c, required) ==
  LET doublings == {n \in required .. SizeMax : \E k \in 0 .. SizeMax : n = c * 2^k}
  IN  IF doublings = {} THEN required
      ELSE CHOOSE n \in doublings : \A m \in doublings : n <= m

\* Mutant: the block grows, and the suffix stays where it was.
EnlargeWithoutMove(b, n) ==
  [ data |-> [i \in 0 .. n - 1 |-> IF i < b.capacity THEN b.data[i] ELSE Junk],
    capacity  |-> n,
    gap_start |-> b.gap_start,
    gap_end   |-> n - (b.capacity - b.gap_end) ]

\* realloc to n bytes, then memmove of the suffix to the end of the block.
Enlarge(b, n) ==
  LET newEnd == n - (b.capacity - b.gap_end)
  IN  [ data |-> [i \in 0 .. n - 1 |->
                    IF i >= newEnd THEN b.data[i - newEnd + b.gap_end]
                    ELSE IF i < b.capacity THEN b.data[i] ELSE Junk],
        capacity  |-> n,
        gap_start |-> b.gap_start,
        gap_end   |-> newEnd ]

Required(b, needed) == Plus(Plus(Length(b), needed), DefaultGap)

RequiredOverflows(b, needed) ==
  Required(b, needed) < Length(b) \/ Required(b, needed) < needed

-----------------------------------------------------------------------------
(* The operations.                                                         *)

Fails(code)  == result' = code /\ UNCHANGED buf
Succeeds(b)  == result' = OK /\ buf' = b

\* What they do to a valid buffer that has room for it.
WithGap(b, data, start, end) ==
  [data |-> data, capacity |-> b.capacity, gap_start |-> start, gap_end |-> end]

PutChar(b, ch) ==
  WithGap(b, [b.data EXCEPT ![b.gap_start] = ch], b.gap_start + 1, b.gap_end)

DropBefore(b) == WithGap(b, b.data, b.gap_start - 1, b.gap_end)

DropAt(b) == WithGap(b, b.data, b.gap_start, b.gap_end + 1)

ShiftLeft(b) ==
  WithGap(b, [b.data EXCEPT ![b.gap_end - 1] = b.data[b.gap_start - 1]],
          b.gap_start - 1, b.gap_end - 1)

ShiftRight(b) ==
  WithGap(b, [b.data EXCEPT ![b.gap_start] = b.data[b.gap_end]],
          b.gap_start + 1, b.gap_end + 1)

gap_buffer_init(capacity) ==
  \/ Succeeds(NewBuffer(IF capacity < DefaultGap THEN DefaultGap ELSE capacity, << >>))
  \/ result' = ERR_MEMORY /\ buf' = FreedBuffer      \* calloc fails

gap_buffer_free == buf' = FreedBuffer /\ UNCHANGED result

\* Mutant: the result of ensure_gap is not looked at.
InsertIgnoringFailure(ch) ==
  IF ~ IsValid(buf) THEN Fails(ERR_INVALID)
  ELSE \/ GapSize(buf) >= 1 /\ Succeeds(PutChar(buf, ch))
       \/ GapSize(buf) < 1 /\ Succeeds(buf)

gap_buffer_insert_char(ch) ==
  IF ~ IsValid(buf) THEN Fails(ERR_INVALID)
  ELSE \/ /\ GapSize(buf) >= 1
          /\ Succeeds(PutChar(buf, ch))
       \/ /\ GapSize(buf) < 1
          /\ ~ RequiredOverflows(buf, 1)
          /\ Succeeds(PutChar(Enlarge(buf, NewCapacity(buf.capacity, Required(buf, 1))), ch))
       \/ /\ GapSize(buf) < 1        \* the size overflows, or realloc fails
          /\ Fails(ERR_MEMORY)

gap_buffer_delete_before_cursor ==
  IF ~ IsValid(buf) THEN Fails(ERR_INVALID)
  ELSE Succeeds(IF buf.gap_start > 0 THEN DropBefore(buf) ELSE buf)

\* Mutant: no test for the end of the block.
DeleteAtEnd == IF ~ IsValid(buf) THEN Fails(ERR_INVALID) ELSE Succeeds(DropAt(buf))

gap_buffer_delete_at_cursor ==
  IF ~ IsValid(buf) THEN Fails(ERR_INVALID)
  ELSE Succeeds(IF buf.gap_end < buf.capacity THEN DropAt(buf) ELSE buf)

gap_buffer_move_left ==
  IF ~ IsValid(buf) THEN Fails(ERR_INVALID)
  ELSE Succeeds(IF buf.gap_start = 0 THEN buf ELSE ShiftLeft(buf))

gap_buffer_move_right ==
  IF ~ IsValid(buf) THEN Fails(ERR_INVALID)
  ELSE Succeeds(IF buf.gap_end = buf.capacity THEN buf ELSE ShiftRight(buf))

\* size bytes at data; data is NULL with a nonzero size in an invalid call.
gap_buffer_load_buffer(t) ==
  \/ /\ Plus(Len(t), DefaultGap) >= Len(t)
     /\ Succeeds(NewBuffer(Plus(Len(t), DefaultGap), t))
  \/ Fails(ERR_MEMORY)               \* the size overflows, or calloc fails

gap_buffer_load_null == Fails(ERR_INVALID)
=============================================================================
