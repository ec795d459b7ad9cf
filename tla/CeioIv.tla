------------------------------- MODULE CeioIv -------------------------------
(***************************************************************************)
(* crypto_generate_iv of src/crypto_ceio.c: one call of getrandom, and     *)
(* when that gives too little, reads from /dev/urandom until the IV is     *)
(* full.  Either call may fail or give fewer bytes than asked for.         *)
(* CallResources calls it in a save.                                       *)
(***************************************************************************)
EXTENDS Integers

CONSTANTS
  IvSize,     \* CRYPTO_CEIO_IV_SIZE (8 in the code)
  Junk        \* a byte that the call has not written

ASSUME CeioIvAssumption == IvSize \in Nat \ {0} /\ Junk \notin {"getrandom", "urandom"}

VARIABLES
  iv,         \* where each byte of the IV comes from
  total,      \* the bytes read from /dev/urandom
  open,       \* the descriptor of /dev/urandom is open
  iv_pc,      \* "getrandom", "open", "read" or "returned"
  iv_result   \* what the call returned

iv_vars == <<iv, total, open, iv_pc, iv_result>>

Offsets == 0 .. IvSize - 1

IvInit == /\ iv = [o \in Offsets |-> Junk]
          /\ total = 0 /\ open = FALSE
          /\ iv_pc = "getrandom" /\ iv_result = -1

\* The IV after n bytes of a source were written at an offset.
Filled(at, n, source) == [o \in Offsets |-> IF o \in at .. at + n - 1 THEN source ELSE iv[o]]

IvReturn(r) == iv_pc' = "returned" /\ iv_result' = r

\* getrandom writes n bytes; a failed call writes none.
GetRandom ==
  /\ iv_pc = "getrandom"
  /\ \E n \in 0 .. IvSize :
       /\ iv' = Filled(0, n, "getrandom")
       /\ IF n = IvSize THEN IvReturn(0) ELSE iv_pc' = "open" /\ UNCHANGED iv_result
  /\ UNCHANGED <<total, open>>

Open ==
  /\ iv_pc = "open"
  /\ \/ open' = TRUE /\ iv_pc' = "read" /\ UNCHANGED iv_result
     \/ IvReturn(-1) /\ UNCHANGED open
  /\ UNCHANGED <<iv, total>>

\* Mutant: every read writes at the start of the IV.
ReadAtStart ==
  /\ iv_pc = "read" /\ total < IvSize
  /\ \E chunk \in 1 .. IvSize - total :
       /\ iv' = Filled(0, chunk, "urandom")
       /\ total' = total + chunk
  /\ UNCHANGED <<open, iv_pc, iv_result>>

\* Mutant: the bytes of this read only are counted.
ReadCountsLast ==
  /\ iv_pc = "read" /\ total < IvSize
  /\ \E chunk \in 1 .. IvSize - total :
       /\ iv' = Filled(total, chunk, "urandom")
       /\ total' = chunk
  /\ UNCHANGED <<open, iv_pc, iv_result>>

Read ==
  /\ iv_pc = "read" /\ total < IvSize
  /\ \E chunk \in 1 .. IvSize - total :
       /\ iv' = Filled(total, chunk, "urandom")
       /\ total' = total + chunk
  /\ UNCHANGED <<open, iv_pc, iv_result>>

\* Mutant: the descriptor stays open after a read that gave nothing.
ReadFailsOpen ==
  /\ iv_pc = "read" /\ total < IvSize
  /\ IvReturn(-1)
  /\ UNCHANGED <<iv, total, open>>

\* A read that fails, or gives no byte, ends the call.
ReadFails ==
  /\ iv_pc = "read" /\ total < IvSize
  /\ open' = FALSE
  /\ IvReturn(-1)
  /\ UNCHANGED <<iv, total>>

\* close may report an error; the descriptor is gone all the same.
Close ==
  /\ iv_pc = "read" /\ total >= IvSize
  /\ open' = FALSE
  /\ \E r \in {0, -1} : IvReturn(r)
  /\ UNCHANGED <<iv, total>>

IvStep == GetRandom \/ Open \/ Read \/ ReadFails \/ Close

\* The caller has the result.
Returned == iv_pc = "returned" /\ UNCHANGED iv_vars

IvNext == IvStep \/ Returned

IvSpec == IvInit /\ [][IvNext]_iv_vars
-----------------------------------------------------------------------------
(* Properties.                                                             *)

\* When the call returns 0 every byte of the IV is random, and no byte is left
\* from before the call: short reads are put together without gap or overlap.
\* While /dev/urandom is read, the bytes before total come from it.
SuccessIsRandom ==
  /\ iv_pc = "returned" /\ iv_result = 0 =>
       iv \in [Offsets -> {"getrandom"}] \cup [Offsets -> {"urandom"}]
  /\ \A o \in Offsets : o < total => iv[o] = "urandom"

\* No way out of the call leaves the descriptor open.
DescriptorClosed == iv_pc = "returned" => ~ open
=============================================================================
