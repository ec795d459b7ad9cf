-------------------------- MODULE EditorMain_proofs -------------------------
(* Proofs of the properties of a key's way through memory, for every length *)
(* of the prompt's buffer, every number of blocks and every way they share  *)
(* pages; and of the program around it, for every command line.             *)
EXTENDS EditorMain, SequenceTheorems, WellFoundedInduction, TLAPS

-----------------------------------------------------------------------------
(* The way of a key, whichever program takes its steps.                    *)

\* The phases in which the app holds a key.
HeldPhase == {"stored", "held", "cipher", "done", "failed"}

\* What is typed and not erased is what the buffer begins with.
LineInBuffer ==
  phase \in {"prompt", "copy"} =>
    /\ length = Len(typed)
    /\ \A i \in 1 .. length : buffer[i - 1] = typed[i]

\* The copy on the heap is that line.
LineInBlock ==
  phase \in {"stored", "held", "cipher"} =>
    /\ key_size = Len(typed)
    /\ \A i \in 1 .. key_size : heap[key][i - 1] = typed[i]

\* No page is locked but those of the key.
LocksAreKeys == locked \subseteq (IF key = NoBlock THEN {} ELSE Pages[key])

\* The invariant says of each phase whether there is a key, that an empty line
\* is never copied, and that no byte of a key lies behind key_size, where the
\* wiping would miss it.
IInv ==
  /\ TypeOK
  /\ SecretsWhereNeeded
  /\ KeyStaysLocked
  /\ LineInBuffer
  /\ LineInBlock
  /\ LocksAreKeys
  /\ key # NoBlock <=> phase \in HeldPhase
  /\ phase = "copy" => length > 0
  /\ \A i \in Offsets : key # NoBlock /\ heap[key][i] \in Char => i < key_size
  /\ phase = "cipher" => words = typed

\* Wiping n bytes leaves the bytes behind them, and the type.
LEMMA Wiping ==
  ASSUME NEW bytes \in [Offsets -> Byte], NEW n \in Nat
  PROVE  /\ secure_zero_memory(bytes, n) \in [Offsets -> Byte]
         /\ \A i \in Offsets :
              secure_zero_memory(bytes, n)[i] = IF i < n THEN Zero ELSE bytes[i]
BY DEF secure_zero_memory, Byte

\* The whole buffer is wiped.
LEMMA WipingAll ==
  ASSUME NEW bytes \in [Offsets -> Byte]
  PROVE  \A i \in Offsets : secure_zero_memory(bytes, Capacity)[i] = Zero
<1>1. \A i \in Offsets : i < Capacity /\ Capacity \in Nat
  BY KeyMemoryAssumption DEF Offsets
<1> QED
  BY <1>1, Wiping

\* After editor_app_clear_key no block holds a byte of a key, and none is used.
LEMMA ClearsKey ==
  ASSUME IInv, editor_app_clear_key
  PROVE  /\ key' = NoBlock /\ key_size' = 0 /\ used' = {} /\ lock_ok' = FALSE
         /\ locked' = {}
         /\ heap' \in [Block -> [Offsets -> Byte]]
         /\ \A b \in Block, i \in Offsets : heap'[b][i] \notin Char
<1>1. key' = NoBlock /\ key_size' = 0 /\ lock_ok' = FALSE
  BY DEF editor_app_clear_key
<1>2. CASE key = NoBlock
  BY <1>1, <1>2, KeyMemoryAssumption
  DEF editor_app_clear_key, IInv, TypeOK, SecretsWhereNeeded, LocksAreKeys
<1>3. CASE key # NoBlock
  <2>1. /\ key \in Block /\ key_size \in Nat /\ heap \in [Block -> [Offsets -> Byte]]
        /\ used = {key}
    BY <1>3 DEF IInv, TypeOK, Offsets
  <2>2. heap' = [heap EXCEPT ![key] = secure_zero_memory(heap[key], key_size)]
        /\ used' = {} /\ locked' = {}
    BY <1>3, <2>1 DEF editor_app_clear_key, Freed, IInv, LocksAreKeys
  <2>3. /\ secure_zero_memory(heap[key], key_size) \in [Offsets -> Byte]
        /\ \A i \in Offsets : secure_zero_memory(heap[key], key_size)[i]
                              = IF i < key_size THEN Zero ELSE heap[key][i]
    BY <2>1, Wiping
  <2>4. heap' \in [Block -> [Offsets -> Byte]]
    BY <2>1, <2>2, <2>3
  <2>5. \A i \in Offsets : heap'[key][i] \notin Char
    <3>1. \A i \in Offsets : heap[key][i] \in Char => i < key_size
      BY <1>3 DEF IInv
    <3> QED
      BY <2>1, <2>2, <2>3, <3>1, KeyMemoryAssumption
  <2>6. \A b \in Block, i \in Offsets : b # key => heap'[b][i] \notin Char
    BY <2>1, <2>2 DEF IInv, SecretsWhereNeeded
  <2> QED
    BY <1>1, <2>2, <2>4, <2>5, <2>6
<1> QED
  BY <1>2, <1>3

LEMMA Initial == Init => IInv
<1> SUFFICES ASSUME Init PROVE IInv
  OBVIOUS
<1>1. /\ Fresh \in [Offsets -> Byte] /\ \A i \in Offsets : Fresh[i] \notin Char
      /\ 0 \in Offsets
  BY KeyMemoryAssumption DEF Fresh, Byte, Offsets
<1>2. /\ buffer = Fresh /\ heap \in [Block -> [Offsets -> Byte]]
      /\ \A b \in Block : heap[b] = Fresh
  BY <1>1 DEF Init
<1>3. << >> \in Seq(Char)
  OBVIOUS
<1>4. TypeOK
  BY <1>1, <1>2, <1>3 DEF Init, TypeOK
<1>5. SecretsWhereNeeded
  BY <1>1, <1>2 DEF Init, SecretsWhereNeeded
<1> QED
  BY <1>4, <1>5 DEF Init, IInv, KeyStaysLocked, LocksAreKeys, LineInBuffer, LineInBlock, HeldPhase

-----------------------------------------------------------------------------
(* The prompt: the store is left alone.                                    *)

LEMMA BeginPromptInv == IInv /\ BeginPrompt => IInv'
<1> SUFFICES ASSUME IInv, BeginPrompt PROVE IInv'
  OBVIOUS
<1>1. key = NoBlock
  BY DEF IInv, BeginPrompt, HeldPhase
<1>2. /\ phase = "idle" /\ phase' = "prompt" /\ buffer' = secure_zero_memory(buffer, Capacity)
      /\ length' = 0 /\ typed' = << >>
      /\ UNCHANGED <<opening, heap, used, key, key_size, locked, lock_ok, words>>
  BY <1>1 DEF BeginPrompt, store
<1>3. /\ buffer' \in [Offsets -> Byte] /\ \A i \in Offsets : buffer'[i] = Zero
  BY <1>2, Wiping, WipingAll, KeyMemoryAssumption DEF IInv, TypeOK
<1>4. TypeOK'
  <2>1. 0 \in Offsets /\ \A i \in 0 .. Capacity - 1 : i \in Offsets
    BY KeyMemoryAssumption DEF Offsets
  <2> QED
    BY <1>2, <1>3, <2>1 DEF IInv, TypeOK
<1>5. SecretsWhereNeeded'
  BY <1>2, <1>3, KeyMemoryAssumption DEF IInv, SecretsWhereNeeded
<1> QED
  BY <1>1, <1>2, <1>4, <1>5
  DEF IInv, KeyStaysLocked, LocksAreKeys, LineInBuffer, LineInBlock, HeldPhase

LEMMA TypeCharInv == ASSUME NEW c \in Char PROVE IInv /\ TypeChar(c) => IInv'
<1> SUFFICES ASSUME IInv, TypeChar(c) PROVE IInv'
  OBVIOUS
<1>1. /\ phase = "prompt" /\ phase' = phase /\ length + 1 < Capacity
      /\ length' = length + 1 /\ typed' = Append(typed, c)
      /\ buffer' = [buffer EXCEPT ![length] = c]
      /\ UNCHANGED <<opening, heap, used, key, key_size, locked, lock_ok, words>>
  BY DEF TypeChar, store
<1>2. /\ length \in 0 .. Capacity - 1 /\ length' \in Offsets /\ Capacity \in Nat
      /\ typed \in Seq(Char) /\ length = Len(typed)
      /\ buffer \in [Offsets -> Byte]
      /\ \A i \in length .. Capacity - 1 : buffer[i] = Zero
      /\ \A i \in 1 .. length : buffer[i - 1] = typed[i]
  <2>1. Capacity \in Nat /\ length \in Nat
    BY KeyMemoryAssumption DEF IInv, TypeOK, Offsets
  <2>2. length \in 0 .. Capacity - 1 /\ length' \in Offsets
    BY <1>1, <2>1 DEF Offsets
  <2> QED
    BY <1>1, <2>1, <2>2 DEF IInv, TypeOK, LineInBuffer
<1>3. /\ buffer' \in [Offsets -> Byte]
      /\ \A i \in Offsets : buffer'[i] = IF i = length THEN c ELSE buffer[i]
  BY <1>1, <1>2 DEF Byte, Offsets
<1>4. \A i \in length' .. Capacity - 1 : buffer'[i] = Zero
  BY <1>1, <1>2, <1>3 DEF Offsets
<1>5. typed' \in Seq(Char) /\ Len(typed') = length'
      /\ \A i \in 1 .. length' : typed'[i] = IF i = length' THEN c ELSE typed[i]
  BY <1>1, <1>2, AppendProperties
<1>6. \A i \in 1 .. length' : buffer'[i - 1] = typed'[i]
  BY <1>1, <1>2, <1>3, <1>5 DEF Offsets
<1>7. TypeOK'
  BY <1>1, <1>2, <1>3, <1>4, <1>5 DEF IInv, TypeOK
<1>8. SecretsWhereNeeded'
  BY <1>1 DEF IInv, SecretsWhereNeeded
<1> QED
  BY <1>1, <1>5, <1>6, <1>7, <1>8
  DEF IInv, KeyStaysLocked, LocksAreKeys, LineInBuffer, LineInBlock, HeldPhase

LEMMA BackspaceInv == IInv /\ Backspace => IInv'
<1> SUFFICES ASSUME IInv, Backspace PROVE IInv'
  OBVIOUS
<1>1. /\ phase = "prompt" /\ phase' = phase /\ length > 0
      /\ length' = length - 1 /\ typed' = SubSeq(typed, 1, Len(typed) - 1)
      /\ buffer' = [buffer EXCEPT ![length - 1] = Zero]
      /\ UNCHANGED <<opening, heap, used, key, key_size, locked, lock_ok, words>>
  BY DEF Backspace, store
<1>2. /\ length \in 0 .. Capacity - 1 /\ length' \in Offsets /\ Capacity \in Nat
      /\ typed \in Seq(Char) /\ length = Len(typed)
      /\ buffer \in [Offsets -> Byte]
      /\ \A i \in length .. Capacity - 1 : buffer[i] = Zero
      /\ \A i \in 1 .. length : buffer[i - 1] = typed[i]
  BY <1>1, KeyMemoryAssumption DEF IInv, TypeOK, LineInBuffer, Offsets
<1>3. /\ buffer' \in [Offsets -> Byte]
      /\ \A i \in Offsets : buffer'[i] = IF i = length - 1 THEN Zero ELSE buffer[i]
  BY <1>1, <1>2 DEF Byte, Offsets
<1>4. \A i \in length' .. Capacity - 1 : buffer'[i] = Zero
  BY <1>1, <1>2, <1>3 DEF Offsets
<1>5. typed' \in Seq(Char) /\ Len(typed') = length'
      /\ \A i \in 1 .. length' : typed'[i] = typed[i]
  BY <1>1, <1>2, SubSeqProperties
<1>6. \A i \in 1 .. length' : buffer'[i - 1] = typed'[i]
  BY <1>1, <1>2, <1>3, <1>5 DEF Offsets
<1>7. TypeOK'
  BY <1>1, <1>2, <1>3, <1>4, <1>5 DEF IInv, TypeOK
<1>8. SecretsWhereNeeded'
  BY <1>1 DEF IInv, SecretsWhereNeeded
<1> QED
  BY <1>1, <1>5, <1>6, <1>7, <1>8
  DEF IInv, KeyStaysLocked, LocksAreKeys, LineInBuffer, LineInBlock, HeldPhase

LEMMA EnterInv == IInv /\ Enter => IInv'
<1> SUFFICES ASSUME IInv, Enter PROVE IInv'
  OBVIOUS
<1>1. /\ phase = "prompt" /\ phase' = "copy" /\ length > 0
      /\ UNCHANGED <<opening, buffer, length, typed, heap, used, key, key_size, locked,
                     lock_ok, words>>
  BY DEF Enter, entry, store
<1>2. TypeOK'
  BY <1>1 DEF IInv, TypeOK
<1>3. SecretsWhereNeeded'
  BY <1>1 DEF IInv, SecretsWhereNeeded
<1> QED
  BY <1>1, <1>2, <1>3
  DEF IInv, KeyStaysLocked, LocksAreKeys, LineInBuffer, LineInBlock, HeldPhase

\* Cancelling and returning from the copy wipe the same buffer.
LEMMA WipedInv ==
  ASSUME IInv, buffer' = secure_zero_memory(buffer, Capacity),
         UNCHANGED <<opening, length, typed, store, words>>,
         \/ phase \in {"prompt", "rejected"} /\ phase' \in {"quit", "idle"}
         \/ phase = "stored" /\ phase' = "held"
  PROVE  IInv'
<1>1. UNCHANGED <<opening, length, typed, heap, used, key, key_size, locked, lock_ok, words>>
  BY DEF store
<1>2. /\ buffer' \in [Offsets -> Byte] /\ \A i \in Offsets : buffer'[i] = Zero
  BY Wiping, WipingAll, KeyMemoryAssumption DEF IInv, TypeOK
<1>3. key # NoBlock <=> phase' \in HeldPhase
  BY DEF IInv, HeldPhase
<1>4. TypeOK'
  BY <1>1, <1>2 DEF IInv, TypeOK
<1>5. SecretsWhereNeeded'
  BY <1>1, <1>2, <1>3, KeyMemoryAssumption DEF IInv, SecretsWhereNeeded, HeldPhase
<1> QED
  BY <1>1, <1>3, <1>4, <1>5
  DEF IInv, KeyStaysLocked, LocksAreKeys, LineInBuffer, LineInBlock, HeldPhase

-----------------------------------------------------------------------------
(* The copy on the heap.                                                   *)

\* A block that holds no key gets the line; there is no older copy to free.
LEMMA SetKeyInv == IInv /\ editor_app_set_key => IInv'
<1> SUFFICES ASSUME IInv, editor_app_set_key PROVE IInv'
  OBVIOUS
<1>1. /\ phase = "copy" /\ key = NoBlock /\ used = {}
      /\ UNCHANGED <<opening, buffer, length, typed, words>>
  BY DEF IInv, TypeOK, HeldPhase, editor_app_set_key, entry
<1>2. CASE phase' = "rejected" /\ UNCHANGED store
  <2>1. TypeOK'
    BY <1>1, <1>2 DEF IInv, TypeOK, store
  <2>2. SecretsWhereNeeded'
    BY <1>1, <1>2 DEF IInv, SecretsWhereNeeded, store
  <2> QED
    BY <1>1, <1>2, <2>1, <2>2
    DEF IInv, KeyStaysLocked, LocksAreKeys, LineInBuffer, LineInBlock, HeldPhase, store
<1>3. CASE ~ (phase' = "rejected" /\ UNCHANGED store)
  <2>1. PICK b \in Block, locks \in BOOLEAN :
          /\ heap' = [heap EXCEPT ![b] =
                        [i \in Offsets |-> IF i < length THEN buffer[i] ELSE heap[b][i]]]
          /\ used' = {b} /\ key' = b /\ key_size' = length /\ lock_ok' = locks
          /\ locked' = IF locks THEN locked \cup Pages[b] ELSE locked
          /\ phase' = "stored"
    BY <1>1, <1>3, KeyMemoryAssumption DEF editor_app_set_key
  <2>2. /\ length \in Offsets /\ length > 0 /\ length = Len(typed) /\ Capacity \in Nat
        /\ \A i \in 1 .. length : buffer[i - 1] = typed[i]
        /\ \A i \in length .. Capacity - 1 : buffer[i] = Zero
        /\ buffer \in [Offsets -> Byte] /\ heap \in [Block -> [Offsets -> Byte]]
        /\ \A d \in Block, i \in Offsets : heap[d][i] \notin Char
    BY <1>1, KeyMemoryAssumption DEF IInv, TypeOK, LineInBuffer, SecretsWhereNeeded
  <2>3. /\ heap' \in [Block -> [Offsets -> Byte]]
        /\ \A d \in Block : d # b => heap'[d] = heap[d]
        /\ \A i \in Offsets : heap'[b][i] = IF i < length THEN buffer[i] ELSE heap[b][i]
    BY <2>1, <2>2
  <2>4. TypeOK'
    <3>1. b # NoBlock /\ length # 0
      BY <2>2, KeyMemoryAssumption DEF Offsets
    <3> QED
      BY <1>1, <2>1, <2>2, <2>3, <3>1 DEF IInv, TypeOK
  <2>5. SecretsWhereNeeded'
    BY <1>1, <2>1, <2>2, <2>3 DEF IInv, SecretsWhereNeeded
  <2>6. LineInBlock'
    <3>1. \A i \in 1 .. length : i - 1 \in Offsets /\ i - 1 < length
      BY <2>2 DEF Offsets
    <3> QED
      BY <1>1, <2>1, <2>2, <2>3, <3>1 DEF LineInBlock
  <2>7. \A i \in Offsets : heap'[b][i] \in Char => i < length
    BY <2>2, <2>3
  <2>8. KeyStaysLocked'
    BY <2>1 DEF KeyStaysLocked
  <2>9. b # NoBlock
    BY KeyMemoryAssumption
  <2>10. LocksAreKeys'
    BY <1>1, <2>1, <2>9 DEF IInv, LocksAreKeys, HeldPhase
  <2> QED
    BY <1>1, <2>1, <2>4, <2>5, <2>6, <2>7, <2>8, <2>9, <2>10
    DEF IInv, LineInBuffer, HeldPhase
<1> QED
  BY <1>2, <1>3

\* The cipher reads the block of the key.
LEMMA DeriveInv == IInv /\ Derive => IInv'
<1> SUFFICES ASSUME IInv, Derive PROVE IInv'
  OBVIOUS
<1>1. /\ phase = "held"
      /\ UNCHANGED <<opening, buffer, length, typed, heap, used, key, key_size, locked, lock_ok>>
  BY DEF Derive, entry, store
<1>2. CASE phase' = "failed" /\ UNCHANGED words
  <2>1. TypeOK' /\ SecretsWhereNeeded'
    BY <1>1, <1>2 DEF IInv, TypeOK, SecretsWhereNeeded
  <2> QED
    BY <1>1, <1>2, <2>1
  DEF IInv, KeyStaysLocked, LocksAreKeys, LineInBuffer, LineInBlock, HeldPhase
<1>3. CASE phase' = "cipher" /\ words' = [i \in 1 .. key_size |-> heap[key][i - 1]]
  <2>1. /\ typed \in Seq(Char) /\ key_size = Len(typed)
        /\ \A i \in 1 .. key_size : heap[key][i - 1] = typed[i]
    BY <1>1 DEF IInv, TypeOK, LineInBlock
  <2>2. words' = typed
    <3>1. typed = [i \in 1 .. Len(typed) |-> typed[i]]
      BY <2>1
    <3> QED
      BY <1>3, <2>1, <3>1
  <2>3. TypeOK'
    BY <1>1, <1>3, <2>1, <2>2 DEF IInv, TypeOK
  <2>4. SecretsWhereNeeded'
    BY <1>1, <1>3 DEF IInv, SecretsWhereNeeded
  <2> QED
    BY <1>1, <1>3, <2>2, <2>3, <2>4
    DEF IInv, KeyStaysLocked, LocksAreKeys, LineInBuffer, LineInBlock, HeldPhase
<1> QED
  BY <1>2, <1>3 DEF Derive

LEMMA EndCipherInv == IInv /\ EndCipher => IInv'
<1> SUFFICES ASSUME IInv, EndCipher PROVE IInv'
  OBVIOUS
<1>1. /\ phase = "cipher" /\ phase' \in {"done", "failed"} /\ words' = << >>
      /\ UNCHANGED <<opening, buffer, length, typed, heap, used, key, key_size, locked, lock_ok>>
  BY DEF EndCipher, entry, store
<1>2. << >> \in Seq(Char)
  OBVIOUS
<1>3. TypeOK'
  BY <1>1, <1>2 DEF IInv, TypeOK
<1>4. SecretsWhereNeeded'
  BY <1>1 DEF IInv, SecretsWhereNeeded
<1> QED
  BY <1>1, <1>3, <1>4
  DEF IInv, KeyStaysLocked, LocksAreKeys, LineInBuffer, LineInBlock, HeldPhase

\* The key is cleared at the end of an operation and of the program; the
\* buffer was wiped and the words are gone by then.
LEMMA ClearingInv ==
  ASSUME IInv, editor_app_clear_key, UNCHANGED <<entry, words>>, opening' \in BOOLEAN,
         phase \in {"idle", "done", "failed", "quit"},
         phase' \in {"idle", "quit", "off"}
  PROVE  IInv'
<1>1. UNCHANGED <<buffer, length, typed, words>>
  BY DEF entry
<1>2. /\ key' = NoBlock /\ key_size' = 0 /\ used' = {} /\ lock_ok' = FALSE
      /\ locked' = {} /\ heap' \in [Block -> [Offsets -> Byte]]
      /\ \A b \in Block, i \in Offsets : heap'[b][i] \notin Char
  BY ClearsKey
<1>3. 0 \in Offsets
  BY KeyMemoryAssumption DEF Offsets
<1>4. TypeOK'
  BY <1>1, <1>2, <1>3 DEF IInv, TypeOK
<1>5. SecretsWhereNeeded'
  BY <1>1, <1>2 DEF IInv, SecretsWhereNeeded
<1> QED
  BY <1>1, <1>2, <1>4, <1>5
  DEF IInv, KeyStaysLocked, LocksAreKeys, LineInBuffer, LineInBlock, HeldPhase

\* Every step keeps the invariant.
LEMMA Inductive == IInv /\ [Next]_vars => IInv'
<1> SUFFICES ASSUME IInv, [Next]_vars PROVE IInv'
  OBVIOUS
<1>1. CASE Cancel
  <2>1. phase' \in {"quit", "idle"}
    BY <1>1 DEF Cancel
  <2> QED
    BY <1>1, <2>1, WipedInv DEF Cancel
<1>2. CASE WipeBuffer
  <2>1. \/ phase = "rejected" /\ phase' \in {"quit", "idle"}
        \/ phase = "stored" /\ phase' = "held"
    BY <1>2 DEF WipeBuffer
  <2> QED
    BY <1>2, <2>1, WipedInv DEF WipeBuffer
<1>3. CASE EndOperation
  <2>1. phase' \in {"idle", "quit"} /\ opening' \in BOOLEAN
    BY <1>3 DEF EndOperation, IInv, TypeOK
  <2> QED
    BY <1>3, <2>1, ClearingInv DEF EndOperation
<1>4. CASE Quit
  <2>1. opening' \in BOOLEAN /\ phase \in {"idle", "quit"}
    BY <1>4 DEF Quit, IInv, TypeOK
  <2> QED
    BY <1>4, <2>1, ClearingInv DEF Quit
<1>5. CASE UNCHANGED vars
  <2>1. /\ UNCHANGED <<phase, opening, buffer, length, typed, words>>
        /\ UNCHANGED <<heap, used, key, key_size, locked, lock_ok>>
    BY <1>5 DEF vars, entry, store
  <2>2. TypeOK' /\ SecretsWhereNeeded'
    BY <2>1 DEF IInv, TypeOK, SecretsWhereNeeded
  <2> QED
    BY <2>1, <2>2 DEF IInv, KeyStaysLocked, LocksAreKeys, LineInBuffer, LineInBlock
<1> QED
  BY <1>1, <1>2, <1>3, <1>4, <1>5, BeginPromptInv, TypeCharInv, BackspaceInv, EnterInv,
     SetKeyInv, DeriveInv, EndCipherInv DEF Next, Terminated

LEMMA Invariant == Spec => []IInv
BY Initial, Inductive, PTL DEF Spec

-----------------------------------------------------------------------------

\* The types, and the zero behind the line, for every capacity of the prompt's
\* buffer.
THEOREM KeyTypeCorrect == Spec => []TypeOK
<1>1. IInv => TypeOK
  BY DEF IInv
<1> QED
  BY <1>1, Invariant, PTL

\* No byte of a key outlives its purpose: every way out of the prompt, of the
\* copy, of the cipher and of the program wipes what it leaves.
THEOREM SecretsAreWiped == Spec => []SecretsWhereNeeded
<1>1. IInv => SecretsWhereNeeded
  BY DEF IInv
<1> QED
  BY <1>1, Invariant, PTL

\* The key that a load or a save uses is the line that the user typed.
THEOREM KeyIsTypedLine == Spec => []KeyIsWhatWasTyped
<1>1. IInv => KeyIsWhatWasTyped
  <2> SUFFICES ASSUME IInv, phase \in {"held", "cipher"}
               PROVE  typed = [i \in 1 .. key_size |-> heap[key][i - 1]]
    BY DEF KeyIsWhatWasTyped, IInv
  <2>1. /\ typed \in Seq(Char) /\ key_size = Len(typed)
        /\ \A i \in 1 .. key_size : heap[key][i - 1] = typed[i]
    BY DEF IInv, TypeOK, LineInBlock
  <2>2. typed = [i \in 1 .. Len(typed) |-> typed[i]]
    BY <2>1
  <2> QED
    BY <2>1, <2>2
<1> QED
  BY <1>1, Invariant, PTL

\* A key that was locked stays locked while the app holds it, whatever pages
\* the blocks share.
THEOREM LockIsKept == Spec => []KeyStaysLocked
<1>1. IInv => KeyStaysLocked
  BY DEF IInv
<1> QED
  BY <1>1, Invariant, PTL

-----------------------------------------------------------------------------
(* The program around it.                                                  *)

\* What the arguments before the next one have set.
ReadSoFar ==
  /\ \A i \in 1 .. at - 1 : argv[i] \notin {"--help", "--io=?"}
  /\ \/ filename = NoName /\ \A i \in 1 .. at - 1 : argv[i] \notin Names
     \/ filename # NoName /\ \E i \in 1 .. at - 1 :
          /\ argv[i] = filename /\ argv[i] \in Names
          /\ \A j \in 1 .. at - 1 : argv[j] \in Names => j = i
  /\ \/ io_mode = "write" /\ \A i \in 1 .. at - 1 : argv[i] \notin DOMAIN Modes
     \/ \E i \in 1 .. at - 1 :
          /\ argv[i] \in DOMAIN Modes /\ io_mode = Modes[argv[i]]
          /\ \A j \in 1 .. at - 1 : argv[j] \in DOMAIN Modes => j <= i

\* The places of main between editor_app_init and the return.
Editing == {"initscr", "run", "message", "free", "free_failed"}

SuccessWasAsked == exit = "SUCCESS" /\ EndsAt # {} => argv[Min(EndsAt)] = "--help"

\* Where the program is says who has the terminal, whether there is an app and
\* a message, and where the key is.
MainInv ==
  /\ argv \in Argv /\ at \in 1 .. Len(argv) + 1
  /\ pc \in {"args", "ended"} \cup Editing
  /\ pc # "ended" => ReadSoFar /\ exit = "running"
  /\ pc \in Editing => at > Len(argv) /\ filename # NoName
  /\ app = IF pc \in Editing THEN TRUE ELSE FALSE
  /\ SuccessWasAsked
  /\ screen = IF pc = "run" THEN "curses" ELSE "shell"
  /\ \A m \in stderr : m.screen = "shell"
  /\ stderr # {} => pc \in {"free_failed", "ended"}
  /\ pc = "free_failed" \/ exit = "FAILURE" => stderr # {}
  /\ pc \in {"args", "initscr"} => phase = "idle"
  /\ pc \in {"message", "free_failed"} => phase = "quit"
  /\ pc = "ended" => phase \in {"idle", "off"}

\* The least and the greatest member, once one is known.
LEMMA MinIs ==
  ASSUME NEW S, S \subseteq Nat, NEW m \in S, \A x \in S : m <= x
  PROVE  Min(S) = m
<1>1. \A x \in S : (\A y \in S : x =< y) => x = m
  OBVIOUS
<1> QED
  BY <1>1 DEF Min

LEMMA MaxIs ==
  ASSUME NEW S, S \subseteq Nat, NEW m \in S, \A x \in S : x <= m
  PROVE  Max(S) = m
<1>1. \A x \in S : (\A y \in S : x >= y) => x = m
  OBVIOUS
<1> QED
  BY <1>1 DEF Max

\* A command line is a sequence of names and options.
LEMMA Arguments ==
  ASSUME argv \in Argv
  PROVE  /\ Len(argv) \in Nat /\ DOMAIN argv = 1 .. Len(argv)
         /\ \A i \in 1 .. Len(argv) : argv[i] \in Names \cup Options
<1>1. argv \in Seq(Names \cup Options)
  BY EditorMainAssumption
<1> QED
  BY <1>1, ElementOfSeq, LenProperties

\* The one name that was read is the first, and no argument before the next
\* one ends the program.
LEMMA NoEndSoFar ==
  ASSUME argv \in Argv, at \in 1 .. Len(argv) + 1, ReadSoFar,
         at > Len(argv) \/ argv[at] \notin Names
  PROVE  \A i \in 1 .. at - 1 : i \notin EndsAt
<1> SUFFICES ASSUME NEW i \in 1 .. at - 1, i \in EndsAt PROVE FALSE
  OBVIOUS
<1>1. /\ Len(argv) \in Nat /\ DOMAIN argv = 1 .. Len(argv)
  BY Arguments
<1>2. i \in NamesAt /\ i # Min(NamesAt)
  BY DEF EndsAt, ReadSoFar
<1>3. \A j \in 1 .. at - 1 : argv[j] \in Names => j = i
  BY <1>2 DEF NamesAt, ReadSoFar
<1>4. NamesAt \subseteq Nat /\ \A j \in NamesAt : i <= j
  BY <1>1, <1>3 DEF NamesAt
<1>5. Min(NamesAt) = i
  BY <1>2, <1>4, MinIs
<1> QED
  BY <1>2, <1>5

LEMMA MainInitial == MainInit => MainInv
<1> SUFFICES ASSUME MainInit PROVE MainInv
  OBVIOUS
<1>1. /\ argv \in Argv /\ at = 1 /\ filename = NoName /\ io_mode = "write"
      /\ pc = "args" /\ app = FALSE /\ screen = "shell" /\ stderr = {} /\ exit = "running"
      /\ phase = "idle"
  BY DEF MainInit, Init
<1>2. ReadSoFar
  <2>1. 1 .. at - 1 = {}
    BY <1>1
  <2> QED
    BY <1>1, <2>1 DEF ReadSoFar
<1>3. at \in 1 .. Len(argv) + 1
  BY <1>1, Arguments
<1> QED
  BY <1>1, <1>2, <1>3 DEF MainInv, Editing, SuccessWasAsked

LEMMA ReadArgumentInv == MainInv /\ ReadArgument => MainInv'
<1> SUFFICES ASSUME MainInv, ReadArgument PROVE MainInv'
  OBVIOUS
<1> DEFINE a == argv[at]
<1>1. /\ pc = "args" /\ at \in 1 .. Len(argv) /\ at' = at + 1
      /\ UNCHANGED <<argv, app, screen, phase>>
      /\ argv \in Argv /\ Len(argv) \in Nat /\ DOMAIN argv = 1 .. Len(argv)
      /\ a \in Names \cup Options
      /\ ReadSoFar /\ exit = "running" /\ ~ app /\ screen = "shell" /\ stderr = {}
      /\ phase = "idle"
  BY Arguments DEF ReadArgument, MainInv, Editing, vars
<1>2. CASE Refused(a) \/ a = "--help"
  <2>1. /\ pc' = "ended" /\ exit' = IF a = "--help" THEN "SUCCESS" ELSE "FAILURE"
        /\ stderr' = {[message |-> "usage", screen |-> "shell"]}
    BY <1>1, <1>2 DEF ReadArgument, Say, Exit
  <2>2. SuccessWasAsked'
    <3>1. SUFFICES ASSUME a = "--help" PROVE argv[Min(EndsAt)] = "--help"
      BY <1>1, <2>1 DEF SuccessWasAsked, EndsAt, NamesAt
    <3>2. argv[at] \notin Names
      BY <3>1, EditorMainAssumption DEF Options
    <3>3. \A i \in EndsAt : at <= i
      BY <1>1, <3>2, NoEndSoFar DEF EndsAt, NamesAt
    <3>4. at \in EndsAt /\ EndsAt \subseteq Nat
      BY <1>1, <3>1 DEF EndsAt, NamesAt
    <3>5. Min(EndsAt) = at
      BY <3>3, <3>4, MinIs
    <3> QED
      BY <3>1, <3>5
  <2> QED
    BY <1>1, <2>1, <2>2 DEF MainInv, Editing
<1>3. CASE ~ (Refused(a) \/ a = "--help")
  <2>1. /\ a \notin {"--help", "--io=?"} /\ UNCHANGED <<pc, stderr, exit>>
        /\ IF a \in DOMAIN Modes THEN io_mode' = Modes[a] /\ UNCHANGED filename
           ELSE filename' = a /\ UNCHANGED io_mode
    BY <1>3 DEF ReadArgument, Refused
  <2>2. at' - 1 = at /\ 1 .. at' - 1 = (1 .. at - 1) \cup {at}
    BY <1>1
  <2>3. CASE a \in DOMAIN Modes
    <3>1. a \notin Names
      BY <2>3, EditorMainAssumption DEF Modes, Options
    <3>2. io_mode' = Modes[a] /\ filename' = filename
      BY <2>1, <2>3
    <3>3. ReadSoFar'
      BY <1>1, <2>1, <2>2, <2>3, <3>1, <3>2 DEF ReadSoFar
    <3> QED
      BY <1>1, <2>1, <3>3 DEF MainInv, Editing, SuccessWasAsked
  <2>4. CASE a \notin DOMAIN Modes
    <3>1. a \in Names /\ filename = NoName /\ a # NoName
      BY <1>1, <1>3, <2>1, <2>4, EditorMainAssumption DEF Modes, Options, Refused
    <3>2. filename' = a /\ io_mode' = io_mode
      BY <2>1, <2>4
    <3>3. ReadSoFar'
      BY <1>1, <2>1, <2>2, <2>4, <3>1, <3>2 DEF ReadSoFar
    <3> QED
      BY <1>1, <2>1, <3>3 DEF MainInv, Editing, SuccessWasAsked
  <2> QED
    BY <2>3, <2>4
<1> QED
  BY <1>2, <1>3

\* After the arguments they stay as they were read.
LEMMA KeptCommand ==
  ASSUME ReadSoFar \/ SuccessWasAsked, UNCHANGED command
  PROVE  /\ ReadSoFar => ReadSoFar'
         /\ SuccessWasAsked /\ exit' = exit => SuccessWasAsked'
         /\ argv' = argv /\ at' = at /\ filename' = filename
<1>1. argv' = argv /\ at' = at /\ filename' = filename /\ io_mode' = io_mode
  BY DEF command
<1>2. NamesAt' = NamesAt /\ EndsAt' = EndsAt
  BY <1>1 DEF NamesAt, EndsAt
<1> QED
  BY <1>1, <1>2 DEF ReadSoFar, SuccessWasAsked

LEMMA BeginAppInv == MainInv /\ BeginApp => MainInv'
<1> SUFFICES ASSUME MainInv, BeginApp PROVE MainInv'
  OBVIOUS
<1>1. /\ pc = "args" /\ at > Len(argv) /\ UNCHANGED <<command, screen, phase>>
      /\ ReadSoFar /\ exit = "running" /\ screen = "shell" /\ stderr = {}
      /\ SuccessWasAsked /\ phase = "idle" /\ argv \in Argv /\ at \in 1 .. Len(argv) + 1
      /\ ~ app
  BY DEF BeginApp, MainInv, Editing, vars
<1>2. argv' = argv /\ at' = at /\ filename' = filename /\ ReadSoFar'
  BY <1>1, KeptCommand
<1>3. CASE filename # NoName /\ app' = TRUE /\ pc' = "initscr" /\ UNCHANGED <<stderr, exit>>
  <2>1. SuccessWasAsked'
    BY <1>1, <1>3, KeptCommand
  <2> QED
    BY <1>1, <1>2, <1>3, <2>1 DEF MainInv, Editing
<1>4. CASE /\ Say(IF filename = NoName THEN "usage" ELSE "init")
           /\ Exit("FAILURE") /\ app' = app
  <2>1. /\ stderr' # {} /\ \A m \in stderr' : m.screen = "shell"
        /\ pc' = "ended" /\ exit' = "FAILURE"
    BY <1>1, <1>4 DEF Say, Exit
  <2>2. SuccessWasAsked'
    BY <2>1 DEF SuccessWasAsked
  <2> QED
    BY <1>1, <1>2, <1>4, <2>1, <2>2 DEF MainInv, Editing
<1> QED
  BY <1>3, <1>4 DEF BeginApp

\* ncurses says that there is no terminal, when it has not taken one.
LEMMA NoTerminalInv ==
  ASSUME MainInv, Initscr, Say("terminal"), Exit("FAILURE"), app' = FALSE, UNCHANGED screen
  PROVE  MainInv'
<1>1. /\ pc = "initscr" /\ UNCHANGED <<command, phase>>
      /\ argv \in Argv /\ at \in 1 .. Len(argv) + 1 /\ screen = "shell" /\ stderr = {}
      /\ SuccessWasAsked /\ phase = "idle"
  BY DEF Initscr, MainInv, Editing, vars
<1>2. argv' = argv /\ at' = at
  BY <1>1 DEF command
<1>3. /\ stderr' # {} /\ \A m \in stderr' : m.screen = "shell"
      /\ pc' = "ended" /\ exit' = "FAILURE"
  BY <1>1 DEF Say, Exit
<1>4. SuccessWasAsked'
  BY <1>3 DEF SuccessWasAsked
<1> QED
  BY <1>1, <1>2, <1>3, <1>4 DEF MainInv, Editing

\* The other steps of editor_ui_ncurses_run neither write nor exit.
LEMMA UiInv ==
  ASSUME MainInv, Initscr \/ RunEditor \/ Endwin
  PROVE  MainInv'
<1>1. \/ Initscr /\ Say("terminal") /\ Exit("FAILURE") /\ app' = FALSE /\ UNCHANGED screen
      \/ UNCHANGED <<app, stderr, exit>> /\ (Initscr => screen' = "curses" /\ pc' = "run")
  BY DEF Initscr, RunEditor, Endwin
<1>2. CASE Say("terminal") /\ Exit("FAILURE") /\ app' = FALSE /\ UNCHANGED screen /\ Initscr
  BY <1>2, NoTerminalInv
<1>3. CASE UNCHANGED <<app, stderr, exit>> /\ (Initscr => screen' = "curses" /\ pc' = "run")
  <2>1. /\ pc \in {"initscr", "run"} /\ UNCHANGED <<command, app, stderr, exit>>
        /\ argv \in Argv /\ at \in 1 .. Len(argv) + 1 /\ at > Len(argv) /\ filename # NoName
        /\ ReadSoFar /\ exit = "running" /\ stderr = {} /\ SuccessWasAsked /\ app = TRUE
    BY <1>3 DEF Initscr, RunEditor, Endwin, MainInv, Editing
  <2>2. /\ argv' = argv /\ at' = at /\ filename' = filename /\ ReadSoFar' /\ SuccessWasAsked'
    BY <2>1, KeptCommand
  <2>3. \/ pc' = "run" /\ screen' = "curses"
        \/ pc' = "message" /\ screen' = "shell" /\ phase' = "quit"
        \/ pc' = "free" /\ screen' = "shell"
    BY <1>3 DEF Initscr, RunEditor, Endwin, MainInv, Editing, vars
  <2> QED
    BY <2>1, <2>2, <2>3 DEF MainInv, Editing
<1> QED
  BY <1>1, <1>2, <1>3

LEMMA PrintStatusInv == MainInv /\ PrintStatus => MainInv'
<1> SUFFICES ASSUME MainInv, PrintStatus PROVE MainInv'
  OBVIOUS
<1>1. /\ pc = "message" /\ pc' = "free_failed"
      /\ UNCHANGED <<command, app, screen, exit, phase>>
      /\ argv \in Argv /\ at \in 1 .. Len(argv) + 1 /\ at > Len(argv) /\ filename # NoName
      /\ ReadSoFar /\ exit = "running" /\ stderr = {} /\ SuccessWasAsked /\ app = TRUE
      /\ screen = "shell" /\ phase = "quit"
  BY DEF PrintStatus, MainInv, Editing, vars
<1>2. argv' = argv /\ at' = at /\ filename' = filename /\ ReadSoFar' /\ SuccessWasAsked'
  BY <1>1, KeptCommand
<1>3. stderr' # {} /\ \A m \in stderr' : m.screen = "shell"
  BY <1>1 DEF PrintStatus, Say
<1> QED
  BY <1>1, <1>2, <1>3 DEF MainInv, Editing

LEMMA FreeAppInv == MainInv /\ FreeApp => MainInv'
<1> SUFFICES ASSUME MainInv, FreeApp PROVE MainInv'
  OBVIOUS
<1>1. /\ pc \in {"free", "free_failed"} /\ pc' = "ended" /\ app' = FALSE /\ phase' = "off"
      /\ UNCHANGED <<command, screen, stderr>>
      /\ exit' = IF pc = "free" THEN "SUCCESS" ELSE "FAILURE"
      /\ argv \in Argv /\ at \in 1 .. Len(argv) + 1 /\ at > Len(argv)
      /\ ReadSoFar /\ screen = "shell" /\ \A m \in stderr : m.screen = "shell"
      /\ pc = "free_failed" => stderr # {}
  BY DEF FreeApp, Quit, Exit, MainInv, Editing
<1>2. argv' = argv /\ at' = at
  BY <1>1, KeptCommand
<1>3. EndsAt' = {}
  <2>1. \A i \in 1 .. at - 1 : i \notin EndsAt
    BY <1>1, NoEndSoFar
  <2>2. EndsAt \subseteq 1 .. at - 1
    BY <1>1, Arguments DEF EndsAt, NamesAt
  <2>3. EndsAt' = EndsAt
    BY <1>2 DEF EndsAt, NamesAt
  <2> QED
    BY <2>1, <2>2, <2>3
<1> QED
  BY <1>1, <1>2, <1>3 DEF MainInv, Editing, SuccessWasAsked

\* Every step of the program keeps its invariant.
LEMMA MainInductive == MainInv /\ [MainNext]_main_vars => MainInv'
<1> SUFFICES ASSUME MainInv, [MainNext]_main_vars PROVE MainInv'
  OBVIOUS
<1>1. CASE UNCHANGED main_vars
  <2>1. /\ UNCHANGED <<pc, app, screen, stderr, exit, phase>> /\ UNCHANGED command
    BY <1>1 DEF main_vars, vars
  <2>2. /\ ReadSoFar => ReadSoFar'
        /\ argv' = argv /\ at' = at /\ filename' = filename /\ SuccessWasAsked'
    BY <2>1, KeptCommand DEF MainInv
  <2> QED
    BY <2>1, <2>2 DEF MainInv, Editing
<1> QED
  BY <1>1, ReadArgumentInv, BeginAppInv, UiInv, PrintStatusInv, FreeAppInv
  DEF MainNext, Ended

LEMMA MainInvariant == MainSpec => []MainInv
BY MainInitial, MainInductive, PTL DEF MainSpec

\* Whatever the program does around it, the key takes only the steps of
\* KeyMemory: what is proved of them holds in the program.
THEOREM MainFollowsKeyMemory == MainSpec => Spec
<1>1. MainInit => Init
  BY DEF MainInit
<1>2. [MainNext]_main_vars => [Next]_vars
  <2>1. ReadArgument \/ BeginApp \/ Initscr \/ Endwin \/ PrintStatus => UNCHANGED vars
    BY DEF ReadArgument, BeginApp, Initscr, Endwin, PrintStatus
  <2>2. RunEditor => [Next]_vars
    BY DEF RunEditor, Next
  <2>3. FreeApp => Next
    BY DEF FreeApp, Next
  <2>4. Ended \/ UNCHANGED main_vars => UNCHANGED vars
    BY DEF Ended, main_vars
  <2> QED
    BY <2>1, <2>2, <2>3, <2>4 DEF MainNext
<1> QED
  BY <1>1, <1>2, PTL DEF MainSpec, Spec

\* In the whole program, from the command line to the exit status, secrets are
\* wiped, the key is the line that was typed, and a lock that was taken stays.
THEOREM ProgramKeepsKey ==
  MainSpec => /\ []TypeOK /\ []SecretsWhereNeeded
              /\ []KeyIsWhatWasTyped /\ []KeyStaysLocked
BY MainFollowsKeyMemory, KeyTypeCorrect, SecretsAreWiped, KeyIsTypedLine, LockIsKept, PTL

-----------------------------------------------------------------------------

\* The app edits the one file that the command line names, with the mode that
\* is given last, and main succeeds without it only for --help: for every
\* number and order of the arguments.
THEOREM OpensOneFile == MainSpec => []OpensWhatWasAsked
<1>1. MainInv => OpensWhatWasAsked
  <2> SUFFICES ASSUME MainInv, app
               PROVE  /\ EndsAt = {} /\ NamesAt # {} /\ filename = argv[Min(NamesAt)]
                      /\ io_mode = IF ModesAt = {} THEN "write" ELSE Modes[argv[Max(ModesAt)]]
    BY DEF OpensWhatWasAsked, MainInv, SuccessWasAsked
  <2>1. /\ argv \in Argv /\ at \in 1 .. Len(argv) + 1 /\ at > Len(argv) /\ ReadSoFar
        /\ filename # NoName
    BY DEF MainInv, Editing
  <2>2. Len(argv) \in Nat /\ DOMAIN argv = 1 .. Len(argv) /\ 1 .. at - 1 = 1 .. Len(argv)
    BY <2>1, Arguments
  <2>3. EndsAt = {}
    BY <2>1, <2>2, NoEndSoFar DEF EndsAt, NamesAt
  <2>4. PICK i \in 1 .. Len(argv) :
          /\ argv[i] = filename /\ argv[i] \in Names
          /\ \A j \in 1 .. Len(argv) : argv[j] \in Names => j = i
    BY <2>1, <2>2 DEF ReadSoFar
  <2>5. i \in NamesAt /\ NamesAt \subseteq Nat /\ \A j \in NamesAt : i <= j
    BY <2>2, <2>4 DEF NamesAt
  <2>6. Min(NamesAt) = i
    BY <2>5, MinIs
  <2>7. CASE io_mode = "write" /\ \A m \in 1 .. Len(argv) : argv[m] \notin DOMAIN Modes
    BY <2>2, <2>3, <2>4, <2>5, <2>6, <2>7 DEF ModesAt
  <2>8. ASSUME NEW m \in 1 .. Len(argv), argv[m] \in DOMAIN Modes, io_mode = Modes[argv[m]],
               \A j \in 1 .. Len(argv) : argv[j] \in DOMAIN Modes => j <= m
        PROVE  ModesAt # {} /\ io_mode = Modes[argv[Max(ModesAt)]]
    <3>1. m \in ModesAt /\ ModesAt \subseteq Nat /\ \A j \in ModesAt : j <= m
      BY <2>2, <2>8 DEF ModesAt
    <3>2. Max(ModesAt) = m
      BY <3>1, MaxIs
    <3> QED
      BY <2>8, <3>1, <3>2
  <2>9. \/ io_mode = "write" /\ \A m \in 1 .. Len(argv) : argv[m] \notin DOMAIN Modes
        \/ \E m \in 1 .. Len(argv) :
             /\ argv[m] \in DOMAIN Modes /\ io_mode = Modes[argv[m]]
             /\ \A j \in 1 .. Len(argv) : argv[j] \in DOMAIN Modes => j <= m
    BY <2>1, <2>2 DEF ReadSoFar
  <2> QED
    BY <2>3, <2>4, <2>5, <2>6, <2>7, <2>8, <2>9
<1> QED
  BY <1>1, MainInvariant, PTL

\* On every way out of main the terminal, the app and the key are given back,
\* and a message is written to the shell's screen, when no key is in use.
THEOREM TerminalIsGivenBack == MainSpec => []TerminalComesBack
<1>1. MainInv /\ IInv => TerminalComesBack
  <2> SUFFICES ASSUME MainInv, IInv PROVE TerminalComesBack
    OBVIOUS
  <2>1. stderr # {} \/ pc = "ended" => phase \in {"idle", "quit", "off"}
    BY DEF MainInv
  <2>2. phase \in {"idle", "quit", "off"} => key = NoBlock
    BY DEF IInv, SecretsWhereNeeded
  <2>3. ASSUME pc = "ended"
        PROVE  /\ screen = "shell" /\ ~ app
               /\ used = {} /\ locked = {} /\ words = << >>
               /\ \A i \in Offsets : buffer[i] \notin Char
               /\ \A b \in Block : \A i \in Offsets : heap[b][i] \notin Char
    <3>1. key = NoBlock /\ phase \in {"idle", "quit", "off"}
      BY <2>1, <2>2, <2>3
    <3>2. used = {} /\ locked = {}
      BY <3>1 DEF IInv, TypeOK, LocksAreKeys
    <3>3. /\ words = << >> /\ \A i \in Offsets : buffer[i] \notin Char
          /\ \A b \in Block : \A i \in Offsets : heap[b][i] \notin Char
      BY <3>1, KeyMemoryAssumption DEF IInv, SecretsWhereNeeded
    <3> QED
      BY <2>3, <3>2, <3>3 DEF MainInv, Editing
  <2> QED
    BY <2>1, <2>2, <2>3 DEF TerminalComesBack, MainInv
<1> QED
  BY <1>1, MainInvariant, Invariant, MainFollowsKeyMemory, PTL
=============================================================================
