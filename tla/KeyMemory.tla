----------------------------- MODULE KeyMemory ------------------------------
(***************************************************************************)
(* The way of a key through the memory of the editor: the buffer of the    *)
(* prompt in src/editor_ui_ncurses.c, the copy on the heap that app->key   *)
(* points to (src/editor_app.c and the key functions of                    *)
(* src/crypto_ceio.c), and the words that the cipher derives from it.      *)
(*                                                                         *)
(* Memory keeps what was written to it: the buffer when its stack frame is *)
(* gone, a block when it was freed.  mlock and munlock work on pages, and  *)
(* two blocks may share one.                                               *)
(***************************************************************************)
EXTENDS Integers, Sequences

CONSTANTS
  Char,       \* the characters of a key: 32 to 126
  Zero,       \* the byte 0
  Junk,       \* a byte that the program never wrote
  Capacity,   \* EDITOR_UI_KEY_MAX (128)
  Block,      \* the blocks malloc may return
  NoBlock,    \* NULL
  Pages       \* for each block, the pages it lies on

ASSUME KeyMemoryAssumption ==
  /\ Zero \notin Char /\ Junk \notin Char
  /\ Capacity \in Nat \ {0}
  /\ NoBlock \notin Block
  /\ DOMAIN Pages = Block

VARIABLES
  phase,      \* where the program is; "off" when there is none
  opening,    \* the file exists and was not loaded yet
  buffer,     \* key_buffer of editor_ui_prompt_and_store_key
  length,     \* the characters in it
  heap,       \* the bytes of every block
  used,       \* the blocks that are allocated
  key,        \* app->key
  key_size,   \* app->key_size
  locked,     \* the pages that are locked
  words,      \* what the key words on the stack of the cipher were derived from
  typed,      \* history: the line as the user sees it
  lock_ok     \* history: mlock succeeded for the block of the key

entry == <<buffer, length, typed>>
store == <<heap, used, key, key_size, locked, lock_ok>>
vars  == <<phase, opening, entry, store, words>>

Offsets == 0 .. Capacity - 1
Fresh   == [i \in Offsets |-> Junk]

Init ==
  /\ phase = "idle" /\ opening \in BOOLEAN
  /\ buffer = Fresh /\ length = 0 /\ typed = << >>
  /\ heap = [b \in Block |-> Fresh] /\ used = {}
  /\ key = NoBlock /\ key_size = 0 /\ locked = {} /\ lock_ok = FALSE
  /\ words = << >>

\* secure_zero_memory: the first n bytes.
secure_zero_memory(bytes, n) == [i \in Offsets |-> IF i < n THEN Zero ELSE bytes[i]]

-----------------------------------------------------------------------------
(* editor_ui_prompt_hidden.                                                *)

\* A key is asked for at every attempt to open the file, and for a save unless
\* the app holds one.
BeginPrompt ==
  LET asks == opening \/ key = NoBlock
  IN  /\ phase = "idle"
      /\ phase'  = IF asks THEN "prompt" ELSE "held"
      /\ buffer' = IF asks THEN secure_zero_memory(buffer, Capacity) ELSE buffer
      /\ length' = 0 /\ typed' = << >>
      /\ UNCHANGED <<opening, store, words>>

\* Mutant: the last byte of the buffer is not kept for the zero.
TypeCharToTheEnd(c) ==
  /\ phase = "prompt" /\ length < Capacity
  /\ buffer' = [buffer EXCEPT ![length] = c]
  /\ length' = length + 1 /\ typed' = Append(typed, c)
  /\ UNCHANGED <<phase, opening, store, words>>

\* Beyond the limit there is a beep instead.
TypeChar(c) ==
  /\ phase = "prompt" /\ length + 1 < Capacity
  /\ buffer' = [buffer EXCEPT ![length] = c]
  /\ length' = length + 1 /\ typed' = Append(typed, c)
  /\ UNCHANGED <<phase, opening, store, words>>

\* Mutant: the character is erased, but still counted.
BackspaceCounted ==
  /\ phase = "prompt" /\ length > 0
  /\ buffer' = [buffer EXCEPT ![length - 1] = Zero]
  /\ typed' = SubSeq(typed, 1, Len(typed) - 1)
  /\ UNCHANGED <<length, phase, opening, store, words>>

Backspace ==
  /\ phase = "prompt" /\ length > 0
  /\ length' = length - 1
  /\ buffer' = [buffer EXCEPT ![length - 1] = Zero]
  /\ typed' = SubSeq(typed, 1, Len(typed) - 1)
  /\ UNCHANGED <<phase, opening, store, words>>

\* An empty line is not accepted.
Enter ==
  /\ phase = "prompt" /\ length > 0
  /\ phase' = "copy"
  /\ UNCHANGED <<opening, entry, store, words>>

\* Esc or Ctrl+Q.
Cancel ==
  /\ phase = "prompt"
  /\ buffer' = secure_zero_memory(buffer, Capacity)
  /\ phase' = IF opening THEN "quit" ELSE "idle"
  /\ UNCHANGED <<opening, length, typed, store, words>>

-----------------------------------------------------------------------------
(* editor_app_set_key and editor_app_clear_key.                            *)

\* Mutant: as much is wiped as a pointer is long.
FreedInPart(h, b, n) == [h EXCEPT ![b] = secure_zero_memory(@, 1)]

\* The heap after crypto_secure_free_key of a key of n bytes.
Freed(h, b, n) == [h EXCEPT ![b] = secure_zero_memory(@, n)]

\* The block is wiped, its pages are unlocked, and it is freed.
editor_app_clear_key ==
  /\ IF key = NoBlock THEN UNCHANGED <<heap, used, locked>>
     ELSE /\ heap' = Freed(heap, key, key_size)
          /\ used' = used \ {key}
          /\ locked' = locked \ Pages[key]
  /\ key' = NoBlock /\ key_size' = 0 /\ lock_ok' = FALSE

\* crypto_secure_alloc_key_copy, then editor_app_clear_key: the new copy is
\* locked, if the system allows it, before an old one is unlocked.
editor_app_set_key ==
  /\ phase = "copy"
  /\ UNCHANGED <<opening, entry, words>>
  /\ \/ \E b \in Block \ used, locks \in BOOLEAN :
          LET copied == [heap EXCEPT ![b] =
                           [i \in Offsets |-> IF i < length THEN buffer[i] ELSE heap[b][i]]]
          IN  /\ heap' = IF key = NoBlock THEN copied ELSE Freed(copied, key, key_size)
              /\ used' = (used \cup {b}) \ {key}
              /\ locked' = (IF locks THEN locked \cup Pages[b] ELSE locked)
                           \ (IF key = NoBlock THEN {} ELSE Pages[key])
              /\ key' = b /\ key_size' = length /\ lock_ok' = locks
              /\ phase' = "stored"
     \/ phase' = "rejected" /\ UNCHANGED store

\* The buffer is wiped as soon as set_key returns, whatever it returned.
WipeBuffer ==
  /\ phase \in {"stored", "rejected"}
  /\ buffer' = secure_zero_memory(buffer, Capacity)
  /\ phase' = CASE phase = "stored" -> "held"
                [] phase = "rejected" /\ opening -> "quit"
                [] OTHER -> "idle"
  /\ UNCHANGED <<opening, length, typed, store, words>>

-----------------------------------------------------------------------------
(* The load or the save, as far as the key is concerned.                   *)

\* derive_xtea_key in crypto_encrypt_buffer or crypto_decrypt_buffer, unless
\* an earlier part of the operation failed.
Derive ==
  /\ phase = "held"
  /\ \/ phase' = "cipher" /\ words' = [i \in 1 .. key_size |-> heap[key][i - 1]]
     \/ phase' = "failed" /\ UNCHANGED words
  /\ UNCHANGED <<opening, entry, store>>

\* Every way out of the two functions wipes the words.
EndCipher ==
  /\ phase = "cipher"
  /\ words' = << >>
  /\ phase' \in {"done", "failed"}
  /\ UNCHANGED <<opening, entry, store>>

\* Mutant: a key that did not open the file is kept until the next one.
EndOperationKeeping ==
  /\ phase \in {"done", "failed"}
  /\ IF phase = "failed" THEN UNCHANGED store ELSE editor_app_clear_key
  /\ phase' \in IF opening /\ phase = "failed" THEN {"idle", "quit"} ELSE {"idle"}
  /\ opening' = (opening /\ phase = "failed")
  /\ UNCHANGED <<entry, words>>

\* A key that did not open the file may be asked for again; a file that was
\* opened, or a save, leads to the editor.
EndOperation ==
  /\ phase \in {"done", "failed"}
  /\ editor_app_clear_key
  /\ phase' \in IF opening /\ phase = "failed" THEN {"idle", "quit"} ELSE {"idle"}
  /\ opening' = (opening /\ phase = "failed")
  /\ UNCHANGED <<entry, words>>

\* The user quits, or the file was not opened: editor_app_free.
Quit ==
  /\ phase = "quit" \/ (phase = "idle" /\ ~ opening)
  /\ phase' = "off"
  /\ editor_app_clear_key
  /\ UNCHANGED <<opening, entry, words>>

\* main has returned; the next process starts with memory of its own.
Terminated == phase = "off" /\ UNCHANGED vars

Next ==
  \/ BeginPrompt
  \/ \E c \in Char : TypeChar(c)
  \/ Backspace \/ Enter \/ Cancel
  \/ editor_app_set_key \/ WipeBuffer
  \/ Derive \/ EndCipher \/ EndOperation
  \/ Quit \/ Terminated

Spec == Init /\ [][Next]_vars
-----------------------------------------------------------------------------
(* Properties.                                                             *)

Byte == Char \cup {Zero, Junk}

\* The buffer ends in a zero while it is filled, and app->key is the one block
\* in use.
TypeOK ==
  /\ phase \in {"idle", "prompt", "copy", "stored", "rejected", "held", "cipher",
                "done", "failed", "quit", "off"}
  /\ opening \in BOOLEAN
  /\ buffer \in [Offsets -> Byte]
  /\ length \in Offsets
  /\ phase \in {"prompt", "copy"} => \A i \in length .. Capacity - 1 : buffer[i] = Zero
  /\ heap \in [Block -> [Offsets -> Byte]]
  /\ key \in Block \cup {NoBlock} /\ used = {key} \ {NoBlock}
  /\ key_size \in Offsets /\ (key = NoBlock <=> key_size = 0)
  /\ lock_ok \in BOOLEAN
  /\ typed \in Seq(Char) /\ words \in Seq(Char)

\* No byte of a key outlives its purpose: one in the buffer is wiped before
\* the key is used, one on the heap is in the block of app->key, and never in
\* one that was freed, the words are gone when the cipher returns, and between
\* two operations, and when the program ends, nothing of a key is left.
SecretsWhereNeeded ==
  /\ \A i \in Offsets : buffer[i] \in Char => phase \in {"prompt", "copy", "stored", "rejected"}
  /\ \A b \in Block, i \in Offsets : heap[b][i] \in Char => b = key
  /\ words # << >> => phase = "cipher"
  /\ phase \in {"idle", "quit", "off"} => key = NoBlock

\* The key that an operation uses is the line that the user typed, after all
\* backspaces.
KeyIsWhatWasTyped ==
  /\ phase \in {"held", "cipher"} => typed = [i \in 1 .. key_size |-> heap[key][i - 1]]
  /\ phase = "cipher" => words = typed

\* A key whose lock succeeded stays locked as long as the app holds it:
\* nothing unlocks a page that it shares with another copy.
KeyStaysLocked == lock_ok => Pages[key] \subseteq locked
=============================================================================
