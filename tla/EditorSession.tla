--------------------------- MODULE EditorSession ---------------------------
(***************************************************************************)
(* A user at the terminal: editor_app of src/editor_app.c under the key    *)
(* loop of src/editor_ui_ncurses.c and main of src/main.c.                 *)
(*                                                                         *)
(* The session composes the abstract document of TextDocument, which the   *)
(* editor core implements, with the abstract file of TextStore, which      *)
(* editor_file and io_backend implement.  Every step is a key the user     *)
(* pressed or the outcome of a call; the process may be killed at any      *)
(* time and started again on the file it left behind.                      *)
(***************************************************************************)
EXTENDS Integers, Sequences

CONSTANTS
  Byte, Newline,   \* the characters that are typed, the newline among them
  Key,             \* the keys that are typed at a prompt
  NoKey,           \* app->key is NULL
  Attempts,        \* how often a key to open the file is asked for (3)
  MaxLength        \* bound on the length of the text

ASSUME EditorSessionAssumption ==
  /\ Newline \in Byte
  /\ NoKey \notin Key
  /\ Attempts \in Nat \ {0}
  /\ MaxLength \in Nat

VARIABLES
  live, text, cursor, dirty, result,   \* the document
  content, pending, answer,            \* the file
  exists,    \* access(filename, F_OK) = 0
  phase,     \* where the process is; "off" when there is none
  key,       \* app->key
  status,    \* app->status_message
  attempt,   \* the keys that failed to open the file
  unread,    \* history: the content of the file that this session did not load
  last,      \* history: the text and key of the last load or save
  failed     \* history: a save failed since the last successful load or save

document == <<live, text, cursor, dirty, result>>
storage  == <<content, pending, answer, exists>>
history  == <<unread, last, failed>>
vars     == <<document, storage, phase, key, status, attempt, history>>

Document == INSTANCE TextDocument WITH LoadTexts <- Seq(Byte)
Store    == INSTANCE TextStore    WITH Text <- Seq(Byte)
Vertical == INSTANCE VerticalMove WITH Char <- Byte

Nothing == [text |-> << >>, key |-> NoKey]

Init ==
  /\ Document!Init /\ ~ live
  /\ Store!Init /\ exists = FALSE
  /\ phase = "off" /\ key = NoKey /\ status = "" /\ attempt = 0
  /\ unread = {} /\ last = Nothing /\ failed = FALSE

-----------------------------------------------------------------------------
(* The process begins and ends.                                            *)

\* Both initialize the app and see whether the file is there.  Without memory
\* main ends at once.
editor_app_init ==
  /\ phase = "off"
  /\ Document!Create
  /\ phase' = IF ~ live' THEN "off" ELSE IF exists THEN "open_prompt" ELSE "edit"
  /\ status' = IF live' THEN "Ready" ELSE status
  /\ attempt' = 0
  /\ unread' = IF live' THEN content ELSE {}
  /\ last' = Nothing /\ failed' = FALSE
  /\ UNCHANGED <<storage, key>>

\* The end of main: editor_app_free.
editor_app_free ==
  /\ phase' = "off"
  /\ key' = NoKey
  /\ Document!Destroy
  /\ unread' = {} /\ last' = Nothing /\ failed' = FALSE

\* Ctrl+Q, F10 or Esc: nothing asks whether the text is saved.
editor_app_request_quit ==
  /\ phase = "edit"
  /\ editor_app_free
  /\ UNCHANGED <<storage, status, attempt>>

\* The process is killed, in the middle of a save or elsewhere.
Kill ==
  /\ phase # "off"
  /\ editor_app_free
  /\ Store!Forget
  /\ UNCHANGED <<exists, status, attempt>>

-----------------------------------------------------------------------------
(* The prompt for a key.                                                   *)

\* editor_app_set_key: a copy of what was typed.
editor_app_set_key(k) ==
  /\ phase \in {"open_prompt", "save_prompt"}
  /\ key' = k
  /\ phase' = IF phase = "open_prompt" THEN "load" ELSE "export"
  /\ UNCHANGED <<document, storage, status, attempt, history>>

\* The user cancels, or the copy of the key does not fit into memory.  There
\* is no editing a file that was not opened: the program ends.
PromptFails ==
  /\ phase \in {"open_prompt", "save_prompt"}
  /\ status' \in {"Key entry cancelled", "Could not store key"}
  /\ UNCHANGED <<storage, attempt>>
  /\ \/ phase = "open_prompt" /\ editor_app_free
     \/ phase = "save_prompt" /\ phase' = "edit" /\ UNCHANGED <<document, key, history>>

-----------------------------------------------------------------------------
(* editor_ui_load_existing_file: at most Attempts keys.                    *)

LoadSucceeds ==
  /\ phase = "load"
  /\ Store!Load(key)
  /\ Document!Load(answer'.text) /\ result' = "OK"
  /\ status' = "File loaded"
  /\ key' = NoKey
  /\ phase' = "edit"
  /\ unread' = {} /\ last' = [text |-> answer'.text, key |-> key] /\ failed' = FALSE
  /\ UNCHANGED <<exists, attempt>>

\* Mutant: the third failure leaves the loop like the absence of a file does.
LoadFailsOpen ==
  /\ phase = "load"
  /\ Store!Fail
  /\ status' = "Load failed; check key"
  /\ attempt' = attempt + 1
  /\ UNCHANGED exists
  /\ key' = NoKey /\ UNCHANGED <<document, history>>
  /\ phase' = IF attempt' < Attempts THEN "open_prompt" ELSE "edit"

\* Mutant: one more key than the loop asks for.
LoadFailsOnceMore ==
  /\ phase = "load"
  /\ Store!Fail
  /\ status' = "Load failed; check key"
  /\ attempt' = attempt + 1
  /\ UNCHANGED exists
  /\ \/ /\ attempt' <= Attempts
        /\ phase' = "open_prompt" /\ key' = NoKey /\ UNCHANGED <<document, history>>
     \/ attempt' > Attempts /\ editor_app_free

\* The file cannot be read, the key is not the one, or the core has no memory
\* for the text.  The status of editor_app_load is overwritten.
LoadFails ==
  /\ phase = "load"
  /\ Store!Fail
  /\ status' = "Load failed; check key"
  /\ attempt' = attempt + 1
  /\ UNCHANGED exists
  /\ \/ /\ attempt' < Attempts
        /\ phase' = "open_prompt" /\ key' = NoKey /\ UNCHANGED <<document, history>>
     \/ attempt' = Attempts /\ editor_app_free

-----------------------------------------------------------------------------
(* editor_ui_save and editor_app_save.                                     *)

\* Ctrl+S: a key is asked for unless the app holds one.
editor_ui_save ==
  /\ phase = "edit"
  /\ phase' = IF key = NoKey THEN "save_prompt" ELSE "export"
  /\ UNCHANGED <<document, storage, key, status, attempt, history>>

\* Mutant: the key stays for the next save.
EndSaveKeepingKey(message) ==
  /\ status' = message
  /\ phase' = "edit"
  /\ UNCHANGED key

EndSave(message) ==
  /\ status' = message
  /\ phase' = "edit"
  /\ key' = NoKey

\* editor_core_to_buffer copies the text, and editor_file_save gets the copy.
ExportText ==
  /\ phase = "export"
  /\ UNCHANGED <<document, exists, attempt>>
  /\ \/ /\ Store!Save(text, key)
        /\ phase' = "save"
        /\ last' = [text |-> text, key |-> key]
        /\ UNCHANGED <<key, status, unread, failed>>
     \/ EndSave("Could not export text") /\ UNCHANGED <<content, pending, answer, history>>

\* The file is truncated, then written.
WriteFile ==
  /\ phase = "save"
  /\ \/ Store!Lose /\ exists' = TRUE
     \/ exists /\ Store!Store /\ UNCHANGED exists
  /\ UNCHANGED <<document, phase, key, status, attempt, history>>

SaveSucceeds ==
  /\ phase = "save"
  /\ Store!Succeed
  /\ Document!MarkClean
  /\ EndSave("File saved")
  /\ failed' = FALSE
  /\ UNCHANGED <<exists, attempt, unread, last>>

\* Mutant: the result of editor_file_save is not looked at.
SaveFailsUnnoticed ==
  /\ phase = "save"
  /\ Store!Fail
  /\ Document!MarkClean
  /\ EndSave("File saved")
  /\ failed' = FALSE
  /\ UNCHANGED <<exists, attempt, unread, last>>

\* The flag of the document stays what it was, whatever happened to the file.
SaveFails ==
  /\ phase = "save"
  /\ Store!Fail
  /\ EndSave("Save failed")
  /\ failed' = TRUE
  /\ UNCHANGED <<document, exists, attempt, unread, last>>

-----------------------------------------------------------------------------
(* Editing.                                                                *)

\* What follows every editing call: a message when it failed.
Note(message) ==
  /\ status' = IF result' = "OK" THEN status ELSE message
  /\ UNCHANGED <<storage, phase, key, attempt, history>>

editor_app_insert_char(ch) ==
  /\ phase = "edit" /\ Len(text) < MaxLength
  /\ Document!Insert(ch) /\ Note("Insert failed")

editor_app_backspace ==
  phase = "edit" /\ Document!Backspace /\ Note("Backspace failed")

editor_app_delete ==
  phase = "edit" /\ Document!Delete /\ Note("Delete failed")

Unnoted == UNCHANGED <<storage, phase, key, status, attempt, history>>

editor_app_move_left  == phase = "edit" /\ Document!MoveLeft /\ Unnoted
editor_app_move_right == phase = "edit" /\ Document!MoveRight /\ Unnoted

\* Up or down; the copy of the text that is scanned may not fit into memory.
editor_app_move_vertical(target) ==
  /\ phase = "edit"
  /\ \/ Document!MoveTo(target) /\ Unnoted
     \/ /\ status' = "Could not inspect buffer"
        /\ UNCHANGED <<document, storage, phase, key, attempt, history>>

editor_ui_handle_key ==
  \/ editor_ui_save
  \/ editor_app_request_quit
  \/ editor_app_move_left \/ editor_app_move_right
  \/ editor_app_move_vertical(Vertical!UpTarget(text, cursor))
  \/ editor_app_move_vertical(Vertical!DownTarget(text, cursor))
  \/ editor_app_backspace \/ editor_app_delete
  \/ \E ch \in Byte : editor_app_insert_char(ch)

Next ==
  \/ editor_app_init \/ Kill
  \/ \E k \in Key : editor_app_set_key(k)
  \/ PromptFails
  \/ LoadSucceeds \/ LoadFails
  \/ ExportText \/ WriteFile \/ SaveSucceeds \/ SaveFails
  \/ editor_ui_handle_key

Spec == Init /\ [][Next]_vars
-----------------------------------------------------------------------------
(* Properties.                                                             *)

Phases == {"off", "open_prompt", "load", "edit", "save_prompt", "export", "save"}

\* The document lives as long as the process and has its cursor inside the
\* text; a save is pending in its own phase only, and attempts are counted.
TypeOK ==
  /\ phase \in Phases
  /\ live <=> phase # "off"
  /\ text \in Seq(Byte) /\ Len(text) <= MaxLength /\ cursor \in 0 .. Len(text)
  /\ pending # Store!Nothing <=> phase = "save"
  /\ content # {} => exists
  /\ attempt \in 0 .. Attempts
  /\ phase \in {"open_prompt", "load"} => attempt < Attempts /\ text = << >>

\* Reporte.md, line 169: the key is kept only while a file is opened or saved.
KeyOnlyDuringOperation == key # NoKey => phase \in {"load", "export", "save"}

\* A session destroys nothing that it did not read: what was in the file when
\* the program started stays there until it has been loaded.
UnreadIsKept == unread \subseteq content

\* The message that a file was saved or loaded is true while it is shown: the
\* file holds that text under the key typed for it, and the text on the screen
\* is the same unless the document is dirty.
StatusIsTrue ==
  phase = "edit" /\ status \in {"File saved", "File loaded"} =>
    content = {last} /\ (dirty \/ text = last.text)

\* A document that is not dirty is what the file holds, or it is empty and
\* there is no file, unless a save failed since.
CleanIsStored ==
  phase \in {"edit", "save_prompt", "export"} /\ ~ dirty /\ ~ failed =>
    IF content = {} THEN text = << >> /\ ~ exists
    ELSE \E r \in content : r.text = text
=============================================================================
