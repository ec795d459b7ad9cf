------------------------ MODULE EditorSession_proofs ------------------------
(***************************************************************************)
(* Proofs about module EditorSession, for every set of characters and of   *)
(* keys, every number of attempts and every length of the text.            *)
(***************************************************************************)
EXTENDS EditorSession, WellFoundedInduction, TLAPS

\* The phases in which the user has a document to edit or save.
Editing == {"edit", "save_prompt", "export"}

Told == {"File saved", "File loaded"}

-----------------------------------------------------------------------------
(* The inductive invariant, in parts.                                      *)

\* The file holds at most one text under one key, and exists when it does.
OneText ==
  /\ content = {} \/ \E t, k : content = {[text |-> t, key |-> k]}
  /\ content # {} => exists

\* While a key is held, it was typed for the call in progress.
KeyHeld == phase \in {"load", "export", "save"} \/ key = NoKey

\* Only a session that is still opening its file has something unread.
UnreadWhileOpening ==
  /\ unread \subseteq content
  /\ unread # {} => phase \in {"open_prompt", "load"}

\* A save in progress writes the text of the document, under the key held.
SavesTheDocument ==
  phase = "save" => pending = last /\ last = [text |-> text, key |-> key]

\* StatusIsTrue, in every phase the message stays on the screen.
ToldIsTrue ==
  /\ phase \in Editing /\ status \in Told =>
       content = {last} /\ (dirty \/ text = last.text)
  /\ phase \in {"open_prompt", "load"} => status \notin Told

IInv ==
  /\ phase \in Phases
  /\ OneText /\ KeyHeld /\ UnreadWhileOpening
  /\ SavesTheDocument /\ ToldIsTrue /\ CleanIsStored

-----------------------------------------------------------------------------
(* The process begins and ends.                                            *)

LEMMA InitInvariant == Init => IInv
BY DEF Init, IInv, Phases, OneText, KeyHeld, UnreadWhileOpening, SavesTheDocument,
       ToldIsTrue, Editing, CleanIsStored, Store!Init

\* A process that is gone holds nothing, whatever is left in the file.
LEMMA OffInvariant ==
  ASSUME IInv, editor_app_free, OneText'
  PROVE  IInv'
BY DEF editor_app_free, IInv, Phases, KeyHeld, UnreadWhileOpening, SavesTheDocument,
       ToldIsTrue, Editing, CleanIsStored

LEMMA BeginInvariant ==
  ASSUME IInv, editor_app_init
  PROVE  IInv'
<1>1. /\ phase = "off" /\ key = NoKey
      /\ UNCHANGED <<content, exists, key>>
      /\ unread' \subseteq content
      /\ phase' \in {"off", "open_prompt", "edit"}
      /\ phase' = "edit" => ~ exists /\ text' = << >> /\ ~ dirty' /\ status' = "Ready"
      /\ phase' = "open_prompt" => status' = "Ready"
      /\ phase' = "off" => unread' = {}
  BY DEF editor_app_init, IInv, KeyHeld, storage, Document!Create
<1>2. phase' = "edit" => content = {} /\ unread' = {}
  BY <1>1 DEF IInv, OneText
<1> QED
  BY <1>1, <1>2 DEF IInv, Phases, OneText, KeyHeld, UnreadWhileOpening, SavesTheDocument,
                   ToldIsTrue, Told, Editing, CleanIsStored

LEMMA EndInvariant ==
  ASSUME IInv, editor_app_request_quit \/ Kill
  PROVE  IInv'
<1>1. editor_app_free /\ UNCHANGED <<content, exists>>
  BY DEF editor_app_request_quit, Kill, storage, Store!Forget
<1> QED
  BY <1>1, OffInvariant DEF IInv, OneText

-----------------------------------------------------------------------------
(* Opening the file.                                                       *)

LEMMA PromptInvariant ==
  ASSUME IInv, PromptFails \/ \E k \in Key : editor_app_set_key(k)
  PROVE  IInv'
<1>1. CASE phase = "open_prompt" /\ PromptFails
  <2>1. editor_app_free /\ UNCHANGED <<content, exists>>
    BY <1>1 DEF PromptFails, storage
  <2> QED
    BY <2>1, OffInvariant DEF IInv, OneText
<1>2. CASE phase = "save_prompt" /\ PromptFails
  <2>1. /\ phase' = "edit" /\ key = NoKey
        /\ UNCHANGED <<text, dirty, content, exists, key, unread, last, failed>>
        /\ status' \notin Told
    BY <1>2 DEF PromptFails, storage, document, history, IInv, KeyHeld, Told
  <2> QED
    BY <1>2, <2>1 DEF IInv, Phases, OneText, KeyHeld, UnreadWhileOpening, SavesTheDocument,
                     ToldIsTrue, Editing, CleanIsStored
<1>3. CASE \E k \in Key : editor_app_set_key(k)
  <2>1. /\ \/ phase = "open_prompt" /\ phase' = "load"
           \/ phase = "save_prompt" /\ phase' = "export"
        /\ UNCHANGED <<text, dirty, content, exists, status, unread, last, failed>>
    BY <1>3 DEF editor_app_set_key, storage, document, history
  <2> QED
    BY <2>1 DEF IInv, Phases, OneText, KeyHeld, UnreadWhileOpening, SavesTheDocument,
                ToldIsTrue, Editing, CleanIsStored
<1> QED
  BY <1>1, <1>2, <1>3 DEF PromptFails

LEMMA LoadInvariant ==
  ASSUME IInv, LoadSucceeds
  PROVE  IInv'
<1>1. /\ phase = "load" /\ phase' = "edit" /\ key' = NoKey
      /\ UNCHANGED <<content, exists>>
      /\ unread' = {} /\ last' = [text |-> answer'.text, key |-> key]
      /\ \E r \in content : r.key = key /\ answer' = Store!Returned(r.text, key)
      /\ text' = answer'.text /\ ~ dirty'
  BY DEF LoadSucceeds, Store!Load, Document!Load, Document!Becomes, Document!Returns
<1>2. PICK t, k : content = {[text |-> t, key |-> k]}
  BY <1>1 DEF IInv, OneText
<1>3. k = key /\ answer'.text = t
  BY <1>1, <1>2 DEF Store!Returned
<1>4. content' = {last'} /\ last'.text = text'
  BY <1>1, <1>2, <1>3
<1> QED
  BY <1>1, <1>2, <1>4 DEF IInv, Phases, OneText, KeyHeld, UnreadWhileOpening,
                         SavesTheDocument, ToldIsTrue, Editing, CleanIsStored

LEMMA LoadFailsInvariant ==
  ASSUME IInv, LoadFails
  PROVE  IInv'
<1>1. /\ phase = "load" /\ status' \notin Told
      /\ UNCHANGED <<content, exists>>
  BY DEF LoadFails, Store!Fail, Told
<1>2. CASE editor_app_free
  BY <1>1, <1>2, OffInvariant DEF IInv, OneText
<1>3. CASE phase' = "open_prompt" /\ key' = NoKey /\ UNCHANGED <<document, history>>
  BY <1>1, <1>3 DEF IInv, Phases, OneText, KeyHeld, UnreadWhileOpening, SavesTheDocument,
                   ToldIsTrue, Editing, CleanIsStored, document, history
<1> QED
  BY <1>2, <1>3 DEF LoadFails

-----------------------------------------------------------------------------
(* Saving.                                                                 *)

LEMMA ExportInvariant ==
  ASSUME IInv, editor_ui_save \/ ExportText
  PROVE  IInv'
<1>1. CASE editor_ui_save
  <2>1. /\ phase = "edit" /\ phase' = "save_prompt" /\ key = NoKey
        /\ UNCHANGED <<text, dirty, content, exists, key, status, unread, last, failed>>
    BY <1>1 DEF editor_ui_save, storage, document, history, IInv, KeyHeld
  <2> QED
    BY <2>1 DEF IInv, Phases, OneText, KeyHeld, UnreadWhileOpening, SavesTheDocument,
                ToldIsTrue, Editing, CleanIsStored
<1>2. CASE ExportText /\ phase' = "save"
  <2>1. /\ phase = "export"
        /\ pending' = [text |-> text, key |-> key] /\ last' = [text |-> text, key |-> key]
        /\ UNCHANGED <<text, dirty, content, exists, key, unread, failed>>
    BY <1>2 DEF ExportText, EndSave, document, history, Store!Save
  <2> QED
    BY <1>2, <2>1 DEF IInv, Phases, OneText, KeyHeld, UnreadWhileOpening, SavesTheDocument,
                     ToldIsTrue, Editing, CleanIsStored
<1>3. CASE ExportText /\ phase' # "save"
  <2>1. /\ phase = "export" /\ phase' = "edit" /\ key' = NoKey /\ status' \notin Told
        /\ UNCHANGED <<text, dirty, content, exists, unread, last, failed>>
    BY <1>3 DEF ExportText, EndSave, document, history, Told
  <2> QED
    BY <2>1 DEF IInv, Phases, OneText, KeyHeld, UnreadWhileOpening, SavesTheDocument,
                ToldIsTrue, Editing, CleanIsStored
<1> QED
  BY <1>1, <1>2, <1>3

\* While the file is written nothing is unread: a session does not save before
\* it has loaded what is there.
LEMMA WriteInvariant ==
  ASSUME IInv, WriteFile
  PROVE  IInv'
<1>1. /\ phase = "save"
      /\ content' = {} \/ (content' = {pending} /\ exists')
      /\ UNCHANGED <<text, dirty, pending, phase, key, status, unread, last, failed>>
  BY DEF WriteFile, document, history, Store!Lose, Store!Store
<1>2. unread = {}
  BY <1>1 DEF IInv, UnreadWhileOpening
<1>3. OneText'
  <2>1. \E t, k : pending = [text |-> t, key |-> k]
    BY <1>1 DEF IInv, SavesTheDocument
  <2> QED
    BY <1>1, <2>1 DEF OneText
<1> QED
  BY <1>1, <1>2, <1>3 DEF IInv, Phases, KeyHeld, UnreadWhileOpening, SavesTheDocument,
                         ToldIsTrue, Editing, CleanIsStored

LEMMA SaveEndsInvariant ==
  ASSUME IInv, SaveSucceeds \/ SaveFails
  PROVE  IInv'
<1>1. CASE SaveSucceeds
  <2>1. /\ phase = "save" /\ phase' = "edit" /\ key' = NoKey
        /\ content = {pending}
        /\ UNCHANGED <<text, content, exists, unread, last>>
    BY <1>1 DEF SaveSucceeds, EndSave, Store!Succeed, Document!MarkClean
  <2>2. content' = {last'} /\ last'.text = text'
    BY <2>1 DEF IInv, SavesTheDocument
  <2> QED
    BY <2>1, <2>2 DEF IInv, Phases, OneText, KeyHeld, UnreadWhileOpening, SavesTheDocument,
                     ToldIsTrue, Editing, CleanIsStored
<1>2. CASE SaveFails
  <2>1. /\ phase = "save" /\ phase' = "edit" /\ key' = NoKey
        /\ failed' /\ status' \notin Told
        /\ UNCHANGED <<content, exists, unread>>
    BY <1>2 DEF SaveFails, EndSave, Store!Fail, Told
  <2> QED
    BY <2>1 DEF IInv, Phases, OneText, KeyHeld, UnreadWhileOpening, SavesTheDocument,
                ToldIsTrue, Editing, CleanIsStored
<1> QED
  BY <1>1, <1>2

-----------------------------------------------------------------------------
(* Editing: a change of the text makes the document dirty.                 *)

LEMMA EditInvariant ==
  ASSUME IInv,
         \/ editor_app_move_left \/ editor_app_move_right
         \/ \E target : editor_app_move_vertical(target)
         \/ editor_app_backspace \/ editor_app_delete
         \/ \E ch \in Byte : editor_app_insert_char(ch)
  PROVE  IInv'
<1>1. /\ phase = "edit"
      /\ UNCHANGED <<content, pending, exists, phase, key, unread, last, failed>>
      /\ status' = status \/ status' \notin Told
  BY DEF editor_app_move_left, editor_app_move_right, editor_app_move_vertical,
         editor_app_backspace, editor_app_delete, editor_app_insert_char,
         Note, Unnoted, storage, history, Told
<1>2. UNCHANGED <<text, dirty>> \/ dirty'
  <2>1. CASE editor_app_move_left
    BY <2>1 DEF editor_app_move_left, Document!MoveLeft, Document!MoveTo,
                Document!Becomes, Document!Returns
  <2>2. CASE editor_app_move_right
    BY <2>2 DEF editor_app_move_right, Document!MoveRight, Document!MoveTo,
                Document!Becomes, Document!Returns
  <2>3. CASE \E target : editor_app_move_vertical(target)
    BY <2>3 DEF editor_app_move_vertical, Document!MoveTo, Document!Becomes, document
  <2>4. CASE editor_app_backspace
    BY <2>4 DEF editor_app_backspace, Document!Backspace, Document!Becomes, Document!Returns
  <2>5. CASE editor_app_delete
    BY <2>5 DEF editor_app_delete, Document!Delete, Document!Becomes, Document!Returns
  <2>6. CASE \E ch \in Byte : editor_app_insert_char(ch)
    BY <2>6 DEF editor_app_insert_char, Document!Insert, Document!Becomes, Document!Returns
  <2> QED
    BY <2>1, <2>2, <2>3, <2>4, <2>5, <2>6
<1> QED
  BY <1>1, <1>2 DEF IInv, OneText, KeyHeld, UnreadWhileOpening, SavesTheDocument,
                   ToldIsTrue, Editing, CleanIsStored

-----------------------------------------------------------------------------
(* The specification.                                                      *)

LEMMA NextInvariant ==
  ASSUME IInv, [Next]_vars
  PROVE  IInv'
<1>1. CASE editor_app_init
  BY <1>1, BeginInvariant
<1>2. CASE Kill \/ editor_app_request_quit
  BY <1>2, EndInvariant
<1>3. CASE PromptFails \/ \E k \in Key : editor_app_set_key(k)
  BY <1>3, PromptInvariant
<1>4. CASE LoadSucceeds
  BY <1>4, LoadInvariant
<1>5. CASE LoadFails
  BY <1>5, LoadFailsInvariant
<1>6. CASE editor_ui_save \/ ExportText
  BY <1>6, ExportInvariant
<1>7. CASE WriteFile
  BY <1>7, WriteInvariant
<1>8. CASE SaveSucceeds \/ SaveFails
  BY <1>8, SaveEndsInvariant
<1>9. CASE \/ editor_app_move_left \/ editor_app_move_right
           \/ \E target : editor_app_move_vertical(target)
           \/ editor_app_backspace \/ editor_app_delete
           \/ \E ch \in Byte : editor_app_insert_char(ch)
  BY <1>9, EditInvariant
<1>10. CASE UNCHANGED vars
  BY <1>10 DEF vars, document, storage, history, IInv, OneText, KeyHeld,
               UnreadWhileOpening, SavesTheDocument, ToldIsTrue, Editing, CleanIsStored
<1> QED
  BY <1>1, <1>2, <1>3, <1>4, <1>5, <1>6, <1>7, <1>8, <1>9, <1>10 DEF Next, editor_ui_handle_key

\* The parts of the invariant hold together, in every session that follows
\* another on the same file.
THEOREM Invariant == Spec => []IInv
<1>1. Init => IInv
  BY InitInvariant
<1>2. IInv /\ [Next]_vars => IInv'
  BY NextInvariant
<1> QED
  BY <1>1, <1>2, PTL DEF Spec

-----------------------------------------------------------------------------
(* The types.  The session moves the cursor to what the scans of           *)
(* VerticalMove find, which is a place in the text.                        *)

\* A nonempty set of naturals has a least element.
LEMMA LeastNatural ==
  ASSUME NEW S, S \subseteq Nat, S # {}
  PROVE  \E n \in S : \A m \in S : n <= m
<1>1. PICK n \in S : \A m \in S : ~ (<<m, n>> \in OpToRel(<, Nat))
  BY NatLessThanWellFounded, WFMin
<1>2. \A m \in S : m < n <=> <<m, n>> \in OpToRel(<, Nat)
  BY DEF OpToRel
<1>3. \A m \in S : ~ (m < n)
  BY <1>1, <1>2
<1> QED
  BY <1>3

LEMMA LineStartInText ==
  ASSUME NEW t \in Seq(Byte), NEW p \in 0 .. Len(t)
  PROVE  Vertical!LineStart(t, p) \in 0 .. p
<1> DEFINE steps == {d \in 0 .. p : d = p \/ t[p - d] = Newline}
<1>1. steps \subseteq Nat /\ p \in steps
  OBVIOUS
<1>2. PICK d \in steps : \A c \in steps : d <= c
  BY <1>1, LeastNatural
<1>3. \A q \in p - d + 1 .. p : t[q] # Newline
  <2> SUFFICES ASSUME NEW q \in p - d + 1 .. p, t[q] = Newline PROVE FALSE
    OBVIOUS
  <2>1. p - q \in 0 .. p /\ p - (p - q) = q /\ ~ (d <= p - q)
    BY <1>1
  <2>2. p - q \in steps
    BY <2>1
  <2> QED
    BY <1>2, <2>1, <2>2
<1>4. p - d \in 0 .. p /\ (p - d = 0 \/ t[p - d] = Newline)
  BY <1>1
<1>5. \E s \in 0 .. p : /\ s = 0 \/ t[s] = Newline
                        /\ \A q \in s + 1 .. p : t[q] # Newline
  BY <1>3, <1>4
<1> QED
  BY <1>5 DEF Vertical!LineStart

LEMMA LineEndInText ==
  ASSUME NEW t \in Seq(Byte), NEW p \in 0 .. Len(t)
  PROVE  Vertical!LineEnd(t, p) \in p .. Len(t)
<1> DEFINE ends == {e \in p .. Len(t) : e = Len(t) \/ t[e + 1] = Newline}
<1>1. ends \subseteq Nat /\ Len(t) \in ends
  OBVIOUS
<1>2. PICK e \in ends : \A c \in ends : e <= c
  BY <1>1, LeastNatural
<1>3. \A q \in p + 1 .. e : t[q] # Newline
  <2> SUFFICES ASSUME NEW q \in p + 1 .. e, t[q] = Newline PROVE FALSE
    OBVIOUS
  <2>1. q - 1 \in p .. Len(t) /\ (q - 1) + 1 = q /\ ~ (e <= q - 1)
    BY <1>1
  <2>2. q - 1 \in ends
    BY <2>1
  <2> QED
    BY <1>2, <2>1, <2>2
<1>4. e \in p .. Len(t) /\ (e = Len(t) \/ t[e + 1] = Newline)
  OBVIOUS
<1>5. \E x \in p .. Len(t) : /\ x = Len(t) \/ t[x + 1] = Newline
                             /\ \A q \in p + 1 .. x : t[q] # Newline
  BY <1>3, <1>4
<1> QED
  BY <1>5 DEF Vertical!LineEnd

LEMMA TargetsInText ==
  ASSUME NEW t \in Seq(Byte), NEW p \in 0 .. Len(t)
  PROVE  Vertical!UpTarget(t, p) \in 0 .. Len(t) /\ Vertical!DownTarget(t, p) \in 0 .. Len(t)
<1> DEFINE start    == Vertical!LineStart(t, p)
           previous == start - 1
           next     == Vertical!LineEnd(t, p) + 1
<1>1. start \in 0 .. p /\ next \in p + 1 .. Len(t) + 1 /\ Len(t) \in Nat
  BY LineStartInText, LineEndInText
<1>2. Vertical!UpTarget(t, p) \in 0 .. Len(t)
  <2>1. ASSUME start # 0
        PROVE  Vertical!Target(Vertical!LineStart(t, previous), previous, p - start) \in 0 .. Len(t)
    <3>1. previous \in 0 .. Len(t) /\ p - start \in Nat
      BY <1>1, <2>1
    <3>2. Vertical!LineStart(t, previous) \in 0 .. previous
      BY <3>1, LineStartInText
    <3> HIDE DEF previous
    <3> QED
      BY <3>1, <3>2 DEF Vertical!Target
  <2> QED
    BY <2>1 DEF Vertical!UpTarget
<1>3. Vertical!DownTarget(t, p) \in 0 .. Len(t)
  <2>1. ASSUME ~ (next > Len(t))
        PROVE  Vertical!Target(next, Vertical!LineEnd(t, next), p - start) \in 0 .. Len(t)
    <3>1. next \in 0 .. Len(t) /\ p - start \in Nat
      BY <1>1, <2>1
    <3>2. Vertical!LineEnd(t, next) \in next .. Len(t)
      BY <3>1, LineEndInText
    <3> HIDE DEF next
    <3> QED
      BY <3>1, <3>2 DEF Vertical!Target
  <2> QED
    BY <2>1 DEF Vertical!DownTarget
<1> QED
  BY <1>2, <1>3

ShortText == {t \in Seq(Byte) : Len(t) <= MaxLength}

\* Every text in the file is one that a session had.
TypeInv == TypeOK /\ \A r \in content : r.text \in ShortText

\* Typing and deleting keep the text a text.
LEMMA EditsAreTexts ==
  ASSUME NEW t \in Seq(Byte)
  PROVE  /\ \A i \in 1 .. Len(t) + 1, ch \in Byte :
              /\ Document!InsertAt(t, i, ch) \in Seq(Byte)
              /\ Len(Document!InsertAt(t, i, ch)) = Len(t) + 1
         /\ \A i \in 1 .. Len(t) :
              /\ Document!RemoveAt(t, i) \in Seq(Byte)
              /\ Len(Document!RemoveAt(t, i)) = Len(t) - 1
<1>1. \A a \in Seq(Byte), b \in Seq(Byte) :
        a \o b \in Seq(Byte) /\ Len(a \o b) = Len(a) + Len(b)
  OBVIOUS
<1>2. Len(t) \in Nat
  OBVIOUS
<1>3. ASSUME NEW i \in 1 .. Len(t) + 1, NEW ch \in Byte
      PROVE  /\ Document!InsertAt(t, i, ch) \in Seq(Byte)
             /\ Len(Document!InsertAt(t, i, ch)) = Len(t) + 1
  <2>1. /\ SubSeq(t, 1, i - 1) \in Seq(Byte) /\ Len(SubSeq(t, 1, i - 1)) = i - 1
        /\ SubSeq(t, i, Len(t)) \in Seq(Byte) /\ Len(SubSeq(t, i, Len(t))) = Len(t) - i + 1
        /\ <<ch>> \in Seq(Byte) /\ Len(<<ch>>) = 1
    OBVIOUS
  <2>2. /\ SubSeq(t, 1, i - 1) \o <<ch>> \in Seq(Byte)
        /\ Len(SubSeq(t, 1, i - 1) \o <<ch>>) = i
    BY <1>1, <2>1
  <2>3. /\ Document!InsertAt(t, i, ch) \in Seq(Byte)
        /\ Len(Document!InsertAt(t, i, ch)) = Len(SubSeq(t, 1, i - 1) \o <<ch>>)
                                              + Len(SubSeq(t, i, Len(t)))
    BY <1>1, <2>1, <2>2 DEF Document!InsertAt
  <2> QED
    BY <1>2, <2>1, <2>2, <2>3
<1>4. ASSUME NEW i \in 1 .. Len(t)
      PROVE  /\ Document!RemoveAt(t, i) \in Seq(Byte)
             /\ Len(Document!RemoveAt(t, i)) = Len(t) - 1
  <2>1. /\ SubSeq(t, 1, i - 1) \in Seq(Byte) /\ Len(SubSeq(t, 1, i - 1)) = i - 1
        /\ SubSeq(t, i + 1, Len(t)) \in Seq(Byte) /\ Len(SubSeq(t, i + 1, Len(t))) = Len(t) - i
    OBVIOUS
  <2>2. /\ Document!RemoveAt(t, i) \in Seq(Byte)
        /\ Len(Document!RemoveAt(t, i)) = Len(SubSeq(t, 1, i - 1)) + Len(SubSeq(t, i + 1, Len(t)))
    BY <1>1, <2>1 DEF Document!RemoveAt
  <2>3. (i - 1) + (Len(t) - i) = Len(t) - 1
    BY <1>2
  <2> QED
    BY <2>1, <2>2, <2>3
<1> QED
  BY <1>3, <1>4

\* The fields of TypeOK that a step without a new text changes.
LEMMA SameTextType ==
  ASSUME TypeInv, UNCHANGED <<text, cursor>>, \A r \in content' : r.text \in ShortText,
         phase' \in Phases, (live' <=> phase' # "off"),
         (pending' # Store!Nothing <=> phase' = "save"), (content' # {} => exists'),
         attempt' \in 0 .. Attempts,
         (phase' \in {"open_prompt", "load"} => attempt' < Attempts /\ text = << >>)
  PROVE  TypeInv'
<1>1. ShortText' = ShortText
  BY DEF ShortText
<1> QED
  BY <1>1 DEF TypeInv, TypeOK

\* The process is gone, and the document with it.
LEMMA FreedType ==
  ASSUME TypeInv, editor_app_free, UNCHANGED <<content, exists>>, attempt' \in 0 .. Attempts,
         pending' = Store!Nothing
  PROVE  TypeInv'
<1>1. /\ phase' = "off" /\ live' = FALSE /\ text' = << >> /\ cursor' = 0
  BY DEF editor_app_free, Document!Destroy
<1>2. text' \in Seq(Byte) /\ Len(text') = 0 /\ cursor' \in 0 .. Len(text')
  BY <1>1
<1> QED
  BY <1>1, <1>2, EditorSessionAssumption DEF TypeInv, TypeOK, Phases, ShortText

LEMMA InitType == Init => TypeInv
<1> SUFFICES ASSUME Init PROVE TypeInv
  OBVIOUS
<1>1. /\ text = << >> /\ cursor = 0 /\ live = FALSE /\ content = {} /\ pending = Store!Nothing
      /\ phase = "off" /\ attempt = 0
  BY DEF Init, Document!Init, Document!Empty, Store!Init
<1>2. text \in Seq(Byte) /\ Len(text) = 0
  BY <1>1
<1> QED
  BY <1>1, <1>2, EditorSessionAssumption DEF TypeInv, TypeOK, Phases

LEMMA BeginType ==
  ASSUME TypeInv, editor_app_init
  PROVE  TypeInv'
<1>1. /\ phase = "off" /\ attempt' = 0 /\ UNCHANGED <<content, pending, exists>>
      /\ text' = << >> /\ cursor' = 0 /\ live' \in BOOLEAN
      /\ phase' = IF ~ live' THEN "off" ELSE IF exists THEN "open_prompt" ELSE "edit"
  BY DEF editor_app_init, Document!Create, storage
<1>2. text' \in Seq(Byte) /\ Len(text') = 0
  BY <1>1
<1> QED
  BY <1>1, <1>2, EditorSessionAssumption DEF TypeInv, TypeOK, Phases, ShortText

LEMMA EndType ==
  ASSUME TypeInv, editor_app_request_quit \/ Kill
  PROVE  TypeInv'
<1>1. /\ editor_app_free /\ UNCHANGED <<content, exists, attempt>>
      /\ pending' = Store!Nothing
  BY DEF editor_app_request_quit, Kill, Store!Forget, storage, TypeInv, TypeOK
<1> QED
  BY <1>1, FreedType DEF TypeInv, TypeOK

LEMMA PromptType ==
  ASSUME TypeInv, PromptFails \/ editor_ui_save \/ \E k \in Key : editor_app_set_key(k)
  PROVE  TypeInv'
<1>1. /\ phase \in {"open_prompt", "save_prompt", "edit"} /\ pending = Store!Nothing
      /\ UNCHANGED <<content, pending, exists, attempt>>
  BY DEF PromptFails, editor_ui_save, editor_app_set_key, storage, TypeInv, TypeOK
<1>2. CASE editor_app_free
  BY <1>1, <1>2, FreedType DEF TypeInv, TypeOK
<1>3. CASE ~ editor_app_free
  <2>1. /\ UNCHANGED <<live, text, cursor>>
        /\ \/ phase = "open_prompt" /\ phase' = "load"
           \/ phase # "open_prompt" /\ phase' \in {"edit", "save_prompt", "export"}
    BY <1>3 DEF PromptFails, editor_ui_save, editor_app_set_key, document
  <2> QED
    BY <1>1, <2>1, SameTextType DEF TypeInv, TypeOK, Phases
<1> QED
  BY <1>2, <1>3

LEMMA LoadType ==
  ASSUME TypeInv, LoadSucceeds \/ LoadFails
  PROVE  TypeInv'
<1>1. CASE LoadSucceeds
  <2>1. /\ phase = "load" /\ phase' = "edit" /\ UNCHANGED <<content, pending, exists, attempt>>
        /\ \E r \in content : answer' = Store!Returned(r.text, key)
        /\ text' = answer'.text /\ cursor' = Len(answer'.text) /\ live' = live /\ live
    BY <1>1 DEF LoadSucceeds, Store!Load, Document!Load, Document!Becomes, Document!Returns
  <2>2. text' \in ShortText
    BY <2>1 DEF TypeInv, Store!Returned
  <2>3. text' \in Seq(Byte) /\ Len(text') <= MaxLength /\ cursor' \in 0 .. Len(text')
    BY <2>1, <2>2 DEF ShortText
  <2> QED
    BY <2>1, <2>3 DEF TypeInv, TypeOK, Phases, ShortText
<1>2. CASE LoadFails
  <2>1. /\ phase = "load" /\ attempt < Attempts /\ attempt' = attempt + 1
        /\ attempt \in 0 .. Attempts /\ Attempts \in Nat
        /\ pending' = Store!Nothing /\ UNCHANGED <<content, exists>>
    BY <1>2, EditorSessionAssumption DEF LoadFails, Store!Fail, TypeInv, TypeOK
  <2>2. CASE editor_app_free
    BY <2>1, <2>2, FreedType
  <2>3. CASE ~ editor_app_free
    <3>1. /\ attempt' < Attempts /\ phase' = "open_prompt" /\ UNCHANGED <<live, text, cursor>>
      BY <1>2, <2>3 DEF LoadFails, document
    <3> QED
      BY <2>1, <3>1, SameTextType DEF TypeInv, TypeOK, Phases
  <2> QED
    BY <2>2, <2>3
<1> QED
  BY <1>1, <1>2

\* What is written is the text of the document.
LEMMA SaveType ==
  ASSUME TypeInv, SavesTheDocument, ExportText \/ WriteFile \/ SaveSucceeds \/ SaveFails
  PROVE  TypeInv'
<1>1. CASE ExportText
  <2>1. /\ phase = "export" /\ UNCHANGED <<live, text, cursor, content, exists, attempt>>
        /\ pending = Store!Nothing
    BY <1>1 DEF ExportText, document, Store!Save, TypeInv, TypeOK
  <2>2. \/ phase' = "save" /\ pending' = [text |-> text, key |-> key]
        \/ phase' = "edit" /\ pending' = Store!Nothing
    BY <1>1, <2>1 DEF ExportText, EndSave, Store!Save
  <2>3. [text |-> text, key |-> key] # Store!Nothing
    BY DEF Store!Nothing
  <2> QED
    BY <2>1, <2>2, <2>3, SameTextType DEF TypeInv, TypeOK, Phases
<1>2. CASE WriteFile
  <2>1. /\ phase = "save" /\ UNCHANGED <<live, text, cursor, pending, phase, attempt>>
        /\ content' = {} \/ (content' = {pending} /\ exists')
    BY <1>2 DEF WriteFile, document, Store!Lose, Store!Store
  <2>2. pending = [text |-> text, key |-> key] /\ text \in ShortText
    BY <2>1 DEF SavesTheDocument, TypeInv, TypeOK, ShortText
  <2>3. \A r \in content' : r.text \in ShortText
    BY <2>1, <2>2
  <2> QED
    BY <2>1, <2>3, SameTextType DEF TypeInv, TypeOK, Phases
<1>3. CASE SaveSucceeds \/ SaveFails
  <2>1. /\ phase = "save" /\ phase' = "edit" /\ pending' = Store!Nothing
        /\ UNCHANGED <<live, text, cursor, content, exists, attempt>>
    BY <1>3 DEF SaveSucceeds, SaveFails, EndSave, Store!Succeed, Store!Fail,
                Document!MarkClean, document
  <2> QED
    BY <2>1, SameTextType DEF TypeInv, TypeOK, Phases
<1> QED
  BY <1>1, <1>2, <1>3

\* The keys that edit and move.
EditKey ==
  \/ editor_app_move_left \/ editor_app_move_right
  \/ editor_app_move_vertical(Vertical!UpTarget(text, cursor))
  \/ editor_app_move_vertical(Vertical!DownTarget(text, cursor))
  \/ editor_app_backspace \/ editor_app_delete
  \/ \E ch \in Byte : editor_app_insert_char(ch)

LEMMA EditType ==
  ASSUME TypeInv, EditKey
  PROVE  TypeInv'
<1>1. /\ phase = "edit" /\ UNCHANGED <<live, content, pending, exists, phase, attempt>>
  BY DEF EditKey, editor_app_move_left, editor_app_move_right, editor_app_move_vertical,
         editor_app_backspace, editor_app_delete, editor_app_insert_char,
         Note, Unnoted, storage, document, Document!MoveLeft, Document!MoveRight,
         Document!MoveTo, Document!Backspace, Document!Delete, Document!Insert,
         Document!Becomes, Document!Returns
<1>2. /\ text \in Seq(Byte) /\ Len(text) \in Nat /\ Len(text) <= MaxLength
      /\ cursor \in 0 .. Len(text) /\ MaxLength \in Nat
  BY EditorSessionAssumption DEF TypeInv, TypeOK
<1> DEFINE InText == /\ text' \in Seq(Byte) /\ Len(text') <= MaxLength
                     /\ cursor' \in 0 .. Len(text')
<1>3. ASSUME UNCHANGED <<text, cursor>> PROVE InText
  BY <1>2, <1>3
<1>4. ASSUME NEW position \in 0 .. Len(text), Document!MoveTo(position) PROVE InText
  BY <1>2, <1>4 DEF Document!MoveTo, Document!Becomes
<1>5. ASSUME NEW ch \in Byte, Document!Insert(ch), Len(text) < MaxLength PROVE InText
  <2>1. CASE text' = Document!InsertAt(text, cursor + 1, ch) /\ cursor' = cursor + 1
    <3>1. cursor + 1 \in 1 .. Len(text) + 1
      BY <1>2
    <3>2. text' \in Seq(Byte) /\ Len(text') = Len(text) + 1
      BY <1>2, <2>1, <3>1, EditsAreTexts
    <3> QED
      BY <1>2, <1>5, <2>1, <3>2
  <2> QED
    BY <1>3, <1>5, <2>1 DEF Document!Insert, Document!Becomes, Document!Returns
<1>6. ASSUME Document!Backspace PROVE InText
  <2>1. CASE cursor > 0
    <3>1. text' = Document!RemoveAt(text, cursor) /\ cursor' = cursor - 1
      BY <1>6, <2>1 DEF Document!Backspace, Document!Becomes
    <3>2. text' \in Seq(Byte) /\ Len(text') = Len(text) - 1
      BY <1>2, <2>1, <3>1, EditsAreTexts
    <3> QED
      BY <1>2, <2>1, <3>1, <3>2
  <2> QED
    BY <1>3, <1>6, <2>1 DEF Document!Backspace, Document!Returns
<1>7. ASSUME Document!Delete PROVE InText
  <2>1. CASE cursor < Len(text)
    <3>1. text' = Document!RemoveAt(text, cursor + 1) /\ cursor' = cursor
      BY <1>7, <2>1 DEF Document!Delete, Document!Becomes
    <3>2. cursor + 1 \in 1 .. Len(text)
      BY <1>2, <2>1
    <3>3. text' \in Seq(Byte) /\ Len(text') = Len(text) - 1
      BY <1>2, <3>1, <3>2, EditsAreTexts
    <3> QED
      BY <1>2, <2>1, <3>1, <3>3
  <2> QED
    BY <1>3, <1>7, <2>1 DEF Document!Delete, Document!Returns
<1>8. ASSUME editor_app_move_left \/ editor_app_move_right PROVE InText
  <2>1. \/ UNCHANGED <<text, cursor>>
        \/ cursor > 0 /\ Document!MoveTo(cursor - 1)
        \/ cursor < Len(text) /\ Document!MoveTo(cursor + 1)
    BY <1>2, <1>8 DEF editor_app_move_left, editor_app_move_right, Document!MoveLeft,
                      Document!MoveRight, Document!Returns
  <2>2. /\ cursor > 0 => cursor - 1 \in 0 .. Len(text)
        /\ cursor < Len(text) => cursor + 1 \in 0 .. Len(text)
    BY <1>2
  <2> QED
    BY <1>3, <1>4, <2>1, <2>2
<1>9. ASSUME \/ editor_app_move_vertical(Vertical!UpTarget(text, cursor))
             \/ editor_app_move_vertical(Vertical!DownTarget(text, cursor))
      PROVE  InText
  <2>1. \/ UNCHANGED <<text, cursor>>
        \/ Document!MoveTo(Vertical!UpTarget(text, cursor))
        \/ Document!MoveTo(Vertical!DownTarget(text, cursor))
    BY <1>9 DEF editor_app_move_vertical, document
  <2>2. /\ Vertical!UpTarget(text, cursor) \in 0 .. Len(text)
        /\ Vertical!DownTarget(text, cursor) \in 0 .. Len(text)
    BY <1>2, TargetsInText
  <2> QED
    BY <1>3, <1>4, <2>1, <2>2
<1>10. InText
  BY <1>5, <1>6, <1>7, <1>8, <1>9
  DEF EditKey, editor_app_insert_char, editor_app_backspace, editor_app_delete
<1> QED
  BY <1>1, <1>10 DEF TypeInv, TypeOK, ShortText

LEMMA NextType ==
  ASSUME TypeInv, IInv, [Next]_vars
  PROVE  TypeInv'
<1>1. CASE UNCHANGED vars
  BY <1>1 DEF vars, document, storage, TypeInv, TypeOK, ShortText
<1>2. CASE editor_ui_handle_key
  BY <1>2, PromptType, EndType, EditType DEF editor_ui_handle_key, EditKey
<1>3. SavesTheDocument
  BY DEF IInv
<1> QED
  BY <1>1, <1>2, <1>3, BeginType, EndType, PromptType, LoadType, SaveType DEF Next

\* Sessions that follow one another on one file keep their types: the cursor
\* is in the text, the text in its bound, an attempt is left while the file is
\* opened, and a save is pending in its own phase only.
THEOREM TypeCorrect == Spec => []TypeOK
<1>1. Init => TypeInv
  BY InitType
<1>2. TypeInv /\ IInv /\ [Next]_vars => TypeInv'
  BY NextType
<1>3. TypeInv => TypeOK
  BY DEF TypeInv
<1> QED
  BY <1>1, <1>2, <1>3, Invariant, PTL DEF Spec

-----------------------------------------------------------------------------
(* What the user relies on.                                                *)

\* The app holds a key only while a file is opened or saved.
THEOREM KeyIsShortLived == Spec => []KeyOnlyDuringOperation
<1>1. IInv => KeyOnlyDuringOperation
  BY DEF IInv, KeyHeld, KeyOnlyDuringOperation
<1> QED
  BY <1>1, Invariant, PTL

\* No session destroys a text that it has not loaded.
THEOREM UnreadIsNeverLost == Spec => []UnreadIsKept
<1>1. IInv => UnreadIsKept
  BY DEF IInv, UnreadWhileOpening, UnreadIsKept
<1> QED
  BY <1>1, Invariant, PTL

\* What the status line says of the file is true.
THEOREM StatusIsAlwaysTrue == Spec => []StatusIsTrue
<1>1. IInv => StatusIsTrue
  BY DEF IInv, ToldIsTrue, Told, Editing, StatusIsTrue
<1> QED
  BY <1>1, Invariant, PTL

\* A document that is not dirty is in the file, unless a save failed.
THEOREM CleanIsAlwaysStored == Spec => []CleanIsStored
<1>1. IInv => CleanIsStored
  BY DEF IInv
<1> QED
  BY <1>1, Invariant, PTL

-----------------------------------------------------------------------------
(* The session is made of its two parts: whatever the user does, the       *)
(* document takes a step of TextDocument and the file one of TextStore.    *)

\* A call that opens or exports the file works with a key that was typed.
KeyTyped == phase \in {"load", "export"} => key \in Key

LEMMA InitKeyTyped == Init => KeyTyped
BY DEF Init, KeyTyped

LEMMA NextKeyTyped ==
  ASSUME KeyTyped, IInv, [Next]_vars
  PROVE  KeyTyped'
<1>1. CASE UNCHANGED vars
  BY <1>1 DEF vars, KeyTyped
<1>2. CASE \E k \in Key : editor_app_set_key(k)
  BY <1>2 DEF editor_app_set_key, KeyTyped
<1>3. CASE editor_ui_save
  <2>1. phase = "edit" /\ key = NoKey
    BY <1>3 DEF editor_ui_save, IInv, KeyHeld
  <2> QED
    BY <1>3, <2>1 DEF editor_ui_save, KeyTyped
<1>4. CASE EditKey
  <2>1. phase' = "edit"
    BY <1>4 DEF EditKey, editor_app_move_left, editor_app_move_right,
                editor_app_move_vertical, editor_app_backspace, editor_app_delete,
                editor_app_insert_char, Note, Unnoted
  <2> QED
    BY <2>1 DEF KeyTyped
<1>5. CASE \/ editor_app_init \/ editor_app_request_quit \/ Kill
           \/ PromptFails \/ LoadSucceeds \/ LoadFails
           \/ ExportText \/ WriteFile \/ SaveSucceeds \/ SaveFails
  <2>1. phase' \notin {"load", "export"}
    BY <1>5 DEF editor_app_init, editor_app_request_quit, Kill, PromptFails, LoadSucceeds,
                LoadFails, ExportText, WriteFile, SaveSucceeds, SaveFails, EndSave,
                editor_app_free
  <2> QED
    BY <2>1 DEF KeyTyped
<1> QED
  BY <1>1, <1>2, <1>3, <1>4, <1>5 DEF Next, editor_ui_handle_key, EditKey

\* Every key of the editor is an operation of the document, or changes it not.
LEMMA DocumentTakesKey ==
  ASSUME TypeInv, EditKey
  PROVE  [Document!Next]_(Document!vars)
<1>1. /\ text \in Seq(Byte) /\ Len(text) \in Nat /\ cursor \in 0 .. Len(text)
  BY DEF TypeInv, TypeOK
<1>2. CASE \/ editor_app_move_left \/ editor_app_move_right
           \/ editor_app_backspace \/ editor_app_delete
           \/ \E ch \in Byte : editor_app_insert_char(ch)
  BY <1>2 DEF editor_app_move_left, editor_app_move_right, editor_app_backspace,
              editor_app_delete, editor_app_insert_char, Document!Next
<1>3. CASE \/ editor_app_move_vertical(Vertical!UpTarget(text, cursor))
           \/ editor_app_move_vertical(Vertical!DownTarget(text, cursor))
  <2>1. \/ UNCHANGED document
        \/ \E p \in 0 .. Len(text) : Document!MoveTo(p)
    BY <1>1, <1>3, TargetsInText DEF editor_app_move_vertical
  <2> QED
    BY <2>1 DEF document, Document!vars, Document!Next
<1> QED
  BY <1>2, <1>3 DEF EditKey

LEMMA DocumentStep ==
  ASSUME TypeInv, [Next]_vars
  PROVE  [Document!Next]_(Document!vars)
<1>1. ASSUME UNCHANGED document PROVE UNCHANGED Document!vars
  BY <1>1 DEF document, Document!vars
<1>2. CASE UNCHANGED vars
  BY <1>1, <1>2 DEF vars
<1>3. CASE editor_app_init
  BY <1>3 DEF editor_app_init, Document!Next
<1>4. CASE editor_app_free
  BY <1>4 DEF editor_app_free, Document!Next
<1>5. CASE LoadSucceeds
  <2>1. PICK r \in content : answer' = Store!Returned(r.text, key)
    BY <1>5 DEF LoadSucceeds, Store!Load
  <2>2. answer'.text \in Seq(Byte)
    BY <2>1 DEF TypeInv, ShortText, Store!Returned
  <2> QED
    BY <1>5, <2>2 DEF LoadSucceeds, Document!Next
<1>6. CASE SaveSucceeds
  BY <1>6 DEF SaveSucceeds, Document!Next
<1>7. CASE EditKey
  BY <1>7, DocumentTakesKey
<1>8. CASE \/ editor_ui_save \/ \E k \in Key : editor_app_set_key(k)
           \/ PromptFails \/ LoadFails \/ ExportText \/ WriteFile \/ SaveFails
  <2>1. UNCHANGED document \/ editor_app_free
    BY <1>8 DEF editor_ui_save, editor_app_set_key, PromptFails, LoadFails, ExportText,
                WriteFile, SaveFails
  <2> QED
    BY <1>1, <1>4, <2>1
<1> QED
  BY <1>2, <1>3, <1>4, <1>5, <1>6, <1>7, <1>8
  DEF Next, editor_ui_handle_key, EditKey, editor_app_request_quit, Kill

LEMMA StoreStep ==
  ASSUME TypeInv, KeyTyped, [Next]_vars
  PROVE  [Store!Next]_(Store!vars)
<1>1. ASSUME UNCHANGED <<content, pending, answer>> PROVE UNCHANGED Store!vars
  BY <1>1 DEF Store!vars
<1>2. CASE UNCHANGED vars
  BY <1>1, <1>2 DEF vars, storage
<1>3. CASE EditKey
  <2>1. UNCHANGED storage
    BY <1>3 DEF EditKey, editor_app_move_left, editor_app_move_right,
                editor_app_move_vertical, editor_app_backspace, editor_app_delete,
                editor_app_insert_char, Note, Unnoted
  <2> QED
    BY <1>1, <2>1 DEF storage
<1>4. CASE Kill
  BY <1>4 DEF Kill, Store!Next
<1>5. CASE LoadSucceeds
  <2>1. phase = "load" /\ Store!Load(key)
    BY <1>5 DEF LoadSucceeds
  <2> QED
    BY <2>1 DEF KeyTyped, Store!Next
<1>6. CASE ExportText
  <2>1. phase = "export" /\ text \in Seq(Byte) /\ key \in Key
    BY <1>6 DEF ExportText, TypeInv, TypeOK, KeyTyped
  <2>2. Store!Save(text, key) \/ UNCHANGED <<content, pending, answer>>
    BY <1>6 DEF ExportText
  <2> QED
    BY <1>1, <2>1, <2>2 DEF Store!Next
<1>7. CASE WriteFile
  BY <1>7 DEF WriteFile, Store!Next
<1>8. CASE SaveSucceeds
  BY <1>8 DEF SaveSucceeds, Store!Next
<1>9. CASE LoadFails \/ SaveFails
  BY <1>9 DEF LoadFails, SaveFails, Store!Next
<1>10. CASE \/ editor_app_init \/ editor_app_request_quit \/ editor_ui_save
            \/ PromptFails \/ \E k \in Key : editor_app_set_key(k)
  <2>1. UNCHANGED storage
    BY <1>10 DEF editor_app_init, editor_app_request_quit, editor_ui_save, PromptFails,
                 editor_app_set_key
  <2> QED
    BY <1>1, <2>1 DEF storage
<1> QED
  BY <1>2, <1>3, <1>4, <1>5, <1>6, <1>7, <1>8, <1>9, <1>10
  DEF Next, editor_ui_handle_key, EditKey

\* The invariants of this module, together.
LEMMA TypedInvariant == Spec => [](IInv /\ TypeInv /\ KeyTyped)
<1>1. Init => TypeInv /\ KeyTyped
  BY InitType, InitKeyTyped
<1>2. IInv /\ TypeInv /\ KeyTyped /\ [Next]_vars => TypeInv' /\ KeyTyped'
  BY NextType, NextKeyTyped
<1> QED
  BY <1>1, <1>2, Invariant, PTL DEF Spec

\* Whatever the user does, at whichever prompt, and whenever the process is
\* killed, the document in a session is one of TextDocument: editor_app uses
\* the editor core as that module says, and nothing else changes the text.
THEOREM SessionKeepsDocument == Spec => Document!Spec
<1>1. Init => Document!Init
  BY DEF Init
<1>2. TypeInv /\ [Next]_vars => [Document!Next]_(Document!vars)
  BY DocumentStep
<1> QED
  BY <1>1, <1>2, TypedInvariant, PTL DEF Spec, Document!Spec

\* The file in a session is one of TextStore: editor_app loads and saves with
\* keys that were typed, one call after the other.
THEOREM SessionKeepsStore == Spec => Store!Spec
<1>1. Init => Store!Init
  BY DEF Init
<1>2. TypeInv /\ KeyTyped /\ [Next]_vars => [Store!Next]_(Store!vars)
  BY StoreStep
<1> QED
  BY <1>1, <1>2, TypedInvariant, PTL DEF Spec, Store!Spec
=============================================================================
