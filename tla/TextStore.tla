----------------------------- MODULE TextStore ------------------------------
(***************************************************************************)
(* What a .ceio file promises to a single editor that saves and loads it:  *)
(* content is what a load can bring back, at most one text under one key.  *)
(* A save that returns success has stored its text; one that fails or is   *)
(* killed may have lost what was there before, and nothing else changes    *)
(* the content.  Module CeioFile is shown to implement this specification. *)
(***************************************************************************)
EXTENDS Integers

CONSTANTS Text, Key

VARIABLES
  content,   \* the set of texts, with their keys, that a load can return
  pending,   \* the text and key of the save in progress
  answer     \* what the last call returned

vars == <<content, pending, answer>>

OK             == [code |-> 0]
ERROR          == [code |-> -1]
None           == [code |-> 1]     \* during a call, and after a kill
Returned(t, k) == [code |-> 0, text |-> t, key |-> k]
Nothing        == [kind |-> "none"]

Init == content = {} /\ pending = Nothing /\ answer = None

Save(t, k) == /\ pending = Nothing
              /\ pending' = [text |-> t, key |-> k]
              /\ answer' = None
              /\ UNCHANGED content

\* The old content is lost before the new one is complete.
Lose == /\ pending # Nothing
        /\ content' = {}
        /\ UNCHANGED <<pending, answer>>

Store == /\ pending # Nothing
         /\ content = {} /\ content' = {pending}
         /\ UNCHANGED <<pending, answer>>

Succeed == /\ pending # Nothing
           /\ content = {pending}
           /\ pending' = Nothing /\ answer' = OK
           /\ UNCHANGED content

Fail == pending' = Nothing /\ answer' = ERROR /\ UNCHANGED content

\* A kill, or the begin of a load.
Forget == pending' = Nothing /\ answer' = None /\ UNCHANGED content

Load(k) == /\ pending = Nothing
           /\ \E r \in content : r.key = k /\ answer' = Returned(r.text, k)
           /\ UNCHANGED <<content, pending>>

Next == \/ \E t \in Text, k \in Key : Save(t, k)
        \/ Lose \/ Store \/ Succeed \/ Fail \/ Forget
        \/ \E k \in Key : Load(k)

Spec == Init /\ [][Next]_vars
=============================================================================
