-------------------------- MODULE Viewport_proofs ---------------------------
(***************************************************************************)
(* Proofs about the moves up and down a line, and about the viewport and   *)
(* the screen, for every text, cursor, size of the terminal and width of a *)
(* tab.                                                                    *)
(***************************************************************************)
EXTENDS Viewport, FiniteSetTheorems, WellFoundedInduction, TLAPS

-----------------------------------------------------------------------------
(* The scans stop where they should, so that the CHOOSE has a value.       *)

\* A nonempty set of naturals has a least element.
LEMMA LeastNatural ==
  ASSUME NEW S, S \subseteq Nat, S # {}
  PROVE  \E n \in S : \A m \in S : n <= m
<1>1. PICK n \in S : \A m \in S : ~ (<<m, n>> \in OpToRel(<, Nat))
  BY NatLessThanWellFounded, WFMin
<1>2. \A m \in S : m < n <=> <<m, n>> \in OpToRel(<, Nat)
  BY DEF OpToRel
<1>3. \A m \in S : ~ (m < n)
  BY <1>1, <1>2
<1> QED
  BY <1>3

\* A scan to the left stops at the last line start that is not behind p.
LEMMA LineStartProperties ==
  ASSUME NEW t \in Seq(Char), NEW p \in 0 .. Len(t)
  PROVE  /\ LineStart(t, p) \in 0 .. p
         /\ LineStart(t, p) = 0 \/ t[LineStart(t, p)] = Newline
         /\ \A q \in LineStart(t, p) + 1 .. p : t[q] # Newline
<1> DEFINE Stops(s)  == s = 0 \/ t[s] = Newline
           distances == {d \in 0 .. p : Stops(p - d)}
<1>1. distances \subseteq Nat /\ distances # {}
  <2>1. p \in distances
    OBVIOUS
  <2>2. distances \subseteq Nat
    OBVIOUS
  <2> QED
    BY <2>1, <2>2
<1> HIDE DEF distances
<1>2. PICK d \in distances : \A c \in distances : d <= c
  BY <1>1, LeastNatural
<1>3. d \in 0 .. p /\ p - d \in 0 .. p /\ Stops(p - d)
  BY DEF distances
<1>4. ASSUME NEW q \in p - d + 1 .. p
      PROVE  t[q] # Newline
  <2>1. p - q \in 0 .. p /\ ~ (d <= p - q) /\ p - (p - q) = q
    BY <1>3
  <2>2. p - q \notin distances
    BY <1>2, <2>1
  <2> QED
    BY <2>1, <2>2 DEF distances
<1>5. \E s \in 0 .. p : Stops(s) /\ \A q \in s + 1 .. p : t[q] # Newline
  BY <1>3, <1>4
<1> QED
  BY <1>5 DEF LineStart

\* A scan to the right stops at the first line end that is not before p.
LEMMA LineEndProperties ==
  ASSUME NEW t \in Seq(Char), NEW p \in 0 .. Len(t)
  PROVE  /\ LineEnd(t, p) \in p .. Len(t)
         /\ LineEnd(t, p) = Len(t) \/ t[LineEnd(t, p) + 1] = Newline
         /\ \A q \in p + 1 .. LineEnd(t, p) : t[q] # Newline
<1> DEFINE Stops(e) == e = Len(t) \/ t[e + 1] = Newline
           stops    == {e \in p .. Len(t) : Stops(e)}
<1>1. stops \subseteq Nat /\ stops # {}
  <2>1. Len(t) \in stops
    OBVIOUS
  <2> QED
    BY <2>1
<1> HIDE DEF stops
<1>2. PICK e \in stops : \A f \in stops : e <= f
  BY <1>1, LeastNatural
<1>3. e \in p .. Len(t) /\ Stops(e)
  BY DEF stops
<1>4. ASSUME NEW q \in p + 1 .. e
      PROVE  t[q] # Newline
  <2>1. q - 1 \in p .. Len(t) /\ ~ (e <= q - 1) /\ q - 1 + 1 = q
    BY <1>3
  <2>2. q - 1 \notin stops
    BY <1>2, <2>1
  <2> QED
    BY <2>1, <2>2 DEF stops
<1>5. \E s \in p .. Len(t) : Stops(s) /\ \A q \in p + 1 .. s : t[q] # Newline
  BY <1>3, <1>4
<1> QED
  BY <1>5 DEF LineEnd

-----------------------------------------------------------------------------
(* The targets.                                                            *)

\* The clipped column stays on the target line.
LEMMA TargetOnLine ==
  ASSUME NEW start \in Nat, NEW end \in Nat, start <= end, NEW column \in Nat
  PROVE  Target(start, end, column) \in start .. end
BY DEF Target

LEMMA UpTargetInText ==
  ASSUME NEW t \in Seq(Char), NEW p \in 0 .. Len(t)
  PROVE  UpTarget(t, p) \in 0 .. Len(t)
<1> DEFINE start    == LineStart(t, p)
           previous == start - 1
<1>1. start \in 0 .. p
  BY LineStartProperties
<1>2. CASE start = 0
  BY <1>2 DEF UpTarget
<1>3. CASE start # 0
  <2>1. previous \in 0 .. Len(t) /\ p - start \in Nat
    BY <1>1, <1>3
  <2>2. LineStart(t, previous) \in 0 .. previous
    BY <2>1, LineStartProperties
  <2> HIDE DEF start
  <2>3. Target(LineStart(t, previous), previous, p - start) \in LineStart(t, previous) .. previous
    <3> DEFINE first == LineStart(t, previous)
    <3>1. first \in Nat /\ previous \in Nat /\ first <= previous
      BY <2>1, <2>2
    <3> HIDE DEF first, previous
    <3> QED
      BY <2>1, <3>1, TargetOnLine DEF first
  <2> QED
    BY <1>3, <2>1, <2>2, <2>3 DEF UpTarget, start
<1> QED
  BY <1>2, <1>3

LEMMA DownTargetInText ==
  ASSUME NEW t \in Seq(Char), NEW p \in 0 .. Len(t)
  PROVE  DownTarget(t, p) \in 0 .. Len(t)
<1> DEFINE start == LineStart(t, p)
           next  == LineEnd(t, p) + 1
<1>1. start \in 0 .. p /\ LineEnd(t, p) \in p .. Len(t)
  BY LineStartProperties, LineEndProperties
<1>2. CASE next > Len(t)
  BY <1>2 DEF DownTarget
<1>3. CASE ~ (next > Len(t))
  <2>1. next \in 0 .. Len(t) /\ p - start \in Nat
    BY <1>1, <1>3
  <2>2. LineEnd(t, next) \in next .. Len(t)
    BY <2>1, LineEndProperties
  <2> HIDE DEF start, next
  <2>3. Target(next, LineEnd(t, next), p - start) \in next .. LineEnd(t, next)
    <3> DEFINE last == LineEnd(t, next)
    <3>1. next \in Nat /\ last \in Nat /\ next <= last
      BY <2>1, <2>2
    <3> HIDE DEF last
    <3> QED
      BY <2>1, <3>1, TargetOnLine DEF last
  <2> QED
    BY <1>3, <2>1, <2>2, <2>3 DEF DownTarget, start, next
<1> QED
  BY <1>2, <1>3

\* editor_core_move_to is never called with a position outside the text.
THEOREM TargetsInText == Spec => []TypeOK
<1>1. ASSUME text \in Seq(Char), cursor \in 0 .. Len(text)
      PROVE  TypeOK
  BY <1>1, UpTargetInText, DownTargetInText DEF TypeOK
<1>2. Init => TypeOK
  BY <1>1 DEF Init
<1>3. TypeOK /\ [Next]_vars => TypeOK'
  <2> SUFFICES ASSUME TypeOK, [Next]_vars
               PROVE  text' \in Seq(Char) /\ cursor' \in 0 .. Len(text')
    BY UpTargetInText, DownTargetInText DEF TypeOK
  <2>1. CASE Next
    BY <2>1 DEF Next, editor_app_move_up, editor_app_move_down, MoveTo, TypeOK
  <2>2. CASE UNCHANGED vars
    BY <2>2 DEF vars, TypeOK
  <2> QED
    BY <2>1, <2>2
<1> QED
  BY <1>2, <1>3, PTL DEF Spec

-----------------------------------------------------------------------------
(* Rows, which are counted, are the lines that the scans find.             *)

\* The positions with the same newlines before them as p form p's line.
LEMMA RowIsLine ==
  ASSUME NEW t \in Seq(Char), NEW p \in 0 .. Len(t)
  PROVE  SameRow(t, p) = LineStart(t, p) .. LineEnd(t, p)
<1> DEFINE start == LineStart(t, p)
           end   == LineEnd(t, p)
<1>1. /\ start \in 0 .. p
      /\ start = 0 \/ t[start] = Newline
      /\ \A q \in start + 1 .. p : t[q] # Newline
  BY LineStartProperties
<1>2. /\ end \in p .. Len(t)
      /\ end = Len(t) \/ t[end + 1] = Newline
      /\ \A q \in p + 1 .. end : t[q] # Newline
  BY LineEndProperties
<1> HIDE DEF start, end
<1>3. ASSUME NEW q \in start .. end
      PROVE  q \in SameRow(t, p)
  <2>1. q \in 0 .. Len(t)
    BY <1>1, <1>2
  <2>2. ASSUME NEW i \in Newlines(t)
        PROVE  i <= q <=> i <= p
    <3>1. i \in 1 .. Len(t) /\ t[i] = Newline
      BY DEF Newlines
    <3>2. i \notin start + 1 .. p /\ i \notin p + 1 .. end
      BY <3>1, <1>1, <1>2
    <3> QED
      BY <3>1, <3>2, <1>1, <1>2
  <2> QED
    BY <2>1, <2>2 DEF SameRow
<1>4. ASSUME NEW q \in SameRow(t, p)
      PROVE  q \in start .. end
  <2>1. q \in 0 .. Len(t) /\ \A i \in Newlines(t) : i <= q <=> i <= p
    BY DEF SameRow
  <2>2. ~ (q < start)
    <3>1. SUFFICES ASSUME q < start PROVE FALSE
      OBVIOUS
    <3>2. start \in Newlines(t) /\ start <= p /\ ~ (start <= q)
      BY <3>1, <2>1, <1>1 DEF Newlines
    <3> QED
      BY <3>2, <2>1
  <2>3. ~ (q > end)
    <3>1. SUFFICES ASSUME q > end PROVE FALSE
      OBVIOUS
    <3>2. end + 1 \in Newlines(t) /\ ~ (end + 1 <= p) /\ end + 1 <= q
      BY <3>1, <2>1, <1>2 DEF Newlines
    <3> QED
      BY <3>2, <2>1
  <2> QED
    BY <2>1, <2>2, <2>3, <1>1, <1>2
<1> QED
  BY <1>3, <1>4 DEF start, end

\* All positions of a row have the same row.
LEMMA SameRowIsShared ==
  ASSUME NEW t, NEW p, NEW q \in SameRow(t, p)
  PROVE  SameRow(t, q) = SameRow(t, p)
BY DEF SameRow

\* The column is kept from one interval to another, as the code computes it.
LEMMA TargetKeepsColumn ==
  ASSUME NEW a \in Nat, NEW b \in Nat, NEW p \in a .. b,
         NEW c \in Nat, NEW d \in Nat, c <= d
  PROVE  KeepsColumn(a .. b, p, c .. d, Target(c, d, p - a))
<1>1. \A x, y \in Nat : x <= y => /\ (CHOOSE f \in x .. y : \A r \in x .. y : f <= r) = x
                                  /\ (CHOOSE l \in x .. y : \A r \in x .. y : r <= l) = y
  <2> SUFFICES ASSUME NEW x \in Nat, NEW y \in Nat, x <= y
               PROVE  /\ (CHOOSE f \in x .. y : \A r \in x .. y : f <= r) = x
                      /\ (CHOOSE l \in x .. y : \A r \in x .. y : r <= l) = y
    OBVIOUS
  <2>1. x \in x .. y /\ y \in x .. y
    OBVIOUS
  <2>2. \A f \in x .. y : (\A r \in x .. y : f <= r) <=> f = x
    BY <2>1
  <2>3. \A l \in x .. y : (\A r \in x .. y : r <= l) <=> l = y
    BY <2>1
  <2> QED
    BY <2>1, <2>2, <2>3
<1>2. a <= b
  OBVIOUS
<1> DEFINE q == Target(c, d, p - a)
<1>3. \/ q - c = p - a
      \/ q = d /\ q - c < p - a
  BY DEF Target
<1>4. /\ (CHOOSE f \in a .. b : \A r \in a .. b : f <= r) = a
      /\ (CHOOSE f \in c .. d : \A r \in c .. d : f <= r) = c
      /\ (CHOOSE l \in c .. d : \A r \in c .. d : r <= l) = d
  BY <1>1, <1>2
<1> HIDE DEF q
<1>5. KeepsColumn(a .. b, p, c .. d, q)
  BY <1>3, <1>4 DEF KeepsColumn
<1> QED
  BY <1>5 DEF q

-----------------------------------------------------------------------------
(* Where the two moves go.                                                 *)

\* Down from a line that is not the last.
LEMMA DownMove ==
  ASSUME NEW t \in Seq(Char), NEW p \in 0 .. Len(t), LineEnd(t, p) < Len(t)
  PROVE  /\ DownTarget(t, p) \in NextRow(t, p)
         /\ DownTarget(t, p) > p
         /\ KeepsColumn(SameRow(t, p), p, SameRow(t, DownTarget(t, p)), DownTarget(t, p))
<1> DEFINE start == LineStart(t, p)
           end   == LineEnd(t, p)
           next  == end + 1
           last  == LineEnd(t, next)
           q     == Target(next, last, p - start)
<1>1. start \in 0 .. p /\ end \in p .. Len(t) - 1
  BY LineStartProperties, LineEndProperties
<1>2. /\ t[next] = Newline
      /\ \A i \in p + 1 .. end : t[i] # Newline
  BY <1>1, LineEndProperties
<1>3. next \in 1 .. Len(t)
  BY <1>1
<1>4. /\ last \in next .. Len(t)
      /\ \A i \in next + 1 .. last : t[i] # Newline
  BY <1>3, LineEndProperties
<1>5. LineStart(t, next) = next
  <2>1. /\ LineStart(t, next) \in 0 .. next
        /\ \A i \in LineStart(t, next) + 1 .. next : t[i] # Newline
    BY <1>3, LineStartProperties
  <2> QED
    BY <2>1, <1>2, <1>3
<1>6. DownTarget(t, p) = q
  BY <1>1 DEF DownTarget
<1>7. SameRow(t, next) = next .. last /\ SameRow(t, p) = start .. end
  BY <1>3, <1>5, RowIsLine
<1> HIDE DEF start, end, next, last
<1>8. q \in next .. last
  <2>1. next \in Nat /\ last \in Nat /\ next <= last /\ p - start \in Nat
    BY <1>1, <1>3, <1>4
  <2> QED
    BY ONLY <2>1, TargetOnLine
<1>9. SameRow(t, q) = next .. last
  BY <1>7, <1>8, SameRowIsShared
<1>10. KeepsColumn(start .. end, p, next .. last, q)
  BY <1>1, <1>3, <1>4, TargetKeepsColumn
<1> HIDE DEF q
<1>11. next = end + 1
  BY DEF next
<1>12. q \in NextRow(t, p)
  <2>1. q \in 0 .. Len(t)
    BY <1>3, <1>4, <1>8
  <2>2. next \in Newlines(t) /\ ~ (next <= p)
    BY <1>1, <1>2, <1>3, <1>11 DEF Newlines
  <2>3. ASSUME NEW i \in Newlines(t)
        PROVE  i <= q <=> (i <= p \/ i = next)
    <3>1. i \in 1 .. Len(t) /\ t[i] = Newline
      BY DEF Newlines
    <3>2. i \notin p + 1 .. end /\ i \notin next + 1 .. last
      BY <3>1, <1>2, <1>4
    <3> QED
      BY <3>1, <3>2, <1>1, <1>3, <1>4, <1>8, <1>11
  <2> QED
    BY <2>1, <2>2, <2>3 DEF NextRow
<1> QED
  BY <1>1, <1>3, <1>6, <1>7, <1>8, <1>9, <1>10, <1>11, <1>12

\* Up from a line that is not the first.
LEMMA UpMove ==
  ASSUME NEW t \in Seq(Char), NEW p \in 0 .. Len(t), LineStart(t, p) # 0
  PROVE  /\ p \in NextRow(t, UpTarget(t, p))
         /\ UpTarget(t, p) < p
         /\ KeepsColumn(SameRow(t, p), p, SameRow(t, UpTarget(t, p)), UpTarget(t, p))
<1> DEFINE start    == LineStart(t, p)
           end      == LineEnd(t, p)
           previous == start - 1
           first    == LineStart(t, previous)
           q        == Target(first, previous, p - start)
<1>1. start \in 1 .. p /\ end \in p .. Len(t)
  BY LineStartProperties, LineEndProperties
<1>2. /\ t[start] = Newline
      /\ \A i \in start + 1 .. p : t[i] # Newline
  BY LineStartProperties
<1>3. previous \in 0 .. Len(t) /\ previous + 1 = start
  BY <1>1
<1>4. first \in 0 .. previous
  BY <1>3, LineStartProperties
<1>5. LineEnd(t, previous) = previous
  <2>1. /\ LineEnd(t, previous) \in previous .. Len(t)
        /\ \A i \in previous + 1 .. LineEnd(t, previous) : t[i] # Newline
    BY <1>3, LineEndProperties
  <2> QED
    BY <2>1, <1>2, <1>3
<1>6. UpTarget(t, p) = q
  BY DEF UpTarget
<1>7. SameRow(t, previous) = first .. previous /\ SameRow(t, p) = start .. end
  BY <1>3, <1>5, RowIsLine
<1> HIDE DEF start, end, previous, first
<1>8. q \in first .. previous
  <2>1. first \in Nat /\ previous \in Nat /\ first <= previous /\ p - start \in Nat
    BY <1>1, <1>3, <1>4
  <2> QED
    BY ONLY <2>1, TargetOnLine
<1>9. SameRow(t, q) = first .. previous
  BY <1>7, <1>8, SameRowIsShared
<1>10. KeepsColumn(start .. end, p, first .. previous, q)
  BY <1>1, <1>3, <1>4, TargetKeepsColumn
<1>11. \A i \in Newlines(t) : i <= q <=> i <= previous
  BY <1>7, <1>8 DEF SameRow
<1> HIDE DEF q
<1>12. p \in NextRow(t, q)
  <2>1. start \in Newlines(t) /\ ~ (start <= q)
    BY <1>1, <1>2, <1>3, <1>4, <1>8 DEF Newlines
  <2>2. ASSUME NEW i \in Newlines(t)
        PROVE  i <= p <=> (i <= q \/ i = start)
    <3>1. i \in 1 .. Len(t) /\ t[i] = Newline
      BY DEF Newlines
    <3>2. i \notin start + 1 .. p
      BY <3>1, <1>2
    <3>3. i <= q <=> i <= previous
      BY <1>11
    <3> QED
      BY <3>1, <3>2, <3>3, <1>1, <1>3
  <2> QED
    BY <2>1, <2>2 DEF NextRow
<1> QED
  BY <1>1, <1>3, <1>4, <1>6, <1>7, <1>8, <1>9, <1>10, <1>12

-----------------------------------------------------------------------------

LEMMA RowsAreAlwaysLeft == TypeOK => RowsAreLeft
<1> SUFFICES ASSUME text \in Seq(Char), cursor \in 0 .. Len(text)
             PROVE  RowsAreLeft
  BY DEF TypeOK
<1>1. ASSUME NextRow(text, cursor) # {}
      PROVE  DownTarget(text, cursor) \in NextRow(text, cursor)
  <2>1. PICK n \in Newlines(text) : ~ (n <= cursor)
    BY <1>1 DEF NextRow
  <2>2. n \in 1 .. Len(text) /\ text[n] = Newline
    BY DEF Newlines
  <2>3. /\ LineEnd(text, cursor) \in cursor .. Len(text)
        /\ \A i \in cursor + 1 .. LineEnd(text, cursor) : text[i] # Newline
    BY LineEndProperties
  <2>4. LineEnd(text, cursor) < Len(text)
    BY <2>1, <2>2, <2>3
  <2> QED
    BY <2>4, DownMove
<1>2. ASSUME UpTarget(text, cursor) = cursor, NEW p \in 0 .. Len(text),
             cursor \in NextRow(text, p)
      PROVE  FALSE
  <2>1. PICK n \in Newlines(text) : n <= cursor
    BY <1>2 DEF NextRow
  <2>2. n \in 1 .. Len(text) /\ text[n] = Newline
    BY DEF Newlines
  <2>3. LineStart(text, cursor) # 0
    BY <2>1, <2>2, LineStartProperties
  <2> QED
    BY <1>2, <2>3, UpMove
<1> QED
  BY <1>1, <1>2 DEF RowsAreLeft

\* Whatever the text, no line is a dead end: down leads from every row that has
\* a next one into it, and up stays in the first row only.
THEOREM NoRowIsADeadEnd == Spec => []RowsAreLeft
BY RowsAreAlwaysLeft, TargetsInText, PTL

\* A move that moves goes to the neighbouring row.
LEMMA StepMovesInColumn ==
  TypeOK => [ editor_app_move_up \/ editor_app_move_down =>
                LET here   == SameRow(text, cursor)
                    target == SameRow(text, cursor')
                IN  \/ /\ cursor' \in NextRow(text, cursor)
                       /\ KeepsColumn(here, cursor, target, cursor')
                    \/ /\ cursor \in NextRow(text, cursor')
                       /\ KeepsColumn(here, cursor, target, cursor') ]_vars
<1> DEFINE Moves(c, d) ==
             /\ \/ d \in NextRow(text, c)
                \/ c \in NextRow(text, d)
             /\ KeepsColumn(SameRow(text, c), c, SameRow(text, d), d)
<1> SUFFICES ASSUME text \in Seq(Char), cursor \in 0 .. Len(text), ~ (UNCHANGED vars),
                    editor_app_move_up \/ editor_app_move_down
             PROVE  Moves(cursor, cursor')
  BY DEF TypeOK
<1>1. CASE editor_app_move_up
  <2>1. cursor' = UpTarget(text, cursor) /\ cursor' # cursor
    BY <1>1, UpTargetInText DEF editor_app_move_up, MoveTo, vars
  <2>2. LineStart(text, cursor) # 0
    BY <2>1 DEF UpTarget
  <2> QED
    BY <2>1, <2>2, UpMove
<1>2. CASE editor_app_move_down
  <2>1. cursor' = DownTarget(text, cursor) /\ cursor' # cursor
    BY <1>2, DownTargetInText DEF editor_app_move_down, MoveTo, vars
  <2>2. LineEnd(text, cursor) < Len(text)
    BY <2>1, LineEndProperties DEF DownTarget
  <2> QED
    BY <2>1, <2>2, DownMove
<1> QED
  BY <1>1, <1>2

\* Whatever the text, up and down change the row by one and keep the column as
\* far as the row they come to allows.
THEOREM MovesStayInColumn == Spec => MovesToNeighbouringRow
BY StepMovesInColumn, TargetsInText, PTL DEF MovesToNeighbouringRow

-----------------------------------------------------------------------------
(* Rows and columns, counted and walked.                                   *)

LEMMA ProductIsNatural == ASSUME NEW a \in Nat, NEW b \in Nat PROVE a * b \in Nat
OBVIOUS

LEMMA ProductOfNext ==
  ASSUME NEW a \in Nat, NEW b \in Nat PROVE a * (b + 1) = a * b + a
OBVIOUS

\* What is counted is finite.
LEMMA CountsAreNatural ==
  ASSUME text \in Seq(Char), NEW n \in 0 .. Len(text)
  PROVE  /\ IsFiniteSet({i \in 1 .. n : text[i] = Newline})
         /\ IsFiniteSet(Before(n)) /\ IsFiniteSet({i \in Before(n) : text[i] = Tab})
         /\ RowOf(n) \in Nat /\ ColumnOf(n) \in Nat
<1>1. IsFiniteSet(1 .. n)
  BY FS_Interval
<1>2. /\ IsFiniteSet({i \in 1 .. n : text[i] = Newline})
      /\ IsFiniteSet(Before(n)) /\ IsFiniteSet({i \in Before(n) : text[i] = Tab})
  <2>1. /\ {i \in 1 .. n : text[i] = Newline} \in SUBSET (1 .. n)
        /\ Before(n) \in SUBSET (1 .. n)
        /\ {i \in Before(n) : text[i] = Tab} \in SUBSET (1 .. n)
    BY DEF Before
  <2> QED
    BY <1>1, <2>1, FS_Subset
<1>3. RowOf(n) \in Nat
  BY <1>2, FS_CardinalityType DEF RowOf
<1>4. ColumnOf(n) \in Nat
  <2>1. /\ Cardinality(Before(n)) \in Nat
        /\ Cardinality({i \in Before(n) : text[i] = Tab}) \in Nat
    BY <1>2, FS_CardinalityType
  <2>2. TabWidth - 1 \in Nat
    BY ViewportAssumption
  <2>3. (TabWidth - 1) * Cardinality({i \in Before(n) : text[i] = Tab}) \in Nat
    BY <2>1, <2>2, ProductIsNatural
  <2> QED
    BY <2>1, <2>3 DEF ColumnOf
<1> QED
  BY <1>2, <1>3, <1>4

LEMMA CountsFromZero == RowOf(0) = 0 /\ ColumnOf(0) = 0
<1>1. {i \in 1 .. 0 : text[i] = Newline} = {} /\ Before(0) = {}
  BY DEF Before
<1>2. {i \in Before(0) : text[i] = Tab} = {}
  BY <1>1
<1>3. TabWidth - 1 \in Nat /\ (TabWidth - 1) * 0 = 0
  BY ViewportAssumption
<1>4. RowOf(0) = Cardinality({}) /\ ColumnOf(0) = Cardinality({}) + (TabWidth - 1) * Cardinality({})
  BY <1>1, <1>2, Zenon DEF RowOf, ColumnOf
<1>5. Cardinality({}) = 0
  BY FS_EmptySet
<1> QED
  BY <1>3, <1>4, <1>5

\* One character further.
LEMMA CountsNext ==
  ASSUME text \in Seq(Char), NEW n \in 1 .. Len(text)
  PROVE  /\ RowOf(n) = IF text[n] = Newline THEN RowOf(n - 1) + 1 ELSE RowOf(n - 1)
         /\ ColumnOf(n) = IF text[n] = Newline THEN 0
                          ELSE ColumnOf(n - 1) + Width(text[n])
<1> DEFINE newlines(m) == {i \in 1 .. m : text[i] = Newline}
           tabs(m)     == {i \in Before(m) : text[i] = Tab}
<1>1. n - 1 \in 0 .. Len(text) /\ 1 .. n = (1 .. n - 1) \cup {n} /\ n \notin 1 .. n - 1
  OBVIOUS
<1>2. /\ IsFiniteSet(newlines(n - 1)) /\ IsFiniteSet(Before(n - 1)) /\ IsFiniteSet(tabs(n - 1))
      /\ RowOf(n - 1) \in Nat /\ ColumnOf(n - 1) \in Nat
  BY <1>1, CountsAreNatural
<1>3. /\ TabWidth - 1 \in Nat /\ Tab # Newline
  BY ViewportAssumption
<1>4. CASE text[n] = Newline
  <2>1. newlines(n) = newlines(n - 1) \cup {n} /\ n \notin newlines(n - 1)
    BY <1>1, <1>4
  <2>2. RowOf(n) = RowOf(n - 1) + 1
    BY <1>2, <2>1, FS_AddElement DEF RowOf
  <2>3. Before(n) = {}
    BY <1>4 DEF Before
  <2>4. tabs(n) = {} /\ (TabWidth - 1) * 0 = 0
    BY <1>3, <2>3
  <2> QED
    BY <1>4, <2>2, <2>3, <2>4, FS_EmptySet DEF ColumnOf
<1>5. CASE text[n] # Newline
  <2>1. newlines(n) = newlines(n - 1)
    BY <1>1, <1>5
  <2>2. RowOf(n) = RowOf(n - 1)
    BY <2>1 DEF RowOf
  <2>3. Before(n) = Before(n - 1) \cup {n} /\ n \notin Before(n - 1)
    <3>1. \A i \in 1 .. n - 1 : i .. n = (i .. n - 1) \cup {n}
      OBVIOUS
    <3>2. n .. n = {n}
      OBVIOUS
    <3> QED
      BY <1>1, <1>5, <3>1, <3>2 DEF Before
  <2>4. Cardinality(Before(n)) = Cardinality(Before(n - 1)) + 1
    BY <1>2, <2>3, FS_AddElement
  <2>5. /\ Cardinality(Before(n - 1)) \in Nat /\ Cardinality(tabs(n - 1)) \in Nat
        /\ (TabWidth - 1) * Cardinality(tabs(n - 1)) \in Nat
    BY <1>2, <1>3, FS_CardinalityType, ProductIsNatural
  <2> DEFINE blanks(m) == (TabWidth - 1) * Cardinality(tabs(m))
  <2>6. /\ ColumnOf(n) = Cardinality(Before(n)) + blanks(n)
        /\ ColumnOf(n - 1) = Cardinality(Before(n - 1)) + blanks(n - 1)
        /\ blanks(n - 1) \in Nat
    BY <2>5 DEF ColumnOf
  <2>7. CASE text[n] = Tab
    <3>1. tabs(n) = tabs(n - 1) \cup {n} /\ n \notin tabs(n - 1)
      BY <2>3, <2>7
    <3>2. Cardinality(tabs(n)) = Cardinality(tabs(n - 1)) + 1
      BY <1>2, <3>1, FS_AddElement
    <3>3. blanks(n) = blanks(n - 1) + (TabWidth - 1)
      BY <1>3, <2>5, <3>2, ProductOfNext
    <3>4. Width(text[n]) = (TabWidth - 1) + 1
      BY <1>3, <2>7, ViewportAssumption DEF Width
    <3> HIDE DEF blanks
    <3>5. ColumnOf(n) = ColumnOf(n - 1) + Width(text[n])
      BY <1>3, <2>4, <2>5, <2>6, <3>3, <3>4
    <3> QED
      BY <1>5, <2>2, <3>5
  <2>8. CASE text[n] # Tab
    <3>1. tabs(n) = tabs(n - 1)
      BY <2>3, <2>8
    <3>2. blanks(n) = blanks(n - 1) /\ Width(text[n]) = 1
      BY <2>8, <3>1 DEF Width
    <3> HIDE DEF blanks
    <3>3. ColumnOf(n) = ColumnOf(n - 1) + Width(text[n])
      BY <2>4, <2>5, <2>6, <3>2
    <3> QED
      BY <1>5, <2>2, <3>3
  <2> QED
    BY <2>7, <2>8
<1> QED
  BY <1>4, <1>5

\* Both loops of editor_ui_draw count so.
LEMMA PositionIsCounted ==
  ASSUME text \in Seq(Char), NEW n \in 0 .. Len(text)
  PROVE  Position(text, n) = [row |-> RowOf(n), col |-> ColumnOf(n)]
<1> DEFINE Walked(p) ==
             p = [i \in 0 .. n |->
                    IF i = 0 THEN [row |-> 0, col |-> 0]
                    ELSE IF text[i] = Newline THEN [row |-> p[i - 1].row + 1, col |-> 0]
                    ELSE [p[i - 1] EXCEPT !.col = @ + Width(text[i])]]
           counted == [i \in 0 .. n |-> [row |-> RowOf(i), col |-> ColumnOf(i)]]
<1>1. \A i \in 1 .. n : /\ i - 1 \in 0 .. n /\ i \in 1 .. Len(text) /\ i # 0
  OBVIOUS
<1>2. Walked(counted)
  <2>1. ASSUME NEW i \in 0 .. n
        PROVE  counted[i] = IF i = 0 THEN [row |-> 0, col |-> 0]
                            ELSE IF text[i] = Newline
                                 THEN [row |-> counted[i - 1].row + 1, col |-> 0]
                            ELSE [counted[i - 1] EXCEPT !.col = @ + Width(text[i])]
    <3>1. CASE i = 0
      BY <3>1, CountsFromZero
    <3>2. CASE i # 0
      <4>1. i \in 1 .. n /\ i \in 1 .. Len(text) /\ i - 1 \in 0 .. n
        BY <3>2
      <4>2. counted[i - 1] = [row |-> RowOf(i - 1), col |-> ColumnOf(i - 1)]
        BY <4>1
      <4> QED
        BY <3>2, <4>1, <4>2, CountsNext
    <3> QED
      BY <3>1, <3>2
  <2> QED
    BY <2>1
<1>3. ASSUME NEW p, Walked(p)
      PROVE  p[n] = counted[n]
  <2> DEFINE wrong == {i \in 0 .. n : p[i] # counted[i]}
  <2>1. ASSUME wrong # {} PROVE FALSE
    <3>1. wrong \subseteq Nat
      OBVIOUS
    <3>2. PICK m \in wrong : \A i \in wrong : m <= i
      BY <2>1, <3>1, LeastNatural
    <3>3. m \in 0 .. n /\ p[m] # counted[m]
      OBVIOUS
    <3>4. m # 0
      BY <1>2, <1>3, <3>3
    <3>5. m - 1 \in 0 .. n /\ p[m - 1] = counted[m - 1]
      BY <3>2, <3>3, <3>4
    <3> DEFINE next(q) == IF text[m] = Newline THEN [row |-> q.row + 1, col |-> 0]
                          ELSE [q EXCEPT !.col = @ + Width(text[m])]
    <3>6. p[m] = next(p[m - 1])
      BY <1>3, <3>3, <3>4
    <3>7. counted[m] = next(counted[m - 1])
      <4> HIDE DEF counted
      <4> QED
        BY <1>2, <3>3, <3>4
    <3> HIDE DEF counted, wrong, next
    <3> QED
      BY <3>3, <3>5, <3>6, <3>7
  <2> QED
    BY <2>1
<1> QED
  <2>1. Walked(CHOOSE p : Walked(p))
    BY <1>2
  <2>2. (CHOOSE p : Walked(p))[n] = counted[n]
    BY <1>3, <2>1
  <2>3. Position(text, n) = (CHOOSE p : Walked(p))[n]
    BY DEF Position
  <2> QED
    BY <2>2, <2>3

-----------------------------------------------------------------------------
(* The viewport follows the cursor.                                        *)

ScreenInv ==
  /\ TypeOK
  /\ rows \in Rows /\ cols \in Cols
  /\ row_offset \in Nat /\ col_offset \in Nat
  /\ shown = "text" =>
       /\ RowOf(cursor) \in row_offset .. row_offset + text_rows - 1
       /\ ColumnOf(cursor) \in col_offset .. col_offset + cols - 1

LEMMA TypeInText ==
  ASSUME text \in Seq(Char), cursor \in 0 .. Len(text)
  PROVE  TypeOK
BY UpTargetInText, DownTargetInText DEF TypeOK

\* The window is moved just so far that the position is in it.
LEMMA AdjustedShows ==
  ASSUME NEW offset \in Nat, NEW at \in Nat, NEW size \in Nat \ {0}
  PROVE  /\ Adjusted(offset, at, size) \in Nat
         /\ at \in Adjusted(offset, at, size) .. Adjusted(offset, at, size) + size - 1
BY DEF Adjusted

LEMMA ConcatType ==
  ASSUME NEW a \in Seq(Char), NEW b \in Seq(Char)
  PROVE  a \o b \in Seq(Char) /\ Len(a \o b) = Len(a) + Len(b)
OBVIOUS

\* Typing and deleting keep the text a text.
LEMMA EditsStayInText ==
  ASSUME text \in Seq(Char)
  PROVE  /\ \A i \in 1 .. Len(text) + 1, ch \in Char :
              InsertAt(text, i, ch) \in Seq(Char) /\ Len(InsertAt(text, i, ch)) = Len(text) + 1
         /\ \A i \in 1 .. Len(text) :
              RemoveAt(text, i) \in Seq(Char) /\ Len(RemoveAt(text, i)) = Len(text) - 1
<1>1. ASSUME NEW i \in 1 .. Len(text) + 1, NEW ch \in Char
      PROVE  InsertAt(text, i, ch) \in Seq(Char) /\ Len(InsertAt(text, i, ch)) = Len(text) + 1
  <2>1. /\ SubSeq(text, 1, i - 1) \in Seq(Char) /\ Len(SubSeq(text, 1, i - 1)) = i - 1
        /\ SubSeq(text, i, Len(text)) \in Seq(Char)
        /\ Len(SubSeq(text, i, Len(text))) = Len(text) - i + 1
    OBVIOUS
  <2>2. /\ SubSeq(text, 1, i - 1) \o <<ch>> \in Seq(Char)
        /\ Len(SubSeq(text, 1, i - 1) \o <<ch>>) = i
    BY <2>1
  <2>3. /\ InsertAt(text, i, ch) \in Seq(Char)
        /\ Len(InsertAt(text, i, ch)) = Len(SubSeq(text, 1, i - 1) \o <<ch>>)
                                       + Len(SubSeq(text, i, Len(text)))
    BY <2>1, <2>2, ConcatType DEF InsertAt
  <2> QED
    BY <2>1, <2>2, <2>3
<1>2. ASSUME NEW i \in 1 .. Len(text)
      PROVE  RemoveAt(text, i) \in Seq(Char) /\ Len(RemoveAt(text, i)) = Len(text) - 1
  <2>1. /\ SubSeq(text, 1, i - 1) \in Seq(Char) /\ Len(SubSeq(text, 1, i - 1)) = i - 1
        /\ SubSeq(text, i + 1, Len(text)) \in Seq(Char)
        /\ Len(SubSeq(text, i + 1, Len(text))) = Len(text) - i
    OBVIOUS
  <2>2. /\ RemoveAt(text, i) \in Seq(Char)
        /\ Len(RemoveAt(text, i)) = Len(SubSeq(text, 1, i - 1))
                                   + Len(SubSeq(text, i + 1, Len(text)))
    BY <2>1, ConcatType DEF RemoveAt
  <2>3. Len(text) \in Nat
    OBVIOUS
  <2>4. (i - 1) + (Len(text) - i) = Len(text) - 1
    BY <2>3
  <2> QED
    BY <2>1, <2>2, <2>4
<1> QED
  BY <1>1, <1>2

LEMMA ScreenInitial == ScreenInit => ScreenInv
<1> SUFFICES ASSUME ScreenInit PROVE ScreenInv
  OBVIOUS
<1>1. text \in Seq(Char) /\ cursor \in 0 .. Len(text)
  BY DEF ScreenInit
<1> QED
  BY <1>1, TypeInText DEF ScreenInit, ScreenInv

LEMMA DrawInv == ScreenInv /\ Draw => ScreenInv'
<1> SUFFICES ASSUME ScreenInv, Draw PROVE ScreenInv'
  OBVIOUS
<1>1. /\ text \in Seq(Char) /\ cursor \in 0 .. Len(text)
      /\ UNCHANGED <<text, cursor, rows, cols>>
  BY DEF ScreenInv, TypeOK, Draw, terminal
<1>2. /\ rows \in Nat /\ cols \in Nat \ {0} /\ text_rows \in Nat \ {0}
      /\ row_offset \in Nat /\ col_offset \in Nat
  BY ViewportAssumption DEF ScreenInv, text_rows
<1>3. /\ TypeOK' /\ text_rows' = text_rows
      /\ RowOf(cursor)' = RowOf(cursor) /\ ColumnOf(cursor)' = ColumnOf(cursor)
  BY <1>1 DEF ScreenInv, TypeOK, text_rows, RowOf, ColumnOf, Before
<1>4. /\ Position(text, cursor) = [row |-> RowOf(cursor), col |-> ColumnOf(cursor)]
      /\ RowOf(cursor) \in Nat /\ ColumnOf(cursor) \in Nat
  BY <1>1, PositionIsCounted, CountsAreNatural
<1>5. CASE /\ row_offset' = Adjusted(row_offset, RowOf(cursor), text_rows)
           /\ col_offset' = Adjusted(col_offset, ColumnOf(cursor), cols)
  <2>1. /\ row_offset' \in Nat /\ RowOf(cursor) \in row_offset' .. row_offset' + text_rows - 1
        /\ col_offset' \in Nat /\ ColumnOf(cursor) \in col_offset' .. col_offset' + cols - 1
    BY <1>2, <1>4, <1>5, AdjustedShows
  <2> QED
    BY <1>1, <1>3, <2>1 DEF ScreenInv
<1>6. CASE shown' = "error" /\ UNCHANGED viewport
  BY <1>1, <1>3, <1>6 DEF ScreenInv, viewport
<1> QED
  BY <1>4, <1>5, <1>6 DEF Draw

LEMMA HandleKeyInv == ScreenInv /\ HandleKey => ScreenInv'
<1> SUFFICES ASSUME ScreenInv, HandleKey PROVE ScreenInv'
  OBVIOUS
<1>1. /\ text \in Seq(Char) /\ Len(text) \in Nat /\ cursor \in 0 .. Len(text)
      /\ UpTarget(text, cursor) \in 0 .. Len(text) /\ DownTarget(text, cursor) \in 0 .. Len(text)
  BY DEF ScreenInv, TypeOK
<1>2. text' \in Seq(Char) /\ cursor' \in 0 .. Len(text')
  <2>1. CASE Edit
    <3>1. cursor + 1 \in 1 .. Len(text) + 1
      BY <1>1
    <3>2. ASSUME NEW ch \in Char, text' = InsertAt(text, cursor + 1, ch), cursor' = cursor + 1
          PROVE  text' \in Seq(Char) /\ cursor' \in 0 .. Len(text')
      <4>1. text' \in Seq(Char) /\ Len(text') = Len(text) + 1
        BY <1>1, <3>1, <3>2, EditsStayInText
      <4> QED
        BY <1>1, <3>2, <4>1
    <3>3. ASSUME cursor > 0, text' = RemoveAt(text, cursor), cursor' = cursor - 1
          PROVE  text' \in Seq(Char) /\ cursor' \in 0 .. Len(text')
      BY <1>1, <3>3, EditsStayInText
    <3>4. ASSUME cursor < Len(text), text' = RemoveAt(text, cursor + 1), cursor' = cursor
          PROVE  text' \in Seq(Char) /\ cursor' \in 0 .. Len(text')
      BY <1>1, <3>4, EditsStayInText
    <3> QED
      BY <2>1, <3>2, <3>3, <3>4 DEF Edit
  <2>2. CASE Move
    BY <1>1, <2>2 DEF Move, editor_app_move_up, editor_app_move_down, MoveTo
  <2> QED
    BY <2>1, <2>2 DEF HandleKey
<1>3. TypeOK'
  BY <1>2, UpTargetInText, DownTargetInText DEF TypeOK
<1> QED
  BY <1>3 DEF HandleKey, ScreenInv, terminal, viewport

LEMMA ScreenInductive == ScreenInv /\ [ScreenNext]_screen_vars => ScreenInv'
<1> SUFFICES ASSUME ScreenInv, [ScreenNext]_screen_vars PROVE ScreenInv'
  OBVIOUS
<1>1. CASE Resize
  BY <1>1 DEF Resize, ScreenInv, viewport, TypeOK
<1>2. CASE UNCHANGED screen_vars
  BY <1>2 DEF screen_vars, terminal, viewport, ScreenInv, TypeOK, text_rows, RowOf,
     ColumnOf, Before
<1> QED
  BY <1>1, <1>2, DrawInv, HandleKeyInv DEF ScreenNext

LEMMA ScreenInvariant == ScreenSpec => []ScreenInv
BY ScreenInitial, ScreenInductive, PTL DEF ScreenSpec

\* Wherever the user types, moves or resizes, the moves up and down never ask
\* editor_core_move_to for a position outside the text.
THEOREM ScreenMovesInText == ScreenSpec => []TypeOK
<1>1. ScreenInv => TypeOK
  BY DEF ScreenInv
<1> QED
  BY <1>1, ScreenInvariant, PTL

\* On every text that is typed, down leaves each row that has a next one and up
\* each row but the first.
THEOREM ScreenHasNoDeadEnd == ScreenSpec => []RowsAreLeft
BY ScreenMovesInText, RowsAreAlwaysLeft, PTL

\* On the screen, up and down change the row by one and keep the column as far
\* as the row they come to allows.
THEOREM ScreenMovesInColumn == ScreenSpec => MovesToNeighbouringRow
BY StepMovesInColumn, ScreenMovesInText, PTL DEF MovesToNeighbouringRow

\* After every drawing the cursor is inside the text area, at the place of the
\* character it stands on, however far the text, the cursor and the size of the
\* terminal moved away from the old window.
THEOREM CursorIsAlwaysShown == ScreenSpec => []CursorIsShown
<1>1. ScreenInv => CursorIsShown
  <2> SUFFICES ASSUME ScreenInv, shown = "text", rows > 3
               PROVE  /\ ScreenCursor \in Cells
                      /\ ScreenCursor = <<RowOf(cursor) - row_offset + 1,
                                          ColumnOf(cursor) - col_offset>>
    BY DEF ScreenInv, CursorIsShown
  <2>1. /\ text \in Seq(Char) /\ cursor \in 0 .. Len(text)
        /\ rows \in Nat /\ cols \in Nat \ {0} /\ row_offset \in Nat /\ col_offset \in Nat
        /\ RowOf(cursor) \in row_offset .. row_offset + text_rows - 1
        /\ ColumnOf(cursor) \in col_offset .. col_offset + cols - 1
    BY ViewportAssumption DEF ScreenInv, TypeOK
  <2>2. /\ Position(text, cursor) = [row |-> RowOf(cursor), col |-> ColumnOf(cursor)]
        /\ RowOf(cursor) \in Nat /\ ColumnOf(cursor) \in Nat
    BY <2>1, PositionIsCounted, CountsAreNatural
  <2>3. text_rows = rows - 3
    BY <2>1 DEF text_rows
  <2>4. /\ RowOf(cursor) - row_offset + 1 \in 1 .. rows - 3
        /\ ColumnOf(cursor) - col_offset \in 0 .. cols - 1
    BY <2>1, <2>2, <2>3
  <2> QED
    BY <2>2, <2>4 DEF ScreenCursor, Cells
<1> QED
  BY <1>1, ScreenInvariant, PTL

-----------------------------------------------------------------------------
(* What is painted.                                                        *)

LEMMA ProductGrows ==
  ASSUME NEW a \in Nat, NEW b \in Nat, NEW c \in Nat, b <= c
  PROVE  a * b <= a * c
<1>1. PICK d \in Nat : c = b + d
  <2>1. c - b \in Nat /\ c = b + (c - b)
    OBVIOUS
  <2> QED
    BY <2>1
<1>2. a * c = a * b + a * d /\ a * d \in Nat /\ a * b \in Nat
  BY <1>1, ProductIsNatural
<1> QED
  BY <1>2

\* Two characters of one row: the second begins behind the first.
LEMMA ColumnsGrow ==
  ASSUME text \in Seq(Char), NEW i \in 1 .. Len(text), NEW j \in i + 1 .. Len(text),
         RowOf(i - 1) = RowOf(j - 1)
  PROVE  ColumnOf(i - 1) + Width(text[i]) <= ColumnOf(j - 1)
<1> DEFINE newlines(m) == {k \in 1 .. m : text[k] = Newline}
           tabs(m)     == {k \in Before(m) : text[k] = Tab}
<1>1. /\ i - 1 \in 0 .. Len(text) /\ j - 1 \in 0 .. Len(text) /\ i \in 0 .. Len(text)
      /\ i - 1 < j - 1 /\ i <= j - 1
  OBVIOUS
<1>2. \A k \in i .. j - 1 : text[k] # Newline
  <2> SUFFICES ASSUME NEW k \in i .. j - 1, text[k] = Newline PROVE FALSE
    OBVIOUS
  <2>1. /\ newlines(i - 1) \cup {k} \in SUBSET newlines(j - 1)
        /\ k \notin newlines(i - 1)
    BY <1>1
  <2>2. /\ IsFiniteSet(newlines(i - 1)) /\ IsFiniteSet(newlines(j - 1))
        /\ RowOf(i - 1) \in Nat
    BY <1>1, CountsAreNatural
  <2>3. Cardinality(newlines(i - 1) \cup {k}) = RowOf(i - 1) + 1
    BY <2>1, <2>2, FS_AddElement DEF RowOf
  <2>4. Cardinality(newlines(i - 1) \cup {k}) <= RowOf(j - 1)
    BY <2>1, <2>2, FS_Subset DEF RowOf
  <2> QED
    BY <2>2, <2>3, <2>4
<1>3. ColumnOf(i) = ColumnOf(i - 1) + Width(text[i])
  BY <1>1, <1>2, CountsNext
<1>4. Before(i) \in SUBSET Before(j - 1) /\ tabs(i) \in SUBSET tabs(j - 1)
  <2>1. ASSUME NEW k \in Before(i)
        PROVE  k \in Before(j - 1)
    <3>1. k \in 1 .. i /\ \A m \in k .. i : text[m] # Newline
      BY DEF Before
    <3>2. \A m \in k .. j - 1 : m \in k .. i \/ m \in i .. j - 1
      BY <1>1, <3>1
    <3>3. k \in 1 .. j - 1
      BY <1>1, <3>1
    <3> QED
      BY <1>2, <3>1, <3>2, <3>3 DEF Before
  <2> QED
    BY <2>1
<1>5. /\ IsFiniteSet(Before(j - 1)) /\ IsFiniteSet(tabs(j - 1))
      /\ IsFiniteSet(Before(i)) /\ IsFiniteSet(tabs(i))
  BY <1>1, CountsAreNatural
<1>6. /\ Cardinality(Before(i)) \in Nat /\ Cardinality(Before(j - 1)) \in Nat
      /\ Cardinality(tabs(i)) \in Nat /\ Cardinality(tabs(j - 1)) \in Nat
      /\ Cardinality(Before(i)) <= Cardinality(Before(j - 1))
      /\ Cardinality(tabs(i)) <= Cardinality(tabs(j - 1))
  BY <1>4, <1>5, FS_Subset, FS_CardinalityType
<1> DEFINE blanks(m) == (TabWidth - 1) * Cardinality(tabs(m))
<1>7. TabWidth - 1 \in Nat
  BY ViewportAssumption
<1>8. blanks(i) \in Nat /\ blanks(j - 1) \in Nat /\ blanks(i) <= blanks(j - 1)
  BY <1>6, <1>7, ProductGrows, ProductIsNatural
<1>9. /\ ColumnOf(i) = Cardinality(Before(i)) + blanks(i)
      /\ ColumnOf(j - 1) = Cardinality(Before(j - 1)) + blanks(j - 1)
  BY DEF ColumnOf
<1> HIDE DEF blanks
<1> QED
  BY <1>3, <1>6, <1>8, <1>9

\* The i-th character covers the row and column of the text that the cell
\* stands for.
Covers(i, cell) ==
  /\ text[i] # Newline
  /\ RowOf(i - 1) = row_offset + cell[1] - 1
  /\ ColumnOf(i - 1) <= col_offset + cell[2]
  /\ col_offset + cell[2] < ColumnOf(i - 1) + Width(text[i])

\* A character is painted where it covers; a tab that is cut by the left edge
\* also beyond its end, where only a later character of the row can be.
LEMMA PaintedCells ==
  ASSUME ScreenInv, NEW cell \in Cells, NEW i \in 1 .. Len(text)
  PROVE  /\ Covers(i, cell) => cell \in Painted(i)
         /\ cell \in Painted(i) =>
              /\ RowOf(i - 1) = row_offset + cell[1] - 1
              /\ ColumnOf(i - 1) <= col_offset + cell[2]
              /\ Covers(i, cell) \/ (text[i] = Tab /\ ColumnOf(i - 1) < col_offset)
<1> DEFINE row   == RowOf(i - 1)
           start == ColumnOf(i - 1)
           width == Width(text[i])
           left  == IF start < col_offset THEN 0 ELSE start - col_offset
           r     == cell[1]
           c     == cell[2]
<1>1. /\ text \in Seq(Char) /\ row_offset \in Nat /\ col_offset \in Nat
      /\ r \in Int /\ r >= 1 /\ c \in Nat
      /\ i - 1 \in 0 .. Len(text)
  BY DEF ScreenInv, TypeOK, Cells
<1>2. /\ Position(text, i - 1) = [row |-> row, col |-> start]
      /\ row \in Nat /\ start \in Nat
  BY <1>1, PositionIsCounted, CountsAreNatural
<1>3. width \in Nat \ {0} /\ (text[i] # Tab => width = 1)
  BY ViewportAssumption DEF Width
<1>4. cell \in Painted(i) <=>
        /\ text[i] # Newline /\ row >= row_offset /\ start + width > col_offset
        /\ r = row - row_offset + 1
        /\ c \in left .. left + width - 1
  BY <1>2 DEF Painted
<1>5. Covers(i, cell) <=>
        /\ text[i] # Newline /\ row = row_offset + r - 1
        /\ start <= col_offset + c /\ col_offset + c < start + width
  BY DEF Covers
<1> SUFFICES /\ Covers(i, cell) => cell \in Painted(i)
             /\ cell \in Painted(i) =>
                  /\ row = row_offset + r - 1 /\ start <= col_offset + c
                  /\ Covers(i, cell) \/ (text[i] = Tab /\ start < col_offset)
  OBVIOUS
<1> HIDE DEF row, start, width, r, c
<1>6. ASSUME Covers(i, cell) PROVE cell \in Painted(i)
  BY <1>1, <1>2, <1>3, <1>4, <1>5, <1>6
<1>7. ASSUME cell \in Painted(i)
      PROVE  /\ row = row_offset + r - 1 /\ start <= col_offset + c
             /\ Covers(i, cell) \/ (text[i] = Tab /\ start < col_offset)
  <2>1. row = row_offset + r - 1
    BY <1>1, <1>2, <1>4, <1>7
  <2>2. ASSUME start < col_offset
        PROVE  start <= col_offset + c /\ (Covers(i, cell) \/ text[i] = Tab)
    BY <1>1, <1>2, <1>3, <1>4, <1>5, <1>7, <2>1, <2>2
  <2>3. ASSUME start >= col_offset
        PROVE  start <= col_offset + c /\ Covers(i, cell)
    BY <1>1, <1>2, <1>3, <1>4, <1>5, <1>7, <2>1, <2>3
  <2> QED
    BY <1>1, <1>2, <2>1, <2>2, <2>3
<1> QED
  BY <1>6, <1>7

\* The last of the first n characters that is painted on the cell, or 0.
LastPainter(n, cell) ==
  CHOOSE k \in 0 .. n :
    /\ k = 0 \/ cell \in Painted(k)
    /\ \A j \in k + 1 .. n : cell \notin Painted(j)

LEMMA LastPainterProperties ==
  ASSUME NEW n \in Nat, NEW cell
  PROVE  /\ LastPainter(n, cell) \in 0 .. n
         /\ LastPainter(n, cell) = 0 \/ cell \in Painted(LastPainter(n, cell))
         /\ \A j \in LastPainter(n, cell) + 1 .. n : cell \notin Painted(j)
<1> DEFINE Stops(k)  == k = 0 \/ cell \in Painted(k)
           distances == {d \in 0 .. n : Stops(n - d)}
<1>1. distances \subseteq Nat /\ n \in distances
  OBVIOUS
<1> HIDE DEF distances
<1>2. PICK d \in distances : \A c \in distances : d <= c
  BY <1>1, LeastNatural
<1>3. d \in 0 .. n /\ n - d \in 0 .. n /\ Stops(n - d)
  BY DEF distances
<1>4. ASSUME NEW j \in n - d + 1 .. n
      PROVE  cell \notin Painted(j)
  <2>1. n - j \in 0 .. n /\ ~ (d <= n - j) /\ n - (n - j) = j
    BY <1>3
  <2>2. n - j \notin distances
    BY <1>2, <2>1
  <2> QED
    BY <2>1, <2>2 DEF distances
<1>5. \E k \in 0 .. n : Stops(k) /\ \A j \in k + 1 .. n : cell \notin Painted(j)
  BY <1>3, <1>4
<1> QED
  BY <1>5 DEF LastPainter

\* There is one such character.
LEMMA LastPainterIs ==
  ASSUME NEW n \in Nat, NEW cell, NEW k \in 0 .. n, k = 0 \/ cell \in Painted(k),
         \A j \in k + 1 .. n : cell \notin Painted(j)
  PROVE  LastPainter(n, cell) = k
<1> DEFINE l == LastPainter(n, cell)
<1>1. /\ l \in 0 .. n /\ (l = 0 \/ cell \in Painted(l))
      /\ \A j \in l + 1 .. n : cell \notin Painted(j)
  BY LastPainterProperties
<1> HIDE DEF l
<1>2. ~ (l < k)
  <2> SUFFICES ASSUME l < k PROVE FALSE
    OBVIOUS
  <2>1. k \in l + 1 .. n /\ k # 0
    BY <1>1
  <2> QED
    BY <1>1, <2>1
<1>3. ~ (k < l)
  <2> SUFFICES ASSUME k < l PROVE FALSE
    OBVIOUS
  <2>1. l \in k + 1 .. n /\ l # 0
    BY <1>1
  <2> QED
    BY <1>1, <2>1
<1>4. l = k
  BY <1>1, <1>2, <1>3
<1> QED
  BY <1>4 DEF l

\* The loop leaves in each cell the last character that was painted on it.
LEMMA ScreenIsLastPainted ==
  ASSUME text \in Seq(Char), NEW cell \in Cells
  PROVE  Screen[cell] = IF LastPainter(Len(text), cell) = 0 THEN Blank
                        ELSE Glyph(text[LastPainter(Len(text), cell)])
<1> DEFINE n == Len(text)
           Looped(p) ==
             p = [i \in 0 .. n |->
                    IF i = 0 THEN [c \in Cells |-> Blank]
                    ELSE [c \in Cells |->
                            IF c \in Painted(i) THEN Glyph(text[i]) ELSE p[i - 1][c]]]
           At(i, c) == IF LastPainter(i, c) = 0 THEN Blank ELSE Glyph(text[LastPainter(i, c)])
           last == [i \in 0 .. n |-> [c \in Cells |-> At(i, c)]]
<1>1. n \in Nat
  OBVIOUS
<1>2. ASSUME NEW i \in 1 .. n, NEW c \in Cells
      PROVE  At(i, c) = IF c \in Painted(i) THEN Glyph(text[i]) ELSE At(i - 1, c)
  <2>1. i \in Nat /\ i - 1 \in Nat /\ i # 0
    OBVIOUS
  <2>2. CASE c \in Painted(i)
    <3>1. i \in 0 .. i /\ \A j \in i + 1 .. i : c \notin Painted(j)
      BY <2>1
    <3>2. LastPainter(i, c) = i
      BY <2>1, <2>2, <3>1, LastPainterIs
    <3> QED
      BY <2>1, <2>2, <3>2
  <2>3. CASE c \notin Painted(i)
    <3>1. /\ LastPainter(i - 1, c) \in 0 .. i - 1
          /\ LastPainter(i - 1, c) = 0 \/ c \in Painted(LastPainter(i - 1, c))
          /\ \A j \in LastPainter(i - 1, c) + 1 .. i - 1 : c \notin Painted(j)
      BY <2>1, LastPainterProperties
    <3>2. \A j \in LastPainter(i - 1, c) + 1 .. i : c \notin Painted(j)
      <4>1. \A j \in LastPainter(i - 1, c) + 1 .. i :
              j = i \/ j \in LastPainter(i - 1, c) + 1 .. i - 1
        BY <2>1, <3>1
      <4> QED
        BY <2>3, <3>1, <4>1
    <3>3. LastPainter(i - 1, c) \in 0 .. i
      BY <2>1, <3>1
    <3>4. LastPainter(i, c) = LastPainter(i - 1, c)
      BY <2>1, <3>1, <3>2, <3>3, LastPainterIs
    <3> QED
      BY <2>3, <3>4
  <2> QED
    BY <2>2, <2>3
<1>3. ASSUME NEW c \in Cells PROVE At(0, c) = Blank
  BY LastPainterProperties
<1> HIDE DEF At
<1>4. Looped(last)
  <2>1. ASSUME NEW i \in 0 .. n
        PROVE  last[i] = IF i = 0 THEN [c \in Cells |-> Blank]
                         ELSE [c \in Cells |-> IF c \in Painted(i) THEN Glyph(text[i])
                                               ELSE last[i - 1][c]]
    <3>1. CASE i = 0
      BY <1>3, <3>1
    <3>2. CASE i # 0
      <4>1. i \in 1 .. n /\ i - 1 \in 0 .. n
        BY <1>1, <3>2
      <4>2. \A c \in Cells : last[i - 1][c] = At(i - 1, c)
        BY <4>1
      <4>3. last[i] = [c \in Cells |-> At(i, c)]
        OBVIOUS
      <4>4. \A c \in Cells : At(i, c) = IF c \in Painted(i) THEN Glyph(text[i])
                                        ELSE last[i - 1][c]
        BY <1>2, <4>1, <4>2
      <4> HIDE DEF last
      <4> QED
        BY <3>2, <4>3, <4>4
    <3> QED
      BY <3>1, <3>2
  <2> QED
    BY <2>1
<1>5. ASSUME NEW p, Looped(p)
      PROVE  p[n] = last[n]
  <2> DEFINE wrong == {i \in 0 .. n : p[i] # last[i]}
  <2>1. ASSUME wrong # {} PROVE FALSE
    <3>1. wrong \subseteq Nat
      BY <1>1
    <3>2. PICK m \in wrong : \A i \in wrong : m <= i
      BY <2>1, <3>1, LeastNatural
    <3>3. m \in 0 .. n /\ p[m] # last[m]
      OBVIOUS
    <3> HIDE DEF n
    <3> DEFINE next(q) == [c \in Cells |-> IF c \in Painted(m) THEN Glyph(text[m]) ELSE q[c]]
    <3>4. m # 0
      <4> HIDE DEF last
      <4> QED
        BY <1>4, <1>5, <3>3
    <3>5. m - 1 \in 0 .. n /\ p[m - 1] = last[m - 1]
      <4> HIDE DEF last
      <4> QED
        BY <1>1, <3>2, <3>3, <3>4
    <3>6. p[m] = next(p[m - 1])
      BY <1>5, <3>3, <3>4
    <3>7. last[m] = next(last[m - 1])
      <4> HIDE DEF last
      <4> QED
        BY <1>4, <3>3, <3>4
    <3> HIDE DEF last, wrong, next
    <3> QED
      BY <3>3, <3>5, <3>6, <3>7
  <2> QED
    BY <1>1, <2>1
<1>6. Looped(CHOOSE p : Looped(p))
  BY <1>4
<1>7. (CHOOSE p : Looped(p))[n] = last[n]
  BY <1>5, <1>6
<1>8. Screen = (CHOOSE p : Looped(p))[n]
  BY DEF Screen
<1>9. last[n][cell] = At(n, cell)
  BY <1>1
<1> QED
  BY <1>7, <1>8, <1>9 DEF At

\* Every cell of the text area shows the character that covers its place, or
\* is blank: for every text, with tabs of any width cut by any edge.
THEOREM ScreenAlwaysShowsText == ScreenSpec => []ScreenShowsText
<1>1. ScreenInv => ScreenShowsText
  <2> SUFFICES ASSUME ScreenInv, NEW cell \in Cells
               PROVE  LET covering == {i \in 1 .. Len(text) : Covers(i, cell)}
                      IN  Screen[cell] = IF covering = {} THEN Blank
                                         ELSE Glyph(text[CHOOSE i \in covering : TRUE])
    BY DEF ScreenShowsText, Covers
  <2> DEFINE covering == {i \in 1 .. Len(text) : Covers(i, cell)}
             last     == LastPainter(Len(text), cell)
  <2>1. /\ text \in Seq(Char) /\ Len(text) \in Nat
        /\ cell[2] \in Nat /\ col_offset \in Nat
    BY DEF ScreenInv, TypeOK, Cells
  <2>2. /\ last \in 0 .. Len(text) /\ (last = 0 \/ cell \in Painted(last))
        /\ \A j \in last + 1 .. Len(text) : cell \notin Painted(j)
    BY <2>1, LastPainterProperties
  <2>3. Screen[cell] = IF last = 0 THEN Blank ELSE Glyph(text[last])
    BY <2>1, ScreenIsLastPainted
  <2> HIDE DEF last
  <2>4. ASSUME NEW i \in covering PROVE i = last
    <3>1. i \in 1 .. Len(text) /\ Covers(i, cell) /\ cell \in Painted(i)
      BY PaintedCells
    <3>2. i <= last /\ last \in 1 .. Len(text) /\ cell \in Painted(last)
      BY <2>1, <2>2, <3>1
    <3>3. ASSUME i < last PROVE FALSE
      <4>1. RowOf(last - 1) = RowOf(i - 1) /\ ColumnOf(last - 1) <= col_offset + cell[2]
        BY <3>1, <3>2, PaintedCells DEF Covers
      <4>2. last \in i + 1 .. Len(text)
        BY <3>1, <3>2, <3>3
      <4>3. ColumnOf(i - 1) + Width(text[i]) <= ColumnOf(last - 1)
        BY <2>1, <3>1, <4>1, <4>2, ColumnsGrow
      <4>4. /\ ColumnOf(i - 1) \in Nat /\ ColumnOf(last - 1) \in Nat
            /\ Width(text[i]) \in Nat
        <5>1. i - 1 \in 0 .. Len(text) /\ last - 1 \in 0 .. Len(text)
          BY <2>1, <3>1, <3>2
        <5> QED
          BY <2>1, <5>1, CountsAreNatural, ViewportAssumption DEF Width
      <4> QED
        BY <2>1, <3>1, <4>1, <4>3, <4>4 DEF Covers
    <3> QED
      BY <3>1, <3>2, <3>3
  <2>5. CASE covering = {}
    <3>1. CASE last = 0
      BY <2>3, <2>5, <3>1
    <3>2. CASE last # 0
      <4>1. last \in 1 .. Len(text) /\ ~ Covers(last, cell) /\ cell \in Painted(last)
        BY <2>1, <2>2, <2>5, <3>2
      <4>2. text[last] = Tab
        BY <4>1, PaintedCells
      <4>3. Glyph(text[last]) = Blank
        BY <4>2, ViewportAssumption DEF Glyph
      <4> QED
        BY <2>3, <2>5, <3>2, <4>3
    <3> QED
      BY <3>1, <3>2
  <2>6. CASE covering # {}
    <3>1. (CHOOSE i \in covering : TRUE) \in covering
      BY <2>6
    <3>2. (CHOOSE i \in covering : TRUE) = last /\ last # 0
      BY <2>1, <2>4, <3>1
    <3> QED
      BY <2>3, <2>6, <3>2
  <2> QED
    BY <2>5, <2>6
<1> QED
  BY <1>1, ScreenInvariant, PTL
=============================================================================
