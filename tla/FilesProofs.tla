----------------------------- MODULE FilesProofs -----------------------------
(***************************************************************************)
(* Proofs about the users' side of the board: the line editor, the         *)
(* consoles and the file service.                                          *)
(*                                                                         *)
(* The editor writes its terminal without reading it back, so the          *)
(* invariant (ConInv) holds line, cursor and terminal together at every    *)
(* byte.  Moved says what one key may make of the editor; there is one     *)
(* lemma per operation that says it does, for every line, cursor, word     *)
(* list and directory.  The history is compared with the lines submitted   *)
(* by Distinct, a recursive function, whose values are reached through a   *)
(* least counterexample.                                                   *)
(*                                                                         *)
(* The file service reads a file in blocks while others rewrite it; its    *)
(* invariant (XferInv) says of each live handle which prefix of which      *)
(* content its replies are.                                                *)
(***************************************************************************)
EXTENDS MCFiles, RingArithmetic, SequenceTheorems, TLAPS

----------------------------------------------------------------------------
(* Texts, and what makes an editor a good one.                             *)

Text == Seq(Chars)
Lines == {l \in Text : Len(l) < LineMax}
Editors ==
    [line : Lines, cursor : Nat, history : Seq(Lines), position : Int, scratch : Lines,
     cut : Lines, esc : {"none", "started", "csi", "ss3"}, par : Seq(EscapeBytes), term : [row : Text, col : Nat]]

Good(e) ==
    /\ e \in Editors
    /\ e.cursor <= Len(e.line)
    /\ e.position \in -1 .. Len(e.history) - 1
Shown(e) == e.term = [row |-> <<Prompt>> \o e.line, col |-> e.cursor + 1]
\* While the history is browsed the line is the entry at its position.
Browses(e) == e.position >= 0 => e.line = e.history[e.position + 1]

\* What one key makes of the editor: what is shown is the line, and entering
\* the history sets the line aside.
Moved(e, n) ==
    /\ Good(n) /\ Shown(n) /\ Browses(n)
    /\ n.history = e.history
    /\ n.position >= 0 => n.scratch = IF e.position < 0 THEN e.line ELSE e.scratch

\* A part of a text is a text, letter for letter.
LEMMA SubText ==
    ASSUME NEW s \in Text, NEW m \in Nat \ {0}, NEW n \in Int, n <= Len(s)
    PROVE  /\ SubSeq(s, m, n) \in Text
           /\ Len(SubSeq(s, m, n)) = IF m <= n THEN n - m + 1 ELSE 0
           /\ \A i \in 1 .. n - m + 1 : SubSeq(s, m, n)[i] = s[m + i - 1]
<1>1. \A i \in m .. n : s[i] \in Chars
  BY DEF Text
<1> QED BY <1>1, SubSeqProperties DEF Text

\* Two texts joined.
LEMMA JoinText ==
    ASSUME NEW s \in Text, NEW t \in Text
    PROVE  /\ s \o t \in Text
           /\ Len(s \o t) = Len(s) + Len(t)
           /\ \A i \in 1 .. Len(s) + Len(t) : (s \o t)[i] = IF i <= Len(s) THEN s[i] ELSE t[i - Len(s)]
  BY ConcatProperties DEF Text

\* A letter is a text.
LEMMA OneChar == ASSUME NEW c \in Chars PROVE <<c>> \in Text /\ Len(<<c>>) = 1
  BY DEF Text

\* So is no letter.
LEMMA NoChar == <<>> \in Text /\ Len(<<>>) = 0
  BY DEF Text

\* Writing at the end of the row of the terminal appends to it.
LEMMA PutAtEnd ==
    ASSUME NEW r \in Text, NEW s \in Text
    PROVE  Put([row |-> r, col |-> Len(r)], s) = [row |-> r \o s, col |-> Len(r) + Len(s)]
<1>1. SubSeq(r, 1, Len(r)) = r
  BY SubSeqFull DEF Text
<1>2. SubSeq(r, Len(r) + Len(s) + 1, Len(r)) = <<>>
  <2>1. Len(r) \in Nat /\ Len(s) \in Nat
    BY DEF Text
  <2> QED BY <2>1, SubSeqEmpty
<1>3. (r \o s) \o <<>> = r \o s
  BY JoinText, ConcatEmptySeq DEF Text
<1> QED BY <1>1, <1>2, <1>3 DEF Put

\* The prompt and the blank are texts of one letter.
LEMMA Signs == /\ <<Prompt>> \in Text /\ Len(<<Prompt>>) = 1
               /\ <<Blank>> \in Text /\ Len(<<Blank>>) = 1
<1>1. Prompt \in Chars /\ Blank \in Chars
  BY LineEditorAssumption
<1> QED BY <1>1, OneChar

\* The prompt on an empty row.
LEMMA FreshPrompt == Put(Fresh, <<Prompt>>) = [row |-> <<Prompt>>, col |-> 1]
<1>1. Put([row |-> <<>>, col |-> Len(<<>>)], <<Prompt>>)
        = [row |-> <<>> \o <<Prompt>>, col |-> Len(<<>>) + Len(<<Prompt>>)]
  BY PutAtEnd, NoChar, Signs
<1>2. <<>> \o <<Prompt>> = <<Prompt>>
  BY ConcatEmptySeq, Signs DEF Text
<1> QED BY <1>1, <1>2, NoChar, Signs DEF Fresh

\* Moving the cursor of the terminal to the left, not beyond the edge.
LEMMA LeftIs ==
    ASSUME NEW r, NEW c \in Int, NEW n \in Int, c > n
    PROVE  Left([row |-> r, col |-> c], n) = [row |-> r, col |-> c - n]
  BY DEF Left

\* Changing the terminal changes nothing else of the editor.
LEMMA WithTerm ==
    ASSUME NEW e \in Editors, NEW r \in Text, NEW c \in Nat
    PROVE  LET n == [e EXCEPT !.term = [row |-> r, col |-> c]]
           IN  /\ n \in Editors /\ n.term = [row |-> r, col |-> c]
               /\ n.line = e.line /\ n.cursor = e.cursor /\ n.history = e.history
               /\ n.position = e.position /\ n.scratch = e.scratch
  BY DEF Editors

\* bvstk_line_editor_redraw leaves the prompt, the line and its cursor on the
\* terminal, whatever was there.
LEMMA Redrawn ==
    ASSUME NEW e, Good(e)
    PROVE  LET n == bvstk_line_editor_redraw(e)
           IN  /\ n = [e EXCEPT !.term = [row |-> <<Prompt>> \o e.line, col |-> e.cursor + 1]]
               /\ Good(n) /\ Shown(n)
<1> DEFINE t == [row |-> <<Prompt>>, col |-> 1]
           full == [row |-> <<Prompt>> \o e.line, col |-> 1 + Len(e.line)]
           n == bvstk_line_editor_redraw(e)
<1>0. e \in Editors /\ e.line \in Text /\ e.cursor \in 0 .. Len(e.line)
  BY DEF Good, Editors, Lines, Text
<1>1. ShowPrompt([e EXCEPT !.term = Fresh]).term = t
  <2>1. [e EXCEPT !.term = Fresh].term = Fresh
    BY <1>0 DEF Editors
  <2> QED BY <1>0, <2>1, FreshPrompt DEF ShowPrompt, Editors
<1>2. Put(t, e.line) = full
  <2> DEFINE p == <<Prompt>>
  <2>1. p \in Text /\ Len(p) = 1
    BY Signs
  <2> HIDE DEF p
  <2>2. Put([row |-> p, col |-> Len(p)], e.line) = [row |-> p \o e.line, col |-> Len(p) + Len(e.line)]
    BY <1>0, <2>1, PutAtEnd
  <2> QED BY <2>1, <2>2 DEF p
<1>3. Left(full, Len(e.line) - e.cursor) = [row |-> <<Prompt>> \o e.line, col |-> e.cursor + 1]
  <2>1. Len(e.line) \in Nat
    BY <1>0 DEF Text
  <2>2. 1 + Len(e.line) > Len(e.line) - e.cursor
        /\ 1 + Len(e.line) - (Len(e.line) - e.cursor) = e.cursor + 1
    BY <1>0, <2>1
  <2> DEFINE r == <<Prompt>> \o e.line
             c == 1 + Len(e.line)
             m == Len(e.line) - e.cursor
  <2>3. c \in Int /\ m \in Int /\ c > m /\ c - m = e.cursor + 1
    BY <1>0, <2>1, <2>2
  <2> HIDE DEF r, c, m
  <2>4. Left([row |-> r, col |-> c], m) = [row |-> r, col |-> c - m]
    BY <2>3, LeftIs
  <2> QED BY <2>3, <2>4 DEF r, c, m
<1>4. n = [e EXCEPT !.term = [row |-> <<Prompt>> \o e.line, col |-> e.cursor + 1]]
  BY <1>1, <1>2, <1>3 DEF bvstk_line_editor_redraw
<1>5. <<Prompt>> \o e.line \in Text
  BY <1>0, Signs, JoinText
<1> DEFINE r == <<Prompt>> \o e.line
           c == e.cursor + 1
<1>6. /\ n \in Editors /\ n.term = [row |-> r, col |-> c]
      /\ n.line = e.line /\ n.cursor = e.cursor /\ n.history = e.history
      /\ n.position = e.position /\ n.scratch = e.scratch
  <2>1. c \in Nat
    BY <1>0
  <2> HIDE DEF r, c, n
  <2>2. n = [e EXCEPT !.term = [row |-> r, col |-> c]] /\ r \in Text
    BY <1>4, <1>5 DEF r, c
  <2> QED BY <1>0, <2>1, <2>2, WithTerm
<1> HIDE DEF n
<1>7. n.term = [row |-> <<Prompt>> \o n.line, col |-> n.cursor + 1]
  BY <1>6
<1> QED BY <1>4, <1>6, <1>7 DEF Good, Shown, n

Steady(e) == Good(e) /\ Shown(e) /\ Browses(e)

\* What makes a record of the editor a good one.
LEMMA GoodParts ==
    ASSUME NEW e, Good(e)
    PROVE  /\ e \in Editors /\ e.line \in Text /\ e.line \in Lines
           /\ Len(e.line) \in Nat /\ Len(e.line) < LineMax /\ LineMax \in Nat
           /\ e.cursor \in 0 .. Len(e.line)
           /\ e.history \in Seq(Lines) /\ e.position \in -1 .. Len(e.history) - 1
           /\ e.cut \in Lines /\ e.scratch \in Lines /\ Len(e.history) \in Nat
  BY LineEditorAssumption DEF Good, Editors, Lines, Text

\* A change within the bounds leaves a good editor good.
LEMMA WithLine ==
    ASSUME NEW e, Good(e), NEW n \in Editors,
           n.line \in Lines, n.cursor \in 0 .. Len(n.line),
           n.history = e.history, n.position = e.position \/ n.position = -1
    PROVE  Good(n)
<1>1. Len(e.history) \in Nat /\ e.position \in -1 .. Len(e.history) - 1
  BY GoodParts
<1> QED BY <1>1 DEF Good

\* A redraw after any change of line, cursor and position shows them.
LEMMA RedrawnLine ==
    ASSUME NEW e, Good(e)
    PROVE  LET n == bvstk_line_editor_redraw(e)
           IN  /\ Good(n) /\ Shown(n) /\ n.line = e.line /\ n.cursor = e.cursor
               /\ n.history = e.history /\ n.position = e.position /\ n.scratch = e.scratch
<1> DEFINE n == bvstk_line_editor_redraw(e)
           r == <<Prompt>> \o e.line
           c == e.cursor + 1
<1>1. n = [e EXCEPT !.term = [row |-> r, col |-> c]] /\ Good(n) /\ Shown(n)
  BY Redrawn
<1>2. e \in Editors
  BY DEF Good
<1> HIDE DEF n, r, c
<1>3. /\ n.line = e.line /\ n.cursor = e.cursor
      /\ n.history = e.history /\ n.position = e.position /\ n.scratch = e.scratch
  BY <1>1, <1>2 DEF Editors
<1> QED BY <1>1, <1>3 DEF n

\* A redraw after an edit shows the new line, and the history is left.
LEMMA RedoneLine ==
    ASSUME NEW e, Good(e), NEW l \in Lines, NEW c \in 0 .. Len(l)
    PROVE  LET n == Redone(e, l, c)
           IN  Moved(e, n) /\ n.line = l /\ n.cursor = c /\ n.position = -1
<1> DEFINE p == -1
           m == [e EXCEPT !.line = l, !.cursor = c, !.position = p]
           n == bvstk_line_editor_redraw(m)
<1>1. e \in Editors /\ c \in Nat /\ p \in Int
  BY GoodParts
<1>2. Redone(e, l, c) = n
  BY <1>1 DEF Redone, bvstk_line_editor_mark_edited, bvstk_line_editor_set_state, Editors
<1> HIDE DEF p
<1>3. m \in Editors /\ m.line = l /\ m.cursor = c /\ m.position = p /\ m.history = e.history
  BY <1>1 DEF Editors
<1> HIDE DEF m
<1>4. Good(m)
  BY <1>3, WithLine DEF p
<1>5. Good(n) /\ Shown(n) /\ n.line = l /\ n.cursor = c /\ n.position = p /\ n.history = e.history
  BY <1>3, <1>4, RedrawnLine
<1> HIDE DEF n
<1>6. ~(p >= 0)
  BY DEF p
<1>7. Moved(e, n)
  BY <1>5, <1>6 DEF Moved, Browses
<1> QED BY <1>2, <1>5, <1>7 DEF p

\* What stays as it is has moved nowhere.
LEMMA StaysMoved == ASSUME NEW e, Steady(e) PROVE Moved(e, e)
<1>1. e.position \in Int
  BY GoodParts DEF Steady
<1> QED BY <1>1 DEF Steady, Moved

\* One more redraw changes nothing that matters.
LEMMA RedrawMoved ==
    ASSUME NEW e, NEW m, Moved(e, m)
    PROVE  Moved(e, bvstk_line_editor_redraw(m))
<1> DEFINE n == bvstk_line_editor_redraw(m)
<1>1. Good(m) /\ Browses(m)
  BY DEF Moved
<1>2. Good(n) /\ Shown(n) /\ n.line = m.line
      /\ n.history = m.history /\ n.position = m.position /\ n.scratch = m.scratch
  BY <1>1, RedrawnLine
<1> HIDE DEF n
<1>3. Browses(n)
  BY <1>1, <1>2 DEF Browses
<1>4. n.history = e.history /\ (n.position >= 0 => n.scratch = IF e.position < 0 THEN e.line ELSE e.scratch)
  BY <1>2 DEF Moved
<1> QED BY <1>2, <1>3, <1>4 DEF Moved, n

\* Home and End.
LEMMA HomeEndMoved ==
    ASSUME NEW e, Steady(e)
    PROVE  Moved(e, Home(e)) /\ Moved(e, End(e))
<1>1. ASSUME NEW c \in 0 .. Len(e.line)
      PROVE  Moved(e, bvstk_line_editor_redraw([e EXCEPT !.cursor = c]))
  <2> DEFINE m == [e EXCEPT !.cursor = c]
             n == bvstk_line_editor_redraw(m)
  <2>1. e \in Editors /\ Good(e) /\ Browses(e) /\ c \in Nat
    BY GoodParts DEF Steady
  <2>2. m \in Editors /\ m.cursor = c /\ m.line = e.line /\ m.history = e.history
        /\ m.position = e.position /\ m.scratch = e.scratch
    BY <2>1 DEF Editors
  <2> HIDE DEF m
  <2>3. Good(m)
    BY <2>1, <2>2 DEF Good
  <2>4. Good(n) /\ Shown(n) /\ n.line = e.line /\ n.history = e.history
        /\ n.position = e.position /\ n.scratch = e.scratch
    BY <2>2, <2>3, RedrawnLine
  <2> HIDE DEF n
  <2>5. Browses(n) /\ e.position \in Int
    BY <2>1, <2>4, GoodParts DEF Browses
  <2> QED BY <2>4, <2>5 DEF Moved, n, m
<1>2. 0 \in 0 .. Len(e.line) /\ Len(e.line) \in 0 .. Len(e.line)
  BY GoodParts DEF Steady
<1> QED BY <1>1, <1>2 DEF Home, End

----------------------------------------------------------------------------
(* Moves.                                                                 *)

\* A set of numbers up to n has a greatest.
LEMMA LastExists ==
    ASSUME NEW n \in Nat, NEW S, S \subseteq 0 .. n, S # {}
    PROVE  \E x \in S : \A y \in S : y <= x
<1> DEFINE T == {n - x : x \in S}
<1>1. T \subseteq Nat /\ T # {}
  <2>1. \A x \in S : x \in Int /\ x <= n
    OBVIOUS
  <2>2. \A x \in S : n - x \in Nat
    BY <2>1
  <2> QED BY <2>2
<1>2. PICK a \in T : \A b \in T : a <= b
  <2> HIDE DEF T
  <2> QED BY <1>1, FirstExists
<1>3. PICK x \in S : a = n - x
  BY <1>2
<1>4. ASSUME NEW y \in S PROVE y <= x
  <2>1. n - y \in T
    OBVIOUS
  <2>2. a <= n - y /\ x \in Int /\ y \in Int
    <3> HIDE DEF T
    <3> QED BY <1>2, <2>1
  <2>3. n - x <= n - y
    BY <1>3, <2>2
  <2> QED BY <2>2, <2>3
<1> QED BY <1>4

\* The start of the word before the cursor is before the cursor.
LEMMA WordStarts ==
    ASSUME NEW e, Good(e), e.cursor > 0
    PROVE  WordStart(e) \in 0 .. e.cursor - 1
<1> DEFINE starts == {i \in 0..e.cursor - 1 : ~ IsBlank(e, i + 1) /\ (i = 0 \/ IsBlank(e, i))}
           w == CHOOSE i \in starts : \A j \in starts : j <= i
<1>1. e.cursor - 1 \in Nat
  BY GoodParts
<1>2. starts \subseteq 0 .. e.cursor - 1
  OBVIOUS
<1>3. WordStart(e) = IF starts = {} THEN 0 ELSE w
  BY DEF WordStart
<1> HIDE DEF starts
<1>4. starts # {} => w \in starts
  <2>1. starts # {} => \E i \in starts : \A j \in starts : j <= i
    BY <1>1, <1>2, LastExists
  <2> QED BY <2>1
<1> HIDE DEF w
<1>5. starts = {} => WordStart(e) = 0
  BY <1>3
<1>6. starts # {} => WordStart(e) \in 0 .. e.cursor - 1
  BY <1>2, <1>3, <1>4
<1> QED BY <1>1, <1>5, <1>6

\* The next word begins and ends behind the cursor, at the latest with the line.
LEMMA WordEnds ==
    ASSUME NEW e, Good(e), e.cursor < Len(e.line)
    PROVE  NextStart(e) \in e.cursor + 1 .. Len(e.line) /\ WordEnd(e) \in e.cursor + 1 .. Len(e.line)
<1> DEFINE starts == {i \in e.cursor + 1..Len(e.line) - 1 : IsBlank(e, i) /\ ~ IsBlank(e, i + 1)}
           ends == {i \in e.cursor + 1..Len(e.line) - 1 : ~ IsBlank(e, i) /\ IsBlank(e, i + 1)}
           v == CHOOSE i \in starts : \A j \in starts : i <= j
           w == CHOOSE i \in ends : \A j \in ends : i <= j
<1>1. e.cursor \in Nat /\ Len(e.line) \in Nat
  BY GoodParts
<1>2. starts \subseteq e.cursor + 1 .. Len(e.line) /\ ends \subseteq e.cursor + 1 .. Len(e.line)
      /\ starts \subseteq Nat /\ ends \subseteq Nat
  BY <1>1
<1>3. /\ NextStart(e) = IF starts = {} THEN Len(e.line) ELSE v
      /\ WordEnd(e) = IF ends = {} THEN Len(e.line) ELSE w
  BY DEF NextStart, WordEnd
<1> HIDE DEF starts, ends
<1>4. (starts # {} => v \in starts) /\ (ends # {} => w \in ends)
  <2>1. /\ starts # {} => \E i \in starts : \A j \in starts : i <= j
        /\ ends # {} => \E i \in ends : \A j \in ends : i <= j
    BY <1>2, FirstExists
  <2> QED BY <2>1
<1> HIDE DEF v, w
<1>5. Len(e.line) \in e.cursor + 1 .. Len(e.line)
  BY <1>1
<1>6. NextStart(e) \in e.cursor + 1 .. Len(e.line)
  BY <1>2, <1>3, <1>4, <1>5
<1>7. WordEnd(e) \in e.cursor + 1 .. Len(e.line)
  BY <1>2, <1>3, <1>4, <1>5
<1> QED BY <1>6, <1>7

\* A move shifts the cursor of the terminal with that of the editor.
LEMMA CursorMoved ==
    ASSUME NEW e, Steady(e), NEW n, NEW c \in 0 .. Len(e.line),
           n = [e EXCEPT !.cursor = c, !.term = [row |-> e.term.row, col |-> c + 1]]
    PROVE  Moved(e, n)
<1> DEFINE row == <<Prompt>> \o e.line
           col == c + 1
<1>1. e \in Editors /\ c \in Nat /\ e.position \in Int /\ Good(e) /\ Browses(e)
  BY GoodParts DEF Steady
<1>2. e.term.row = row
  BY DEF Steady, Shown
<1>3. n = [e EXCEPT !.cursor = c, !.term = [row |-> row, col |-> col]]
  BY <1>2
<1>4. row \in Text /\ col \in Nat
  BY <1>1, Signs, JoinText, GoodParts
<1> HIDE DEF row, col
<1> DEFINE t == [row |-> row, col |-> col]
<1>9. t \in [row : Text, col : Nat]
  BY <1>4
<1>10. n = [e EXCEPT !.cursor = c, !.term = t]
  BY <1>3
<1> HIDE DEF t
<1>5. /\ n \in Editors /\ n.term = t
      /\ n.line = e.line /\ n.cursor = c /\ n.history = e.history
      /\ n.position = e.position /\ n.scratch = e.scratch
  BY <1>1, <1>9, <1>10 DEF Editors
<1>6. Good(n)
  BY <1>1, <1>5, WithLine, GoodParts
<1>7. Shown(n)
  BY <1>5 DEF Shown, t, row, col
<1>8. Browses(n)
  BY <1>1, <1>5 DEF Browses
<1> QED BY <1>1, <1>5, <1>6, <1>7, <1>8 DEF Moved

\* The moves by a letter and by a word.
LEMMA MovesMoved ==
    ASSUME NEW e, Steady(e), NEW word \in BOOLEAN
    PROVE  Moved(e, editor_move_left(e, word)) /\ Moved(e, editor_move_right(e, word))
<1>1. Good(e) /\ e \in Editors /\ e.cursor \in 0 .. Len(e.line) /\ Len(e.line) \in Nat
  BY GoodParts DEF Steady
<1> DEFINE r == e.term.row
<1>2. e.term = [row |-> r, col |-> e.cursor + 1]
  BY DEF Steady, Shown
<1>3. ASSUME e.cursor > 0 PROVE Moved(e, editor_move_left(e, word))
  <2> DEFINE to == IF word THEN WordStart(e) ELSE e.cursor - 1
             k == e.cursor - to
             c == e.cursor + 1
  <2>1. to \in 0 .. e.cursor - 1
    BY <1>1, <1>3, WordStarts
  <2>2. editor_move_left(e, word) = [e EXCEPT !.cursor = to, !.term = Left(e.term, k)]
    BY <1>1, <1>3 DEF editor_move_left, Editors
  <2> HIDE DEF to, r
  <2>3. c \in Int /\ k \in Int /\ c > k /\ c - k = to + 1
    BY <1>1, <2>1
  <2> HIDE DEF c, k
  <2>4. Left([row |-> r, col |-> c], k) = [row |-> r, col |-> c - k]
    BY <2>3, LeftIs
  <2>5. Left(e.term, k) = [row |-> r, col |-> to + 1]
    BY <1>2, <2>3, <2>4 DEF c
  <2>6. to \in 0 .. Len(e.line)
    BY <1>1, <2>1
  <2> QED BY <2>2, <2>5, <2>6, CursorMoved DEF r
<1>4. ASSUME e.cursor < Len(e.line) PROVE Moved(e, editor_move_right(e, word))
  <2> DEFINE to == IF word THEN NextStart(e) ELSE e.cursor + 1
             k == to - e.cursor
  <2>1. to \in e.cursor + 1 .. Len(e.line)
    BY <1>1, <1>4, WordEnds
  <2>2. editor_move_right(e, word) = [e EXCEPT !.cursor = to, !.term = Right(e.term, k)]
    BY <1>1, <1>4 DEF editor_move_right, Editors
  <2> HIDE DEF to, r
  <2>3. e.cursor + 1 + k = to + 1 /\ to \in 0 .. Len(e.line)
    BY <1>1, <2>1
  <2>5. Right(e.term, k) = [row |-> r, col |-> to + 1]
    BY <1>2, <2>3 DEF Right
  <2> QED BY <2>2, <2>3, <2>5, CursorMoved DEF r
<1>5. e.cursor = 0 => editor_move_left(e, word) = e
  BY DEF editor_move_left
<1>6. ~(e.cursor < Len(e.line)) => editor_move_right(e, word) = e
  BY <1>1 DEF editor_move_right
<1> QED BY <1>1, <1>3, <1>4, <1>5, <1>6, StaysMoved

----------------------------------------------------------------------------
(* Edits and the history.                                                 *)

\* The line is what is before the cursor and what is after it.
LEMMA LineParts ==
    ASSUME NEW e, Good(e)
    PROVE  /\ Before(e) \in Text /\ Len(Before(e)) = e.cursor
           /\ After(e) \in Text /\ Len(After(e)) = Len(e.line) - e.cursor
           /\ Before(e) \o After(e) = e.line
<1> DEFINE l == e.line
           c == e.cursor
<1>1. l \in Text /\ c \in 0 .. Len(l) /\ Len(l) \in Nat
  BY GoodParts
<1>2. SubSeq(l, 1, c) \in Text /\ Len(SubSeq(l, 1, c)) = c
  BY <1>1, SubText
<1>3. SubSeq(l, c + 1, Len(l)) \in Text /\ Len(SubSeq(l, c + 1, Len(l))) = Len(l) - c
  <2>1. c + 1 \in Nat \ {0} /\ Len(l) \in Int
    BY <1>1
  <2> QED BY <1>1, <2>1, SubText
<1>4. SubSeq(l, 1, c) \o SubSeq(l, c + 1, Len(l)) = l
  <2>1. SubSeq(l, 1, c) \o SubSeq(l, c + 1, Len(l)) = SubSeq(l, 1, Len(l))
    <3>1. 1 \in 1 .. Len(l) + 1 /\ c \in 1 - 1 .. Len(l) /\ Len(l) \in c .. Len(l)
      BY <1>1
    <3> QED BY <1>1, <3>1, ConcatAdjacentSubSeq DEF Text
  <2> QED BY <1>1, <2>1, SubSeqFull DEF Text
<1> QED BY <1>2, <1>3, <1>4 DEF Before, After

\* What editing makes of the line fits the buffer.
LEMMA JoinFits ==
    ASSUME NEW s \in Text, NEW t \in Text, Len(s) + Len(t) < LineMax
    PROVE  s \o t \in Lines /\ Len(s \o t) = Len(s) + Len(t)
  BY JoinText DEF Lines

\* Backspace.
LEMMA BackspaceMoved == ASSUME NEW e, Steady(e) PROVE Moved(e, editor_backspace(e))
<1>1. Good(e) /\ e.cursor \in 0 .. Len(e.line) /\ Len(e.line) \in Nat /\ Len(e.line) < LineMax
  BY GoodParts DEF Steady
<1>2. CASE e.cursor = 0
  BY <1>2, StaysMoved DEF editor_backspace
<1>3. CASE e.cursor # 0
  <2> DEFINE f == Front(Before(e))
             c == e.cursor - 1
  <2>1. f \in Text /\ Len(f) = c
    <3> DEFINE b == Before(e)
    <3>1. b \in Text /\ Len(b) = e.cursor
      BY <1>1, LineParts
    <3>2. Len(b) - 1 = c /\ c \in Int /\ c <= Len(b) /\ c \in Nat
      BY <1>1, <1>3, <3>1
    <3>3. f = SubSeq(b, 1, c)
      BY <3>2 DEF Front
    <3> HIDE DEF b, c, f
    <3>4. SubSeq(b, 1, c) \in Text /\ Len(SubSeq(b, 1, c)) = IF 1 <= c THEN c - 1 + 1 ELSE 0
      BY <3>1, <3>2, SubText
    <3>5. Len(SubSeq(b, 1, c)) = c
      BY <3>2, <3>4
    <3> QED BY <3>3, <3>4, <3>5
  <2> HIDE DEF f
  <2>2. f \o After(e) \in Lines /\ Len(f \o After(e)) = Len(e.line) - 1
    <3>1. After(e) \in Text /\ Len(After(e)) = Len(e.line) - e.cursor
      BY <1>1, LineParts
    <3>2. Len(f) + Len(After(e)) = Len(e.line) - 1 /\ Len(f) + Len(After(e)) < LineMax
      BY <1>1, <2>1, <3>1, GoodParts
    <3> QED BY <2>1, <3>1, <3>2, JoinFits
  <2>3. c \in 0 .. Len(f \o After(e))
    BY <1>1, <1>3, <2>2
  <2>4. editor_backspace(e) = Redone(e, f \o After(e), c)
    BY <1>3 DEF editor_backspace, f
  <2> DEFINE l == f \o After(e)
  <2>5. l \in Lines /\ c \in 0 .. Len(l) /\ editor_backspace(e) = Redone(e, l, c)
    BY <2>2, <2>3, <2>4
  <2> HIDE DEF c, l
  <2> QED BY <1>1, <2>5, RedoneLine
<1> QED BY <1>2, <1>3

\* Delete.
LEMMA DeleteMoved == ASSUME NEW e, Steady(e) PROVE Moved(e, editor_delete(e))
<1>1. Good(e) /\ e.cursor \in 0 .. Len(e.line) /\ Len(e.line) \in Nat /\ Len(e.line) < LineMax
  BY GoodParts DEF Steady
<1>2. CASE After(e) = <<>>
  BY <1>2, StaysMoved DEF editor_delete
<1>3. CASE After(e) # <<>>
  <2> DEFINE f == Tail(After(e))
  <2>1. f \in Text /\ Len(f) = Len(e.line) - e.cursor - 1
    BY <1>1, <1>3, LineParts, HeadTailProperties DEF Text
  <2> HIDE DEF f
  <2>2. Before(e) \o f \in Lines /\ Len(Before(e) \o f) = Len(e.line) - 1
    <3>1. Before(e) \in Text /\ Len(Before(e)) = e.cursor
      BY <1>1, LineParts
    <3>2. Len(Before(e)) + Len(f) = Len(e.line) - 1 /\ Len(Before(e)) + Len(f) < LineMax
      BY <1>1, <2>1, <3>1, GoodParts
    <3> QED BY <2>1, <3>1, <3>2, JoinFits
  <2>3. e.cursor \in 0 .. Len(Before(e) \o f)
    <3>1. Len(f) \in Nat
      BY <2>1 DEF Text
    <3> QED BY <1>1, <2>1, <2>2, <3>1
  <2> QED BY <1>1, <1>3, <2>2, <2>3, RedoneLine DEF editor_delete, f
<1> QED BY <1>2, <1>3

\* Cutting a part of the line.
LEMMA CutMoved ==
    ASSUME NEW e, Steady(e), NEW start \in 0 .. Len(e.line), NEW end \in 0 .. Len(e.line)
    PROVE  Moved(e, editor_cut_range(e, start, end))
<1> DEFINE l == e.line
           cut == SubSeq(l, start + 1, end)
           m == [e EXCEPT !.cut = cut]
           new == SubSeq(l, 1, start) \o SubSeq(l, end + 1, Len(l))
<1>1. Good(e) /\ e \in Editors /\ l \in Text /\ Len(l) \in Nat /\ Len(l) < LineMax /\ LineMax \in Nat
  BY GoodParts DEF Steady
<1>2. CASE start >= end
  BY <1>2, StaysMoved DEF editor_cut_range
<1>3. CASE start < end
  <2>1. /\ cut \in Text /\ Len(cut) = end - start
        /\ SubSeq(l, 1, start) \in Text /\ Len(SubSeq(l, 1, start)) = start
        /\ SubSeq(l, end + 1, Len(l)) \in Text /\ Len(SubSeq(l, end + 1, Len(l))) = Len(l) - end
    <3>1. /\ start + 1 \in Nat \ {0} /\ end + 1 \in Nat \ {0} /\ end \in Int /\ start \in Int
          /\ end <= Len(l) /\ start <= Len(l) /\ Len(l) \in Int
      BY <1>1
    <3> HIDE DEF l
    <3> QED BY <1>1, <1>3, <3>1, SubText
  <2>2. cut \in Lines
    BY <1>1, <2>1 DEF Lines
  <2>3. new \in Lines /\ Len(new) = start + (Len(l) - end)
    <3>1. start + (Len(l) - end) < LineMax
      BY <1>1, <1>3
    <3> QED BY <2>1, <3>1, JoinFits
  <2> HIDE DEF cut, new
  <2>4. /\ m \in Editors /\ m.line = l /\ m.cursor = e.cursor /\ m.history = e.history
        /\ m.position = e.position
    BY <1>1, <2>2 DEF Editors
  <2> HIDE DEF m
  <2>5. Good(m)
    BY <1>1, <2>4, GoodParts, WithLine
  <2>6. start \in 0 .. Len(new)
    BY <1>1, <2>3
  <2>7. Moved(m, Redone(m, new, start)) /\ Redone(m, new, start).position = -1
    BY <2>3, <2>5, <2>6, RedoneLine
  <2>8. editor_cut_range(e, start, end) = Redone(m, new, start)
    BY <1>1, <1>3 DEF editor_cut_range, m, cut, new
  <2> DEFINE n == Redone(m, new, start)
  <2> HIDE DEF n
  <2>9. Moved(e, n)
    BY <2>4, <2>7 DEF Moved, n
  <2> QED BY <2>8, <2>9 DEF n
<1>4. start \in Int /\ end \in Int
  OBVIOUS
<1> QED BY <1>2, <1>3, <1>4

\* Pasting what was cut, where it fits.
LEMMA PasteMoved == ASSUME NEW e, Steady(e) PROVE Moved(e, editor_paste_cut_buffer(e))
<1>1. Good(e) /\ e.cursor \in 0 .. Len(e.line) /\ Len(e.line) \in Nat /\ Len(e.line) < LineMax
      /\ e.cut \in Text /\ Len(e.cut) \in Nat /\ LineMax \in Nat
  <2>1. e.cut \in Lines
    BY GoodParts DEF Steady
  <2>2. e.cut \in Text
    BY <2>1 DEF Lines
  <2>3. Len(e.cut) \in Nat
    BY <2>2 DEF Text
  <2> QED BY <2>2, <2>3, GoodParts DEF Steady
<1>2. CASE e.cut = <<>> \/ Len(e.line) + Len(e.cut) >= LineMax
  BY <1>2, StaysMoved DEF editor_paste_cut_buffer
<1>3. CASE e.cut # <<>> /\ Len(e.line) + Len(e.cut) < LineMax
  <2>1. /\ Before(e) \in Text /\ Len(Before(e)) = e.cursor
        /\ After(e) \in Text /\ Len(After(e)) = Len(e.line) - e.cursor
    BY <1>1, LineParts
  <2> DEFINE f == Before(e) \o e.cut
             c == e.cursor + Len(e.cut)
  <2>2. f \in Text /\ Len(f) = c
    <3> DEFINE b == Before(e)
               k == e.cut
    <3>1. b \in Text /\ k \in Text /\ Len(b) = e.cursor
      BY <1>1, <2>1
    <3> HIDE DEF b, k
    <3>2. b \o k \in Text /\ Len(b \o k) = Len(b) + Len(k)
      BY <3>1, JoinText
    <3> QED BY <3>1, <3>2 DEF b, k
  <2> HIDE DEF f
  <2>3. f \o After(e) \in Lines /\ Len(f \o After(e)) = c + (Len(e.line) - e.cursor)
    <3> DEFINE m == Len(e.line)
               k == Len(e.cut)
               a == After(e)
    <3>1. /\ m + k < LineMax /\ m \in Nat /\ k \in Nat /\ e.cursor \in 0 .. m
          /\ Len(a) = m - e.cursor /\ Len(f) = e.cursor + k /\ a \in Text
      BY <1>1, <1>3, <2>1, <2>2
    <3> HIDE DEF m, k, a
    <3>2. Len(f) + Len(a) = m + k /\ c + (m - e.cursor) = m + k
      BY <3>1 DEF k
    <3>3. Len(f) + Len(a) < LineMax
      BY <3>1, <3>2
    <3>4. f \o a \in Lines /\ Len(f \o a) = Len(f) + Len(a)
      BY <2>2, <3>1, <3>3, JoinFits
    <3>5. Len(f \o a) = c + (m - e.cursor)
      BY <3>2, <3>4
    <3> QED BY <3>4, <3>5 DEF m, a
  <2>4. c \in 0 .. Len(f \o After(e))
    BY <1>1, <2>3
  <2>5. editor_paste_cut_buffer(e) = Redone(e, f \o After(e), c)
    <3>1. ~(Len(e.line) + Len(e.cut) >= LineMax)
      <4> DEFINE s == Len(e.line) + Len(e.cut)
      <4>0. s < LineMax
        BY <1>3, Zenon
      <4>3. s \in Int /\ LineMax \in Int
        BY <1>1
      <4>1. s \in Int /\ LineMax \in Int /\ s < LineMax
        BY <4>0, <4>3, Zenon
      <4> HIDE DEF s
      <4>2. ~(s >= LineMax)
        BY <4>1
      <4> QED BY <4>2 DEF s
    <3> QED BY <1>3, <3>1 DEF editor_paste_cut_buffer, f
  <2> DEFINE l == f \o After(e)
  <2>6. l \in Lines /\ c \in 0 .. Len(l) /\ editor_paste_cut_buffer(e) = Redone(e, l, c)
    BY <2>3, <2>4, <2>5
  <2> HIDE DEF c, l
  <2> QED BY <1>1, <2>6, RedoneLine
<1>4. Len(e.line) + Len(e.cut) >= LineMax \/ Len(e.line) + Len(e.cut) < LineMax
  <2> DEFINE s == Len(e.line) + Len(e.cut)
  <2>1. s \in Int /\ LineMax \in Int
    BY <1>1
  <2> HIDE DEF s
  <2>2. s >= LineMax \/ s < LineMax
    BY <2>1
  <2> QED BY <2>2 DEF s
<1> QED BY <1>2, <1>3, <1>4

\* A line taken from the history is shown at its end.
LEMMA Recalled ==
    ASSUME NEW e, Good(e), NEW p \in -1 .. Len(e.history) - 1, NEW l \in Lines
    PROVE  LET n == Recall(e, p, l)
           IN  /\ Good(n) /\ Shown(n) /\ n.line = l /\ n.position = p
               /\ n.history = e.history /\ n.scratch = e.scratch
<1> DEFINE c == Len(l)
           m == bvstk_line_editor_set_state([e EXCEPT !.position = p], l, c)
           n == bvstk_line_editor_redraw(m)
<1>1. e \in Editors /\ p \in Int /\ c \in Nat
  <2>1. l \in Text /\ Len(e.history) \in Nat
    BY GoodParts DEF Lines
  <2>2. c \in Nat
    BY <2>1 DEF Text
  <2> QED BY <2>1, <2>2, GoodParts
<1> HIDE DEF c
<1>3. m \in Editors /\ m.line = l /\ m.cursor = c /\ m.position = p /\ m.history = e.history
      /\ m.scratch = e.scratch
  BY <1>1 DEF Editors, bvstk_line_editor_set_state
<1> HIDE DEF m
<1>4. Good(m)
  BY <1>1, <1>3 DEF Good, c
<1>5. n.line = l /\ n.position = p /\ n.history = e.history /\ n.scratch = e.scratch
      /\ Good(n) /\ Shown(n)
  BY <1>3, <1>4, RedrawnLine
<1> QED BY <1>5 DEF Recall, c, m

\* Up and down in the history.
LEMMA HistoryMoved ==
    ASSUME NEW e, Steady(e)
    PROVE  Moved(e, editor_history_up(e)) /\ Moved(e, editor_history_down(e))
<1> DEFINE h == e.history
           p == e.position
<1>1. Good(e) /\ Browses(e) /\ e \in Editors /\ h \in Seq(Lines) /\ Len(h) \in Nat
      /\ p \in -1 .. Len(h) - 1 /\ p \in Int /\ e.line \in Lines /\ e.scratch \in Lines
  BY GoodParts DEF Steady
<1>2. \A i \in 1 .. Len(h) : h[i] \in Lines
  BY <1>1, ElementOfSeq
<1>3. Moved(e, editor_history_up(e))
  <2>1. CASE h = <<>> \/ p = 0
    BY <2>1, StaysMoved DEF editor_history_up
  <2>2. CASE h # <<>> /\ p # 0 /\ p < 0
    <3> DEFINE m == [e EXCEPT !.scratch = e.line]
               q == Len(h) - 1
               l == h[Len(h)]
               n == Recall(m, q, l)
    <3>1. Len(h) > 0
      BY <1>1, <2>2, EmptySeq
    <3>2. /\ m \in Editors /\ m.line = e.line /\ m.cursor = e.cursor /\ m.history = h
          /\ m.position = p /\ m.scratch = e.line
      BY <1>1 DEF Editors
    <3> HIDE DEF m
    <3>3. Good(m)
      BY <1>1, <3>2, WithLine, GoodParts
    <3>4. l \in Lines /\ q \in -1 .. Len(h) - 1 /\ q + 1 = Len(h) /\ q >= 0
      BY <1>1, <1>2, <3>1
    <3>5. editor_history_up(e) = n
      BY <1>1, <2>2 DEF editor_history_up, Last, m
    <3> HIDE DEF l, q
    <3>6. Good(n) /\ Shown(n) /\ n.line = l /\ n.position = q /\ n.history = h /\ n.scratch = e.line
      BY <3>2, <3>3, <3>4, Recalled
    <3> HIDE DEF n
    <3>7. Browses(n)
      BY <3>4, <3>6 DEF Browses, l
    <3> QED BY <2>2, <3>5, <3>6, <3>7 DEF Moved
  <2>3. CASE h # <<>> /\ p > 0
    <3> DEFINE q == p - 1
               l == h[p]
               n == Recall(e, q, l)
    <3>1. l \in Lines /\ q \in -1 .. Len(h) - 1 /\ q + 1 = p /\ q >= 0 /\ ~(p < 0) /\ p # 0
      BY <1>1, <1>2, <2>3
    <3>2. editor_history_up(e) = n
      <4>1. /\ ~(h = <<>> \/ p = 0)
            /\ ~(p < 0)
        BY <2>3, <3>1, Zenon
      <4> HIDE DEF q, l
      <4>2. editor_history_up(e) = IF h = <<>> \/ p = 0 THEN e ELSE
                                   IF p < 0 THEN Recall([e EXCEPT !.scratch = e.line], Len(h) - 1, Last(h))
                                   ELSE n
        BY DEF editor_history_up, q, l
      <4> QED BY <4>1, <4>2, Zenon
    <3> HIDE DEF l, q
    <3>5. Good(e) /\ l \in Lines /\ q \in -1 .. Len(h) - 1
      BY <1>1, <3>1
    <3>3. Good(n) /\ Shown(n) /\ n.line = l /\ n.position = q /\ n.history = h /\ n.scratch = e.scratch
      BY <3>5, Recalled
    <3> HIDE DEF n
    <3>4. Browses(n)
      BY <3>1, <3>3 DEF Browses, l
    <3> QED BY <3>1, <3>2, <3>3, <3>4 DEF Moved
  <2>4. p = 0 \/ p < 0 \/ p > 0
    BY <1>1
  <2> QED BY <2>1, <2>2, <2>3, <2>4
<1>4. Moved(e, editor_history_down(e))
  <2>1. CASE p < 0
    BY <2>1, StaysMoved DEF editor_history_down
  <2>2. CASE ~(p < 0) /\ p + 1 < Len(h)
    <3> DEFINE q == p + 1
               l == h[p + 2]
               n == Recall(e, q, l)
    <3>1. l \in Lines /\ q \in -1 .. Len(h) - 1 /\ q + 1 = p + 2 /\ q >= 0
      BY <1>1, <1>2, <2>2
    <3>2. editor_history_down(e) = n
      BY <2>2 DEF editor_history_down
    <3> HIDE DEF l, q
    <3>3. Good(n) /\ Shown(n) /\ n.line = l /\ n.position = q /\ n.history = h /\ n.scratch = e.scratch
      BY <1>1, <3>1, Recalled
    <3> HIDE DEF n
    <3>4. Browses(n)
      BY <3>1, <3>3 DEF Browses, l
    <3> QED BY <2>2, <3>2, <3>3, <3>4 DEF Moved
  <2>3. CASE ~(p < 0) /\ ~(p + 1 < Len(h))
    <3> DEFINE q == -1
               l == e.scratch
               n == Recall(e, q, l)
    <3>1. q \in -1 .. Len(h) - 1 /\ ~(q >= 0)
      BY <1>1
    <3>2. editor_history_down(e) = n
      BY <2>3 DEF editor_history_down
    <3> HIDE DEF l, q
    <3>3. Good(n) /\ Shown(n) /\ n.position = q /\ n.history = h
      BY <1>1, <3>1, Recalled DEF l
    <3> HIDE DEF n
    <3> QED BY <3>1, <3>2, <3>3 DEF Moved, Browses
  <2> QED BY <2>1, <2>2, <2>3
<1> QED BY <1>3, <1>4

----------------------------------------------------------------------------
(* Inserting and completing.                                              *)

\* A prefix, letter by letter.
LEMMA PrefixIs ==
    ASSUME NEW s \in Text, NEW t \in Text
    PROVE  IsPrefix(s, t) <=> Len(s) <= Len(t) /\ \A i \in 1 .. Len(s) : s[i] = t[i]
<1>1. Len(s) \in Nat /\ Len(t) \in Nat
  BY DEF Text
<1>2. ASSUME Len(s) <= Len(t)
      PROVE  SubSeq(s, 1, Len(s)) = SubSeq(t, 1, Len(s)) <=> \A i \in 1 .. Len(s) : s[i] = t[i]
  <2> DEFINE k == Len(s)
             u == SubSeq(t, 1, k)
  <2>1. SubSeq(s, 1, k) = s
    BY SubSeqFull DEF Text
  <2>2. k \in Nat /\ k \in Int /\ k <= Len(t) /\ 1 \in Nat \ {0} /\ k - 1 + 1 = k
    BY <1>1, <1>2
  <2>3. u \in Text /\ (Len(u) = IF 1 <= k THEN k - 1 + 1 ELSE 0) /\ \A i \in 1 .. k - 1 + 1 : u[i] = t[1 + i - 1]
    <3> HIDE DEF k
    <3> QED BY <2>2, SubText
  <2>4. Len(u) = k /\ \A i \in 1 .. k : u[i] = t[i]
    <3> HIDE DEF u, k
    <3>1. Len(u) = k
      BY <2>2, <2>3
    <3>2. \A i \in 1 .. k : u[i] = t[1 + i - 1] /\ 1 + i - 1 = i
      BY <2>2, <2>3
    <3> QED BY <3>1, <3>2
  <2>5. s = u <=> \A i \in 1 .. k : s[i] = u[i]
    <3> HIDE DEF u
    <3> QED BY <2>3, <2>4, SeqEqual DEF Text
  <2> HIDE DEF u, k
  <2>6. s = u <=> \A i \in 1 .. k : s[i] = t[i]
    BY <2>4, <2>5
  <2> QED BY <2>1, <2>6 DEF u, k
<1> QED BY <1>2 DEF IsPrefix

\* A text is a prefix of what is joined to it.
LEMMA JoinPrefix ==
    ASSUME NEW s \in Text, NEW t \in Text
    PROVE  SubSeq(s \o t, 1, Len(s)) = s /\ IsPrefix(s, s \o t)
<1> DEFINE u == s \o t
<1>1. u \in Text /\ Len(u) = Len(s) + Len(t) /\ Len(s) \in Nat /\ Len(t) \in Nat
  BY JoinText DEF Text
<1>2. \A i \in 1 .. Len(s) : s[i] = u[i]
  BY <1>1, JoinText
<1> HIDE DEF u
<1>3. Len(s) <= Len(u)
  BY <1>1
<1>4. IsPrefix(s, u)
  BY <1>1, <1>2, <1>3, PrefixIs
<1>5. SubSeq(s, 1, Len(s)) = s
  BY SubSeqFull DEF Text
<1> QED BY <1>4, <1>5 DEF IsPrefix, u

\* Prefixes behind the same text.
LEMMA PrefixJoin ==
    ASSUME NEW x \in Text, NEW y \in Text, NEW w \in Text, IsPrefix(y, w)
    PROVE  IsPrefix(x \o y, x \o w)
<1> DEFINE a == x \o y
           b == x \o w
<1>1. Len(x) \in Nat /\ Len(y) \in Nat /\ Len(w) \in Nat
  BY DEF Text
<1>2. /\ a \in Text /\ Len(a) = Len(x) + Len(y)
      /\ \A i \in 1 .. Len(x) + Len(y) : a[i] = IF i <= Len(x) THEN x[i] ELSE y[i - Len(x)]
  BY JoinText
<1>3. /\ b \in Text /\ Len(b) = Len(x) + Len(w)
      /\ \A i \in 1 .. Len(x) + Len(w) : b[i] = IF i <= Len(x) THEN x[i] ELSE w[i - Len(x)]
  BY JoinText
<1>4. Len(y) <= Len(w) /\ \A i \in 1 .. Len(y) : y[i] = w[i]
  BY PrefixIs
<1> HIDE DEF a, b
<1>5. Len(a) <= Len(b)
  BY <1>1, <1>2, <1>3, <1>4
<1>6. ASSUME NEW i \in 1 .. Len(a) PROVE a[i] = b[i]
  <2>1. i \in 1 .. Len(x) + Len(y) /\ i \in 1 .. Len(x) + Len(w)
    BY <1>1, <1>2, <1>4
  <2>2. CASE i <= Len(x)
    BY <1>2, <1>3, <2>1, <2>2
  <2>3. CASE ~(i <= Len(x))
    <3>1. i - Len(x) \in 1 .. Len(y)
      BY <1>1, <2>1, <2>3
    <3>2. y[i - Len(x)] = w[i - Len(x)]
      BY <1>4, <3>1
    <3> QED BY <1>2, <1>3, <2>1, <2>3, <3>2
  <2> QED BY <2>2, <2>3
<1>7. IsPrefix(a, b)
  BY <1>2, <1>3, <1>5, <1>6, PrefixIs
<1> QED BY <1>7 DEF a, b

\* A prefix of a prefix.
LEMMA PrefixTrans ==
    ASSUME NEW x \in Text, NEW y \in Text, NEW w \in Text, IsPrefix(x, y), IsPrefix(y, w)
    PROVE  IsPrefix(x, w)
<1>1. Len(x) \in Nat /\ Len(y) \in Nat /\ Len(w) \in Nat
  BY DEF Text
<1>2. Len(x) <= Len(y) /\ \A i \in 1 .. Len(x) : x[i] = y[i]
  BY PrefixIs
<1>3. Len(y) <= Len(w) /\ \A i \in 1 .. Len(y) : y[i] = w[i]
  BY PrefixIs
<1>4. Len(x) <= Len(w) /\ \A i \in 1 .. Len(x) : x[i] = w[i]
  BY <1>1, <1>2, <1>3
<1> QED BY <1>4, PrefixIs

\* Writing over the end of the row, at least as much as was there.
LEMMA PutInside ==
    ASSUME NEW q \in Text, NEW y \in Text, NEW z \in Text, Len(y) <= Len(z)
    PROVE  Put([row |-> q \o y, col |-> Len(q)], z) = [row |-> q \o z, col |-> Len(q) + Len(z)]
<1> DEFINE w == q \o y
           a == Len(q) + Len(z) + 1
           b == Len(w)
<1>1. Len(q) \in Nat /\ Len(y) \in Nat /\ Len(z) \in Nat
  BY DEF Text
<1>2. w \in Text /\ b = Len(q) + Len(y)
  BY JoinText
<1>3. SubSeq(w, 1, Len(q)) = q
  BY JoinPrefix
<1>4. SubSeq(w, a, b) = <<>>
  <2>1. a \in Int /\ b \in Int /\ b < a
    BY <1>1, <1>2
  <2> HIDE DEF a, b, w
  <2> QED BY <2>1, SubSeqEmpty
<1>5. (q \o z) \o <<>> = q \o z
  <2>1. q \o z \in Text
    BY JoinText
  <2> QED BY <2>1, ConcatEmptySeq DEF Text
<1> HIDE DEF w
<1>6. Put([row |-> w, col |-> Len(q)], z) = [row |-> q \o z, col |-> Len(q) + Len(z)]
  BY <1>3, <1>4, <1>5 DEF Put
<1> QED BY <1>6 DEF w

\* Joining is associative.
LEMMA Assoc ==
    ASSUME NEW u \in Text, NEW v \in Text, NEW w \in Text
    PROVE  u \o (v \o w) = (u \o v) \o w
  BY ConcatAssociative DEF Text

\* editor_insert does not redraw: it writes the letter and the rest of the line
\* and goes back over the rest, which shows the new line.
LEMMA InsertMoved == ASSUME NEW e, Steady(e), NEW ch \in Chars PROVE Moved(e, editor_insert(e, ch))
<1> DEFINE g == <<Prompt>>
           x == Before(e)
           y == After(e)
           s == <<ch>>
           l == (x \o s) \o y
           c == e.cursor + 1
           p == -1
           t == Left(Put(e.term, s \o y), Len(y))
           n == [e EXCEPT !.line = l, !.cursor = c, !.position = p, !.term = t]
<1>1. /\ Good(e) /\ e \in Editors /\ e.cursor \in 0 .. Len(e.line) /\ Len(e.line) \in Nat
      /\ Len(e.line) < LineMax /\ LineMax \in Nat /\ Len(e.history) \in Nat
  BY GoodParts DEF Steady
<1>2. CASE Len(e.line) + 1 >= LineMax
  BY <1>2, StaysMoved DEF editor_insert
<1>3. CASE ~(Len(e.line) + 1 >= LineMax)
  <2>1. /\ x \in Text /\ Len(x) = e.cursor /\ y \in Text /\ Len(y) = Len(e.line) - e.cursor
        /\ x \o y = e.line /\ s \in Text /\ Len(s) = 1 /\ g \in Text /\ Len(g) = 1
    BY <1>1, LineParts, OneChar, Signs
  <2>2. editor_insert(e, ch) = n
    <3>1. Append(x, ch) = x \o s
      BY <2>1, AppendIsConcat DEF Text
    <3> HIDE DEF x, y, s
    <3>2. editor_insert(e, ch) =
            [[e EXCEPT !.line = Append(x, ch) \o y, !.cursor = e.cursor + 1, !.position = -1]
               EXCEPT !.term = Left(Put(@, s \o y), Len(y))]
      BY <1>3, Zenon
         DEF editor_insert, bvstk_line_editor_mark_edited, bvstk_line_editor_set_state, x, y, s
    <3> HIDE DEF l
    <3> QED BY <1>1, <3>1, <3>2 DEF Editors, l
  <2>3. e.term = [row |-> g \o e.line, col |-> e.cursor + 1]
    BY DEF Steady, Shown
  <2> HIDE DEF g, x, y, s
  <2> DEFINE z == s \o y
             q == g \o x
  <2>4. /\ z \in Text /\ Len(z) = Len(s) + Len(y) /\ q \in Text /\ Len(q) = Len(g) + Len(x)
        /\ l \in Text /\ Len(l) = Len(x) + (Len(s) + Len(y))
        /\ g \o l = q \o z /\ g \o e.line = q \o y
    <3>0. g \in Text /\ x \in Text /\ s \in Text /\ y \in Text
      BY <2>1
    <3>1. /\ z \in Text /\ Len(z) = Len(s) + Len(y) /\ q \in Text /\ Len(q) = Len(g) + Len(x)
          /\ l \in Text /\ Len(l) = Len(x) + (Len(s) + Len(y))
          /\ g \o l = q \o z /\ g \o (x \o y) = q \o y
      <4>1. z \in Text /\ Len(z) = Len(s) + Len(y)
        BY <3>0, JoinText
      <4>2. l = x \o z
        <5>1. x \o (s \o y) = (x \o s) \o y
          BY <3>0, Assoc
        <5> QED BY <5>1, Zenon
      <4>3. g \o (x \o y) = q \o y
        BY <3>0, Assoc
      <4>4. q \in Text /\ Len(q) = Len(g) + Len(x)
        BY <3>0, JoinText
      <4> HIDE DEF z, l
      <4>5. x \o z \in Text /\ Len(x \o z) = Len(x) + Len(z)
        BY <3>0, <4>1, JoinText
      <4>6. g \o (x \o z) = (g \o x) \o z
        BY <3>0, <4>1, Assoc
      <4> QED BY <4>1, <4>2, <4>3, <4>4, <4>5, <4>6, Zenon
    <3>2. x \o y = e.line
      BY <2>1
    <3> HIDE DEF l, z, q
    <3>3. g \o e.line = q \o y
      BY <3>1, <3>2
    <3> QED BY <3>1, <3>3, Zenon
  <2> HIDE DEF l, z, q
  <2>5. Put(e.term, z) = [row |-> q \o z, col |-> Len(q) + Len(z)]
    <3>1. e.term = [row |-> q \o y, col |-> Len(q)]
      <4>1. e.cursor + 1 = Len(q)
        BY <1>1, <2>1, <2>4
      <4> QED BY <2>3, <2>4, <4>1
    <3>2. Len(y) <= Len(z)
      BY <1>1, <2>1, <2>4
    <3>3. Put([row |-> q \o y, col |-> Len(q)], z) = [row |-> q \o z, col |-> Len(q) + Len(z)]
      <4>1. q \in Text /\ y \in Text /\ z \in Text /\ Len(y) <= Len(z)
        BY <2>1, <2>4, <3>2
      <4> QED BY <4>1, PutInside
    <3> QED BY <3>1, <3>3
  <2> DEFINE r == g \o l
             a == Len(q) + Len(z)
             b == Len(y)
  <2>6. a \in Int /\ b \in Int /\ a > b /\ a - b = c + 1 /\ c \in Nat /\ c \in 0 .. Len(l) /\ Len(l) < LineMax
    <3>1. Len(e.line) + 1 < LineMax
      BY <1>1, <1>3
    <3> DEFINE m == Len(e.line)
               k == e.cursor
    <3>2. /\ m \in Nat /\ k \in 0 .. m /\ m + 1 < LineMax /\ LineMax \in Nat
          /\ b = m - k /\ Len(q) = 1 + k /\ Len(z) = 1 + b /\ Len(l) = k + (1 + b) /\ c = k + 1
      BY <1>1, <2>1, <2>4, <3>1
    <3>3. a = Len(q) + Len(z)
      OBVIOUS
    <3> HIDE DEF m, k, a, b, c
    <3> QED BY <3>2, <3>3
  <2>7. t = [row |-> r, col |-> c + 1]
    <3>1. t = Left([row |-> r, col |-> a], b)
      BY <2>4, <2>5 DEF z
    <3> HIDE DEF a, b, c, r
    <3>2. Left([row |-> r, col |-> a], b) = [row |-> r, col |-> a - b]
      BY <2>6, LeftIs
    <3> QED BY <2>6, <3>1, <3>2
  <2>8. r \in Text /\ l \in Lines
    BY <2>1, <2>4, <2>6, JoinText DEF Lines
  <2>9. t \in [row : Text, col : Nat] /\ p \in Int
    <3> HIDE DEF r, t
    <3> QED BY <2>6, <2>7, <2>8
  <2> HIDE DEF r, c, p, t, a, b
  <2>10. /\ n \in Editors /\ n.line = l /\ n.cursor = c /\ n.history = e.history
         /\ n.position = p /\ n.term = t
    BY <1>1, <2>6, <2>8, <2>9 DEF Editors
  <2> HIDE DEF n
  <2>11. Good(n)
    BY <1>1, <2>6, <2>8, <2>10, WithLine DEF p
  <2>12. Shown(n)
    BY <2>7, <2>10 DEF Shown, r, g
  <2>13. ~(n.position >= 0)
    BY <2>10 DEF p
  <2> QED BY <2>2, <2>10, <2>11, <2>12, <2>13 DEF Moved, Browses
<1> QED BY <1>2, <1>3

\* A text is a prefix of itself.
LEMMA PrefixOfItself == ASSUME NEW s \in Text PROVE IsPrefix(s, s)
  BY PrefixIs DEF Text

\* The part before a cursor behind b still begins with b.
LEMMA PrefixBefore ==
    ASSUME NEW b \in Text, NEW w \in Text, NEW c \in Nat, Len(b) <= c, c <= Len(b \o w)
    PROVE  IsPrefix(b, SubSeq(b \o w, 1, c))
<1> DEFINE l == b \o w
           u == SubSeq(l, 1, c)
<1>1. /\ l \in Text /\ Len(b) \in Nat /\ Len(l) = Len(b) + Len(w) /\ Len(w) \in Nat
      /\ \A i \in 1 .. Len(b) + Len(w) : l[i] = IF i <= Len(b) THEN b[i] ELSE w[i - Len(b)]
  BY JoinText DEF Text
<1>2. /\ u \in Text /\ (Len(u) = IF 1 <= c THEN c - 1 + 1 ELSE 0)
      /\ \A i \in 1 .. c - 1 + 1 : u[i] = l[1 + i - 1]
  <2> HIDE DEF l
  <2> QED BY <1>1, SubText
<1> HIDE DEF l, u
<1>3. Len(u) = c
  BY <1>2
<1>4. ASSUME NEW i \in 1 .. Len(b) PROVE b[i] = u[i]
  <2>1. i \in 1 .. c - 1 + 1 /\ i \in 1 .. Len(b) + Len(w) /\ 1 + i - 1 = i /\ i <= Len(b)
    BY <1>1
  <2> QED BY <1>1, <1>2, <2>1
<1>5. IsPrefix(b, u)
  BY <1>2, <1>3, <1>4, PrefixIs
<1> QED BY <1>5 DEF l, u

\* Replacing the token by a word that begins with it keeps what was typed.
LEMMA ReplaceMoved ==
    ASSUME NEW e, Steady(e), NEW start \in 0 .. e.cursor, NEW word \in Text, NEW space \in BOOLEAN
    PROVE  LET n == bvstk_line_editor_replace(e, start, word, space)
           IN  /\ Moved(e, n)
               /\ IsPrefix(SubSeq(e.line, start + 1, e.cursor), word) => IsPrefix(Before(e), Before(n))
<1> DEFINE l == e.line
           h == SubSeq(l, 1, start)
           tok == SubSeq(l, start + 1, e.cursor)
           blank == IF space /\ word # <<>> /\ Last(word) # Slash THEN <<Blank>> ELSE <<>>
           new == word \o blank
           b == h \o new
           c == start + Len(new)
           new_line == b \o After(e)
           n == bvstk_line_editor_replace(e, start, word, space)
<1>1. /\ Good(e) /\ l \in Text /\ Len(l) \in Nat /\ Len(l) < LineMax /\ LineMax \in Nat
      /\ e.cursor \in 0 .. Len(l) /\ start \in Nat /\ After(e) \in Text /\ Before(e) \in Text
  BY GoodParts, LineParts DEF Steady
<1>2. blank \in Text
  BY NoChar, Signs
<1>3. h \in Text /\ Len(h) = start /\ tok \in Text /\ h \o tok = Before(e)
  <2>1. start + 1 \in Nat \ {0} /\ e.cursor \in Int /\ e.cursor <= Len(l) /\ start <= Len(l) /\ start \in Int
    BY <1>1
  <2>2. h \in Text /\ Len(h) = start /\ tok \in Text
    BY <1>1, <2>1, SubText
  <2>3. h \o tok = SubSeq(l, 1, e.cursor)
    <3>1. 1 \in 1 .. Len(l) + 1 /\ start \in 1 - 1 .. Len(l) /\ e.cursor \in start .. Len(l)
      BY <1>1, <2>1
    <3> QED BY <1>1, <3>1, ConcatAdjacentSubSeq DEF Text
  <2> QED BY <2>2, <2>3 DEF Before
<1> HIDE DEF blank
<1>4. new \in Text /\ Len(new) \in Nat /\ IsPrefix(word, new)
  <2>1. new \in Text
    BY <1>2, JoinText
  <2>2. Len(new) \in Nat
    BY <2>1 DEF Text
  <2> QED BY <1>2, <2>1, <2>2, JoinPrefix
<1> HIDE DEF l, h, tok, new
<1>5. b \in Text /\ Len(b) = c /\ c \in Nat
  <2>1. b \in Text /\ Len(b) = Len(h) + Len(new)
    BY <1>3, <1>4, JoinText
  <2> HIDE DEF b
  <2> QED BY <1>1, <1>3, <1>4, <2>1
<1> HIDE DEF b, c
<1>6. new_line \in Text /\ Len(new_line) \in Nat /\ Len(new_line) = c + Len(After(e)) /\ c <= Len(new_line)
  <2>1. new_line \in Text /\ Len(new_line) = c + Len(After(e))
    BY <1>1, <1>5, JoinText
  <2>2. Len(new_line) \in Nat /\ Len(After(e)) \in Nat
    BY <1>1, <2>1 DEF Text
  <2> QED BY <1>5, <2>1, <2>2
<1>7. SubSeq(new_line, 1, c) = b
  BY <1>1, <1>5, JoinPrefix
<1> HIDE DEF new_line
<1>8. n = IF Len(new_line) >= LineMax THEN e ELSE Redone(e, new_line, c)
  BY DEF bvstk_line_editor_replace, new_line, b, h, new, blank, c, l
<1> HIDE DEF n
<1>9. CASE Len(new_line) >= LineMax
  <2>1. n = e
    BY <1>8, <1>9, Zenon
  <2> QED BY <1>1, <2>1, StaysMoved, PrefixOfItself DEF n, tok, l
<1>10. CASE ~(Len(new_line) >= LineMax)
  <2>1. n = Redone(e, new_line, c)
    BY <1>8, <1>10, Zenon
  <2>2. new_line \in Lines /\ c \in 0 .. Len(new_line)
    BY <1>1, <1>5, <1>6, <1>10 DEF Lines
  <2>3. Moved(e, n) /\ n.line = new_line /\ n.cursor = c
    BY <1>1, <2>1, <2>2, RedoneLine
  <2>4. Before(n) = b
    BY <1>7, <2>3 DEF Before
  <2>5. IsPrefix(tok, word) => IsPrefix(Before(e), Before(n))
    <3>1. IsPrefix(tok, word) => IsPrefix(tok, new)
      BY <1>3, <1>4, PrefixTrans
    <3>2. IsPrefix(tok, new) => IsPrefix(h \o tok, h \o new)
      BY <1>3, <1>4, PrefixJoin
    <3>3. b = h \o new
      BY DEF b
    <3> QED BY <1>3, <2>4, <3>1, <3>2, <3>3, Zenon
  <2> QED BY <2>3, <2>5 DEF n, tok, l
<1> QED BY <1>9, <1>10

\* The place of the last c, 0 when there is none.
LEMMA LastOfIs == ASSUME NEW s \in Text, NEW ch PROVE LastOf(s, ch) \in 0 .. Len(s)
<1> DEFINE at == {i \in DOMAIN s : s[i] = ch}
           w == CHOOSE i \in at : \A j \in at : j <= i
<1>1. Len(s) \in Nat /\ DOMAIN s = 1 .. Len(s)
  BY DEF Text
<1>2. at \subseteq 0 .. Len(s)
  BY <1>1
<1>3. LastOf(s, ch) = IF at = {} THEN 0 ELSE w
  BY DEF LastOf
<1> HIDE DEF at
<1>4. at # {} => w \in at
  <2>1. at # {} => \E i \in at : \A j \in at : j <= i
    BY <1>1, <1>2, LastExists
  <2> QED BY <2>1
<1> HIDE DEF w
<1>5. at = {} => LastOf(s, ch) \in 0 .. Len(s)
  BY <1>1, <1>3
<1>6. at # {} => LastOf(s, ch) \in 0 .. Len(s)
  BY <1>2, <1>3, <1>4
<1> QED BY <1>5, <1>6

\* What all words begin with, their common prefix begins with.
LEMMA CommonPrefixIs ==
    ASSUME NEW words \in SUBSET Text, words # {}
    PROVE  /\ common_prefix(words) \in Text
           /\ \A p \in Text : (\A w \in words : IsPrefix(p, w)) => IsPrefix(p, common_prefix(words))
<1> DEFINE first == CHOOSE w \in words : TRUE
           Fit(n) == \A w \in words : IsPrefix(SubSeq(first, 1, n), w)
           same == {n \in 0 .. Len(first) : Fit(n)}
           k == CHOOSE n \in same : \A m \in same : m <= n
<1>1. first \in words /\ first \in Text
  OBVIOUS
<1>2. common_prefix(words) = SubSeq(first, 1, k)
  BY DEF common_prefix
<1> HIDE DEF first
<1>3. Len(first) \in Nat
  BY <1>1 DEF Text
<1>4. 0 \in same
  <2>1. SubSeq(first, 1, 0) = <<>>
    BY SubSeqEmpty
  <2>2. \A w \in words : IsPrefix(<<>>, w)
    <3>1. ASSUME NEW w \in Text PROVE IsPrefix(<<>>, w)
      <4>1. Len(w) \in Nat /\ <<>> \in Text /\ Len(<<>>) = 0
        BY NoChar DEF Text
      <4>2. Len(<<>>) <= Len(w) /\ \A i \in 1 .. Len(<<>>) : <<>>[i] = w[i]
        BY <4>1
      <4> QED BY <4>1, <4>2, PrefixIs
    <3> QED BY <3>1
  <2>3. Fit(0)
    BY <2>1, <2>2
  <2> HIDE DEF Fit
  <2> QED BY <1>3, <2>3
<1>5. same \subseteq 0 .. Len(first)
  OBVIOUS
<1>6. ASSUME NEW p \in Text, \A w \in words : IsPrefix(p, w)
      PROVE  Len(p) \in same /\ p = SubSeq(first, 1, Len(p)) /\ Len(p) \in Nat
  <2>1. IsPrefix(p, first)
    BY <1>1, <1>6
  <2>2. Len(p) <= Len(first) /\ Len(p) \in Nat
    BY <1>1, <2>1, PrefixIs DEF Text
  <2>3. SubSeq(p, 1, Len(p)) = SubSeq(first, 1, Len(p)) /\ SubSeq(p, 1, Len(p)) = p
    BY <2>1, SubSeqFull DEF IsPrefix, Text
  <2>4. p = SubSeq(first, 1, Len(p))
    BY <2>3
  <2>5. Fit(Len(p))
    BY <1>6, <2>4
  <2> HIDE DEF Fit
  <2> QED BY <1>3, <2>2, <2>4, <2>5
<1> HIDE DEF same
<1>7. k \in same /\ \A m \in same : m <= k
  <2>1. \E n \in same : \A m \in same : m <= n
    BY <1>3, <1>4, <1>5, LastExists
  <2> QED BY <2>1
<1> HIDE DEF k
<1>8. k \in Nat /\ k <= Len(first)
  BY <1>3, <1>5, <1>7
<1> DEFINE u == SubSeq(first, 1, k)
<1>9. u \in Text /\ Len(u) = k /\ \A i \in 1 .. k : u[i] = first[i]
  <2>1. k \in Int /\ 1 \in Nat \ {0} /\ k - 1 + 1 = k
    BY <1>8
  <2>2. u \in Text /\ (Len(u) = IF 1 <= k THEN k - 1 + 1 ELSE 0) /\ \A i \in 1 .. k - 1 + 1 : u[i] = first[1 + i - 1]
    BY <1>1, <1>8, <2>1, SubText
  <2> HIDE DEF u
  <2>3. \A i \in 1 .. k : u[i] = first[1 + i - 1] /\ 1 + i - 1 = i
    BY <2>1, <2>2
  <2> QED BY <1>8, <2>2, <2>3
<1>10. ASSUME NEW p \in Text, \A w \in words : IsPrefix(p, w)
       PROVE  IsPrefix(p, u)
  <2> HIDE DEF u
  <2>1. Len(p) \in same /\ Len(p) \in Nat /\ IsPrefix(p, first)
    BY <1>1, <1>6, <1>10
  <2>2. Len(p) <= k
    BY <1>7, <2>1
  <2>3. \A i \in 1 .. Len(p) : p[i] = first[i]
    BY <1>1, <2>1, PrefixIs
  <2>4. \A i \in 1 .. Len(p) : p[i] = u[i]
    BY <1>8, <1>9, <2>1, <2>2, <2>3
  <2> QED BY <1>9, <2>2, <2>4, PrefixIs
<1> QED BY <1>2, <1>9, <1>10

\* The token before the cursor is its directory part and its name part.
LEMMA TokenParts ==
    ASSUME NEW e, Good(e)
    PROVE  /\ TokenStart(e) \in 0 .. e.cursor /\ Token(e) \in Text
           /\ DirPart(Token(e)) \in Text /\ NamePart(Token(e)) \in Text
           /\ DirPart(Token(e)) \o NamePart(Token(e)) = Token(e)
<1>1. /\ e.line \in Text /\ e.cursor \in 0 .. Len(e.line) /\ Len(e.line) \in Nat
      /\ Before(e) \in Text /\ Len(Before(e)) = e.cursor
  BY GoodParts, LineParts
<1>2. TokenStart(e) \in 0 .. e.cursor
  BY <1>1, LastOfIs DEF TokenStart
<1>3. Token(e) \in Text
  <2>1. TokenStart(e) + 1 \in Nat \ {0} /\ e.cursor \in Int /\ e.cursor <= Len(e.line)
    BY <1>1, <1>2
  <2> QED BY <1>1, <2>1, SubText DEF Token
<1>4. ASSUME NEW tok \in Text
      PROVE  DirPart(tok) \in Text /\ NamePart(tok) \in Text /\ DirPart(tok) \o NamePart(tok) = tok
  <2> DEFINE k == LastOf(tok, Slash)
  <2>1. k \in 0 .. Len(tok) /\ Len(tok) \in Nat
    BY LastOfIs DEF Text
  <2> HIDE DEF k
  <2>2. SubSeq(tok, 1, k) \in Text /\ SubSeq(tok, k + 1, Len(tok)) \in Text
    <3> DEFINE j == k + 1
               n == Len(tok)
    <3>1. j \in Nat \ {0} /\ k \in Int /\ k <= Len(tok) /\ n \in Int /\ n <= Len(tok)
      BY <2>1
    <3> HIDE DEF j, n
    <3>2. SubSeq(tok, 1, k) \in Text
      BY <3>1, SubText
    <3>3. SubSeq(tok, j, n) \in Text
      BY <3>1, SubText
    <3> QED BY <3>2, <3>3 DEF j, n
  <2>3. SubSeq(tok, 1, k) \o SubSeq(tok, k + 1, Len(tok)) = tok
    <3>1. 1 \in 1 .. Len(tok) + 1 /\ k \in 1 - 1 .. Len(tok) /\ Len(tok) \in k .. Len(tok)
      BY <2>1
    <3>2. SubSeq(tok, 1, k) \o SubSeq(tok, k + 1, Len(tok)) = SubSeq(tok, 1, Len(tok))
      BY <3>1, ConcatAdjacentSubSeq DEF Text
    <3> QED BY <3>2, SubSeqFull DEF Text
  <2> QED BY <2>2, <2>3 DEF DirPart, NamePart, k
<1> QED BY <1>2, <1>3, <1>4

\* The candidates of the Neutrino shell begin with the token.
LEMMA WordsFit ==
    ASSUME NEW e, Good(e)
    PROVE  /\ bvstk_console_complete(e) \in SUBSET Text
           /\ complete_shell_line(e) \in SUBSET Text
           /\ \A w \in complete_shell_line(e) : IsPrefix(Token(e), w)
<1> DEFINE tok == Token(e)
           dir == DirPart(tok)
           name == NamePart(tok)
<1>1. tok \in Text /\ dir \in Text /\ name \in Text /\ dir \o name = tok
  BY TokenParts
<1>2. Fits(tok, Commands) \in SUBSET Text /\ \A w \in Fits(tok, Commands) : IsPrefix(tok, w)
  BY LineEditorAssumption DEF Fits, Text
<1>3. dir \in DOMAIN Listing =>
        Fits(name, Listing[dir]) \in SUBSET Text /\ \A w \in Fits(name, Listing[dir]) : IsPrefix(name, w)
  BY LineEditorAssumption DEF Fits, Text
<1>4. bvstk_console_complete(e) =
        IF IsFirst(e) THEN Fits(tok, Commands)
        ELSE IF dir \in DOMAIN Listing THEN Fits(name, Listing[dir]) ELSE {}
  BY DEF bvstk_console_complete
<1>5. CASE IsFirst(e)
  BY <1>2, <1>4, <1>5 DEF complete_shell_line
<1>6. CASE ~IsFirst(e)
  <2> DEFINE words == bvstk_console_complete(e)
  <2>1. words \in SUBSET Text /\ \A w \in words : IsPrefix(name, w)
    BY <1>3, <1>4, <1>6
  <2> HIDE DEF words, dir, name, tok
  <2>2. ASSUME NEW w \in words PROVE dir \o w \in Text /\ IsPrefix(tok, dir \o w)
    <3>1. w \in Text /\ IsPrefix(name, w)
      BY <2>1
    <3>2. dir \o w \in Text /\ IsPrefix(dir \o name, dir \o w)
      BY <1>1, <3>1, JoinText, PrefixJoin
    <3> QED BY <1>1, <3>2
  <2>3. complete_shell_line(e) = {dir \o w : w \in words}
    BY <1>6 DEF complete_shell_line, words, dir, tok
  <2>4. {dir \o w : w \in words} \in SUBSET Text
    BY <2>2
  <2>5. \A u \in {dir \o w : w \in words} : IsPrefix(tok, u)
    BY <2>2
  <2> QED BY <2>1, <2>3, <2>4, <2>5 DEF words, tok
<1> QED BY <1>5, <1>6

\* editor_complete keeps what was typed when the candidates begin with it.
LEMMA EditorCompleteMoved ==
    ASSUME NEW e, Steady(e), NEW words \in SUBSET Text
    PROVE  LET n == editor_complete(e, words)
           IN  /\ Moved(e, n)
               /\ (\A w \in words : IsPrefix(Token(e), w)) => IsPrefix(Before(e), Before(n))
<1> DEFINE common == common_prefix(words)
           tok == Token(e)
           start == TokenStart(e)
           u == bvstk_line_editor_replace(e, start, common, TRUE)
           v == bvstk_line_editor_replace(e, start, common, FALSE)
           m == IF Len(common) > Len(tok) THEN v ELSE e
           n == bvstk_line_editor_redraw(m)
           keeps == \A w \in words : IsPrefix(tok, w)
<1>1. Good(e) /\ start \in 0 .. e.cursor /\ tok \in Text /\ Before(e) \in Text
      /\ tok = SubSeq(e.line, start + 1, e.cursor)
  BY TokenParts, LineParts DEF Steady, Token
<1>2. CASE words = {}
  <2>1. editor_complete(e, words) = e
    BY <1>2 DEF editor_complete
  <2> QED BY <1>1, <2>1, StaysMoved, PrefixOfItself
<1>3. CASE words # {}
  <2>1. common \in Text /\ (keeps => IsPrefix(tok, common))
    BY <1>1, <1>3, CommonPrefixIs
  <2>2. editor_complete(e, words) = IF Single(words) THEN u ELSE n
    BY <1>3 DEF editor_complete
  <2> HIDE DEF common, start, tok, keeps
  <2>3. /\ Moved(e, u) /\ (keeps => IsPrefix(Before(e), Before(u)))
        /\ Moved(e, v) /\ (keeps => IsPrefix(Before(e), Before(v)))
    BY <1>1, <2>1, ReplaceMoved
  <2> HIDE DEF u, v
  <2>4. Moved(e, m) /\ (keeps => IsPrefix(Before(e), Before(m)))
    BY <1>1, <2>3, StaysMoved, PrefixOfItself
  <2> HIDE DEF m
  <2>5. Moved(e, n)
    BY <2>4, RedrawMoved
  <2>6. Before(n) = Before(m)
    <3>1. n.line = m.line /\ n.cursor = m.cursor
      BY <2>4, RedrawnLine DEF Moved
    <3> QED BY <3>1 DEF Before
  <2> HIDE DEF n
  <2> QED BY <2>2, <2>3, <2>4, <2>5, <2>6, Zenon DEF keeps, tok
<1> QED BY <1>2, <1>3

\* Leaving the history without an edit.
LEMMA EditedMoved ==
    ASSUME NEW e, Steady(e)
    PROVE  LET n == bvstk_line_editor_mark_edited(e) IN Moved(e, n) /\ Before(n) = Before(e)
<1> DEFINE p == -1
           n == [e EXCEPT !.position = p]
<1>1. Good(e) /\ Shown(e) /\ e \in Editors /\ e.cursor \in 0 .. Len(e.line) /\ e.line \in Lines /\ p \in Int
  BY GoodParts DEF Steady
<1> HIDE DEF p
<1>2. /\ n \in Editors /\ n.line = e.line /\ n.cursor = e.cursor /\ n.history = e.history
      /\ n.position = p /\ n.term = e.term
  BY <1>1 DEF Editors
<1> HIDE DEF n
<1>3. Good(n)
  BY <1>1, <1>2, WithLine DEF p
<1>4. Shown(n) /\ Before(n) = Before(e)
  BY <1>1, <1>2 DEF Shown, Before
<1>5. ~(n.position >= 0)
  BY <1>2 DEF p
<1>6. Moved(e, n)
  BY <1>2, <1>3, <1>4, <1>5 DEF Moved, Browses
<1>7. bvstk_line_editor_mark_edited(e) = n
  BY DEF bvstk_line_editor_mark_edited, n, p
<1> QED BY <1>4, <1>6, <1>7

\* ssh_apply_matches only adds behind the cursor.
LEMMA SshCompleteMoved ==
    ASSUME NEW e, Steady(e), NEW words \in SUBSET Text
    PROVE  LET n == ssh_apply_matches(e, words)
           IN  Moved(e, n) /\ IsPrefix(Before(e), Before(n))
<1> DEFINE prefix == IF IsFirst(e) THEN Token(e) ELSE NamePart(Token(e))
           common == common_prefix(words)
           more == SubSeq(common, Len(prefix) + 1, Len(common))
           space == IF Single(words) /\ After(e) = <<>> /\ Last(common) # Slash THEN <<Blank>> ELSE <<>>
           b == Before(e)
           a == After(e)
           line == ((b \o more) \o a) \o space
           c == e.cursor + Len(more) + Len(space)
           n == ssh_apply_matches(e, words)
<1>1. /\ Good(e) /\ e.cursor \in 0 .. Len(e.line) /\ b \in Text /\ a \in Text /\ Len(b) = e.cursor
      /\ prefix \in Text /\ LineMax \in Nat /\ e.cursor \in Nat
  BY GoodParts, LineParts, TokenParts DEF Steady
<1>2. n = IF words = {} \/ Len(line) >= LineMax THEN bvstk_line_editor_mark_edited(e)
          ELSE Redone(e, line, c)
  BY DEF ssh_apply_matches
<1>3. CASE words = {} \/ Len(line) >= LineMax
  <2>1. n = bvstk_line_editor_mark_edited(e)
    BY <1>2, <1>3, Zenon
  <2> HIDE DEF n
  <2>2. Moved(e, n) /\ Before(n) = b
    BY <2>1, EditedMoved
  <2> QED BY <1>1, <2>2, PrefixOfItself DEF n
<1>4. CASE words # {} /\ ~(Len(line) >= LineMax)
  <2>1. common \in Text
    BY <1>4, CommonPrefixIs
  <2>2. more \in Text /\ space \in Text
    <3> DEFINE k == Len(prefix) + 1
               m == Len(common)
    <3>1. k \in Nat \ {0} /\ m \in Int /\ m <= Len(common)
      BY <1>1, <2>1 DEF Text
    <3> HIDE DEF common, prefix, k
    <3>2. SubSeq(common, k, Len(common)) \in Text
      BY <2>1, <3>1, SubText
    <3> QED BY <3>2, NoChar, Signs DEF k
  <2>3. n = Redone(e, line, c)
    BY <1>2, <1>4, Zenon
  <2> HIDE DEF more, space, common, prefix, n, b, a
  <2> DEFINE w == (more \o a) \o space
  <2>4. /\ more \o a \in Text /\ Len(more \o a) = Len(more) + Len(a)
        /\ Len(more) \in Nat /\ Len(a) \in Nat /\ Len(space) \in Nat
    BY <1>1, <2>2, JoinText DEF Text
  <2>5. w \in Text /\ Len(w) = (Len(more) + Len(a)) + Len(space)
    <3> DEFINE u == more \o a
    <3>1. u \in Text /\ Len(u) = Len(more) + Len(a)
      BY <2>4
    <3> HIDE DEF u
    <3>2. u \o space \in Text /\ Len(u \o space) = Len(u) + Len(space)
      BY <2>2, <3>1, JoinText
    <3> QED BY <3>1, <3>2 DEF u
  <2>6. line = b \o w
    <3> DEFINE u == more \o a
    <3>1. u \in Text /\ b \o u = (b \o more) \o a
      BY <1>1, <2>2, <2>4, Assoc
    <3> HIDE DEF u
    <3>2. b \o (u \o space) = (b \o u) \o space
      BY <1>1, <2>2, <3>1, Assoc
    <3> QED BY <3>1, <3>2, Zenon DEF u
  <2> HIDE DEF line, w
  <2>7. line \in Text /\ Len(line) = Len(b) + Len(w) /\ Len(line) \in Nat
    <3>1. b \o w \in Text /\ Len(b \o w) = Len(b) + Len(w)
      BY <1>1, <2>5, JoinText
    <3> QED BY <2>6, <3>1 DEF Text
  <2>8. c \in 0 .. Len(line) /\ c \in Nat /\ Len(b) <= c
    BY <1>1, <2>4, <2>5, <2>7
  <2> HIDE DEF c
  <2>9. line \in Lines
    BY <1>1, <1>4, <2>7 DEF Lines
  <2>10. Moved(e, n) /\ n.line = line /\ n.cursor = c
    BY <1>1, <2>3, <2>8, <2>9, RedoneLine
  <2>11. IsPrefix(b, SubSeq(b \o w, 1, c))
    <3>1. c <= Len(b \o w)
      BY <2>6, <2>7, <2>8
    <3> QED BY <1>1, <2>5, <2>8, <3>1, PrefixBefore
  <2>12. Before(n) = SubSeq(b \o w, 1, c)
    BY <2>6, <2>10 DEF Before
  <2> QED BY <2>10, <2>11, <2>12 DEF n, b
<1> QED BY <1>3, <1>4

\* A Tab of each console.
LEMMA CompleteMoved ==
    ASSUME NEW e, Steady(e), NEW style \in {"bare", "whole", "suffix"}
    PROVE  LET n == Complete(e, style)
           IN  Moved(e, n) /\ (style # "bare" => IsPrefix(Before(e), Before(n)))
<1>1. Good(e)
  BY DEF Steady
<1>2. /\ bvstk_console_complete(e) \in SUBSET Text /\ complete_shell_line(e) \in SUBSET Text
      /\ \A w \in complete_shell_line(e) : IsPrefix(Token(e), w)
  BY <1>1, WordsFit
<1>3. CASE style = "bare"
  <2>1. Complete(e, style) = editor_complete(e, bvstk_console_complete(e))
    BY <1>3 DEF Complete
  <2> QED BY <1>2, <1>3, <2>1, EditorCompleteMoved
<1>4. CASE style = "whole"
  <2>1. Complete(e, style) = editor_complete(e, complete_shell_line(e))
    BY <1>4 DEF Complete
  <2> QED BY <1>2, <2>1, EditorCompleteMoved
<1>5. CASE style = "suffix"
  <2>1. Complete(e, style) = ssh_apply_matches(e, bvstk_console_complete(e))
    BY <1>5 DEF Complete
  <2> QED BY <1>2, <2>1, SshCompleteMoved
<1> QED BY <1>3, <1>4, <1>5

\* No parameters of an escape sequence.
LEMMA NoPar == <<>> \in Seq(EscapeBytes)
  OBVIOUS

\* Changes of the escape state alone.
LEMMA EscapeMoved ==
    ASSUME NEW e, NEW m, Moved(e, m),
           NEW s \in {"none", "started", "csi", "ss3"}, NEW q \in Seq(EscapeBytes)
    PROVE  Moved(e, [m EXCEPT !.esc = s, !.par = q])
<1> DEFINE n == [m EXCEPT !.esc = s, !.par = q]
<1>1. Good(m) /\ m \in Editors /\ Shown(m) /\ Browses(m) /\ m.history = e.history
      /\ (m.position >= 0 => m.scratch = IF e.position < 0 THEN e.line ELSE e.scratch)
  BY GoodParts DEF Moved
<1>2. /\ n \in Editors /\ n.line = m.line /\ n.cursor = m.cursor /\ n.history = m.history
      /\ n.position = m.position /\ n.term = m.term /\ n.scratch = m.scratch
  BY <1>1 DEF Editors
<1> HIDE DEF n
<1>3. Good(n)
  BY <1>1, <1>2, WithLine, GoodParts
<1>4. Shown(n) /\ Browses(n)
  BY <1>1, <1>2 DEF Shown, Browses
<1> QED BY <1>1, <1>2, <1>3, <1>4 DEF Moved, n

\* Ctrl-W.
LEMMA PreviousWordMoved ==
    ASSUME NEW e, Steady(e)
    PROVE  Moved(e, editor_delete_previous_word(e))
<1>1. Good(e) /\ Moved(e, e) /\ e.cursor \in 0 .. Len(e.line) /\ Len(e.line) \in Nat
  BY StaysMoved, GoodParts DEF Steady
<1>2. CASE e.cursor = 0
  BY <1>1, <1>2 DEF editor_delete_previous_word
<1>3. CASE e.cursor # 0
  <2>1. WordStart(e) \in 0 .. Len(e.line)
    BY <1>1, <1>3, WordStarts
  <2> QED BY <1>1, <1>3, <2>1, CutMoved DEF editor_delete_previous_word
<1> QED BY <1>2, <1>3

\* Every control code leaves the editor in step with its terminal.
LEMMA ControlMoved ==
    ASSUME NEW e, Steady(e), NEW b \in Controls, NEW style \in {"bare", "whole", "suffix"}
    PROVE  LET n == Control(e, b, style)
           IN  Moved(e, n) /\ (b = "TAB" /\ style # "bare" => IsPrefix(Before(e), Before(n)))
<1>1. Good(e) /\ Moved(e, e) /\ e.cursor \in 0 .. Len(e.line) /\ Len(e.line) \in Nat
  BY StaysMoved, GoodParts DEF Steady
<1>2. CASE b = "ESC"
  <2>1. Moved(e, [e EXCEPT !.esc = "started", !.par = <<>>])
    BY <1>1, NoPar, EscapeMoved
  <2> QED BY <1>2, <2>1 DEF Control
<1>3. CASE b = "TAB"
  <2>1. Control(e, b, style) = Complete(e, style)
    BY <1>3 DEF Control
  <2> QED BY <2>1, CompleteMoved
<1>4. CASE b \in {"^A", "^E"}
  BY <1>4, HomeEndMoved DEF Control
<1>5. CASE b \in {"^B", "^F"}
  BY <1>5, MovesMoved DEF Control
<1>6. CASE b \in {"^D", "^H", "^Y"}
  BY <1>6, DeleteMoved, BackspaceMoved, PasteMoved DEF Control
<1>7. CASE b \in {"^N", "^P"}
  BY <1>7, HistoryMoved DEF Control
<1>8. CASE b = "^L"
  BY <1>1, <1>8, RedrawMoved DEF Control
<1>9. CASE b \in {"^K", "^U"}
  <2>1. 0 \in 0 .. Len(e.line) /\ Len(e.line) \in 0 .. Len(e.line)
    BY <1>1
  <2> QED BY <1>1, <1>9, <2>1, CutMoved DEF Control
<1>10. CASE b = "^W"
  BY <1>10, PreviousWordMoved DEF Control
<1> QED BY <1>2, <1>3, <1>4, <1>5, <1>6, <1>7, <1>8, <1>9, <1>10 DEF Controls

----------------------------------------------------------------------------
(* Escape sequences.                                                      *)

\* The arrow keys.
LEMMA ArrowMoved ==
    ASSUME NEW e, Steady(e), NEW b, NEW word \in BOOLEAN
    PROVE  Moved(e, Arrow(e, b, word))
<1>1. Moved(e, e)
  BY StaysMoved
<1>2. Moved(e, editor_history_up(e)) /\ Moved(e, editor_history_down(e))
  BY HistoryMoved
<1>3. Moved(e, editor_move_left(e, word)) /\ Moved(e, editor_move_right(e, word))
  BY MovesMoved
<1>4. Moved(e, Home(e)) /\ Moved(e, End(e))
  BY HomeEndMoved
<1> QED BY <1>1, <1>2, <1>3, <1>4 DEF Arrow

\* The sequences ESC [ .. x.
LEMMA CsiMoved ==
    ASSUME NEW e, Steady(e), NEW b
    PROVE  Moved(e, editor_handle_csi_final(e, b))
<1> DEFINE first == parse_parameter(e.par, 0)
           word == parse_parameter(e.par, 1) \in {3, 5} \/ first = 5
<1>1. word \in BOOLEAN
  OBVIOUS
<1>2. editor_handle_csi_final(e, b) =
        CASE b = "~" /\ first \in {1, 7} -> Home(e)
          [] b = "~" /\ first \in {4, 8} -> End(e)
          [] b = "~" /\ first = 3 -> editor_delete(e)
          [] OTHER -> Arrow(e, b, word)
  BY DEF editor_handle_csi_final
<1> HIDE DEF first, word
<1>3. Moved(e, Home(e)) /\ Moved(e, End(e)) /\ Moved(e, editor_delete(e)) /\ Moved(e, Arrow(e, b, word))
  BY <1>1, HomeEndMoved, DeleteMoved, ArrowMoved
<1> QED BY <1>2, <1>3

\* The sequences ESC x.
LEMMA LetterMoved ==
    ASSUME NEW e, Steady(e), NEW b
    PROVE  Moved(e, EscapedLetter(e, b))
<1>1. Good(e) /\ Moved(e, e) /\ e.cursor \in 0 .. Len(e.line) /\ Len(e.line) \in Nat
      /\ Len(After(e)) = Len(e.line) - e.cursor /\ After(e) \in Text
  BY StaysMoved, GoodParts, LineParts DEF Steady
<1>2. Moved(e, editor_move_left(e, TRUE)) /\ Moved(e, editor_move_right(e, TRUE))
  BY MovesMoved
<1>3. Moved(e, editor_delete_next_word(e))
  <2>1. CASE After(e) = <<>>
    BY <1>1, <2>1 DEF editor_delete_next_word
  <2>2. CASE After(e) # <<>>
    <3>1. e.cursor < Len(e.line)
      <4> DEFINE a == After(e)
      <4>1. a # <<>> /\ a \in Text
        BY <1>1, <2>2
      <4> HIDE DEF a
      <4>2. Len(a) > 0
        BY <4>1, EmptySeq DEF Text
      <4> QED BY <1>1, <4>2 DEF a
    <3>2. WordEnd(e) \in e.cursor + 1 .. Len(e.line)
      BY <1>1, <3>1, WordEnds
    <3>3. WordEnd(e) \in 0 .. Len(e.line)
      BY <1>1, <3>2
    <3>4. editor_delete_next_word(e) = editor_cut_range(e, e.cursor, WordEnd(e))
      BY <2>2, Zenon DEF editor_delete_next_word
    <3> QED BY <1>1, <3>3, <3>4, CutMoved
  <2> QED BY <2>1, <2>2
<1>4. Moved(e, editor_delete_previous_word(e))
  BY PreviousWordMoved
<1> QED BY <1>1, <1>2, <1>3, <1>4 DEF EscapedLetter

\* Every byte of an escape sequence leaves the editor in step with its terminal.
LEMMA EscapeByteMoved ==
    ASSUME NEW e, Steady(e), e.esc # "none", NEW b \in EscapeBytes
    PROVE  Moved(e, editor_handle_escape_byte(e, b))
<1> DEFINE parameter == b \in DOMAIN Digits \cup {";"}
           n == editor_handle_escape_byte(e, b)
<1>1. Moved(e, e) /\ e \in Editors
  BY StaysMoved DEF Steady, Good
<1>2. ASSUME NEW m, Moved(e, m) PROVE Moved(e, editor_reset_escape(m))
  BY <1>2, NoPar, EscapeMoved DEF editor_reset_escape
<1>3. e.par \in Seq(EscapeBytes) /\ e.esc \in {"started", "csi", "ss3"}
  BY <1>1 DEF Editors
<1>10. ASSUME NEW s \in {"none", "started", "csi", "ss3"}, NEW q \in Seq(EscapeBytes),
              n = [e EXCEPT !.esc = s, !.par = q]
       PROVE  Moved(e, n)
  <2>1. Moved(e, [e EXCEPT !.esc = s, !.par = q])
    BY <1>1, EscapeMoved
  <2> HIDE DEF n
  <2> QED BY <1>10, <2>1
<1>4. CASE e.esc = "started" /\ b = "["
  <2>1. n = [e EXCEPT !.esc = "csi", !.par = <<>>]
    BY <1>4 DEF editor_handle_escape_byte
  <2> QED BY <1>10, <2>1, NoPar
<1>5. CASE e.esc = "started" /\ b = "O"
  <2>1. n = [e EXCEPT !.esc = "ss3"]
    BY <1>5 DEF editor_handle_escape_byte
  <2>2. n = [e EXCEPT !.esc = "ss3", !.par = e.par]
    BY <1>1, <2>1 DEF Editors
  <2> QED BY <1>3, <1>10, <2>2
<1>6. CASE e.esc = "started" /\ b \notin {"[", "O"}
  <2>1. n = editor_reset_escape(EscapedLetter(e, b))
    BY <1>6 DEF editor_handle_escape_byte
  <2> QED BY <1>2, <2>1, LetterMoved
<1>7. CASE e.esc = "csi" /\ parameter
  <2> DEFINE q == IF Len(e.par) + 1 < ParMax THEN Append(e.par, b) ELSE e.par
  <2>1. n = [e EXCEPT !.par = q]
    BY <1>1, <1>7 DEF editor_handle_escape_byte, Editors
  <2>2. q \in Seq(EscapeBytes)
    BY <1>3
  <2> HIDE DEF q
  <2>3. n = [e EXCEPT !.esc = "csi", !.par = q]
    BY <1>1, <1>7, <2>1 DEF Editors
  <2> QED BY <1>10, <2>2, <2>3
<1>8. CASE e.esc = "csi" /\ ~parameter
  <2>1. n = editor_reset_escape(editor_handle_csi_final(e, b))
    BY <1>8 DEF editor_handle_escape_byte
  <2> QED BY <1>2, <2>1, CsiMoved
<1>9. CASE e.esc = "ss3"
  <2>1. n = editor_reset_escape(Arrow(e, b, FALSE))
    BY <1>9 DEF editor_handle_escape_byte
  <2> QED BY <1>2, <2>1, ArrowMoved
<1> QED BY <1>3, <1>4, <1>5, <1>6, <1>7, <1>8, <1>9

----------------------------------------------------------------------------
(* The history against the lines submitted.                               *)

\* One line more of what Distinct keeps.
Keep(d, l) == IF l = <<>> \/ (d # <<>> /\ Last(d) = l) THEN d ELSE Append(d, l)
IsKept(f, s, k) == f = [n \in 0 .. k |-> IF n = 0 THEN <<>> ELSE Keep(f[n - 1], s[n])]

\* The recursive function of Distinct exists: the shortest list for which it did
\* not would have one line more than a list for which it does.
LEMMA KeptExists == ASSUME NEW s, NEW k \in Nat PROVE \E f : IsKept(f, s, k)
<1> DEFINE Has(n) == \E f : IsKept(f, s, n)
           bad == {n \in Nat : ~Has(n)}
<1>1. SUFFICES ASSUME bad # {} PROVE FALSE
  BY <1>1
<1>2. bad \subseteq Nat
  OBVIOUS
<1> HIDE DEF bad
<1>3. PICK n \in bad : \A m \in bad : n <= m
  BY <1>1, <1>2, FirstExists
<1>4. n \in Nat /\ ~Has(n)
  BY <1>3 DEF bad
<1>5. CASE n = 0
  <2>1. IsKept([i \in 0 .. 0 |-> <<>>], s, 0)
    <3> DEFINE f == [i \in 0 .. 0 |-> <<>>]
    <3>1. \A i \in 0 .. 0 : i = 0
      OBVIOUS
    <3>2. f = [i \in 0 .. 0 |-> IF i = 0 THEN <<>> ELSE Keep(f[i - 1], s[i])]
      BY <3>1
    <3> QED BY <3>2 DEF IsKept
  <2> QED BY <1>4, <1>5, <2>1
<1>6. CASE n # 0
  <2>1. n - 1 \in Nat /\ ~(n <= n - 1)
    BY <1>4, <1>6
  <2>2. n - 1 \notin bad
    BY <1>3, <2>1
  <2>3. Has(n - 1)
    <3> HIDE DEF Has
    <3> QED BY <2>1, <2>2 DEF bad
  <2>4. PICK f : IsKept(f, s, n - 1)
    BY <2>3
  <2> DEFINE g == [i \in 0 .. n |-> IF i = n THEN Keep(f[n - 1], s[n]) ELSE f[i]]
  <2>5. \A i \in 0 .. n - 1 : f[i] = IF i = 0 THEN <<>> ELSE Keep(f[i - 1], s[i])
    BY <2>4, Zenon DEF IsKept
  <2>6. ASSUME NEW i \in 0 .. n PROVE g[i] = IF i = 0 THEN <<>> ELSE Keep(g[i - 1], s[i])
    <3>1. CASE i = n
      <4>1. i # 0 /\ n - 1 # n /\ i - 1 = n - 1 /\ n - 1 \in 0 .. n
        BY <1>4, <1>6, <3>1
      <4>2. g[i] = Keep(f[n - 1], s[n]) /\ g[i - 1] = f[n - 1]
        BY <3>1, <4>1
      <4> HIDE DEF g
      <4> QED BY <3>1, <4>1, <4>2, Zenon
    <3>2. CASE i # n /\ i = 0
      <4>1. i \in 0 .. n - 1
        BY <1>4, <3>2
      <4>2. g[i] = f[i]
        BY <3>2
      <4> HIDE DEF g
      <4> QED BY <2>5, <3>2, <4>1, <4>2, Zenon
    <3>3. CASE i # n /\ i # 0
      <4>1. i \in 0 .. n - 1 /\ i - 1 \in 0 .. n /\ i - 1 # n
        BY <1>4, <3>3
      <4>2. g[i] = f[i] /\ g[i - 1] = f[i - 1]
        BY <3>3, <4>1
      <4> HIDE DEF g
      <4> QED BY <2>5, <3>3, <4>1, <4>2, Zenon
    <3> QED BY <3>1, <3>2, <3>3
  <2>7. g = [i \in 0 .. n |-> g[i]]
    OBVIOUS
  <2> HIDE DEF g
  <2>8. g = [i \in 0 .. n |-> IF i = 0 THEN <<>> ELSE Keep(g[i - 1], s[i])]
    BY <2>6, <2>7, Zenon
  <2> QED BY <1>4, <2>8 DEF IsKept
<1> QED BY <1>5, <1>6

\* Its values.
LEMMA KeptAt ==
    ASSUME NEW s, NEW k \in Nat, NEW f, IsKept(f, s, k)
    PROVE  f[0] = <<>> /\ \A n \in 1 .. k : f[n] = Keep(f[n - 1], s[n])
<1>1. \A i \in 0 .. k : f[i] = IF i = 0 THEN <<>> ELSE Keep(f[i - 1], s[i])
  BY Zenon DEF IsKept
<1>2. 0 \in 0 .. k /\ \A n \in 1 .. k : n \in 0 .. k /\ n # 0
  OBVIOUS
<1> QED BY <1>1, <1>2, Zenon

\* What is kept of a line depends on the lines before it only.
LEMMA KeptSame ==
    ASSUME NEW s, NEW t, NEW k \in Nat, NEW m \in Nat, k <= m, NEW f, NEW g,
           IsKept(f, s, k), IsKept(g, t, m), \A n \in 1 .. k : s[n] = t[n]
    PROVE  f[k] = g[k]
<1> DEFINE bad == {n \in 0 .. k : f[n] # g[n]}
<1>1. SUFFICES ASSUME bad # {} PROVE FALSE
  <2>1. k \in 0 .. k
    OBVIOUS
  <2> QED BY <1>1, <2>1
<1>2. bad \subseteq Nat
  OBVIOUS
<1> HIDE DEF bad
<1>3. PICK n \in bad : \A i \in bad : n <= i
  BY <1>1, <1>2, FirstExists
<1>4. n \in 0 .. k /\ f[n] # g[n]
  BY <1>3 DEF bad
<1>5. f[0] = <<>> /\ g[0] = <<>>
  BY KeptAt
<1>6. n # 0
  BY <1>4, <1>5
<1>7. n \in 1 .. k /\ n \in 1 .. m /\ n - 1 \in 0 .. k /\ ~(n <= n - 1)
  BY <1>4, <1>6
<1>8. n - 1 \notin bad
  BY <1>3, <1>7
<1>9. f[n - 1] = g[n - 1]
  BY <1>7, <1>8 DEF bad
<1>10. f[n] = Keep(f[n - 1], s[n]) /\ g[n] = Keep(g[n - 1], t[n])
  <2>1. f[n] = Keep(f[n - 1], s[n])
    BY <1>7, KeptAt
  <2>2. g[n] = Keep(g[n - 1], t[n])
    BY <1>7, KeptAt
  <2> QED BY <2>1, <2>2
<1>11. s[n] = t[n]
  BY <1>7
<1> QED BY <1>4, <1>9, <1>10, <1>11, Zenon

\* Distinct is its last value.
LEMMA DistinctKept == ASSUME NEW s, Len(s) \in Nat PROVE \E f : IsKept(f, s, Len(s)) /\ Distinct(s) = f[Len(s)]
<1> DEFINE g == CHOOSE f : IsKept(f, s, Len(s))
<1>1. IsKept(g, s, Len(s))
  BY KeptExists
<1>2. Distinct(s) = g[Len(s)]
  BY Zenon DEF Distinct, IsKept, Keep
<1> QED BY <1>1, <1>2

\* One more line submitted is one more line kept, or none.
LEMMA DistinctGrows ==
    ASSUME NEW s \in Seq(Lines), NEW l \in Lines
    PROVE  Distinct(Append(s, l)) = Keep(Distinct(s), l)
<1> DEFINE t == Append(s, l)
           k == Len(s)
           m == Len(t)
<1>1. k \in Nat /\ m \in Nat /\ m = k + 1 /\ t[m] = l /\ \A n \in 1 .. k : s[n] = t[n]
  OBVIOUS
<1> HIDE DEF t, k, m
<1>2. PICK f : IsKept(f, s, k) /\ Distinct(s) = f[k]
  BY <1>1, DistinctKept DEF k
<1>3. PICK g : IsKept(g, t, m) /\ Distinct(t) = g[m]
  BY <1>1, DistinctKept DEF m
<1>4. k <= m /\ m \in 1 .. m /\ m - 1 = k
  BY <1>1
<1>5. f[k] = g[k]
  BY <1>1, <1>2, <1>3, <1>4, KeptSame
<1>6. g[m] = Keep(g[m - 1], t[m])
  BY <1>1, <1>3, <1>4, KeptAt
<1> QED BY <1>1, <1>2, <1>3, <1>4, <1>5, <1>6, Zenon DEF t

\* Nothing is kept of nothing.
LEMMA DistinctOfNone == Distinct(<<>>) = <<>>
<1>1. Len(<<>>) = 0 /\ 0 \in Nat
  OBVIOUS
<1>2. PICK f : IsKept(f, <<>>, 0) /\ Distinct(<<>>) = f[0]
  BY <1>1, DistinctKept
<1> QED BY <1>1, <1>2, KeptAt

\* The last lines of a list.
LEMMA SubLines ==
    ASSUME NEW s \in Seq(Lines), NEW m \in Nat \ {0}, m <= Len(s) + 1
    PROVE  LET u == SubSeq(s, m, Len(s))
           IN  u \in Seq(Lines) /\ Len(u) = Len(s) - m + 1 /\ \A i \in 1 .. Len(u) : u[i] = s[m + i - 1]
<1> DEFINE n == Len(s)
           u == SubSeq(s, m, n)
<1>1. n \in Nat /\ n \in Int /\ \A i \in 1 .. n : s[i] \in Lines
  BY ElementOfSeq
<1>2. \A i \in m .. n : s[i] \in Lines
  BY <1>1
<1>3. u \in Seq(Lines) /\ (Len(u) = IF m <= n THEN n - m + 1 ELSE 0) /\ \A i \in 1 .. n - m + 1 : u[i] = s[m + i - 1]
  <2> HIDE DEF n
  <2> QED BY <1>1, <1>2, SubSeqProperties
<1> HIDE DEF u
<1>4. Len(u) = n - m + 1
  BY <1>1, <1>3
<1> QED BY <1>3, <1>4 DEF u

\* Where the history of n lines begins.
First(n) == IF n > HistoryMax THEN n - HistoryMax + 1 ELSE 1

\* The lines of the history.
LEMMA NewestIs ==
    ASSUME NEW d \in Seq(Lines)
    PROVE  LET a == First(Len(d))
               h == Newest(d)
           IN  /\ a \in Nat \ {0} /\ a <= Len(d) + 1
               /\ h \in Seq(Lines) /\ Len(h) = Len(d) - a + 1
               /\ \A i \in 1 .. Len(h) : h[i] = d[a + i - 1]
<1> DEFINE n == Len(d)
           a == First(n)
<1>1. n \in Nat /\ HistoryMax \in Nat \ {0}
  BY LineEditorAssumption
<1>2. a \in Nat \ {0} /\ a <= n + 1
  <2> HIDE DEF n
  <2> QED BY <1>1 DEF First
<1>3. Newest(d) = SubSeq(d, a, n)
  BY DEF Newest, First
<1> HIDE DEF a
<1>4. LET u == SubSeq(d, a, Len(d))
      IN  u \in Seq(Lines) /\ Len(u) = Len(d) - a + 1 /\ \A i \in 1 .. Len(u) : u[i] = d[a + i - 1]
  BY <1>2, SubLines
<1> QED BY <1>2, <1>3, <1>4, Zenon DEF a

\* One more line kept pushes the oldest out of a full history.
LEMMA NewestGrows ==
    ASSUME NEW d \in Seq(Lines), NEW l \in Lines
    PROVE  LET h == Newest(d)
           IN  /\ h \in Seq(Lines) /\ Len(h) \in Nat /\ Len(h) <= HistoryMax
               /\ (d # <<>>) <=> (h # <<>>)
               /\ d # <<>> => Last(h) = Last(d)
               /\ Newest(Append(d, l)) = Append(IF Len(h) = HistoryMax THEN Tail(h) ELSE h, l)
<1> DEFINE h == Newest(d)
           t == Append(d, l)
           g == Newest(t)
           n == Len(d)
           k == Len(h)
           rest == IF k = HistoryMax THEN Tail(h) ELSE h
           r == Append(rest, l)
<1> DEFINE a == First(n)
           b == First(n + 1)
<1>1. /\ a \in Nat \ {0} /\ h \in Seq(Lines) /\ k = n - a + 1 /\ a <= n + 1
      /\ \A i \in 1 .. k : h[i] = d[a + i - 1]
  BY NewestIs
<1>2. /\ t \in Seq(Lines) /\ Len(t) = n + 1 /\ n \in Nat /\ t[n + 1] = l
      /\ \A i \in 1 .. n : t[i] = d[i]
  OBVIOUS
<1>3. HistoryMax \in Nat \ {0} /\ k \in Nat /\ k <= HistoryMax /\ (n = 0 <=> k = 0)
  <2> HIDE DEF n, k, h
  <2>1. HistoryMax \in Nat \ {0}
    BY LineEditorAssumption
  <2> QED BY <1>1, <1>2, <2>1 DEF First
<1>4. /\ b \in Nat \ {0} /\ g \in Seq(Lines) /\ Len(g) = n + 1 - b + 1 /\ b <= n + 1 + 1
      /\ \A i \in 1 .. Len(g) : g[i] = t[b + i - 1]
  <2> DEFINE m == Len(t)
  <2>1. m = n + 1
    BY <1>2
  <2> HIDE DEF t, n
  <2>2. /\ First(m) \in Nat \ {0} /\ First(m) <= m + 1 /\ g \in Seq(Lines) /\ Len(g) = m - First(m) + 1
        /\ \A i \in 1 .. Len(g) : g[i] = t[First(m) + i - 1]
    BY <1>2, NewestIs
  <2>3. b = First(m)
    BY <2>1, Zenon
  <2> HIDE DEF m, g, b
  <2>4. n \in Nat
    BY <1>2
  <2> QED BY <2>1, <2>2, <2>3, <2>4
<1>5. /\ rest \in Seq(Lines) /\ Len(rest) = IF k = HistoryMax THEN k - 1 ELSE k
      /\ \A i \in 1 .. Len(rest) : rest[i] = h[IF k = HistoryMax THEN i + 1 ELSE i]
  <2>1. CASE k = HistoryMax
    <3> HIDE DEF h
    <3>1. h # <<>> /\ h \in Seq(Lines)
      BY <1>1, <1>3, <2>1
    <3>2. Tail(h) \in Seq(Lines) /\ Len(Tail(h)) = k - 1 /\ \A i \in 1 .. k - 1 : Tail(h)[i] = h[i + 1]
      BY <3>1, HeadTailProperties
    <3> QED BY <2>1, <3>2
  <2>2. CASE k # HistoryMax
    BY <1>1, <2>2
  <2> QED BY <2>1, <2>2
<1> HIDE DEF rest
<1>6. /\ r \in Seq(Lines) /\ Len(r) = Len(rest) + 1 /\ r[Len(rest) + 1] = l
      /\ \A i \in 1 .. Len(rest) : r[i] = rest[i]
  BY <1>5
<1> HIDE DEF h, t, g, n, k, r
<1>7. Len(r) = Len(g) /\ Len(g) \in Nat
  BY <1>1, <1>2, <1>3, <1>4, <1>5, <1>6 DEF First
<1>8. ASSUME NEW i \in 1 .. Len(g) PROVE g[i] = r[i]
  <2>1. g[i] = t[b + i - 1]
    BY <1>4
  <2>2. CASE i = Len(g)
    <3>1. b + i - 1 = n + 1 /\ i = Len(rest) + 1
      BY <1>2, <1>4, <1>6, <1>7, <2>2
    <3> QED BY <1>2, <1>6, <2>1, <3>1
  <2>3. CASE i # Len(g)
    <3> DEFINE j == IF k = HistoryMax THEN i + 1 ELSE i
    <3>1. i \in 1 .. Len(rest) /\ Len(rest) \in Nat /\ b + i - 1 \in 1 .. n
      <4> DEFINE p == Len(rest)
                 q == Len(g)
      <4>1. p \in Nat /\ q \in Nat /\ q = p + 1
        BY <1>5, <1>6, <1>7
      <4>2. b \in Nat \ {0} /\ n \in Nat /\ q = n + 1 - b + 1
        BY <1>2, <1>4
      <4>3. i \in 1 .. q /\ i # q
        BY <2>3
      <4> HIDE DEF p, q, b
      <4>4. i \in 1 .. p
        BY <4>1, <4>3
      <4>5. b + i - 1 \in 1 .. n
        BY <4>1, <4>2, <4>3
      <4> QED BY <4>1, <4>4, <4>5 DEF p
    <3>2. j \in 1 .. k /\ a + j - 1 = b + i - 1
      BY <1>1, <1>2, <1>3, <1>4, <1>5, <3>1 DEF First
    <3>3. r[i] = rest[i] /\ rest[i] = h[j]
      BY <1>5, <1>6, <3>1
    <3> HIDE DEF j
    <3>4. h[j] = d[a + j - 1]
      BY <1>1, <3>2
    <3>5. t[b + i - 1] = d[b + i - 1]
      BY <1>2, <3>1
    <3> QED BY <2>1, <3>2, <3>3, <3>4, <3>5
  <2> QED BY <2>2, <2>3
<1>9. g = r
  BY <1>4, <1>6, <1>7, <1>8, SeqEqual
<1>10. (d = <<>>) <=> (h = <<>>)
  <2>1. d = <<>> <=> n = 0
    BY EmptySeq DEF n
  <2>2. h = <<>> <=> k = 0
    BY <1>1, EmptySeq DEF k
  <2> QED BY <1>3, <2>1, <2>2, Zenon
<1>11. d # <<>> => Last(h) = Last(d)
  <2>1. d # <<>> => n # 0
    BY EmptySeq DEF n
  <2>2. n # 0 => k \in 1 .. k /\ a + k - 1 = n
    BY <1>1, <1>2, <1>3
  <2>3. n # 0 => h[k] = d[n]
    BY <1>1, <2>2
  <2> QED BY <2>1, <2>3 DEF Last, k, n
<1> QED BY <1>1, <1>3, <1>9, <1>10, <1>11 DEF h, g, t, r, rest, k

\* What is kept are lines.
LEMMA KeepLines ==
    ASSUME NEW d \in Seq(Lines), NEW l \in Lines
    PROVE  Keep(d, l) \in Seq(Lines)
  BY DEF Keep

\* editor_add_history compares with the last line it holds, which is the last
\* line kept.
LEMMA NewestKeeps ==
    ASSUME NEW d \in Seq(Lines), NEW l \in Lines
    PROVE  LET h == Newest(d)
           IN  Newest(Keep(d, l)) = IF l = <<>> \/ (h # <<>> /\ Last(h) = l) THEN h
                                    ELSE Append(IF Len(h) = HistoryMax THEN Tail(h) ELSE h, l)
<1> DEFINE h == Newest(d)
<1>1. /\ (d # <<>>) <=> (h # <<>>)
      /\ d # <<>> => Last(h) = Last(d)
      /\ Newest(Append(d, l)) = Append(IF Len(h) = HistoryMax THEN Tail(h) ELSE h, l)
  BY NewestGrows
<1> HIDE DEF h
<1>2. CASE l = <<>> \/ (d # <<>> /\ Last(d) = l)
  <2>1. Keep(d, l) = d /\ (l = <<>> \/ (h # <<>> /\ Last(h) = l))
    BY <1>1, <1>2, Zenon DEF Keep
  <2> QED BY <2>1, Zenon DEF h
<1>3. CASE ~(l = <<>> \/ (d # <<>> /\ Last(d) = l))
  <2>1. Keep(d, l) = Append(d, l) /\ ~(l = <<>> \/ (h # <<>> /\ Last(h) = l))
    BY <1>1, <1>3, Zenon DEF Keep
  <2> QED BY <1>1, <2>1, Zenon DEF h
<1> QED BY <1>2, <1>3

----------------------------------------------------------------------------
(* Prompts and submitted lines.                                           *)

\* An empty row is a row.
LEMMA FreshTerm == Fresh \in [row : Text, col : Nat]
  BY NoChar DEF Fresh

\* A new editor.
LEMMA InitIs ==
    LET n == bvstk_line_editor_init
    IN  /\ Good(n) /\ n.line = <<>> /\ n.cursor = 0 /\ n.position = -1 /\ n.history = <<>>
        /\ n.esc = "none" /\ n.term = Fresh
<1> DEFINE p == -1
           t == Fresh
           n == [line |-> <<>>, cursor |-> 0, history |-> <<>>, position |-> p, scratch |-> <<>>,
                 cut |-> <<>>, esc |-> "none", par |-> <<>>, term |-> t]
<1>1. p \in Int /\ t \in [row : Text, col : Nat] /\ <<>> \in Lines /\ <<>> \in Seq(Lines)
      /\ <<>> \in Seq(EscapeBytes) /\ Len(<<>>) = 0
  <2>1. LineMax > 0 /\ LineMax \in Nat
    BY LineEditorAssumption
  <2>2. <<>> \in Lines
    BY <2>1, NoChar DEF Lines
  <2> QED BY <2>2, NoPar, FreshTerm, EmptySeq
<1> HIDE DEF t
<1>2. p \in -1 .. Len(<<>>) - 1
  BY <1>1
<1> HIDE DEF p
<1>3. n \in Editors /\ n.line = <<>> /\ n.cursor = 0 /\ n.position = p /\ n.history = <<>>
      /\ n.esc = "none" /\ n.term = t
  BY <1>1 DEF Editors
<1> HIDE DEF n
<1>4. Good(n)
  BY <1>1, <1>2, <1>3 DEF Good
<1>5. bvstk_line_editor_init = n
  BY DEF bvstk_line_editor_init, n, p, t
<1> QED BY <1>3, <1>4, <1>5 DEF p, t

\* A reset empties the line and leaves the history.
LEMMA ResetIs ==
    ASSUME NEW e, Good(e)
    PROVE  LET n == bvstk_line_editor_reset(e)
           IN  /\ Good(n) /\ n.line = <<>> /\ n.cursor = 0 /\ n.position = -1
               /\ n.history = e.history /\ n.esc = "none" /\ n.term = e.term
<1> DEFINE p == -1
           n == [e EXCEPT !.line = <<>>, !.cursor = 0, !.position = p, !.esc = "none", !.par = <<>>]
<1>1. e \in Editors /\ p \in Int /\ <<>> \in Lines /\ <<>> \in Seq(EscapeBytes) /\ Len(<<>>) = 0
  BY InitIs, NoPar, NoChar, GoodParts
<1>2. bvstk_line_editor_reset(e) = n
  BY <1>1 DEF bvstk_line_editor_reset, editor_reset_escape, Editors
<1> HIDE DEF p
<1>3. n \in Editors /\ n.line = <<>> /\ n.cursor = 0 /\ n.position = p /\ n.history = e.history
      /\ n.esc = "none" /\ n.term = e.term
  BY <1>1 DEF Editors
<1> HIDE DEF n
<1>4. Good(n)
  <2>1. n.cursor \in 0 .. Len(n.line)
    BY <1>1, <1>3
  <2> QED BY <1>1, <1>3, <2>1, WithLine DEF p
<1> QED BY <1>2, <1>3, <1>4 DEF p

\* Going to a new row changes nothing of the editor.
LEMMA FreshenedIs ==
    ASSUME NEW e, Good(e)
    PROVE  LET n == [e EXCEPT !.term = Fresh]
           IN  /\ Good(n) /\ n.line = e.line /\ n.cursor = e.cursor /\ n.position = e.position
               /\ n.history = e.history /\ n.esc = e.esc /\ n.term = Fresh
<1> DEFINE t == Fresh
           n == [e EXCEPT !.term = t]
<1>1. e \in Editors /\ t \in [row : Text, col : Nat]
  BY FreshTerm DEF Good
<1> HIDE DEF t
<1>2. n \in Editors /\ n.line = e.line /\ n.cursor = e.cursor /\ n.position = e.position
      /\ n.history = e.history /\ n.esc = e.esc /\ n.term = t
  BY <1>1 DEF Editors
<1> HIDE DEF n
<1>3. Good(n)
  BY <1>2 DEF Good
<1> QED BY <1>2, <1>3 DEF n, t

\* An empty line is shown by the prompt.
LEMMA PromptShows ==
    ASSUME NEW e, Good(e), e.line = <<>>, e.cursor = 0, e.position = -1, e.term = Fresh
    PROVE  LET n == ShowPrompt(e)
           IN  /\ Steady(n) /\ n.line = <<>> /\ n.position = -1
               /\ n.history = e.history /\ n.esc = e.esc
<1> DEFINE g == <<Prompt>>
           n == [e EXCEPT !.term = [row |-> g, col |-> 1]]
<1>1. e \in Editors /\ g \in Text /\ 1 \in Nat
  BY Signs DEF Good
<1>2. ShowPrompt(e) = n
  BY <1>1, FreshPrompt DEF ShowPrompt, Editors
<1>3. g = g \o <<>>
  BY <1>1, ConcatEmptySeq DEF Text
<1> HIDE DEF g
<1>4. n \in Editors /\ n.line = e.line /\ n.cursor = e.cursor /\ n.position = e.position
      /\ n.history = e.history /\ n.esc = e.esc /\ n.term = [row |-> g, col |-> 1]
  BY <1>1 DEF Editors
<1> HIDE DEF n
<1>5. Good(n)
  BY <1>4 DEF Good
<1>6. Shown(n)
  BY <1>3, <1>4 DEF Shown, g
<1>7. Browses(n)
  BY <1>4 DEF Browses
<1> QED BY <1>2, <1>4, <1>5, <1>6, <1>7 DEF Steady

\* Ctrl-C.
LEMMA InterruptMoved == ASSUME NEW e, Steady(e) PROVE Moved(e, Interrupted(e))
<1> DEFINE m == bvstk_line_editor_reset(e)
           f == [m EXCEPT !.term = Fresh]
           n == ShowPrompt(f)
<1>1. /\ Good(m) /\ m.line = <<>> /\ m.cursor = 0 /\ m.position = -1 /\ m.history = e.history
  BY ResetIs DEF Steady
<1> HIDE DEF m
<1>2. /\ Good(f) /\ f.line = <<>> /\ f.cursor = 0 /\ f.position = -1 /\ f.history = e.history /\ f.term = Fresh
  BY <1>1, FreshenedIs
<1> HIDE DEF f
<1>3. Steady(n) /\ n.position = -1 /\ n.history = e.history
  BY <1>2, PromptShows
<1>4. Interrupted(e) = n
  BY DEF Interrupted, n, f, m
<1> HIDE DEF n
<1> QED BY <1>3, <1>4 DEF Moved, Steady

\* editor_submit up to the command: the line is in the history.
LEMMA Submitted ==
    ASSUME NEW e, Good(e), NEW d \in Seq(Lines), e.history = Newest(d)
    PROVE  LET n == [editor_add_history(e) EXCEPT !.term = Fresh]
           IN  /\ Good(n) /\ n.term = Fresh /\ n.esc = e.esc
               /\ Keep(d, e.line) \in Seq(Lines) /\ n.history = Newest(Keep(d, e.line))
<1> DEFINE h == e.history
           l == e.line
           g == Append(IF Len(h) = HistoryMax THEN Tail(h) ELSE h, l)
           m == editor_add_history(e)
<1>1. e \in Editors /\ l \in Lines /\ h \in Seq(Lines) /\ HistoryMax \in Nat \ {0}
      /\ e.position \in -1 .. Len(h) - 1 /\ e.cursor <= Len(l)
  BY GoodParts, LineEditorAssumption DEF Good
<1>2. Newest(Keep(d, l)) = IF l = <<>> \/ (h # <<>> /\ Last(h) = l) THEN h ELSE g
  BY <1>1, NewestKeeps
<1>3. g \in Seq(Lines) /\ Len(g) >= Len(h) /\ Len(g) \in Nat
  <2>1. CASE Len(h) = HistoryMax
    <3>1. h # <<>>
      BY <1>1, <2>1, EmptySeq
    <3>2. Tail(h) \in Seq(Lines) /\ Len(Tail(h)) = Len(h) - 1
      BY <1>1, <3>1, HeadTailProperties
    <3> QED BY <1>1, <2>1, <3>2
  <2>2. CASE Len(h) # HistoryMax
    BY <1>1, <2>2
  <2> QED BY <2>1, <2>2
<1>4. m = IF l = <<>> \/ (h # <<>> /\ Last(h) = l) THEN e ELSE [e EXCEPT !.history = g]
  BY <1>1 DEF editor_add_history, Editors
<1> HIDE DEF g, m, h, l
<1>5. Good(m) /\ m.history = Newest(Keep(d, l)) /\ m.esc = e.esc
  <2>1. CASE l = <<>> \/ (h # <<>> /\ Last(h) = l)
    <3>1. m = e /\ Newest(Keep(d, l)) = h
      BY <1>2, <1>4, <2>1, Zenon
    <3> QED BY <3>1 DEF h
  <2>2. CASE ~(l = <<>> \/ (h # <<>> /\ Last(h) = l))
    <3> DEFINE u == [e EXCEPT !.history = g]
    <3>1. m = u /\ Newest(Keep(d, l)) = g
      BY <1>2, <1>4, <2>2, Zenon
    <3>2. u \in Editors /\ u.line = l /\ u.cursor = e.cursor /\ u.position = e.position /\ u.history = g
          /\ u.esc = e.esc
      BY <1>1, <1>3 DEF Editors, l
    <3> HIDE DEF u
    <3>3. Len(h) \in Nat
      BY <1>1
    <3>4. e.position \in -1 .. Len(g) - 1
      BY <1>1, <1>3, <3>3
    <3>5. Good(u)
      BY <1>1, <3>2, <3>4 DEF Good
    <3> QED BY <3>1, <3>2, <3>5
  <2> QED BY <2>1, <2>2
<1>6. Good([m EXCEPT !.term = Fresh]) /\ [m EXCEPT !.term = Fresh].history = m.history
      /\ [m EXCEPT !.term = Fresh].esc = m.esc /\ [m EXCEPT !.term = Fresh].term = Fresh
  BY <1>5, FreshenedIs
<1>7. Keep(d, l) \in Seq(Lines)
  BY <1>1, KeepLines
<1> QED BY <1>5, <1>6, <1>7 DEF m, l

----------------------------------------------------------------------------
(* The consoles.                                                          *)

EditorInv ==
    /\ Good(ed)
    /\ sess = "open" => Shown(ed) /\ Browses(ed)
    /\ sess = "running" => ed.term = Fresh
\* What was typed before the history was entered.
DraftInv ==
    /\ sess = "open" /\ ed.position < 0 => draft = ed.line
    /\ sess = "open" /\ ed.position >= 0 => ed.scratch = draft
HistoryInv ==
    /\ sent \in Seq(Lines) /\ Distinct(sent) \in Seq(Lines)
    /\ ed.history = Newest(Distinct(sent))
ClosedInv ==
    sess = "closed" => ed = bvstk_line_editor_init /\ sent = <<>> /\ enters = 0 /\ draft = <<>> /\ ~lf
\* An LF under way is the second half of the last Enter.
EnterInv ==
    /\ port \in {"uart", "tcp", "ssh", "shell"} /\ enters \in Nat
    /\ lf => ed.esc = "none"
    /\ lf /\ port # "tcp" => cr
    /\ port # "tcp" => Len(sent) = enters
\* Without other sessions the close flag belongs to this one.
QuitInv ==
    /\ others \in Nat /\ {flag, quits} \subseteq BOOLEAN
    /\ others = 0 /\ port \in Network /\ sess = "open" => ~flag
    /\ others = 0 /\ port \in Network /\ sess = "running" => flag = quits
    /\ others = 0 => fair
ConInv == EditorInv /\ DraftInv /\ HistoryInv /\ ClosedInv /\ EnterInv /\ QuitInv /\ TabKeepsTyped

\* What the invariant says for the user.
LEMMA ConInvHolds == ConInv => OnScreen /\ LinesIntact /\ QuitEndsItsSession
<1> SUFFICES ASSUME ConInv PROVE OnScreen /\ LinesIntact /\ QuitEndsItsSession
  OBVIOUS
<1>1. OnScreen
  BY DEF ConInv, EditorInv, Shown, OnScreen
<1>2. HistoryIntact
  BY DEF ConInv, EditorInv, DraftInv, HistoryInv, Browses, HistoryIntact
<1>3. EnterOnce
  BY DEF ConInv, EnterInv, EnterOnce
<1>4. QuitEndsItsSession
  BY DEF ConInv, QuitInv, QuitEndsItsSession
<1> QED BY <1>1, <1>2, <1>3, <1>4 DEF ConInv, LinesIntact

\* An empty history.
LEMMA NewestOfNone == Newest(<<>>) = <<>>
<1>1. Len(<<>>) = 0 /\ HistoryMax \in Nat /\ <<>> \in Seq(Lines)
  BY LineEditorAssumption
<1>2. Newest(<<>>) = SubSeq(<<>>, 1, Len(<<>>))
  BY <1>1 DEF Newest
<1> QED BY <1>1, <1>2, SubSeqFull

\* The invariant holds at first.
LEMMA ConInvInit == ConsoleInit => ConInv
<1> SUFFICES ASSUME ConsoleInit PROVE ConInv
  OBVIOUS
<1>1. /\ port \in Ports /\ sess = "closed" /\ ed = bvstk_line_editor_init /\ ~lf /\ sent = <<>> /\ enters = 0
      /\ draft = <<>> /\ kept = TRUE /\ fair = TRUE /\ others = 0 /\ flag = FALSE /\ quits = FALSE
  BY DEF ConsoleInit
<1>2. EditorInv /\ DraftInv /\ ClosedInv
  BY <1>1, InitIs DEF EditorInv, DraftInv, ClosedInv
<1>3. Newest(<<>>) = <<>>
  BY NewestOfNone
<1>4. HistoryInv
  <2>1. Distinct(sent) = <<>> /\ Newest(Distinct(sent)) = <<>>
    BY <1>1, <1>3, DistinctOfNone, Zenon
  <2>2. ed.history = <<>> /\ <<>> \in Seq(Lines)
    BY <1>1, InitIs
  <2> QED BY <1>1, <2>1, <2>2 DEF HistoryInv
<1>5. EnterInv /\ QuitInv /\ TabKeepsTyped
  BY <1>1, ConsoleBounds DEF EnterInv, QuitInv, TabKeepsTyped
<1> QED BY <1>2, <1>4, <1>5 DEF ConInv

\* Every byte of the editor that is not Enter.
LEMMA EditsKeep ==
    ASSUME ConInv, sess = "open", ~lf, NEW n, Moved(ed, n), Edits(n)
    PROVE  EditorInv' /\ DraftInv' /\ HistoryInv' /\ ClosedInv' /\ EnterInv' /\ QuitInv'
<1>1. /\ ed' = n /\ sess' = "open" /\ port' = port /\ flag' = flag /\ ~lf' /\ quits' = quits
      /\ others' = others /\ sent' = sent /\ enters' = enters /\ fair' = fair
      /\ draft' = IF n.position < 0 THEN n.line ELSE draft
  BY DEF Edits
<1>2. /\ Good(n) /\ Shown(n) /\ Browses(n) /\ n.history = ed.history
      /\ (n.position >= 0 => n.scratch = IF ed.position < 0 THEN ed.line ELSE ed.scratch)
      /\ n.position \in Int /\ ed.position \in Int
  BY GoodParts DEF Moved, ConInv, EditorInv
<1>3. EditorInv'
  BY <1>1, <1>2 DEF EditorInv
<1>4. DraftInv'
  BY <1>1, <1>2 DEF ConInv, DraftInv
<1>5. HistoryInv' /\ ClosedInv' /\ EnterInv' /\ QuitInv'
  BY <1>1, <1>2 DEF ConInv, HistoryInv, ClosedInv, EnterInv, QuitInv
<1> QED BY <1>3, <1>4, <1>5

\* Every key but Enter keeps the invariant.
LEMMA KeysKeep ==
    ASSUME ConInv,
           TypesInterrupt \/ (\E c \in Typed : TypesChar(c)) \/ (\E b \in Controls : TypesControl(b))
              \/ (\E b \in EscapeBytes : TypesEscape(b))
    PROVE  ConInv'
<1>1. ASSUME sess = "open", ~lf PROVE Steady(ed) /\ ~lf
  BY <1>1 DEF ConInv, EditorInv, Steady
<1>2. CASE TypesInterrupt
  <2>1. sess = "open" /\ ~lf /\ Edits(Interrupted(ed)) /\ kept' = kept
    BY <1>2 DEF TypesInterrupt, Presses
  <2>2. Moved(ed, Interrupted(ed))
    BY <1>1, <2>1, InterruptMoved
  <2>3. TabKeepsTyped'
    BY <2>1 DEF Edits, ConInv, TabKeepsTyped
  <2> QED BY <2>1, <2>2, <2>3, EditsKeep DEF ConInv
<1>3. CASE \E c \in Typed : TypesChar(c)
  <2>1. PICK c \in Typed : TypesChar(c)
    BY <1>3
  <2>2. sess = "open" /\ ~lf /\ Edits(editor_insert(ed, c)) /\ kept' = kept
    BY <2>1 DEF TypesChar, Presses
  <2>3. Moved(ed, editor_insert(ed, c))
    BY <1>1, <2>2, InsertMoved, ConsoleBounds
  <2>4. TabKeepsTyped'
    BY <2>2 DEF Edits, ConInv, TabKeepsTyped
  <2> QED BY <2>2, <2>3, <2>4, EditsKeep DEF ConInv
<1>4. CASE \E b \in Controls : TypesControl(b)
  <2>1. PICK b \in Controls : TypesControl(b)
    BY <1>4
  <2> DEFINE n == Control(ed, b, Style[port])
  <2>2. /\ sess = "open" /\ ~lf /\ Edits(n) /\ port' = port /\ ed' = n
        /\ kept' = (kept /\ (b = "TAB" => IsPrefix(Before(ed), Before(ed'))))
    BY <2>1 DEF TypesControl, Presses, Edits
  <2>3. Style[port] \in {"bare", "whole", "suffix"} /\ (port \in {"ssh", "shell"} => Style[port] # "bare")
    BY DEF ConInv, EnterInv, Style
  <2>4. Moved(ed, n) /\ (b = "TAB" /\ Style[port] # "bare" => IsPrefix(Before(ed), Before(n)))
    BY <1>1, <2>2, <2>3, ControlMoved
  <2> HIDE DEF n
  <2>5. TabKeepsTyped'
    <3>1. CASE port \in {"ssh", "shell"}
      <4>1. kept /\ (b = "TAB" => IsPrefix(Before(ed), Before(ed')))
        BY <2>2, <2>3, <2>4, <3>1 DEF ConInv, TabKeepsTyped
      <4>2. kept'
        BY <2>2, <4>1, Zenon
      <4> QED BY <4>2 DEF TabKeepsTyped
    <3>2. CASE port \notin {"ssh", "shell"}
      BY <2>2, <3>2 DEF TabKeepsTyped
    <3> QED BY <3>1, <3>2
  <2> QED BY <2>2, <2>4, <2>5, EditsKeep DEF ConInv
<1>5. CASE \E b \in EscapeBytes : TypesEscape(b)
  <2>1. PICK b \in EscapeBytes : TypesEscape(b)
    BY <1>5
  <2> DEFINE n == editor_handle_escape_byte(ed, b)
  <2>2. sess = "open" /\ ed.esc # "none" /\ Edits(n) /\ kept' = kept
    BY <2>1 DEF TypesEscape
  <2>3. ~lf
    BY <2>2 DEF ConInv, EnterInv
  <2>4. Moved(ed, n)
    BY <1>1, <2>2, <2>3, EscapeByteMoved
  <2> HIDE DEF n
  <2>5. TabKeepsTyped'
    BY <2>2 DEF Edits, ConInv, TabKeepsTyped
  <2> QED BY <2>2, <2>3, <2>4, <2>5, EditsKeep DEF ConInv
<1> QED BY <1>2, <1>3, <1>4, <1>5

\* A line submitted keeps the invariant, but for the count of Enters.
LEMMA SubmitKeeps ==
    ASSUME ConInv, sess = "open", ed.esc = "none", NEW isCr \in BOOLEAN, NEW lfLater \in BOOLEAN,
           Submits(isCr, lfLater)
    PROVE  /\ EditorInv' /\ DraftInv' /\ HistoryInv' /\ ClosedInv' /\ QuitInv' /\ TabKeepsTyped'
           /\ ed'.esc = "none" /\ sent' \in Seq(Lines) /\ Len(sent') = Len(sent) + 1
<1> DEFINE d == Distinct(sent)
           l == ed.line
           n == [editor_add_history(ed) EXCEPT !.term = Fresh]
<1>1. /\ sess' = "running" /\ ed' = n /\ sent' = Append(sent, l) /\ port' = port /\ others' = others
      /\ draft' = draft /\ kept' = kept /\ fair' = fair /\ (flag' = (flag \/ quits')) /\ quits' \in BOOLEAN
  BY DEF Submits
<1>2. Good(ed) /\ sent \in Seq(Lines) /\ d \in Seq(Lines) /\ ed.history = Newest(d) /\ l \in Lines
  BY GoodParts DEF ConInv, EditorInv, HistoryInv
<1>3. Distinct(Append(sent, l)) = Keep(d, l)
  BY <1>2, DistinctGrows
<1>4. Append(sent, l) \in Seq(Lines) /\ Len(Append(sent, l)) = Len(sent) + 1
  BY <1>2
<1> HIDE DEF d
<1>5. /\ Good(n) /\ n.term = Fresh /\ n.esc = ed.esc
      /\ Keep(d, l) \in Seq(Lines) /\ n.history = Newest(Keep(d, l))
  BY <1>2, Submitted
<1> HIDE DEF n, l
<1>6. EditorInv' /\ DraftInv' /\ ClosedInv'
  BY <1>1, <1>5 DEF EditorInv, DraftInv, ClosedInv
<1>7. HistoryInv'
  <2>1. Distinct(sent') = Keep(d, l)
    BY <1>1, <1>3, Zenon
  <2>2. sent' \in Seq(Lines) /\ Distinct(sent') \in Seq(Lines) /\ ed'.history = Newest(Distinct(sent'))
    BY <1>1, <1>4, <1>5, <2>1, Zenon
  <2> QED BY <2>2, Zenon DEF HistoryInv
<1>8. QuitInv'
  BY <1>1 DEF ConInv, QuitInv
<1>9. TabKeepsTyped'
  BY <1>1 DEF ConInv, TabKeepsTyped
<1>10. ed'.esc = "none" /\ sent' \in Seq(Lines) /\ Len(sent') = Len(sent) + 1
  BY <1>1, <1>4, <1>5
<1> QED BY <1>6, <1>7, <1>8, <1>9, <1>10

\* CR, LF and CR LF submit one line, except on the TCP console.
LEMMA EnterKeeps == ASSUME ConInv, PressesEnter \/ LateLf PROVE ConInv'
<1>0. sent \in Seq(Lines) /\ Len(sent) \in Nat /\ enters \in Nat
  BY DEF ConInv, HistoryInv, EnterInv
<1>1. CASE PressesEnter
  <2>1. PICK code \in {"cr", "lf", "crlf"} : Submits(code # "lf" /\ port # "tcp", code = "crlf")
    BY <1>1 DEF PressesEnter
  <2> DEFINE isCr == code # "lf" /\ port # "tcp"
             lfLater == code = "crlf"
  <2>2. /\ sess = "open" /\ ~lf /\ ed.esc = "none" /\ enters' = enters + 1 /\ cr' = isCr /\ lf' = lfLater
        /\ port' = port /\ isCr \in BOOLEAN /\ lfLater \in BOOLEAN /\ Submits(isCr, lfLater)
    BY <1>1, <2>1 DEF PressesEnter, Presses, Submits
  <2>3. lfLater /\ port # "tcp" => isCr
    OBVIOUS
  <2> HIDE DEF isCr, lfLater
  <2>4. /\ EditorInv' /\ DraftInv' /\ HistoryInv' /\ ClosedInv' /\ QuitInv' /\ TabKeepsTyped'
        /\ ed'.esc = "none" /\ Len(sent') = Len(sent) + 1
    BY <2>2, SubmitKeeps
  <2>5. EnterInv'
    BY <1>0, <2>2, <2>3, <2>4 DEF ConInv, EnterInv
  <2> QED BY <2>4, <2>5 DEF ConInv
<1>2. CASE LateLf /\ cr
  <2>1. /\ sess = "open" /\ ~lf' /\ port' = port /\ sess' = sess /\ ed' = ed /\ flag' = flag /\ quits' = quits
        /\ others' = others /\ sent' = sent /\ enters' = enters /\ draft' = draft /\ kept' = kept /\ fair' = fair
    BY <1>2 DEF LateLf
  <2> QED BY <2>1 DEF ConInv, EditorInv, DraftInv, HistoryInv, ClosedInv, EnterInv, QuitInv, TabKeepsTyped
<1>3. CASE LateLf /\ ~cr
  <2>1. sess = "open" /\ lf /\ Submits(FALSE, FALSE) /\ ~lf' /\ enters' = enters /\ port' = port
    BY <1>3 DEF LateLf, Submits
  <2>2. ed.esc = "none" /\ port = "tcp"
    BY <1>3, <2>1 DEF ConInv, EnterInv
  <2>3. EditorInv' /\ DraftInv' /\ HistoryInv' /\ ClosedInv' /\ QuitInv' /\ TabKeepsTyped'
    BY <2>1, <2>2, SubmitKeeps
  <2>4. EnterInv'
    BY <2>1, <2>2 DEF ConInv, EnterInv
  <2> QED BY <2>3, <2>4 DEF ConInv
<1> QED BY <1>1, <1>2, <1>3

\* The end of a command keeps the invariant.
LEMMA CommandKeeps == ASSUME ConInv, CommandEnds PROVE ConInv'
<1> DEFINE m == bvstk_line_editor_reset(ed)
           stops == port \in Network /\ flag
           n == IF stops THEN m ELSE ShowPrompt(m)
<1>1. /\ sess = "running" /\ sess' = (IF stops THEN "ended" ELSE "open") /\ ed' = n /\ draft' = <<>>
      /\ fair' = (fair /\ (port \in Network => stops = quits))
      /\ (port \in Network => flag' = flag) /\ flag' \in {FALSE, flag} /\ quits' = FALSE
      /\ port' = port /\ cr' = cr /\ lf' = lf /\ others' = others /\ sent' = sent /\ enters' = enters /\ kept' = kept
  BY DEF CommandEnds, Network
<1>2. /\ Good(m) /\ m.line = <<>> /\ m.cursor = 0 /\ m.position = -1
      /\ m.history = ed.history /\ m.esc = "none" /\ m.term = Fresh
  BY <1>1, ResetIs DEF ConInv, EditorInv
<1>3. Steady(ShowPrompt(m)) /\ ShowPrompt(m).line = <<>> /\ ShowPrompt(m).position = -1
      /\ ShowPrompt(m).history = ed.history /\ ShowPrompt(m).esc = "none"
  <2> HIDE DEF m
  <2> QED BY <1>2, PromptShows
<1> HIDE DEF m
<1>4. /\ Good(n) /\ n.line = <<>> /\ n.position = -1 /\ n.history = ed.history /\ n.esc = "none"
      /\ (~stops => Shown(n) /\ Browses(n))
  BY <1>2, <1>3 DEF Steady
<1> HIDE DEF n
<1>5. EditorInv' /\ DraftInv' /\ ClosedInv'
  BY <1>1, <1>4 DEF EditorInv, DraftInv, ClosedInv
<1>6. HistoryInv' /\ EnterInv' /\ TabKeepsTyped'
  BY <1>1, <1>4 DEF ConInv, HistoryInv, EnterInv, TabKeepsTyped
<1>7. QuitInv'
  <2>1. others = 0 /\ port \in Network => flag = quits /\ (stops <=> flag) /\ flag \in BOOLEAN
    BY <1>1 DEF ConInv, QuitInv
  <2>2. others = 0 => fair'
    <3>1. others = 0 /\ port \in Network => stops = quits
      BY <2>1
    <3>2. others = 0 => fair
      BY DEF ConInv, QuitInv
    <3> HIDE DEF stops
    <3>3. ASSUME others = 0 PROVE fair'
      <4>1. fair /\ (port \in Network => stops = quits)
        BY <3>1, <3>2, <3>3
      <4>2. fair' = (fair /\ (port \in Network => stops = quits))
        BY <1>1, Zenon
      <4> QED BY <4>1, <4>2, Zenon
    <3> QED BY <3>3
  <2>3. flag \in BOOLEAN /\ flag' \in BOOLEAN /\ quits' = FALSE /\ others' = others /\ others \in Nat
    BY <1>1 DEF ConInv, QuitInv
  <2>4. ASSUME port \in Network, sess' = "open" PROVE ~flag'
    <3>1. ~stops /\ flag' = flag
      BY <1>1, <2>4
    <3> QED BY <2>4, <3>1
  <2>5. sess' # "running" /\ port' = port
    BY <1>1
  <2> QED BY <2>2, <2>3, <2>4, <2>5 DEF QuitInv
<1> QED BY <1>5, <1>6, <1>7 DEF ConInv

\* Sessions that come and go, here and on the other ports, keep the invariant.
LEMMA SessionKeeps == ASSUME ConInv, OpenSession \/ TypesEof \/ ClosesSession \/ OthersAct PROVE ConInv'
<1>1. CASE OpenSession
  <2> DEFINE m == bvstk_line_editor_init
             n == ShowPrompt(m)
  <2>1. /\ sess = "closed" /\ sess' = "open" /\ ed' = n /\ port' = port /\ (port \in Network => ~flag')
        /\ flag' \in {FALSE, flag} /\ quits' = quits /\ cr' = cr /\ lf' = lf /\ others' = others /\ sent' = sent /\ enters' = enters /\ draft' = draft
        /\ kept' = kept /\ fair' = fair
    BY <1>1 DEF OpenSession, flag_at_start
  <2>2. ed = m /\ sent = <<>> /\ enters = 0 /\ draft = <<>> /\ ~lf
    BY <2>1 DEF ConInv, ClosedInv
  <2>3. /\ Good(m) /\ m.line = <<>> /\ m.cursor = 0 /\ m.position = -1
        /\ m.esc = "none" /\ m.term = Fresh
    BY InitIs
  <2> HIDE DEF m
  <2>4. Steady(n) /\ n.line = <<>> /\ n.position = -1 /\ n.history = m.history
    BY <2>3, PromptShows
  <2> HIDE DEF n
  <2>5. EditorInv' /\ DraftInv' /\ ClosedInv' /\ HistoryInv'
    BY <2>1, <2>2, <2>4 DEF ConInv, EditorInv, DraftInv, ClosedInv, HistoryInv, Steady
  <2>6. EnterInv' /\ QuitInv' /\ TabKeepsTyped'
    BY <2>1, <2>2 DEF ConInv, EnterInv, QuitInv, TabKeepsTyped
  <2> QED BY <2>5, <2>6 DEF ConInv
<1>2. CASE TypesEof
  <2>1. /\ sess' = "ended" /\ port' = port /\ ed' = ed /\ flag' = flag /\ quits' = quits /\ lf' = lf /\ cr' = cr
        /\ others' = others /\ sent' = sent /\ enters' = enters /\ draft' = draft /\ kept' = kept /\ fair' = fair
    BY <1>2 DEF TypesEof
  <2> QED BY <2>1 DEF ConInv, EditorInv, DraftInv, HistoryInv, ClosedInv, EnterInv, QuitInv, TabKeepsTyped
<1>3. CASE ClosesSession
  <2>1. /\ sess' = "closed" /\ ed' = bvstk_line_editor_init /\ ~lf' /\ sent' = <<>> /\ enters' = 0 /\ draft' = <<>>
        /\ port' = port /\ others' = others /\ kept' = kept /\ fair' = fair /\ flag' = flag /\ quits' = quits
    BY <1>3 DEF ClosesSession
  <2>2. EditorInv' /\ DraftInv' /\ ClosedInv'
    BY <2>1, InitIs DEF EditorInv, DraftInv, ClosedInv
  <2>3. HistoryInv'
    <3>1. Distinct(sent') = <<>> /\ Newest(Distinct(sent')) = <<>>
      BY <2>1, NewestOfNone, DistinctOfNone, Zenon
    <3>2. ed'.history = <<>> /\ <<>> \in Seq(Lines)
      BY <2>1, InitIs
    <3> QED BY <2>1, <3>1, <3>2 DEF HistoryInv
  <2>4. EnterInv' /\ QuitInv' /\ TabKeepsTyped'
    BY <2>1 DEF ConInv, EnterInv, QuitInv, TabKeepsTyped
  <2> QED BY <2>2, <2>3, <2>4 DEF ConInv
<1>4. CASE OthersAct
  <2>1. /\ others' = others + 1 /\ flag' \in BOOLEAN /\ quits' = quits /\ port' = port /\ sess' = sess /\ ed' = ed /\ cr' = cr /\ lf' = lf
        /\ sent' = sent /\ enters' = enters /\ draft' = draft /\ kept' = kept /\ fair' = fair
    BY <1>4 DEF OthersAct
  <2>2. others' \in Nat /\ others' # 0
    BY <2>1 DEF ConInv, QuitInv
  <2> QED BY <2>1, <2>2
          DEF ConInv, EditorInv, DraftInv, HistoryInv, ClosedInv, EnterInv, QuitInv, TabKeepsTyped
<1> QED BY <1>1, <1>2, <1>3, <1>4

\* Every step keeps the invariant.
LEMMA ConInvStep == ConInv /\ [ConsoleNext]_convars => ConInv'
<1> SUFFICES ASSUME ConInv, [ConsoleNext]_convars PROVE ConInv'
  OBVIOUS
<1>1. CASE UNCHANGED convars
  BY <1>1 DEF convars, ConInv, EditorInv, DraftInv, HistoryInv, ClosedInv, EnterInv, QuitInv, TabKeepsTyped
<1>2. CASE ConsoleNext
  BY <1>2, KeysKeep, EnterKeeps, CommandKeeps, SessionKeeps DEF ConsoleNext
<1> QED BY <1>1, <1>2

\* The inductive invariant of the consoles, with it the bound of the line buffer:
\* Good(ed) says that no sequence of keys makes the line as long as LineMax.
THEOREM ConInvariant == ConsoleSpec => []ConInv
<1> QED BY ConInvInit, ConInvStep, PTL DEF ConsoleSpec

\* Whatever is typed, in whatever order, the terminal shows the prompt and the
\* line with the cursor in its place: the partial rewrites of editor_insert and the
\* moves never go out of step with the buffer.
THEOREM ScreenIsTrue == ConsoleSpec => []OnScreen
<1> QED BY ConInvariant, ConInvHolds, PTL

\* One Enter submits one line, the history holds the last distinct lines and gives
\* back the line that was being typed, and a Tab keeps what was typed, for every
\* size of the buffer and of the history.
THEOREM NoLineIsLost == ConsoleSpec => []LinesIntact
<1> QED BY ConInvariant, ConInvHolds, PTL

\* A session ends after its own quit and only then, as long as no other session
\* touches the close flag they share.
THEOREM QuitEnds == ConsoleSpec => []QuitEndsItsSession
<1> QED BY ConInvariant, ConInvHolds, PTL

\* The part of the model that is looked at never changes, and the other parts
\* leave the consoles alone: what is proved of the consoles holds of the whole.
THEOREM FilesHaveConsoles == FilesSpec => ConsoleSpec
<1>1. FilesInit => ConsoleInit
  BY DEF FilesInit
<1>2. [FilesNext]_<<part, vars, xfervars, convars>> => [ConsoleNext]_convars
  <2> SUFFICES ASSUME [FilesNext]_<<part, vars, xfervars, convars>> PROVE [ConsoleNext]_convars
    OBVIOUS
  <2>1. CASE UNCHANGED <<part, vars, xfervars, convars>>
    BY <2>1
  <2>2. CASE FilesNext
    BY <2>2 DEF FilesNext
  <2> QED BY <2>1, <2>2
<1> QED BY <1>1, <1>2, PTL DEF FilesSpec, ConsoleSpec

----------------------------------------------------------------------------
(* The DCP2 file service.                                                   *)
(*                                                                          *)
(* What a stream has given, what fills its block and what is staged are, put *)
(* together, its flow: every step of the reader makes the flow go on at its  *)
(* end and nowhere else (FlowStep), and XferInv says where in the flow the   *)
(* reader stands.  An archive is a chain of entries up to the last one, of   *)
(* which the reader's phase and counts say how much is still owed (TarAt).   *)
(* A stream nobody has disturbed names, in the directories it has named,     *)
(* every object that is there or still has it to come (SteadyFlow).          *)

Units == {Zero} \cup {Header(n, size) : n \in AllNames, size \in Nat}
               \cup {Data(n, ver) : n \in StoredFiles, ver \in Int}
Versions == [here : BOOLEAN, size : Nat, ver : Nat]
Phases == {"data", "walk", "padding", "opening", "finished"}
Readers ==
    [id : Nat \ {0}, open_id : OpenIds, kind : {"file", "tree", "tar"}, root : AllNames,
     phase : Phases, file : {<<>>} \cup (StoredFiles \X Int),
     info : [name : AllNames, size : Nat], remaining : Nat, padding : Nat,
     stage : Seq(Units), dirs : Seq([dir : DOMAIN Layout, pos : Nat]),
     has : BOOLEAN, last : Nat, cached : Seq(Units), eof : BOOLEAN, term : BOOLEAN]
OpenRequests == [op : {"open"}, slot : Handles, oid : OpenIds, kind : {"file", "tree", "tar"},
                 name : AllNames, size : Nat]
ReadRequests == [op : {"read"}, slot : Handles, block : Nat, fill : Seq(Units)]
Replies == Seq(Units) \X BOOLEAN
Openings == [kind : {"file", "tree", "tar"}, name : AllNames, size : Nat]

XferTypes ==
    /\ media \in [StoredFiles -> Versions]
    /\ handles \in [Handles -> {NoHandle} \cup Readers]
    /\ next_handle \in Nat \ {0}
    /\ request \in {Quiet} \cup OpenRequests \cup ReadRequests
    /\ replies \in Seq(Seq(Replies)) /\ Len(replies) = next_handle - 1
    /\ opens \in Seq(Openings) /\ Len(opens) = next_handle - 1
    /\ steady \subseteq 1 .. next_handle - 1
    /\ honest \in BOOLEAN /\ rewrites \in Nat /\ faults \in Nat

\* An entry of an archive whose file has size units.
SpanOf(size) == TarUnits + size + Padding(size)
Inside(w, p, j) ==
    IF j \in p + TarUnits .. p + TarUnits + w[p][3] - 1
    THEN w[j][1] = "data" /\ w[j][2] = w[p][2] ELSE w[j] = Zero
Entry(w, p) ==
    /\ w[p][1] = "head" /\ w[p][3] \in Nat
    /\ \A j \in p + 1 .. p + SpanOf(w[p][3]) - 1 : Inside(w, p, j)
Chain(w, m) ==
    \E P \in SUBSET (1 .. m) :
        1 \in P /\ m \in P /\ \A p \in P \ {m} : Entry(w, p) /\ p + SpanOf(w[p][3]) \in P

TarAt(r, w, m) ==
    /\ Chain(w, m)
    /\ r.phase \in {"walk", "opening"} => m = Len(w) + 1
    /\ r.phase \in {"data", "padding"} =>
          /\ m <= Len(w) /\ w[m] = Header(r.info.name, r.info.size)
          /\ \A j \in m + 1 .. Len(w) : Inside(w, m, j)
    /\ r.phase = "data" =>
          r.remaining <= r.info.size /\ Len(w) + r.remaining = m + TarUnits - 1 + r.info.size
    /\ r.phase = "padding" =>
          r.padding <= Padding(r.info.size) /\ Len(w) + r.padding = m + SpanOf(r.info.size) - 1
    /\ r.phase = "finished" =>
          Len(w) = m - 1 + 2 * TarUnits /\ \A j \in m .. Len(w) : w[j] = Zero
TarFlow(r, w) == \E m \in 1 .. Len(w) + 1 : TarAt(r, w, m)

AllOf(w, name) == \A j \in DOMAIN w : w[j][1] = "data" /\ w[j][2] = name
FileFlow(r, w) ==
    /\ r.stage = <<>> /\ Len(w) + r.remaining = r.info.size
    /\ r.phase = "finished" => r.remaining = 0
    /\ AllOf(w, r.info.name)

\* What a phase means for the rest of the reader.
PhaseFits(r) ==
    /\ r.kind = "file" => r.phase \in {"data", "finished"}
    /\ r.kind = "tree" => r.phase \in {"walk", "finished"}
    /\ r.phase = "data" => r.file # <<>> /\ r.file[1] = r.info.name
    /\ r.phase # "data" => r.file = <<>>
    /\ r.phase = "opening" => r.stage = <<>> /\ r.kind = "tar" /\ r.info.name \in StoredFiles
    /\ r.phase = "finished" => r.dirs = <<>>
    /\ r.kind = "file" => r.dirs = <<>>

Present(n, md) == n \in StoredFiles => md[n].here
Named(r, w) == Listed(w) \cup (IF r.phase = "opening" THEN {r.info.name} ELSE {})
Coming(r, d, k) == \E l \in DOMAIN r.dirs : r.dirs[l].dir = d /\ k > r.dirs[l].pos
UpToDate(w, md) == \A i \in DOMAIN w : w[i][1] = "data" => w[i][3] = md[w[i][2]].ver
SteadyFlow(r, w, md) ==
    /\ UpToDate(w, md)
    /\ r.file # <<>> => r.file[2] = md[r.file[1]].ver
    /\ r.kind # "file" =>
          /\ Named(r, w) \subseteq {n \in TreeNames : Present(n, md)}
          /\ \A d \in (Named(r, w) \cup {TopDir}) \cap DOMAIN Layout : \A k \in DOMAIN Layout[d] :
                \/ Layout[d][k] \in Named(r, w)
                \/ ~Present(Layout[d][k], md)
                \/ Coming(r, d, k)

\* What a reader is to the flow of its stream: where it stands, what the
\* stream still owes, and that a stream nobody disturbed misses nothing.
Runs(r, w, quiet, md) ==
    /\ r \in Readers /\ w \in Seq(Units) /\ PhaseFits(r)
    /\ r.kind = "file" => FileFlow(r, w)
    /\ r.kind = "tar" => TarFlow(r, w)
    /\ quiet => SteadyFlow(r, w, md)

\* What the handle remembers of its stream: how it was opened, the last block.
Remembers(r, rs, o) ==
    /\ o.kind = r.kind /\ (r.kind = "file" => o.size = r.info.size /\ o.name = r.info.name)
    /\ r.has => Len(rs) = r.last + 1 /\ rs[r.last + 1] = <<r.cached, r.eof>>
    /\ ~r.has => rs = <<>>

Filling(q, i) == IF q.op = "read" /\ q.slot = i THEN q.fill ELSE <<>>
GotOf(rs) == FlattenSeq([b \in DOMAIN rs |-> rs[b][1]])
FlowOf(rs, fill, stage) == GotOf(rs) \o fill \o stage
Flowing(i) == FlowOf(replies[handles[i].id], Filling(request, i), handles[i].stage)

HandleFits(i) ==
    /\ handles[i].id < next_handle
    /\ Remembers(handles[i], replies[handles[i].id], opens[handles[i].id])
    /\ ~handles[i].term => Runs(handles[i], Flowing(i), handles[i].id \in steady, media)

OneHandle == \A i, j \in Handles : Live(i) /\ Live(j) /\ handles[i].id = handles[j].id => i = j

RequestFits ==
    /\ request.op = "open" =>
          /\ ~Live(request.slot)
          /\ IF request.kind = "file" THEN request.name \in StoredFiles ELSE request.name = TopDir
    /\ request.op = "read" =>
          /\ Live(request.slot) /\ ~handles[request.slot].term
          /\ request.block = Len(replies[handles[request.slot].id])
          /\ Len(request.fill) <= BlockUnits

\* A stream that has ended: the part of StreamWhole about one handle.
EndedWhole(u, o) ==
    /\ o.kind = "file" => Len(u) = o.size /\ AllOf(u, o.name)
    /\ o.kind = "tar" => IsArchive(u)
SteadyWhole(u, o, md) ==
    /\ UpToDate(u, md)
    /\ o.kind # "file" => Listed(u) = {n \in TreeNames : Present(n, md)}
StreamFits(rs, o, quiet, md) ==
    /\ \A b \in DOMAIN rs : rs[b][1] = <<>> => rs[b][2]
    /\ rs # <<>> /\ Last(rs)[2] =>
          EndedWhole(GotOf(rs), o) /\ (quiet => SteadyWhole(GotOf(rs), o, md))

XferInv ==
    /\ XferTypes /\ honest = TRUE /\ NoLeak /\ RequestFits /\ OneHandle
    /\ \A i \in Handles : Live(i) => HandleFits(i)
    /\ \A h \in DOMAIN replies : StreamFits(replies[h], opens[h], h \in steady, media)

\* FlattenSeq is the last value of a recursive function over the blocks.
IsFlat(f, s, k) == f = [i \in 1 .. k |-> IF i = 1 THEN s[i] ELSE f[i - 1] \o s[i]]

\* Such a function exists, for every length.
LEMMA FlatExists == ASSUME NEW s, NEW k \in Nat PROVE \E f : IsFlat(f, s, k)
<1> DEFINE Has(n) == \E f : IsFlat(f, s, n)
           bad == {n \in Nat : ~Has(n)}
<1>1. SUFFICES ASSUME bad # {} PROVE FALSE
  BY <1>1
<1>2. bad \subseteq Nat
  OBVIOUS
<1> HIDE DEF bad
<1>3. PICK n \in bad : \A m \in bad : n <= m
  BY <1>1, <1>2, FirstExists
<1>4. n \in Nat /\ ~Has(n)
  BY <1>3 DEF bad
<1>5. CASE n = 0
  <2>1. IsFlat([i \in 1 .. 0 |-> 0], s, 0)
    BY DEF IsFlat
  <2> QED BY <1>4, <1>5, <2>1
<1>6. CASE n # 0
  <2>1. n - 1 \in Nat /\ ~(n <= n - 1)
    BY <1>4, <1>6
  <2>2. n - 1 \notin bad
    BY <1>3, <2>1
  <2>3. Has(n - 1)
    <3> HIDE DEF Has
    <3> QED BY <2>1, <2>2 DEF bad
  <2>4. PICK f : IsFlat(f, s, n - 1)
    BY <2>3
  <2> DEFINE last == IF n = 1 THEN s[n] ELSE f[n - 1] \o s[n]
             g == [i \in 1 .. n |-> IF i = n THEN last ELSE f[i]]
  <2>5. \A i \in 1 .. n - 1 : f[i] = IF i = 1 THEN s[i] ELSE f[i - 1] \o s[i]
    BY <2>4, Zenon DEF IsFlat
  <2>6. ASSUME NEW i \in 1 .. n PROVE g[i] = IF i = 1 THEN s[i] ELSE g[i - 1] \o s[i]
    <3>1. CASE i = n
      <4>1. g[i] = last
        BY <3>1
      <4>2. i # 1 => n # 1 /\ i - 1 = n - 1 /\ n - 1 # n /\ n - 1 \in 1 .. n
        BY <1>4, <3>1
      <4>3. n - 1 \in 1 .. n /\ n - 1 # n => g[n - 1] = f[n - 1]
        OBVIOUS
      <4> HIDE DEF g
      <4> QED BY <3>1, <4>1, <4>2, <4>3, Zenon
    <3>2. CASE i # n
      <4>1. i \in 1 .. n - 1 /\ (i # 1 => i - 1 \in 1 .. n /\ i - 1 # n)
        BY <1>4, <3>2
      <4>2. g[i] = f[i] /\ (i # 1 => g[i - 1] = f[i - 1])
        BY <3>2, <4>1
      <4> HIDE DEF g
      <4> QED BY <2>5, <4>1, <4>2, Zenon
    <3> QED BY <3>1, <3>2
  <2>7. g = [i \in 1 .. n |-> g[i]]
    OBVIOUS
  <2> HIDE DEF g
  <2>8. g = [i \in 1 .. n |-> IF i = 1 THEN s[i] ELSE g[i - 1] \o s[i]]
    BY <2>6, <2>7, Zenon
  <2> QED BY <1>4, <2>8 DEF IsFlat
<1> QED BY <1>5, <1>6

\* Its values.
LEMMA FlatAt ==
    ASSUME NEW s, NEW k \in Nat, NEW f, IsFlat(f, s, k), NEW n \in 1 .. k
    PROVE  f[n] = IF n = 1 THEN s[n] ELSE f[n - 1] \o s[n]
  BY Zenon DEF IsFlat

\* It looks at no block beyond the one it is asked for.
LEMMA FlatSame ==
    ASSUME NEW s, NEW t, NEW k \in Nat, NEW m \in Nat, k <= m, k # 0, NEW f, NEW g,
           IsFlat(f, s, k), IsFlat(g, t, m), \A n \in 1 .. k : s[n] = t[n]
    PROVE  f[k] = g[k]
<1> DEFINE bad == {n \in 1 .. k : f[n] # g[n]}
<1>1. SUFFICES ASSUME bad # {} PROVE FALSE
  <2>1. k \in 1 .. k
    OBVIOUS
  <2> QED BY <1>1, <2>1
<1>2. bad \subseteq Nat
  OBVIOUS
<1> HIDE DEF bad
<1>3. PICK n \in bad : \A i \in bad : n <= i
  BY <1>1, <1>2, FirstExists
<1>4. n \in 1 .. k /\ f[n] # g[n] /\ n \in 1 .. m
  BY <1>3 DEF bad
<1>5. f[n] = (IF n = 1 THEN s[n] ELSE f[n - 1] \o s[n])
  BY <1>4, FlatAt
<1>6. g[n] = (IF n = 1 THEN t[n] ELSE g[n - 1] \o t[n])
  BY <1>4, FlatAt
<1>7. n # 1
  BY <1>4, <1>5, <1>6
<1>8. n - 1 \in 1 .. k /\ ~(n <= n - 1)
  BY <1>4, <1>7
<1>9. f[n - 1] = g[n - 1]
  BY <1>3, <1>8 DEF bad
<1> QED BY <1>4, <1>5, <1>6, <1>7, <1>9

\* FlattenSeq of a sequence that is not empty is its last value.
LEMMA FlattenFlat ==
    ASSUME NEW s, Len(s) \in Nat \ {0}
    PROVE  \E f : IsFlat(f, s, Len(s)) /\ FlattenSeq(s) = f[Len(s)]
<1> DEFINE g == CHOOSE f : IsFlat(f, s, Len(s))
<1>1. IsFlat(g, s, Len(s))
  BY FlatExists
<1>2. FlattenSeq(s) = g[Len(s)]
  BY Zenon DEF FlattenSeq, IsFlat
<1> QED BY <1>1, <1>2

\* The blocks received so far, one after the other.

\* No block, no unit.
LEMMA GotNone == GotOf(<<>>) = <<>>
<1>1. [b \in DOMAIN <<>> |-> <<>>[b][1]] = <<>>
  OBVIOUS
<1> QED BY <1>1 DEF GotOf, FlattenSeq

\* The blocks of the replies, as a sequence.
LEMMA BlocksOf ==
    ASSUME NEW rs \in Seq(Replies)
    PROVE  LET s == [b \in DOMAIN rs |-> rs[b][1]] IN
           /\ s \in Seq(Seq(Units)) /\ Len(s) = Len(rs) /\ Len(rs) \in Nat
           /\ \A n \in 1 .. Len(rs) : s[n] = rs[n][1]
<1> DEFINE s == [b \in DOMAIN rs |-> rs[b][1]]
           k == Len(rs)
<1>1. k \in Nat /\ DOMAIN rs = 1 .. k
  BY LenProperties
<1>2. ASSUME NEW n \in 1 .. k PROVE rs[n][1] \in Seq(Units)
  <2>1. rs[n] \in Replies
    BY <1>2, ElementOfSeq
  <2> QED BY <2>1 DEF Replies
<1>3. s = [n \in 1 .. k |-> rs[n][1]]
  BY <1>1
<1> HIDE DEF k
<1>4. s \in Seq(Seq(Units)) /\ Len(s) = k /\ \A n \in 1 .. k : s[n] = rs[n][1]
  BY <1>1, <1>2, <1>3
<1> QED BY <1>1, <1>4 DEF k

\* One block more.
LEMMA GotAppend ==
    ASSUME NEW rs \in Seq(Replies), NEW x \in Seq(Units), NEW e \in BOOLEAN
    PROVE  GotOf(Append(rs, <<x, e>>)) = GotOf(rs) \o x
<1> DEFINE qs == Append(rs, <<x, e>>)
           s == [b \in DOMAIN rs |-> rs[b][1]]
           t == [b \in DOMAIN qs |-> qs[b][1]]
           k == Len(rs)
<1>0. /\ k \in Nat /\ qs \in Seq(Replies) /\ Len(qs) = k + 1
      /\ qs[k + 1] = <<x, e>> /\ \A n \in 1 .. k : qs[n] = rs[n]
  <2>1. <<x, e>> \in Replies
    BY DEF Replies
  <2> QED BY <2>1, AppendProperties, LenProperties
<1> HIDE DEF qs, k
<1>1. k \in Nat /\ Len(s) = k /\ Len(t) = k + 1 /\ s \in Seq(Seq(Units))
  BY <1>0, BlocksOf DEF k
<1>a. /\ \A n \in 1 .. k : s[n] = rs[n][1]
      /\ \A n \in 1 .. k + 1 : t[n] = qs[n][1]
  BY <1>0, BlocksOf DEF k
<1>b. k + 1 \in 1 .. k + 1 /\ \A n \in 1 .. k : n \in 1 .. k + 1
  BY <1>1
<1> HIDE DEF s, t
<1>2. t[k + 1] = x /\ \A n \in 1 .. k : s[n] = t[n]
  BY <1>0, <1>a, <1>b
<1>3. GotOf(rs) = FlattenSeq(s) /\ GotOf(qs) = FlattenSeq(t)
  BY DEF GotOf, s, t
<1>4. k = 0 => s = <<>>
  BY <1>1
<1>5. PICK g : IsFlat(g, t, k + 1) /\ FlattenSeq(t) = g[k + 1]
  BY <1>1, FlattenFlat
<1>6. g[k + 1] = (IF k + 1 = 1 THEN t[k + 1] ELSE g[k + 1 - 1] \o t[k + 1])
  BY <1>1, <1>5, FlatAt
<1>7. CASE k = 0
  <2>1. FlattenSeq(s) = <<>>
    BY <1>1, <1>4, <1>7 DEF FlattenSeq
  <2>2. <<>> \o x = x
    BY ConcatEmptySeq
  <2> QED BY <1>2, <1>3, <1>5, <1>6, <1>7, <2>1, <2>2 DEF qs
<1>8. CASE k # 0
  <2>1. PICK f : IsFlat(f, s, k) /\ FlattenSeq(s) = f[k]
    BY <1>1, <1>8, FlattenFlat
  <2>2. f[k] = g[k]
    <3>1. k <= k + 1 /\ k + 1 \in Nat /\ k \in Nat /\ k # 0
      BY <1>1, <1>8
    <3>2. IsFlat(f, s, k) /\ IsFlat(g, t, k + 1) /\ \A n \in 1 .. k : s[n] = t[n]
      BY <1>2, <1>5, <2>1
    <3> QED BY <3>1, <3>2, FlatSame
  <2>3. k + 1 # 1 /\ k + 1 - 1 = k
    BY <1>1, <1>8
  <2> QED BY <1>2, <1>3, <1>5, <1>6, <2>1, <2>2, <2>3 DEF qs
<1> QED BY <1>7, <1>8

\* What has been received is a sequence of units.
LEMMA GotType == ASSUME NEW rs \in Seq(Replies) PROVE GotOf(rs) \in Seq(Units)
<1> DEFINE s == [b \in DOMAIN rs |-> rs[b][1]]
           k == Len(s)
<1>1. s \in Seq(Seq(Units)) /\ k \in Nat
  BY BlocksOf
<1>2. GotOf(rs) = FlattenSeq(s)
  BY DEF GotOf
<1> HIDE DEF s, k
<1>3. CASE k = 0
  <2>1. s = <<>>
    BY <1>1, <1>3 DEF k
  <2> QED BY <1>2, <2>1 DEF FlattenSeq
<1>4. CASE k # 0
  <2>1. PICK f : IsFlat(f, s, k) /\ FlattenSeq(s) = f[k]
    BY <1>1, <1>4, FlattenFlat DEF k
  <2> DEFINE bad == {n \in 1 .. k : f[n] \notin Seq(Units)}
  <2>2. SUFFICES ASSUME bad # {} PROVE FALSE
    <3>1. k \in 1 .. k
      BY <1>1, <1>4
    <3> QED BY <1>2, <2>1, <2>2, <3>1
  <2>3. bad \subseteq Nat
    OBVIOUS
  <2> HIDE DEF bad
  <2>4. PICK n \in bad : \A i \in bad : n <= i
    BY <2>2, <2>3, FirstExists
  <2>5. n \in 1 .. k /\ f[n] \notin Seq(Units)
    BY <2>4 DEF bad
  <2>6. f[n] = (IF n = 1 THEN s[n] ELSE f[n - 1] \o s[n])
    BY <1>1, <2>1, <2>5, FlatAt
  <2>7. s[n] \in Seq(Units)
    BY <1>1, <2>5 DEF k
  <2>8. n # 1
    BY <2>5, <2>6, <2>7
  <2>9. n - 1 \in 1 .. k /\ ~(n <= n - 1)
    BY <1>1, <2>5, <2>8
  <2>10. f[n - 1] \in Seq(Units)
    BY <2>4, <2>9 DEF bad
  <2>11. f[n - 1] \o s[n] \in Seq(Units)
    BY <2>7, <2>10, ConcatProperties
  <2> QED BY <2>5, <2>6, <2>8, <2>11
<1> QED BY <1>3, <1>4

\* The sizes, and how far an entry reaches.
LEMMA UnitCounts ==
    /\ BlockUnits \in Nat \ {0} /\ TarUnits \in Nat \ {0}
    /\ \A size \in Nat : Padding(size) \in Nat /\ SpanOf(size) \in Nat
                         /\ SpanOf(size) >= TarUnits + size
<1>1. BlockUnits \in Nat \ {0} /\ TarUnits \in Nat \ {0}
  BY FileTransferBounds
<1>2. ASSUME NEW size \in Nat PROVE Padding(size) \in Nat
  <2>1. size % TarUnits \in 0 .. TarUnits - 1
    BY <1>1, DivMod
  <2> DEFINE a == TarUnits - (size % TarUnits)
  <2>2. a \in Nat
    BY <1>1, <2>1
  <2> HIDE DEF a
  <2>3. a % TarUnits \in 0 .. TarUnits - 1
    BY <1>1, <2>2, DivMod
  <2> QED BY <1>1, <2>3 DEF Padding, a
<1> QED BY <1>1, <1>2 DEF SpanOf

\* The units of an entry.
LEMMA UnitKinds ==
    /\ Zero \in Units /\ Zero[1] = "zero"
    /\ \A n \in AllNames, size \in Nat :
          /\ Header(n, size) \in Units /\ Header(n, size)[1] = "head"
          /\ Header(n, size)[2] = n /\ Header(n, size)[3] = size
    /\ \A n \in StoredFiles, v \in Int :
          /\ Data(n, v) \in Units /\ Data(n, v)[1] = "data"
          /\ Data(n, v)[2] = n /\ Data(n, v)[3] = v
<1>1. /\ Zero[1] = "zero"
      /\ \A n, size : Header(n, size)[1] = "head" /\ Header(n, size)[2] = n /\ Header(n, size)[3] = size
      /\ \A n, v : Data(n, v)[1] = "data" /\ Data(n, v)[2] = n /\ Data(n, v)[3] = v
  BY DEF Zero, Header, Data
<1>2. Zero \in Units /\ (\A n \in AllNames, size \in Nat : Header(n, size) \in Units)
      /\ (\A n \in StoredFiles, v \in Int : Data(n, v) \in Units)
  BY DEF Units
<1> QED BY <1>1, <1>2

\* A unit is one of three, told apart by its first part.
LEMMA UnitForms ==
    ASSUME NEW u \in Units
    PROVE  /\ u[1] \in {"head", "zero", "data"}
           /\ u[1] = "head" => u[2] \in AllNames /\ u[3] \in Nat /\ u = Header(u[2], u[3])
           /\ u[1] = "data" => u[2] \in StoredFiles /\ u[3] \in Int /\ u = Data(u[2], u[3])
           /\ u[1] = "zero" => u = Zero
<1>0. "head" # "data" /\ "head" # "zero" /\ "data" # "zero"
  OBVIOUS
<1>1. CASE u = Zero
  BY <1>0, <1>1, UnitKinds
<1>2. ASSUME NEW n \in AllNames, NEW size \in Nat, u = Header(n, size) PROVE /\ u[1] = "head" /\ u[2] = n /\ u[3] = size
  BY <1>2, UnitKinds
<1>3. ASSUME NEW n \in StoredFiles, NEW v \in Int, u = Data(n, v) PROVE /\ u[1] = "data" /\ u[2] = n /\ u[3] = v
  BY <1>3, UnitKinds
<1>4. u = Zero \/ (\E n \in AllNames, size \in Nat : u = Header(n, size)) \/ (\E n \in StoredFiles, v \in Int : u = Data(n, v))
  BY DEF Units
<1>5. ASSUME NEW n \in AllNames, NEW size \in Nat, u = Header(n, size)
      PROVE u[1] = "head" /\ u[2] \in AllNames /\ u[3] \in Nat /\ u = Header(u[2], u[3])
  <2>1. u[1] = "head" /\ u[2] = n /\ u[3] = size
    BY <1>2, <1>5
  <2> QED BY <1>5, <2>1, Zenon
<1>6. ASSUME NEW n \in StoredFiles, NEW v \in Int, u = Data(n, v)
      PROVE u[1] = "data" /\ u[2] \in StoredFiles /\ u[3] \in Int /\ u = Data(u[2], u[3])
  <2>1. u[1] = "data" /\ u[2] = n /\ u[3] = v
    BY <1>3, <1>6
  <2> QED BY <1>6, <2>1, Zenon
<1> QED BY <1>0, <1>1, <1>4, <1>5, <1>6, Zenon

\* The recursive function of IsArchive, at one position.
EndOf(u, i) == i + TarUnits + u[i][3] + Padding(u[i][3])
GoodAt(u, i, g) ==
    IF i > Len(u) THEN FALSE
    ELSE IF u[i] = Zero THEN SubSeq(u, i, Len(u)) = ArchiveEnd
    ELSE /\ u[i][1] = "head"
         /\ EndOf(u, i) <= Len(u)
         /\ \A j \in i + 1 .. EndOf(u, i) - 1 :
               IF j \in i + TarUnits .. i + TarUnits + u[i][3] - 1
               THEN u[j][1] = "data" /\ u[j][2] = u[i][2]
               ELSE u[j] = Zero
         /\ g[EndOf(u, i)]
IsGood(g, u, lo) == g = [i \in lo .. Len(u) + 1 |-> GoodAt(u, i, g)]

\* It looks at one later position at most: the end of its entry.
LEMMA GoodLocal ==
    ASSUME NEW u, NEW i, NEW g, NEW h,
           i <= Len(u) /\ u[i][1] = "head" /\ EndOf(u, i) <= Len(u) => g[EndOf(u, i)] = h[EndOf(u, i)],
           ~(i > Len(u)) => i <= Len(u)
    PROVE  GoodAt(u, i, g) = GoodAt(u, i, h)
<1>0. (i > Len(u)) \/ i <= Len(u)
  OBVIOUS
<1>1. CASE i > Len(u)
  BY <1>1, Zenon DEF GoodAt
<1>2. CASE ~(i > Len(u)) /\ u[i] = Zero
  BY <1>2, Zenon DEF GoodAt
<1>3. CASE ~(i > Len(u)) /\ u[i] # Zero
  <2>1. CASE u[i][1] = "head" /\ EndOf(u, i) <= Len(u)
    <3>1. g[EndOf(u, i)] = h[EndOf(u, i)]
      BY <1>3, <2>1, Zenon
    <3> QED BY <1>3, <3>1, Zenon DEF GoodAt
  <2>2. CASE ~(u[i][1] = "head" /\ EndOf(u, i) <= Len(u))
    BY <1>3, <2>2, Zenon DEF GoodAt
  <2> QED BY <2>1, <2>2
<1> QED BY <1>1, <1>2, <1>3

\* Such a function exists, from the end of the sequence downwards.
LEMMA GoodExists ==
    ASSUME NEW u \in Seq(Units), NEW k \in Nat, k <= Len(u)
    PROVE  \E g : IsGood(g, u, Len(u) + 1 - k)
<1> DEFINE L == Len(u)
           Has(n) == \E g : IsGood(g, u, Len(u) + 1 - n)
           bad == {n \in 0 .. L : ~Has(n)}
<1>0. L \in Nat /\ k \in 0 .. L
  BY LenProperties
<1>1. SUFFICES ASSUME bad # {} PROVE FALSE
  BY <1>0, <1>1
<1>2. bad \subseteq Nat
  BY <1>0
<1> HIDE DEF bad
<1>3. PICK n \in bad : \A m \in bad : n <= m
  BY <1>1, <1>2, FirstExists
<1>4. n \in 0 .. L /\ ~Has(n)
  BY <1>3 DEF bad
<1> DEFINE lo == L + 1 - n
<1>5. PICK g : n # 0 => IsGood(g, u, lo + 1)
  <2>1. CASE n = 0
    BY <2>1
  <2>2. CASE n # 0
    <3>1. n - 1 \in 0 .. L /\ ~(n <= n - 1) /\ L + 1 - (n - 1) = lo + 1
      BY <1>0, <1>4, <2>2
    <3>2. n - 1 \notin bad
      BY <1>3, <3>1
    <3>3. Has(n - 1)
      <4> HIDE DEF Has
      <4> QED BY <3>1, <3>2 DEF bad
    <3> QED BY <3>1, <3>3
  <2> QED BY <2>1, <2>2
<1> DEFINE here == GoodAt(u, lo, g)
           h == [i \in lo .. L + 1 |-> IF i = lo THEN here ELSE g[i]]
<1>6. lo \in 1 .. L + 1 /\ (n = 0 <=> lo = L + 1)
  BY <1>0, <1>4
<1>7. \A i \in lo + 1 .. L + 1 : g[i] = GoodAt(u, i, g)
  <2>1. CASE n = 0
    BY <1>0, <1>6, <2>1
  <2>2. CASE n # 0
    <3>1. g = [i \in lo + 1 .. L + 1 |-> GoodAt(u, i, g)]
      BY <1>5, <2>2, Zenon DEF IsGood
    <3> HIDE DEF lo, L
    <3> QED BY <3>1, Zenon
  <2> QED BY <2>1, <2>2
<1>8. ASSUME NEW i \in lo .. L + 1 PROVE h[i] = GoodAt(u, i, h)
  <2>0. i \in Int /\ (~(i > Len(u)) => i <= Len(u))
    BY <1>0, <1>6
  <2>1. ASSUME i <= L, u[i][1] = "head", EndOf(u, i) <= L PROVE g[EndOf(u, i)] = h[EndOf(u, i)]
    <3>1. i \in 1 .. Len(u)
      BY <1>6, <2>1
    <3>2. u[i] \in Units
      BY <3>1, ElementOfSeq
    <3>3. u[i][3] \in Nat
      BY <2>1, <3>2, UnitForms
    <3>4. Padding(u[i][3]) \in Nat /\ TarUnits \in Nat \ {0}
      BY <3>3, UnitCounts
    <3> DEFINE e == EndOf(u, i)
    <3>5. e \in lo .. L + 1 /\ e # lo
      BY <1>0, <1>6, <2>1, <3>1, <3>3, <3>4 DEF EndOf
    <3> HIDE DEF e, lo, L
    <3>6. h[e] = g[e]
      BY <3>5
    <3> QED BY <3>6 DEF e
  <2>2. GoodAt(u, i, g) = GoodAt(u, i, h)
    <3>1. i <= Len(u) /\ u[i][1] = "head" /\ EndOf(u, i) <= Len(u)
             => g[EndOf(u, i)] = h[EndOf(u, i)]
      BY <2>1
    <3> HIDE DEF h
    <3> QED BY <2>0, <3>1, GoodLocal
  <2>3. h[i] = GoodAt(u, i, g)
    <3>1. CASE i = lo
      <4>1. h[i] = here
        BY <3>1
      <4> QED BY <3>1, <4>1
    <3>2. CASE i # lo
      <4>1. i \in lo + 1 .. L + 1
        BY <1>0, <1>6, <3>2
      <4>2. h[i] = g[i]
        BY <3>2
      <4> HIDE DEF h, lo
      <4> QED BY <1>7, <4>1, <4>2, Zenon
    <3> QED BY <3>1, <3>2
  <2> HIDE DEF h
  <2> QED BY <2>2, <2>3
<1>9. h = [i \in lo .. L + 1 |-> h[i]]
  OBVIOUS
<1>10. h = [i \in lo .. L + 1 |-> GoodAt(u, i, h)]
  <2> HIDE DEF h, lo, L
  <2> QED BY <1>8, <1>9, Zenon
<1> QED BY <1>4, <1>10 DEF IsGood

\* IsArchive is its value at the first position.
LEMMA ArchiveGood ==
    ASSUME NEW u \in Seq(Units)
    PROVE  \E g : IsArchive(u) = g[1] /\ \A i \in 1 .. Len(u) + 1 : g[i] = GoodAt(u, i, g)
<1> DEFINE g == CHOOSE f : IsGood(f, u, 1)
<1>1. \E f : IsGood(f, u, 1)
  <2>1. Len(u) \in Nat /\ Len(u) <= Len(u) /\ Len(u) + 1 - Len(u) = 1
    BY LenProperties
  <2>2. \E f : IsGood(f, u, Len(u) + 1 - Len(u))
    BY <2>1, GoodExists
  <2> QED BY <2>1, <2>2
<1>2. IsGood(g, u, 1)
  BY <1>1
<1>3. IsArchive(u) = g[1]
  BY Zenon DEF IsArchive, IsGood, GoodAt, EndOf
<1>4. \A i \in 1 .. Len(u) + 1 : g[i] = GoodAt(u, i, g)
  <2>1. g = [i \in 1 .. Len(u) + 1 |-> GoodAt(u, i, g)]
    BY <1>2, Zenon DEF IsGood
  <2> HIDE DEF g
  <2> QED BY <2>1, Zenon
<1> QED BY <1>3, <1>4

\* A chain of entries that ends where the two zero blocks begin is an archive.
LEMMA ChainIsArchive ==
    ASSUME NEW u \in Seq(Units), NEW m \in 1 .. Len(u) + 1, Chain(u, m),
           Len(u) = m - 1 + 2 * TarUnits, \A j \in m .. Len(u) : u[j] = Zero
    PROVE  IsArchive(u)
<1>0. Len(u) \in Nat /\ TarUnits \in Nat \ {0} /\ m \in Nat \ {0} /\ m <= Len(u)
  BY LenProperties, UnitCounts
<1>1. PICK g : IsArchive(u) = g[1] /\ \A i \in 1 .. Len(u) + 1 : g[i] = GoodAt(u, i, g)
  BY ArchiveGood
<1>2. PICK P \in SUBSET (1 .. m) :
          1 \in P /\ m \in P /\ \A p \in P \ {m} : Entry(u, p) /\ p + SpanOf(u[p][3]) \in P
  BY DEF Chain
<1>3. g[m]
  <2>1. u[m] = Zero
    BY <1>0
  <2>2. SubSeq(u, m, Len(u)) = ArchiveEnd
    <3> DEFINE s == SubSeq(u, m, Len(u))
               z == ArchiveEnd
    <3>1. \A i \in m .. Len(u) : u[i] \in Units
      BY <1>0, ElementOfSeq
    <3>2. s \in Seq(Units) /\ Len(s) = 2 * TarUnits
          /\ \A i \in 1 .. Len(u) - m + 1 : s[i] = u[m + i - 1]
      BY <1>0, <3>1, SubSeqProperties
    <3>3. z \in Seq(Units) /\ Len(z) = 2 * TarUnits /\ \A i \in 1 .. 2 * TarUnits : z[i] = Zero
      BY <1>0, UnitKinds DEF ArchiveEnd
    <3>4. \A i \in 1 .. 2 * TarUnits : s[i] = z[i]
      <4>1. \A i \in 1 .. 2 * TarUnits : m + i - 1 \in m .. Len(u) /\ i \in 1 .. Len(u) - m + 1
        BY <1>0
      <4> QED BY <3>2, <3>3, <4>1
    <3> HIDE DEF s, z
    <3>5. s = z
      BY <3>2, <3>3, <3>4, SeqEqual
    <3> QED BY <3>5 DEF s, z
  <2>3. GoodAt(u, m, g)
    <3>1. ~(m > Len(u))
      BY <1>0
    <3> QED BY <2>1, <2>2, <3>1, Zenon DEF GoodAt
  <2>4. m \in 1 .. Len(u) + 1
    BY <1>0
  <2> QED BY <1>1, <2>3, <2>4
<1> DEFINE bad == {i \in 0 .. m : \E p \in P : i = m - p /\ ~g[p]}
<1>4. SUFFICES ASSUME bad # {} PROVE FALSE
  <2>1. ASSUME ~g[1] PROVE bad # {}
    <3>1. m - 1 \in 0 .. m
      BY <1>0
    <3> QED BY <1>2, <2>1, <3>1
  <2>2. g[1]
    BY <1>4, <2>1
  <2> QED BY <1>1, <2>2, Zenon
<1>5. bad \subseteq Nat
  OBVIOUS
<1> HIDE DEF bad
<1>6. PICK n \in bad : \A i \in bad : n <= i
  BY <1>4, <1>5, FirstExists
<1>7. PICK p \in P : n = m - p /\ ~g[p]
  BY <1>6 DEF bad
<1>8. p \in 1 .. m /\ p # m
  BY <1>2, <1>3, <1>7
<1>a. PICK size, q : size = u[p][3] /\ q = p + SpanOf(size)
  OBVIOUS
<1>b. Entry(u, p) /\ p + SpanOf(u[p][3]) \in P
  <2>1. p \in P \ {m}
    BY <1>7, <1>8
  <2> QED BY <1>2, <2>1, Zenon
<1>9. u[p][1] = "head" /\ size \in Nat /\ q \in P /\ \A j \in p + 1 .. q - 1 : Inside(u, p, j)
  <2>1. \A j \in p + 1 .. p + SpanOf(u[p][3]) - 1 : Inside(u, p, j)
    BY <1>b, Zenon DEF Entry
  <2>2. u[p][1] = "head" /\ u[p][3] \in Nat /\ p + SpanOf(u[p][3]) = q
    BY <1>a, <1>b, Zenon DEF Entry
  <2>3. p + (SpanOf(u[p][3]) - 1) = q - 1
    <3>1. SpanOf(u[p][3]) \in Nat /\ p \in Nat
      <4>1. SpanOf(u[p][3]) \in Nat
        BY <2>2, UnitCounts, Zenon
      <4> QED BY <1>0, <1>8, <4>1
    <3> QED BY <2>2, <3>1
  <2>4. \A j \in p + 1 .. q - 1 : Inside(u, p, j)
    BY <2>1, <2>3, Zenon
  <2> QED BY <1>a, <1>b, <2>2, <2>4, Zenon
<1>10. SpanOf(size) \in Nat \ {0} /\ q \in 1 .. m /\ q = EndOf(u, p)
  <2>1. SpanOf(size) \in Nat /\ SpanOf(size) >= TarUnits + size /\ Padding(size) \in Nat
    BY <1>9, UnitCounts
  <2>2. q \in 1 .. m
    BY <1>2, <1>9
  <2>3. p + SpanOf(size) = p + TarUnits + size + Padding(size)
    BY <1>0, <1>8, <1>9, <2>1 DEF SpanOf
  <2> QED BY <1>0, <1>9, <1>a, <2>1, <2>2, <2>3 DEF EndOf
<1>11. g[q]
  <2>1. SUFFICES ASSUME ~g[q] PROVE FALSE
    OBVIOUS
  <2>2. m - q \in 0 .. m
    BY <1>0, <1>10
  <2>3. m - q \in bad
    BY <1>9, <2>1, <2>2 DEF bad
  <2>4. n <= m - q
    BY <1>6, <2>3
  <2>5. q > p
    BY <1>8, <1>10, <1>a
  <2> QED BY <1>0, <1>7, <1>8, <1>10, <2>4, <2>5
<1>12. GoodAt(u, p, g)
  <2>1. ~(p > Len(u)) /\ EndOf(u, p) <= Len(u)
    BY <1>0, <1>8, <1>10
  <2>2. u[p] # Zero
    BY <1>9, UnitKinds
  <2>3. \A j \in p + 1 .. EndOf(u, p) - 1 :
               IF j \in p + TarUnits .. p + TarUnits + u[p][3] - 1
               THEN u[j][1] = "data" /\ u[j][2] = u[p][2]
               ELSE u[j] = Zero
    BY <1>9, <1>10, <1>a, Zenon DEF Inside
  <2>4. g[EndOf(u, p)]
    BY <1>10, <1>11, Zenon
  <2> QED BY <1>9, <2>1, <2>2, <2>3, <2>4, Zenon DEF GoodAt
<1>13. p \in 1 .. Len(u) + 1
  BY <1>0, <1>8
<1> QED BY <1>1, <1>7, <1>12, <1>13, Zenon

\* A flow goes on with further units.
Grows(w, x, v) ==
    /\ w \in Seq(Units) /\ x \in Seq(Units) /\ v \in Seq(Units)
    /\ Len(v) = Len(w) + Len(x)
    /\ \A j \in 1 .. Len(w) : v[j] = w[j]
    /\ \A j \in 1 .. Len(x) : v[Len(w) + j] = x[j]

\* It does so by concatenation.
LEMMA ConcatGrows ==
    ASSUME NEW w \in Seq(Units), NEW x \in Seq(Units)
    PROVE  Grows(w, x, w \o x)
<1>1. /\ w \o x \in Seq(Units) /\ Len(w \o x) = Len(w) + Len(x)
      /\ \A i \in 1 .. Len(w) + Len(x) : (w \o x)[i] = IF i <= Len(w) THEN w[i] ELSE x[i - Len(w)]
  BY ConcatProperties
<1>2. Len(w) \in Nat /\ Len(x) \in Nat
  BY LenProperties
<1> DEFINE v == w \o x
<1> HIDE DEF v
<1>3. \A j \in 1 .. Len(w) : v[j] = w[j]
  BY <1>1, <1>2 DEF v
<1>4. \A j \in 1 .. Len(x) : v[Len(w) + j] = x[j]
  <2> TAKE j \in 1 .. Len(x)
  <2>1. Len(w) + j \in 1 .. Len(w) + Len(x) /\ ~(Len(w) + j <= Len(w)) /\ Len(w) + j - Len(w) = j
    BY <1>2
  <2> QED BY <1>1, <2>1 DEF v
<1> QED BY <1>1, <1>3, <1>4 DEF Grows, v

\* A unit of the longer flow is an old one or a new one.
LEMMA GrownUnit ==
    ASSUME NEW w, NEW x, NEW v, Grows(w, x, v), NEW j \in 1 .. Len(v), j > Len(w)
    PROVE  j - Len(w) \in 1 .. Len(x) /\ v[j] = x[j - Len(w)]
<1>1. Len(w) \in Nat /\ Len(x) \in Nat /\ Len(v) = Len(w) + Len(x)
  BY LenProperties DEF Grows
<1> DEFINE k == j - Len(w)
<1>2. k \in 1 .. Len(x) /\ Len(w) + k = j
  BY <1>1
<1> HIDE DEF k
<1>3. v[Len(w) + k] = x[k]
  BY <1>2 DEF Grows
<1> QED BY <1>2, <1>3 DEF k

\* Zero and data units name nobody; what is named is what the headers name.
LEMMA ListedGrows ==
    ASSUME NEW w, NEW x, NEW v, Grows(w, x, v)
    PROVE  Listed(v) = Listed(w) \cup Listed(x)
<1>1. /\ Len(w) \in Nat /\ Len(x) \in Nat /\ Len(v) = Len(w) + Len(x)
      /\ DOMAIN w = 1 .. Len(w) /\ DOMAIN x = 1 .. Len(x) /\ DOMAIN v = 1 .. Len(v)
  BY LenProperties DEF Grows
<1>2. ASSUME NEW n \in Listed(v) PROVE n \in Listed(w) \cup Listed(x)
  <2>1. PICK j \in DOMAIN v : v[j][1] = "head" /\ n = v[j][2]
    BY <1>2 DEF Listed
  <2>2. CASE j <= Len(w)
    <3>1. j \in DOMAIN w /\ v[j] = w[j]
      BY <1>1, <2>2 DEF Grows
    <3> QED BY <2>1, <3>1 DEF Listed
  <2>3. CASE j > Len(w)
    <3>1. j - Len(w) \in DOMAIN x /\ v[j] = x[j - Len(w)]
      BY <1>1, <2>3, GrownUnit
    <3> QED BY <2>1, <3>1 DEF Listed
  <2> QED BY <1>1, <2>2, <2>3
<1>3. ASSUME NEW n \in Listed(w) PROVE n \in Listed(v)
  <2>1. PICK j \in DOMAIN w : w[j][1] = "head" /\ n = w[j][2]
    BY <1>3 DEF Listed
  <2>2. j \in DOMAIN v /\ v[j] = w[j]
    BY <1>1 DEF Grows
  <2> QED BY <2>1, <2>2 DEF Listed
<1>4. ASSUME NEW n \in Listed(x) PROVE n \in Listed(v)
  <2>1. PICK j \in DOMAIN x : x[j][1] = "head" /\ n = x[j][2]
    BY <1>4 DEF Listed
  <2>2. Len(w) + j \in DOMAIN v /\ v[Len(w) + j] = x[j]
    BY <1>1 DEF Grows
  <2> QED BY <2>1, <2>2 DEF Listed
<1> QED BY <1>2, <1>3, <1>4

\* What has no header names nobody.
LEMMA ListedNone ==
    ASSUME NEW x \in Seq(Units), \A j \in DOMAIN x : x[j][1] # "head"
    PROVE  Listed(x) = {}
  BY DEF Listed

\* The data stays up to date when the new data is.
LEMMA UpToDateGrows ==
    ASSUME NEW w, NEW x, NEW v, NEW md, Grows(w, x, v), UpToDate(w, md), UpToDate(x, md)
    PROVE  UpToDate(v, md)
<1>1. /\ Len(w) \in Nat /\ Len(x) \in Nat /\ Len(v) = Len(w) + Len(x)
      /\ DOMAIN w = 1 .. Len(w) /\ DOMAIN x = 1 .. Len(x) /\ DOMAIN v = 1 .. Len(v)
  BY LenProperties DEF Grows
<1>2. ASSUME NEW j \in DOMAIN v, v[j][1] = "data" PROVE v[j][3] = md[v[j][2]].ver
  <2>2. CASE j <= Len(w)
    <3>1. j \in DOMAIN w /\ v[j] = w[j]
      BY <1>1, <2>2 DEF Grows
    <3> QED BY <1>2, <3>1 DEF UpToDate
  <2>3. CASE j > Len(w)
    <3>1. j - Len(w) \in DOMAIN x /\ v[j] = x[j - Len(w)]
      BY <1>1, <2>3, GrownUnit
    <3> QED BY <1>2, <3>1 DEF UpToDate
  <2> QED BY <1>1, <2>2, <2>3
<1> QED BY <1>2 DEF UpToDate

\* What has been chained stays chained.
LEMMA ChainGrows ==
    ASSUME NEW w, NEW x, NEW v, Grows(w, x, v), NEW m \in 1 .. Len(w) + 1, Chain(w, m)
    PROVE  Chain(v, m)
<1>1. Len(w) \in Nat /\ \A j \in 1 .. Len(w) : v[j] = w[j]
  BY LenProperties DEF Grows
<1>2. PICK P \in SUBSET (1 .. m) :
          1 \in P /\ m \in P /\ \A p \in P \ {m} : Entry(w, p) /\ p + SpanOf(w[p][3]) \in P
  BY DEF Chain
<1>3. ASSUME NEW p \in P \ {m} PROVE Entry(v, p) /\ p + SpanOf(v[p][3]) \in P
  <2>1. Entry(w, p) /\ p + SpanOf(w[p][3]) \in P
    BY <1>2, <1>3, Zenon
  <2>2. p \in 1 .. m /\ p # m /\ p + SpanOf(w[p][3]) \in 1 .. m
    BY <2>1
  <2>3. p \in 1 .. Len(w) /\ v[p] = w[p]
    BY <1>1, <2>2
  <2>4. w[p][1] = "head" /\ w[p][3] \in Nat
    BY <2>1, Zenon DEF Entry
  <2>5. SpanOf(w[p][3]) \in Nat
    BY <2>4, UnitCounts, Zenon
  <2>6. ASSUME NEW j \in p + 1 .. p + SpanOf(w[p][3]) - 1 PROVE Inside(v, p, j)
    <3>1. Inside(w, p, j)
      BY <2>1, <2>6, Zenon DEF Entry
    <3>2. j \in 1 .. Len(w)
      BY <1>1, <2>2, <2>5
    <3>3. v[j] = w[j]
      BY <1>1, <3>2
    <3> QED BY <2>3, <3>1, <3>3, Zenon DEF Inside
  <2> QED BY <2>1, <2>3, <2>4, <2>6, Zenon DEF Entry
<1> QED BY <1>2, <1>3, Zenon DEF Chain

\* An entry more.
LEMMA ChainExtends ==
    ASSUME NEW w \in Seq(Units), NEW m \in Nat \ {0}, Chain(w, m), Entry(w, m)
    PROVE  Chain(w, m + SpanOf(w[m][3]))
<1>1. w[m][3] \in Nat
  BY Zenon DEF Entry
<1>2. TarUnits \in Nat \ {0} /\ SpanOf(w[m][3]) \in Nat /\ SpanOf(w[m][3]) >= TarUnits + w[m][3]
  BY <1>1, UnitCounts, Zenon
<1>3. PICK P \in SUBSET (1 .. m) :
          1 \in P /\ m \in P /\ \A p \in P \ {m} : Entry(w, p) /\ p + SpanOf(w[p][3]) \in P
  BY DEF Chain
<1>4. PICK e : e = m + SpanOf(w[m][3])
  OBVIOUS
<1>5. e \in Nat /\ e > m
  BY <1>1, <1>2, <1>4
<1> DEFINE Q == P \cup {e}
<1>6. Q \in SUBSET (1 .. e) /\ 1 \in Q /\ e \in Q
  BY <1>3, <1>5
<1>7. ASSUME NEW p \in Q \ {e} PROVE Entry(w, p) /\ p + SpanOf(w[p][3]) \in Q
  <2>1. CASE p = m
    BY <1>4, <2>1
  <2>2. CASE p # m
    <3>1. p \in P \ {m}
      BY <2>2
    <3>2. Entry(w, p) /\ p + SpanOf(w[p][3]) \in P
      BY <1>3, <3>1, Zenon
    <3> QED BY <3>2
  <2> QED BY <2>1, <2>2
<1> HIDE DEF Q
<1>8. Chain(w, e)
  BY <1>6, <1>7, Zenon DEF Chain
<1> QED BY <1>4, <1>8, Zenon

\* An empty flow is a chain.
LEMMA ChainStarts == ASSUME NEW w PROVE Chain(w, 1)
<1>1. {1} \in SUBSET (1 .. 1) /\ 1 \in {1} /\ {1} \ {1} = {}
  OBVIOUS
<1> QED BY <1>1, Zenon DEF Chain

\* The parts of a reader.
LEMMA ReaderFields ==
    ASSUME NEW r \in Readers
    PROVE  /\ r.id \in Nat \ {0} /\ r.kind \in {"file", "tree", "tar"} /\ r.phase \in Phases
           /\ r.file \in {<<>>} \cup (StoredFiles \X Int)
           /\ r.info.name \in AllNames /\ r.info.size \in Nat
           /\ r.remaining \in Nat /\ r.padding \in Nat /\ r.stage \in Seq(Units)
           /\ r.dirs \in Seq([dir : DOMAIN Layout, pos : Nat])
           /\ r.has \in BOOLEAN /\ r.last \in Nat /\ r.cached \in Seq(Units)
           /\ r.eof \in BOOLEAN /\ r.term \in BOOLEAN
<1>1. /\ r.id \in Nat \ {0} /\ r.kind \in {"file", "tree", "tar"} /\ r.phase \in Phases
      /\ r.file \in {<<>>} \cup (StoredFiles \X Int)
  BY DEF Readers
<1>2. r.info \in [name : AllNames, size : Nat]
  BY DEF Readers
<1>3. /\ r.remaining \in Nat /\ r.padding \in Nat /\ r.stage \in Seq(Units)
      /\ r.dirs \in Seq([dir : DOMAIN Layout, pos : Nat])
  BY DEF Readers
<1>4. r.has \in BOOLEAN /\ r.last \in Nat /\ r.cached \in Seq(Units) /\ r.eof \in BOOLEAN /\ r.term \in BOOLEAN
  BY DEF Readers
<1> QED BY <1>1, <1>2, <1>3, <1>4

\* A unit of an entry stays one when the flow goes on.
LEMMA InsideKept ==
    ASSUME NEW w, NEW x, NEW v, Grows(w, x, v), NEW p \in 1 .. Len(w), NEW j \in 1 .. Len(w), Inside(w, p, j)
    PROVE  Inside(v, p, j)
<1>1. v[p] = w[p] /\ v[j] = w[j]
  BY DEF Grows
<1> QED BY <1>1, Zenon DEF Inside

\* The span of an entry is its header block, its data and its padding.
LEMMA SpanFacts ==
    ASSUME NEW size \in Nat
    PROVE  /\ Padding(size) \in Nat /\ SpanOf(size) = TarUnits + size + Padding(size)
           /\ SpanOf(size) \in Nat /\ TarUnits \in Nat \ {0}
  BY UnitCounts, Zenon DEF SpanOf

\* A directory has neither data nor padding.
LEMMA NoPadding == Padding(0) = 0 /\ SpanOf(0) = TarUnits
<1>1. TarUnits \in Nat \ {0}
  BY UnitCounts
<1>2. 0 % TarUnits = 0 /\ TarUnits % TarUnits = 0
  BY <1>1
<1>3. Padding(0) = 0
  BY <1>1, <1>2 DEF Padding
<1> QED BY <1>1, <1>3 DEF SpanOf

----------------------------------------------------------------------------
\* The steps of an archive, as the flow sees them.

\* Data of the file, no more than the header promised.
LEMMA TarData ==
    ASSUME NEW r \in Readers, NEW n, NEW w, NEW x, NEW v, Grows(w, x, v), NEW m \in 1 .. Len(w) + 1,
           TarAt(r, w, m), r.phase = "data", n.phase = "data", n.info = r.info,
           Len(x) <= r.remaining, n.remaining = r.remaining - Len(x), AllOf(x, r.info.name)
    PROVE  TarAt(n, v, m)
<1>0. /\ Len(w) \in Nat /\ Len(x) \in Nat /\ Len(v) = Len(w) + Len(x) /\ DOMAIN x = 1 .. Len(x)
      /\ \A j \in 1 .. Len(w) : v[j] = w[j]
  BY LenProperties DEF Grows
<1>1. PICK size : size = r.info.size
  OBVIOUS
<1>2. size \in Nat /\ r.remaining \in Nat /\ r.info.name \in AllNames
  BY <1>1, ReaderFields
<1>3. Padding(size) \in Nat /\ TarUnits \in Nat \ {0}
  BY <1>2, SpanFacts
<1>4. /\ m \in 1 .. Len(w) /\ w[m] = Header(r.info.name, size)
      /\ \A j \in m + 1 .. Len(w) : Inside(w, m, j)
      /\ r.remaining <= size /\ Len(w) + r.remaining = m + TarUnits - 1 + size
  BY <1>0, <1>1 DEF TarAt
<1>5. w[m][2] = r.info.name /\ w[m][3] = size /\ v[m] = w[m]
  BY <1>0, <1>2, <1>4, UnitKinds
<1>6. Chain(v, m)
  BY ChainGrows DEF TarAt
<1>7. ASSUME NEW j \in m + 1 .. Len(v) PROVE Inside(v, m, j)
  <2>1. CASE j <= Len(w)
    <3>1. j \in 1 .. Len(w) /\ j \in m + 1 .. Len(w)
      BY <1>0, <1>4, <2>1
    <3>2. Inside(w, m, j)
      BY <1>4, <3>1
    <3> QED BY <1>4, <3>1, <3>2, InsideKept
  <2>2. CASE j > Len(w)
    <3>1. j \in 1 .. Len(v)
      BY <1>0, <1>4
    <3>2. j - Len(w) \in 1 .. Len(x) /\ v[j] = x[j - Len(w)]
      BY <2>2, <3>1, GrownUnit
    <3>3. v[j][1] = "data" /\ v[j][2] = r.info.name
      BY <1>0, <3>2 DEF AllOf
    <3>4. v[j][1] = "data" /\ v[j][2] = v[m][2]
      BY <1>5, <3>3
    <3>5. j \in m + TarUnits .. m + TarUnits + v[m][3] - 1
      <4>1. v[m][3] = size
        BY <1>5
      <4>2. /\ m \in Nat /\ j \in Nat /\ j <= Len(w) + Len(x) /\ Len(w) \in Nat /\ Len(x) \in Nat
            /\ Len(x) <= r.remaining /\ r.remaining <= size
            /\ Len(w) + r.remaining = m + TarUnits - 1 + size
        BY <1>0, <1>2, <1>3, <1>4, <3>1
      <4>3. j \in m + TarUnits .. m + TarUnits + size - 1
        <5>1. Len(w) >= m + TarUnits - 1
          BY <1>2, <1>3, <4>2
        <5>2. j > m + TarUnits - 1
          BY <1>3, <2>2, <4>2, <5>1
        <5>3. Len(w) + Len(x) <= m + TarUnits - 1 + size
          BY <1>2, <1>3, <4>2
        <5>4. j <= m + TarUnits - 1 + size
          BY <1>2, <1>3, <4>2, <5>3
        <5> QED BY <1>2, <1>3, <4>2, <5>2, <5>4
      <4> QED BY <4>1, <4>3, Zenon
    <3> QED BY <3>4, <3>5, Zenon DEF Inside
  <2> QED BY <1>0, <2>1, <2>2
<1>8. /\ m <= Len(v) /\ v[m] = Header(n.info.name, n.info.size)
      /\ n.remaining <= n.info.size /\ Len(v) + n.remaining = m + TarUnits - 1 + n.info.size
  BY <1>0, <1>1, <1>2, <1>3, <1>4, <1>5
<1> QED BY <1>6, <1>7, <1>8 DEF TarAt

\* The file is closed: what is left of the entry is its padding.
LEMMA TarPads ==
    ASSUME NEW r \in Readers, NEW n, NEW w \in Seq(Units), NEW m \in 1 .. Len(w) + 1,
           TarAt(r, w, m), r.phase = "data", r.remaining = 0, n.phase = "padding", n.info = r.info,
           n.padding = Padding(r.info.size)
    PROVE  TarAt(n, w, m)
<1>1. PICK size : size = r.info.size
  OBVIOUS
<1>2. size \in Nat /\ Len(w) \in Nat
  BY <1>1, ReaderFields, LenProperties
<1>3. Padding(size) \in Nat /\ TarUnits \in Nat \ {0} /\ SpanOf(size) = TarUnits + size + Padding(size)
  BY <1>2, SpanFacts
<1>4. /\ Chain(w, m) /\ m <= Len(w) /\ w[m] = Header(r.info.name, size)
      /\ \A j \in m + 1 .. Len(w) : Inside(w, m, j)
      /\ Len(w) = m + TarUnits - 1 + size
  BY <1>1, <1>2, <1>3 DEF TarAt
<1>5. n.padding <= Padding(size) /\ Len(w) + n.padding = m + SpanOf(size) - 1
  BY <1>1, <1>2, <1>3, <1>4
<1> QED BY <1>1, <1>4, <1>5 DEF TarAt

\* Padding, and with its last unit an entry of the archive.
LEMMA TarZeros ==
    ASSUME NEW r \in Readers, NEW n, NEW w, NEW x, NEW v, Grows(w, x, v), NEW m \in 1 .. Len(w) + 1,
           TarAt(r, w, m), r.phase = "padding", n.info = r.info,
           Len(x) <= r.padding, n.padding = r.padding - Len(x), \A j \in DOMAIN x : x[j] = Zero,
           n.phase = IF Len(x) = r.padding THEN "walk" ELSE "padding"
    PROVE  TarFlow(n, v)
<1>0. /\ Len(w) \in Nat /\ Len(x) \in Nat /\ Len(v) = Len(w) + Len(x) /\ DOMAIN x = 1 .. Len(x)
      /\ v \in Seq(Units) /\ \A j \in 1 .. Len(w) : v[j] = w[j]
  BY LenProperties DEF Grows
<1>1. PICK size : size = r.info.size
  OBVIOUS
<1>2. size \in Nat /\ r.padding \in Nat /\ r.info.name \in AllNames
  BY <1>1, ReaderFields
<1>3. Padding(size) \in Nat /\ TarUnits \in Nat \ {0} /\ SpanOf(size) = TarUnits + size + Padding(size)
  BY <1>2, SpanFacts
<1>4. /\ m \in 1 .. Len(w) /\ w[m] = Header(r.info.name, size)
      /\ \A j \in m + 1 .. Len(w) : Inside(w, m, j)
      /\ r.padding <= Padding(size) /\ Len(w) + r.padding = m + SpanOf(size) - 1
  BY <1>0, <1>1 DEF TarAt
<1>5. v[m] = w[m] /\ v[m][1] = "head" /\ v[m][3] = size
  BY <1>0, <1>2, <1>4, UnitKinds
<1>6. Chain(v, m)
  BY ChainGrows DEF TarAt
<1>7. ASSUME NEW j \in m + 1 .. Len(v) PROVE Inside(v, m, j)
  <2>1. CASE j <= Len(w)
    <3>1. j \in 1 .. Len(w) /\ j \in m + 1 .. Len(w)
      BY <1>0, <1>4, <2>1
    <3>2. Inside(w, m, j)
      BY <1>4, <3>1
    <3> QED BY <1>4, <3>1, <3>2, InsideKept
  <2>2. CASE j > Len(w)
    <3>1. j \in 1 .. Len(v)
      BY <1>0, <1>4
    <3>2. j - Len(w) \in 1 .. Len(x) /\ v[j] = x[j - Len(w)]
      BY <2>2, <3>1, GrownUnit
    <3>3. v[j] = Zero
      BY <1>0, <3>2
    <3>5. j \notin m + TarUnits .. m + TarUnits + v[m][3] - 1
      BY <1>0, <1>2, <1>3, <1>4, <1>5, <2>2, <3>1
    <3> QED BY <3>3, <3>5, Zenon DEF Inside
  <2> QED BY <1>0, <2>1, <2>2
<1>8. CASE Len(x) # r.padding
  <2>1. /\ m <= Len(v) /\ v[m] = Header(n.info.name, n.info.size)
        /\ n.padding <= Padding(n.info.size) /\ Len(v) + n.padding = m + SpanOf(n.info.size) - 1
    BY <1>0, <1>1, <1>2, <1>3, <1>4, <1>5
  <2>2. TarAt(n, v, m)
    BY <1>6, <1>7, <1>8, <2>1 DEF TarAt
  <2>3. m \in 1 .. Len(v) + 1
    BY <1>0, <1>4
  <2> QED BY <2>2, <2>3 DEF TarFlow
<1>9. CASE Len(x) = r.padding
  <2>1. Len(v) = m + SpanOf(size) - 1
    BY <1>0, <1>4, <1>9
  <2>2. Entry(v, m)
    <3>1. m + SpanOf(v[m][3]) - 1 = Len(v)
      BY <1>5, <2>1
    <3>2. \A j \in m + 1 .. m + SpanOf(v[m][3]) - 1 : Inside(v, m, j)
      BY <1>7, <3>1, Zenon
    <3> QED BY <1>2, <1>5, <3>2 DEF Entry
  <2>3. Chain(v, m + SpanOf(v[m][3]))
    BY <1>0, <1>6, <2>2, ChainExtends
  <2>4. m + SpanOf(v[m][3]) = Len(v) + 1 /\ Len(v) + 1 \in 1 .. Len(v) + 1
    <3>1. SpanOf(v[m][3]) = SpanOf(size)
      BY <1>5
    <3>2. m + SpanOf(size) = Len(v) + 1 /\ Len(v) + 1 \in 1 .. Len(v) + 1
      <4>1. Len(v) \in Nat /\ m \in Nat /\ SpanOf(size) \in Nat
        BY <1>0, <1>2, <1>3
      <4> HIDE DEF SpanOf
      <4> QED BY <2>1, <4>1
    <3> QED BY <3>1, <3>2, Zenon
  <2>5. TarAt(n, v, Len(v) + 1)
    BY <1>9, <2>3, <2>4 DEF TarAt
  <2> QED BY <2>4, <2>5 DEF TarFlow
<1> QED BY <1>8, <1>9

\* A header block: the header, then zeros.
LEMMA HeaderBlock ==
    ASSUME NEW name \in AllNames, NEW size \in Nat
    PROVE  LET x == stage_tar_entry(name, size) IN
           /\ x \in Seq(Units) /\ Len(x) = TarUnits /\ x[1] = Header(name, size)
           /\ \A j \in 2 .. TarUnits : x[j] = Zero
<1> DEFINE h == <<Header(name, size)>>
           z == [i \in 1 .. TarUnits - 1 |-> Zero]
<1>1. TarUnits \in Nat \ {0} /\ TarUnits - 1 \in Nat
  BY UnitCounts
<1>2. h \in Seq(Units) /\ Len(h) = 1 /\ h[1] = Header(name, size)
  BY UnitKinds
<1>3. z \in Seq(Units) /\ Len(z) = TarUnits - 1 /\ \A i \in 1 .. TarUnits - 1 : z[i] = Zero
  BY <1>1, UnitKinds
<1> HIDE DEF h, z
<1>4. Grows(h, z, h \o z)
  BY <1>2, <1>3, ConcatGrows
<1> DEFINE x == h \o z
<1> HIDE DEF x
<1>5. x \in Seq(Units) /\ Len(x) = TarUnits /\ x[1] = Header(name, size)
  BY <1>1, <1>2, <1>3, <1>4 DEF Grows, x
<1>6. ASSUME NEW j \in 2 .. TarUnits PROVE x[j] = Zero
  <2>1. j \in 1 .. Len(x) /\ j > Len(h)
    BY <1>1, <1>2, <1>5
  <2>2. j - Len(h) \in 1 .. Len(z) /\ x[j] = z[j - Len(h)]
    BY <1>4, <2>1, GrownUnit DEF x
  <2> QED BY <1>3, <2>2
<1>7. stage_tar_entry(name, size) = x
  BY DEF stage_tar_entry, x, h, z
<1> QED BY <1>5, <1>6, <1>7

\* A header block put at the end of a chain, as far as it goes.
LEMMA HeaderPut ==
    ASSUME NEW name \in AllNames, NEW size \in Nat, NEW w, NEW x, NEW v, Grows(w, x, v),
           x = stage_tar_entry(name, size)
    PROVE  LET m == Len(w) + 1 IN
           /\ m \in 1 .. Len(v) + 1 /\ Len(v) = m - 1 + TarUnits /\ v[m] = Header(name, size)
           /\ m <= Len(v) /\ \A j \in m + 1 .. Len(v) : Inside(v, m, j)
<1>0. /\ Len(w) \in Nat /\ Len(v) = Len(w) + Len(x)
      /\ \A j \in 1 .. Len(x) : v[Len(w) + j] = x[j]
  BY LenProperties DEF Grows
<1>1. TarUnits \in Nat \ {0}
  BY UnitCounts
<1>2. /\ Len(x) = TarUnits /\ x[1] = Header(name, size)
      /\ \A j \in 2 .. TarUnits : x[j] = Zero
  BY HeaderBlock
<1>3. PICK m : m = Len(w) + 1
  OBVIOUS
<1>4. m \in Nat \ {0} /\ Len(v) = m - 1 + TarUnits /\ m <= Len(v) /\ Len(v) \in Nat
  BY <1>0, <1>1, <1>2, <1>3
<1>5. v[m] = Header(name, size)
  <2>1. 1 \in 1 .. Len(x)
    BY <1>1, <1>2
  <2> QED BY <1>0, <1>2, <1>3, <2>1
<1>6. v[m][3] = size
  BY <1>5, UnitKinds
<1>7. ASSUME NEW j \in m + 1 .. Len(v) PROVE Inside(v, m, j)
  <2>1. j \in 1 .. Len(v) /\ j > Len(w)
    BY <1>0, <1>3, <1>4
  <2>2. j - Len(w) \in 1 .. Len(x) /\ v[j] = x[j - Len(w)]
    BY <2>1, GrownUnit
  <2>3. j - Len(w) \in 2 .. TarUnits
    BY <1>0, <1>2, <1>3, <2>2
  <2>4. v[j] = Zero
    BY <1>2, <2>2, <2>3
  <2>5. j \notin m + TarUnits .. m + TarUnits + v[m][3] - 1
    <3>1. ~(j >= m + TarUnits)
      BY <1>1, <1>4
    <3>2. m + TarUnits \in Int /\ m + TarUnits + size - 1 \in Int
      BY <1>1, <1>4
    <3> QED BY <1>6, <3>1, <3>2
  <2> QED BY <2>4, <2>5, Zenon DEF Inside
<1> QED BY <1>3, <1>4, <1>5, <1>7

\* A directory is a header block and nothing else.
LEMMA TarDirectory ==
    ASSUME NEW r \in Readers, NEW n, NEW w, NEW x, NEW v, Grows(w, x, v),
           TarFlow(r, w), r.phase = "walk", n.phase = "walk",
           NEW name \in AllNames, x = stage_tar_entry(name, 0)
    PROVE  TarFlow(n, v)
<1>1. PICK m : m = Len(w) + 1
  OBVIOUS
<1>2. Len(w) \in Nat /\ Len(v) \in Nat /\ v \in Seq(Units)
  BY LenProperties DEF Grows
<1>3. Chain(w, m) /\ m \in 1 .. Len(w) + 1
  BY <1>1 DEF TarFlow, TarAt
<1>4. Chain(v, m)
  BY <1>3, ChainGrows
<1>5. /\ Len(v) = m - 1 + TarUnits /\ v[m] = Header(name, 0)
      /\ \A j \in m + 1 .. Len(v) : Inside(v, m, j)
  BY <1>1, HeaderPut
<1>6. v[m][1] = "head" /\ v[m][3] = 0 /\ SpanOf(v[m][3]) = TarUnits
  BY <1>5, UnitKinds, NoPadding
<1>7. TarUnits \in Nat \ {0} /\ m \in Nat \ {0}
  <2>1. TarUnits \in Nat \ {0}
    BY UnitCounts
  <2> QED BY <1>1, <1>2, <2>1
<1>8. m + SpanOf(v[m][3]) - 1 = Len(v) /\ m + SpanOf(v[m][3]) = Len(v) + 1
  BY <1>5, <1>6, <1>7
<1>9. Entry(v, m)
  <2>1. \A j \in m + 1 .. m + SpanOf(v[m][3]) - 1 : Inside(v, m, j)
    BY <1>5, <1>8, Zenon
  <2> QED BY <1>6, <2>1 DEF Entry
<1>10. Chain(v, m + SpanOf(v[m][3]))
  BY <1>2, <1>4, <1>7, <1>9, ChainExtends
<1>11. TarAt(n, v, Len(v) + 1)
  BY <1>8, <1>10 DEF TarAt
<1>12. Len(v) + 1 \in 1 .. Len(v) + 1
  BY <1>2
<1> QED BY <1>11, <1>12 DEF TarFlow

\* A file of the archive is open: its header is out and all of its data to come.
LEMMA TarOpens ==
    ASSUME NEW r \in Readers, NEW n, NEW w, NEW x, NEW v, Grows(w, x, v),
           TarFlow(r, w), r.phase = "opening", n.phase = "data", n.info = r.info,
           n.remaining = r.info.size, x = stage_tar_entry(r.info.name, r.info.size)
    PROVE  TarFlow(n, v)
<1>1. PICK m : m = Len(w) + 1
  OBVIOUS
<1>2. Len(w) \in Nat /\ Len(v) \in Nat /\ v \in Seq(Units)
  BY LenProperties DEF Grows
<1>3. Chain(w, m) /\ m \in 1 .. Len(w) + 1
  BY <1>1 DEF TarFlow, TarAt
<1>4. Chain(v, m)
  BY <1>3, ChainGrows
<1>a. PICK size : size = r.info.size
  OBVIOUS
<1>b. size \in Nat /\ r.info.name \in AllNames /\ TarUnits \in Nat \ {0}
  BY <1>a, ReaderFields, UnitCounts
<1>5. /\ m \in 1 .. Len(v) + 1 /\ Len(v) = m - 1 + TarUnits /\ v[m] = Header(r.info.name, size)
      /\ m <= Len(v) /\ \A j \in m + 1 .. Len(v) : Inside(v, m, j)
  BY <1>1, <1>a, <1>b, HeaderPut
<1>6. n.remaining <= n.info.size /\ Len(v) + n.remaining = m + TarUnits - 1 + n.info.size
  BY <1>2, <1>5, <1>a, <1>b
<1>7. TarAt(n, v, m)
  BY <1>4, <1>5, <1>6, <1>a DEF TarAt
<1> QED BY <1>5, <1>7 DEF TarFlow

\* The two zero blocks are staged.
LEMMA TarEnds ==
    ASSUME NEW r \in Readers, NEW n, NEW w, NEW x, NEW v, Grows(w, x, v),
           TarFlow(r, w), r.phase = "walk", n.phase = "finished", x = ArchiveEnd
    PROVE  TarFlow(n, v)
<1>1. PICK m : m = Len(w) + 1
  OBVIOUS
<1>2. /\ Len(w) \in Nat /\ Len(v) \in Nat /\ Len(v) = Len(w) + Len(x)
  BY LenProperties DEF Grows
<1>3. Chain(w, m) /\ m \in 1 .. Len(w) + 1
  BY <1>1 DEF TarFlow, TarAt
<1>4. Chain(v, m)
  BY <1>3, ChainGrows
<1>5. TarUnits \in Nat \ {0}
  BY UnitCounts
<1>6. Len(x) = 2 * TarUnits /\ \A j \in 1 .. 2 * TarUnits : x[j] = Zero
  BY <1>5 DEF ArchiveEnd
<1>7. ASSUME NEW j \in m .. Len(v) PROVE v[j] = Zero
  <2>1. j \in 1 .. Len(v) /\ j > Len(w)
    BY <1>1, <1>2
  <2>2. j - Len(w) \in 1 .. Len(x) /\ v[j] = x[j - Len(w)]
    BY <2>1, GrownUnit
  <2> QED BY <1>6, <2>2
<1>8. Len(v) = m - 1 + 2 * TarUnits /\ m \in 1 .. Len(v) + 1
  BY <1>1, <1>2, <1>5, <1>6
<1>9. TarAt(n, v, m)
  BY <1>4, <1>7, <1>8 DEF TarAt
<1> QED BY <1>8, <1>9 DEF TarFlow

\* The walk itself adds nothing to the flow.
LEMMA TarWalks ==
    ASSUME NEW r, NEW n, NEW w, TarFlow(r, w), r.phase = "walk", n.phase \in {"walk", "opening"}
    PROVE  TarFlow(n, w)
<1>1. PICK m \in 1 .. Len(w) + 1 : TarAt(r, w, m)
  BY DEF TarFlow
<1>2. TarAt(n, w, m)
  BY <1>1 DEF TarAt
<1> QED BY <1>1, <1>2 DEF TarFlow

\* A step that leaves the phase and the counts alone.
LEMMA TarKept ==
    ASSUME NEW r, NEW n, NEW w, TarFlow(r, w), n.phase = r.phase, n.info = r.info,
           n.remaining = r.remaining, n.padding = r.padding
    PROVE  TarFlow(n, w)
<1>1. PICK m \in 1 .. Len(w) + 1 : TarAt(r, w, m)
  BY DEF TarFlow
<1>2. TarAt(n, w, m)
  BY <1>1 DEF TarAt
<1> QED BY <1>1, <1>2 DEF TarFlow

\* A finished archive is one.
LEMMA TarWhole ==
    ASSUME NEW r, NEW w \in Seq(Units), TarFlow(r, w), r.phase = "finished"
    PROVE  IsArchive(w)
<1>1. PICK m \in 1 .. Len(w) + 1 : TarAt(r, w, m)
  BY DEF TarFlow
<1>2. Chain(w, m) /\ Len(w) = m - 1 + 2 * TarUnits /\ \A j \in m .. Len(w) : w[j] = Zero
  BY <1>1 DEF TarAt
<1> QED BY <1>1, <1>2, ChainIsArchive

\* What no step of the reader changes.
Same(r, n) ==
    /\ n.id = r.id /\ n.kind = r.kind /\ n.has = r.has /\ n.last = r.last
    /\ n.cached = r.cached /\ n.eof = r.eof /\ n.term = r.term
    /\ r.kind = "file" => n.info = r.info

\* What a directory lists.
LEMMA LayoutEntry ==
    ASSUME NEW d \in DOMAIN Layout
    PROVE  /\ Layout[d] \in Seq(TreeNames) /\ Len(Layout[d]) \in Nat
           /\ DOMAIN Layout[d] = 1 .. Len(Layout[d])
           /\ \A k \in DOMAIN Layout[d] : Layout[d][k] \in TreeNames
<1>1. Layout[d] \in Seq(TreeNames)
  BY FileTransferBounds
<1>2. Len(Layout[d]) \in Nat /\ DOMAIN Layout[d] = 1 .. Len(Layout[d])
  BY <1>1, LenProperties
<1> QED BY <1>1, <1>2, ElementOfSeq

\* More of the flow that names nobody, and the same directories to go through.
LEMMA SteadyOn ==
    ASSUME NEW r, NEW n, NEW w, NEW x, NEW v, NEW md, Grows(w, x, v),
           SteadyFlow(r, w, md), UpToDate(x, md), n.kind = r.kind, n.dirs = r.dirs,
           Named(n, v) = Named(r, w), n.file # <<>> => n.file[2] = md[n.file[1]].ver
    PROVE  SteadyFlow(n, v, md)
<1>1. UpToDate(v, md)
  BY UpToDateGrows DEF SteadyFlow
<1>2. \A d, k : Coming(n, d, k) <=> Coming(r, d, k)
  BY DEF Coming
<1>3. n.kind # "file" => Named(n, v) \subseteq {y \in TreeNames : Present(y, md)}
  BY DEF SteadyFlow
<1>4. ASSUME n.kind # "file", NEW d \in (Named(n, v) \cup {TopDir}) \cap DOMAIN Layout, NEW k \in DOMAIN Layout[d]
      PROVE  \/ Layout[d][k] \in Named(n, v)
             \/ ~Present(Layout[d][k], md)
             \/ Coming(n, d, k)
  <2>1. d \in (Named(r, w) \cup {TopDir}) \cap DOMAIN Layout /\ r.kind # "file"
    BY <1>4
  <2>2. \/ Layout[d][k] \in Named(r, w)
        \/ ~Present(Layout[d][k], md)
        \/ Coming(r, d, k)
    BY <2>1, Zenon DEF SteadyFlow
  <2> QED BY <1>2, <2>2
<1> QED BY <1>1, <1>3, <1>4, Zenon DEF SteadyFlow

\* The directory in hand gives its next entry: those it passed over are not there.
LEMMA SteadyNext ==
    ASSUME NEW r \in Readers, NEW n, NEW w, NEW x, NEW v, NEW md, Grows(w, x, v),
           SteadyFlow(r, w, md), UpToDate(x, md), n.kind = r.kind, r.kind # "file", n.file = <<>>,
           r.dirs # <<>>, NEW name, NEW k \in Nat, NEW lo \in Nat, NEW dir \in DOMAIN Layout,
           r.dirs[Len(r.dirs)].dir = dir, r.dirs[Len(r.dirs)].pos = lo,
           k \in DOMAIN Layout[dir], name = Layout[dir][k], Present(name, md),
           \A i \in lo + 1 .. k - 1 : ~Present(Layout[dir][i], md),
           Len(n.dirs) \in Nat, DOMAIN n.dirs = 1 .. Len(n.dirs), Len(n.dirs) >= Len(r.dirs),
           \A l \in 1 .. Len(r.dirs) - 1 : n.dirs[l] = r.dirs[l],
           n.dirs[Len(r.dirs)].dir = dir, n.dirs[Len(r.dirs)].pos = k,
           name \in DOMAIN Layout =>
               /\ Len(n.dirs) = Len(r.dirs) + 1
               /\ n.dirs[Len(n.dirs)].dir = name /\ n.dirs[Len(n.dirs)].pos = 0,
           Named(n, v) = Named(r, w) \cup {name}
    PROVE  SteadyFlow(n, v, md)
<1>1. UpToDate(v, md)
  BY UpToDateGrows DEF SteadyFlow
<1>2. Len(r.dirs) \in Nat \ {0} /\ DOMAIN r.dirs = 1 .. Len(r.dirs)
  <2>1. r.dirs \in Seq([dir : DOMAIN Layout, pos : Nat])
    BY ReaderFields
  <2> QED BY <2>1, LenProperties, EmptySeq
<1>3. name \in TreeNames
  BY LayoutEntry
<1>4. Named(n, v) \subseteq {y \in TreeNames : Present(y, md)}
  BY <1>3 DEF SteadyFlow
<1>5. ASSUME NEW d \in (Named(n, v) \cup {TopDir}) \cap DOMAIN Layout, NEW i \in DOMAIN Layout[d]
      PROVE  \/ Layout[d][i] \in Named(n, v)
             \/ ~Present(Layout[d][i], md)
             \/ Coming(n, d, i)
  <2>0. i \in Nat \ {0}
    BY <1>5, LayoutEntry
  <2>1. CASE d = name
    <3>1. Len(n.dirs) \in DOMAIN n.dirs /\ n.dirs[Len(n.dirs)].dir = d /\ i > n.dirs[Len(n.dirs)].pos
      BY <1>2, <2>0, <2>1
    <3> QED BY <3>1 DEF Coming
  <2>2. CASE d # name
    <3>1. d \in (Named(r, w) \cup {TopDir}) \cap DOMAIN Layout
      BY <2>2
    <3>2. \/ Layout[d][i] \in Named(r, w)
          \/ ~Present(Layout[d][i], md)
          \/ Coming(r, d, i)
      BY <3>1, Zenon DEF SteadyFlow
    <3>3. ASSUME Coming(r, d, i)
          PROVE \/ Layout[d][i] \in Named(n, v)
                \/ ~Present(Layout[d][i], md)
                \/ Coming(n, d, i)
      <4>1. PICK l \in DOMAIN r.dirs : r.dirs[l].dir = d /\ i > r.dirs[l].pos
        BY <3>3 DEF Coming
      <4>2. CASE l # Len(r.dirs)
        <5>1. l \in 1 .. Len(r.dirs) - 1 /\ l \in DOMAIN n.dirs
          BY <1>2, <4>1, <4>2
        <5>2. n.dirs[l].dir = d /\ i > n.dirs[l].pos
          BY <4>1, <5>1
        <5> QED BY <5>1, <5>2 DEF Coming
      <4>3. CASE l = Len(r.dirs)
        <5>1. d = dir /\ i > lo
          BY <4>1, <4>3
        <5>2. CASE i > k
          <6>1. Len(r.dirs) \in DOMAIN n.dirs
            BY <1>2
          <6> QED BY <5>1, <5>2, <6>1 DEF Coming
        <5>3. CASE i = k
          BY <5>1, <5>3
        <5>4. CASE i < k
          <6>1. i \in lo + 1 .. k - 1
            BY <2>0, <5>1, <5>4
          <6> QED BY <5>1, <6>1
        <5> QED BY <2>0, <5>2, <5>3, <5>4
      <4> QED BY <4>2, <4>3
    <3> QED BY <3>2, <3>3
  <2> QED BY <2>1, <2>2
<1> QED BY <1>1, <1>4, <1>5, Zenon DEF SteadyFlow

\* The stack of directories without the innermost one.
LEMMA FrontDirs ==
    ASSUME NEW s \in Seq([dir : DOMAIN Layout, pos : Nat]), s # <<>>
    PROVE  /\ Front(s) \in Seq([dir : DOMAIN Layout, pos : Nat])
           /\ Len(Front(s)) = Len(s) - 1 /\ DOMAIN Front(s) = 1 .. Len(s) - 1
           /\ \A l \in 1 .. Len(s) - 1 : Front(s)[l] = s[l]
<1>1. Len(s) \in Nat \ {0} /\ DOMAIN s = 1 .. Len(s) /\ Len(s) - 1 \in Int
  BY LenProperties, EmptySeq
<1>2. ASSUME NEW l \in 1 .. Len(s) - 1 PROVE s[l] \in [dir : DOMAIN Layout, pos : Nat]
  <2>1. l \in 1 .. Len(s)
    BY <1>1
  <2> QED BY <2>1, ElementOfSeq
<1>a. PICK k : k = Len(s) - 1
  OBVIOUS
<1>b. k \in Nat
  BY <1>1, <1>a
<1> DEFINE f == SubSeq(s, 1, k)
<1>3. /\ f \in Seq([dir : DOMAIN Layout, pos : Nat])
      /\ Len(f) = IF 1 <= k THEN k - 1 + 1 ELSE 0
      /\ \A i \in 1 .. k - 1 + 1 : f[i] = s[1 + i - 1]
  BY <1>b, <1>2, <1>a, SubSeqProperties
<1>4. Front(s) = f
  BY <1>a DEF Front
<1> HIDE DEF f
<1>5. Len(f) = k /\ DOMAIN f = 1 .. Len(f)
  <2>1. Len(f) = k
    BY <1>3, <1>b
  <2>2. DOMAIN f = 1 .. Len(f)
    BY <1>3, LenProperties
  <2> QED BY <2>1, <2>2
<1>6. ASSUME NEW l \in 1 .. k PROVE f[l] = s[l]
  <2>1. l \in 1 .. k - 1 + 1 /\ 1 + l - 1 = l
    BY <1>b
  <2> QED BY <1>3, <2>1
<1> QED BY <1>3, <1>4, <1>5, <1>6, <1>a

\* The directory in hand is at its end: nothing in it is still to come.
LEMMA SteadyUp ==
    ASSUME NEW r \in Readers, NEW n, NEW w, NEW md, SteadyFlow(r, w, md),
           n.kind = r.kind, r.kind # "file", n.file = <<>>,
           r.dirs # <<>>, NEW lo \in Nat, NEW dir \in DOMAIN Layout,
           r.dirs[Len(r.dirs)].dir = dir, r.dirs[Len(r.dirs)].pos = lo,
           \A i \in lo + 1 .. Len(Layout[dir]) : ~Present(Layout[dir][i], md),
           n.dirs = Front(r.dirs), Named(n, w) = Named(r, w)
    PROVE  SteadyFlow(n, w, md)
<1>1. UpToDate(w, md) /\ Named(n, w) \subseteq {y \in TreeNames : Present(y, md)}
  BY DEF SteadyFlow
<1>2. /\ r.dirs \in Seq([dir : DOMAIN Layout, pos : Nat])
      /\ Len(r.dirs) \in Nat \ {0} /\ DOMAIN r.dirs = 1 .. Len(r.dirs)
  <2>1. r.dirs \in Seq([dir : DOMAIN Layout, pos : Nat])
    BY ReaderFields
  <2> QED BY <2>1, LenProperties, EmptySeq
<1>3. DOMAIN n.dirs = 1 .. Len(r.dirs) - 1 /\ \A l \in 1 .. Len(r.dirs) - 1 : n.dirs[l] = r.dirs[l]
  BY <1>2, FrontDirs
<1>5. ASSUME NEW d \in (Named(n, w) \cup {TopDir}) \cap DOMAIN Layout, NEW i \in DOMAIN Layout[d]
      PROVE  \/ Layout[d][i] \in Named(n, w)
             \/ ~Present(Layout[d][i], md)
             \/ Coming(n, d, i)
  <2>0. i \in 1 .. Len(Layout[d]) /\ Len(Layout[d]) \in Nat
    BY <1>5, LayoutEntry
  <2>1. \/ Layout[d][i] \in Named(r, w)
        \/ ~Present(Layout[d][i], md)
        \/ Coming(r, d, i)
    <3>1. d \in (Named(r, w) \cup {TopDir}) \cap DOMAIN Layout
      BY <1>5
    <3> QED BY <3>1, Zenon DEF SteadyFlow
  <2>2. ASSUME Coming(r, d, i) PROVE ~Present(Layout[d][i], md) \/ Coming(n, d, i)
    <3>1. PICK l \in DOMAIN r.dirs : r.dirs[l].dir = d /\ i > r.dirs[l].pos
      BY <2>2 DEF Coming
    <3>2. CASE l # Len(r.dirs)
      <4>1. l \in 1 .. Len(r.dirs) - 1
        BY <1>2, <3>1, <3>2
      <4>2. l \in DOMAIN n.dirs /\ n.dirs[l].dir = d /\ i > n.dirs[l].pos
        BY <1>3, <3>1, <4>1
      <4> QED BY <4>2 DEF Coming
    <3>3. CASE l = Len(r.dirs)
      <4>1. d = dir /\ i > lo
        BY <3>1, <3>3
      <4>2. i \in lo + 1 .. Len(Layout[dir])
        BY <2>0, <4>1
      <4> QED BY <4>1, <4>2
    <3> QED BY <3>2, <3>3
  <2> QED BY <2>1, <2>2
<1> QED BY <1>1, <1>5, Zenon DEF SteadyFlow

\* A stream of the tree that has ended, undisturbed: its headers are the tree's.
LEMMA SteadyAll ==
    ASSUME NEW r \in Readers, NEW w \in Seq(Units), NEW md, SteadyFlow(r, w, md), r.kind # "file",
           r.phase = "finished", r.dirs = <<>>
    PROVE  Listed(w) = {y \in TreeNames : Present(y, md)}
<1>1. Named(r, w) = Listed(w)
  BY DEF Named
<1>2. \A d, k : ~Coming(r, d, k)
  BY DEF Coming
<1>3. Listed(w) \subseteq {y \in TreeNames : Present(y, md)}
  BY <1>1 DEF SteadyFlow
<1> DEFINE C == {TopDir} \cup Listed(w) \cup {y \in AllNames : ~Present(y, md)}
<1>4. C \in SUBSET AllNames /\ TopDir \in C
  <2>1. TopDir \in AllNames
    BY FileTransferBounds DEF AllNames
  <2> QED BY <1>3, <2>1 DEF TreeNames
<1>5. ASSUME NEW d \in C \cap DOMAIN Layout, NEW k \in DOMAIN Layout[d] PROVE Layout[d][k] \in C
  <2>1. Present(d, md)
    BY FileTransferBounds DEF Present
  <2>2. d \in (Named(r, w) \cup {TopDir}) \cap DOMAIN Layout
    BY <1>1, <2>1
  <2>3. Layout[d][k] \in Named(r, w) \/ ~Present(Layout[d][k], md)
    BY <1>2, <2>2, Zenon DEF SteadyFlow
  <2>4. Layout[d][k] \in AllNames
    BY LayoutEntry DEF TreeNames
  <2> QED BY <1>1, <2>3, <2>4
<1> HIDE DEF C
<1>6. C = AllNames
  BY <1>4, <1>5, FileTransferBounds, Zenon
<1>7. ASSUME NEW y \in TreeNames, Present(y, md) PROVE y \in Listed(w)
  BY <1>6, <1>7 DEF C, TreeNames
<1> QED BY <1>3, <1>7

\* A live slot has a reader.
LEMMA LiveReader ==
    ASSUME XferTypes, NEW i \in Handles, Live(i)
    PROVE  handles[i] \in Readers /\ handles[i].id \in Nat \ {0}
<1>1. handles[i] \in {NoHandle} \cup Readers
  BY DEF XferTypes
<1>2. handles[i] \in Readers
  BY <1>1 DEF Live
<1> QED BY <1>2, ReaderFields

\* A free slot has none.
LEMMA NoReader == NoHandle \notin Readers
<1>1. NoHandle.id = 0
  BY DEF NoHandle
<1> QED BY <1>1, ReaderFields

\* The handle of a stream.
LEMMA StreamOf ==
    ASSUME XferTypes, NEW h \in 1 .. next_handle - 1
    PROVE  /\ h \in DOMAIN replies /\ replies[h] \in Seq(Replies) /\ GotOf(replies[h]) \in Seq(Units)
           /\ opens[h] \in Openings
<1>1. replies \in Seq(Seq(Replies)) /\ opens \in Seq(Openings)
      /\ h \in 1 .. Len(replies) /\ h \in 1 .. Len(opens)
  BY DEF XferTypes
<1>2. replies[h] \in Seq(Replies) /\ opens[h] \in Openings
  BY <1>1, ElementOfSeq
<1>3. h \in DOMAIN replies
  BY <1>1, LenProperties
<1> QED BY <1>2, <1>3, GotType

\* What the invariant says of a live slot.
LEMMA HandleFacts ==
    ASSUME XferInv, NEW i \in Handles, Live(i)
    PROVE  /\ handles[i] \in Readers /\ handles[i].id \in 1 .. next_handle - 1
           /\ handles[i].id \in DOMAIN replies
           /\ replies[handles[i].id] \in Seq(Replies) /\ GotOf(replies[handles[i].id]) \in Seq(Units)
           /\ opens[handles[i].id] \in Openings
           /\ HandleFits(i) /\ XferTypes
<1>1. handles[i] \in Readers /\ handles[i].id \in Nat \ {0}
  BY LiveReader DEF XferInv
<1>2. HandleFits(i) /\ XferTypes
  BY DEF XferInv
<1>3. handles[i].id \in 1 .. next_handle - 1
  BY <1>1, <1>2 DEF HandleFits, XferTypes
<1> QED BY <1>1, <1>2, <1>3, StreamOf

\* Only its slot fills a block.
LEMMA FillingType ==
    ASSUME XferTypes, NEW i
    PROVE  Filling(request, i) \in Seq(Units)
<1>1. <<>> \in Seq(Units)
  BY EmptySeq
<1>2. ASSUME request.op = "read" PROVE request.fill \in Seq(Units)
  <2>1. request \in {Quiet} \cup OpenRequests \cup ReadRequests
    BY DEF XferTypes
  <2>2. request \in ReadRequests
    BY <1>2, <2>1 DEF Quiet, OpenRequests
  <2> QED BY <2>2 DEF ReadRequests
<1> QED BY <1>1, <1>2 DEF Filling

\* What it says of the request in service.
LEMMA RequestFacts ==
    ASSUME XferInv
    PROVE  /\ request.op = "read" => /\ request \in ReadRequests /\ request.slot \in Handles
                                     /\ request.block \in Nat /\ request.fill \in Seq(Units)
                                     /\ Live(request.slot) /\ ~handles[request.slot].term
                                     /\ request.block = Len(replies[handles[request.slot].id])
                                     /\ Len(request.fill) <= BlockUnits
           /\ request.op = "open" => /\ request \in OpenRequests /\ request.slot \in Handles
                                     /\ ~Live(request.slot)
           /\ request = Quiet => request.op = "none"
<1>1. request \in {Quiet} \cup OpenRequests \cup ReadRequests /\ RequestFits
  BY DEF XferInv, XferTypes
<1>2. ASSUME request.op = "read" PROVE request \in ReadRequests
  BY <1>1, <1>2 DEF Quiet, OpenRequests
<1>3. ASSUME request.op = "open" PROVE request \in OpenRequests
  BY <1>1, <1>3 DEF Quiet, ReadRequests
<1>4. request \in ReadRequests => request.slot \in Handles /\ request.block \in Nat /\ request.fill \in Seq(Units)
  BY DEF ReadRequests
<1>5. request \in OpenRequests => request.slot \in Handles
  BY DEF OpenRequests
<1>6. request = Quiet => request.op = "none"
  BY DEF Quiet
<1> QED BY <1>1, <1>2, <1>3, <1>4, <1>5, <1>6 DEF RequestFits

\* A flow is a sequence of units.
LEMMA FlowType ==
    ASSUME NEW rs \in Seq(Replies), NEW fill \in Seq(Units), NEW stage \in Seq(Units)
    PROVE  FlowOf(rs, fill, stage) \in Seq(Units)
<1>1. GotOf(rs) \in Seq(Units)
  BY GotType
<1>2. GotOf(rs) \o fill \in Seq(Units)
  BY <1>1, ConcatProperties
<1> QED BY <1>2, ConcatProperties DEF FlowOf

\* Concatenation, for units.
LEMMA UnitsAssociate == \A s, t, u \in Seq(Units) : s \o (t \o u) = (s \o t) \o u
  BY ConcatAssociative

\* What the block takes and what stays staged, together go on from the flow.
Carries(rs, fill, stage, units, rest, x) ==
    /\ rs \in Seq(Replies) /\ fill \in Seq(Units) /\ stage \in Seq(Units)
    /\ units \in Seq(Units) /\ rest \in Seq(Units) /\ x \in Seq(Units)
    /\ units \o rest = stage \o x
\* The flow goes on by what the step adds to it.
LEMMA FlowStep ==
    ASSUME NEW rs, NEW fill, NEW stage, NEW units, NEW rest, NEW x,
           Carries(rs, fill, stage, units, rest, x)
    PROVE  FlowOf(rs, fill \o units, rest) = FlowOf(rs, fill, stage) \o x
<1>0. /\ fill \in Seq(Units) /\ stage \in Seq(Units) /\ units \in Seq(Units)
      /\ rest \in Seq(Units) /\ x \in Seq(Units)
  BY DEF Carries
<1>1. PICK g : g = GotOf(rs)
  OBVIOUS
<1>2. PICK a : a = g \o fill
  OBVIOUS
<1>a. g \in Seq(Units)
  BY <1>1, GotType DEF Carries
<1>3. a \in Seq(Units)
  BY <1>0, <1>2, <1>a, ConcatProperties
<1>4. g \o (fill \o units) = a \o units
  BY <1>0, <1>2, <1>a, UnitsAssociate
<1>5. (a \o units) \o rest = a \o (units \o rest)
  BY <1>0, <1>3, UnitsAssociate
<1>6. a \o (stage \o x) = (a \o stage) \o x
  BY <1>0, <1>3, UnitsAssociate
<1>7. FlowOf(rs, fill \o units, rest) = (a \o units) \o rest
  BY <1>1, <1>4, Zenon DEF FlowOf
<1>8. FlowOf(rs, fill, stage) \o x = (a \o stage) \o x
  BY <1>1, <1>2, Zenon DEF FlowOf
<1>9. units \o rest = stage \o x
  BY DEF Carries
<1> QED BY <1>5, <1>6, <1>7, <1>8, <1>9

----------------------------------------------------------------------------
\* What the backend holds.

\* Every object carries the number of its handle.
LEMMA ObjectsOf ==
    /\ \A r, o : o \in OpenObjects(r) => o[1] = r.id
    /\ \A r : OpenObjects(bvstk_fs_reader_close(r)) = {} => Freed(r) = OpenObjects(r)
<1>1. ASSUME NEW r, NEW o \in OpenObjects(r) PROVE o[1] = r.id
  BY <1>1 DEF OpenObjects
<1>2. ASSUME NEW r, OpenObjects(bvstk_fs_reader_close(r)) = {} PROVE Freed(r) = OpenObjects(r)
  BY <1>2, Zenon DEF Freed
<1> QED BY <1>1, <1>2

\* bvstk_fs_reader_close leaves nothing open.
LEMMA ClosedEmpty ==
    ASSUME NEW r \in Readers
    PROVE  /\ OpenObjects(bvstk_fs_reader_close(r)) = {} /\ Freed(r) = OpenObjects(r)
<1> DEFINE c == bvstk_fs_reader_close(r)
<1>1. c.file = <<>> /\ c.dirs = <<>>
  BY DEF bvstk_fs_reader_close, Readers
<1> HIDE DEF c
<1>2. DOMAIN c.dirs = {}
  <2>1. DOMAIN <<>> = {}
    OBVIOUS
  <2> QED BY <1>1, <2>1
<1>3. OpenObjects(c) = {}
  BY <1>1, <1>2 DEF OpenObjects
<1> QED BY <1>3, ObjectsOf DEF c

\* A handle comes to hold other objects, or none, and the heap follows.
LEMMA HeapFollows ==
    ASSUME NoLeak, OneHandle, XferTypes, NEW s \in Handles, Live(s), NEW n,
           \A i \in Handles : handles'[i] = IF i = s THEN n ELSE handles[i],
           n = NoHandle \/ n.id = handles[s].id, NEW held,
           held = IF n = NoHandle THEN {} ELSE OpenObjects(n),
           heap' = (heap \ OpenObjects(handles[s])) \cup held
    PROVE  NoLeak'
<1> DEFINE U == UNION {OpenObjects(handles[i]) : i \in {j \in Handles : Live(j)}}
           V == UNION {OpenObjects(handles'[i]) : i \in {j \in Handles : handles'[j] # NoHandle}}
<1>1. heap = U
  BY DEF NoLeak
<1>2. ASSUME NEW o \in heap' PROVE o \in V
  <2>1. CASE o \in held
    <3>1. n # NoHandle /\ o \in OpenObjects(n) /\ handles'[s] = n
      BY <2>1
    <3> QED BY <3>1
  <2>2. CASE o \in heap /\ o \notin OpenObjects(handles[s])
    <3>1. PICK i \in Handles : Live(i) /\ o \in OpenObjects(handles[i])
      BY <1>1, <2>2
    <3>2. i # s /\ handles'[i] = handles[i]
      BY <2>2, <3>1
    <3> QED BY <3>1, <3>2 DEF Live
  <2> QED BY <1>2, <2>1, <2>2
<1>3. ASSUME NEW o \in V PROVE o \in heap'
  <2>1. PICK i \in Handles : handles'[i] # NoHandle /\ o \in OpenObjects(handles'[i])
    BY <1>3
  <2>2. CASE i = s
    BY <2>1, <2>2
  <2>3. CASE i # s
    <3>1. handles'[i] = handles[i] /\ Live(i) /\ o \in OpenObjects(handles[i])
      BY <2>1, <2>3 DEF Live
    <3>2. o \in heap
      BY <1>1, <3>1
    <3>3. handles[i].id # handles[s].id
      BY <2>3, <3>1 DEF OneHandle
    <3>4. o \notin OpenObjects(handles[s])
      BY <3>1, <3>3, ObjectsOf
    <3> QED BY <3>2, <3>4
  <2> QED BY <2>2, <2>3
<1> QED BY <1>2, <1>3 DEF NoLeak, Live

\* A handle that a step leaves alone.
LEMMA HandleKept ==
    ASSUME XferInv, NEW i \in Handles, Live(i), handles'[i] = handles[i],
           Filling(request', i) = Filling(request, i),
           replies'[handles[i].id] = replies[handles[i].id], opens'[handles[i].id] = opens[handles[i].id],
           next_handle <= next_handle', next_handle' \in Nat, media' = media,
           handles[i].id \in steady' <=> handles[i].id \in steady
    PROVE  HandleFits(i)'
<1>1. HandleFits(i) /\ handles[i].id \in 1 .. next_handle - 1 /\ next_handle \in Nat
  BY HandleFacts DEF XferTypes
<1>2. handles'[i].id < next_handle'
  BY <1>1
<1>3. Remembers(handles'[i], replies'[handles'[i].id], opens'[handles'[i].id])
  BY <1>1, Zenon DEF HandleFits
<1>4. Flowing(i)' = Flowing(i)
  BY Zenon DEF Flowing
<1>5. ~handles[i].term => Runs(handles[i], Flowing(i), handles[i].id \in steady, media)
  BY <1>1, Zenon DEF HandleFits
<1>6. (handles'[i].id \in steady') = (handles[i].id \in steady)
  OBVIOUS
<1>7. ~handles'[i].term => Runs(handles'[i], Flowing(i)', handles'[i].id \in steady', media')
  BY <1>4, <1>5, <1>6, Zenon
<1> QED BY <1>2, <1>3, <1>7, Zenon DEF HandleFits

\* The streams of the handles that a step leaves alone.
LEMMA StreamsKept ==
    ASSUME XferInv, replies' = replies, opens' = opens, steady' = steady, media' = media
    PROVE  \A h \in DOMAIN replies' : StreamFits(replies'[h], opens'[h], h \in steady', media')
  BY DEF XferInv

\* A step of the reader: what it takes out goes into the block, what it stages
\* goes on from there, and the flow goes on by x.
LEMMA GoesKeeps ==
    ASSUME XferInv, Reading, NEW n, NEW units \in Seq(Units), NEW x \in Seq(Units),
           Goes(n, units), faults' = faults, Len(units) <= BlockUnits - Len(request.fill),
           units \o n.stage = r0.stage \o x, Same(r0, n),
           Runs(n, Flowing(request.slot) \o x, r0.id \in steady, media)
    PROVE  XferInv'
<1> DEFINE s == request.slot
           fill2 == request.fill \o units
<1>0. request.op = "read"
  BY DEF Reading
<1>1. /\ request \in ReadRequests /\ s \in Handles /\ request.fill \in Seq(Units)
      /\ Live(s) /\ ~handles[s].term /\ request.block = Len(replies[handles[s].id])
      /\ Len(request.fill) <= BlockUnits
  BY <1>0, RequestFacts
<1>2. /\ r0 = handles[s] /\ r0 \in Readers /\ r0.id \in 1 .. next_handle - 1 /\ r0.id \in DOMAIN replies
      /\ replies[r0.id] \in Seq(Replies) /\ HandleFits(s) /\ XferTypes
  BY <1>1, HandleFacts DEF r0
<1>3. n \in Readers /\ n.stage \in Seq(Units)
  BY ReaderFields DEF Runs
<1>4. /\ handles' = [handles EXCEPT ![s] = n] /\ request' = [request EXCEPT !.fill = fill2]
      /\ heap' = (heap \ OpenObjects(r0)) \cup OpenObjects(n)
      /\ media' = media /\ next_handle' = next_handle /\ replies' = replies /\ opens' = opens
      /\ steady' = steady /\ honest' = honest /\ rewrites' = rewrites
  BY DEF Goes
<1>5. fill2 \in Seq(Units) /\ Len(fill2) = Len(request.fill) + Len(units) /\ Len(fill2) <= BlockUnits
  <2>1. fill2 \in Seq(Units) /\ Len(fill2) = Len(request.fill) + Len(units)
    BY <1>1, ConcatProperties
  <2>2. Len(request.fill) \in Nat /\ Len(units) \in Nat /\ BlockUnits \in Nat
    BY <1>1, LenProperties, UnitCounts
  <2> QED BY <2>1, <2>2
<1> HIDE DEF fill2
<1>6. request' \in ReadRequests /\ request'.op = "read" /\ request'.slot = s
      /\ request'.block = request.block /\ request'.fill = fill2
  BY <1>1, <1>4, <1>5 DEF ReadRequests
<1> HIDE DEF s
<1>7. /\ handles' \in [Handles -> {NoHandle} \cup Readers]
      /\ \A i \in Handles : handles'[i] = IF i = s THEN n ELSE handles[i]
  <2>1. handles \in [Handles -> {NoHandle} \cup Readers]
    BY <1>2 DEF XferTypes
  <2> QED BY <1>1, <1>3, <1>4, <2>1
<1>8. XferTypes'
  BY <1>2, <1>4, <1>6, <1>7 DEF XferTypes
<1>9. n.id = r0.id /\ n # NoHandle
  BY <1>3, NoReader DEF Same
<1>10. NoLeak'
  <2>1. NoLeak /\ OneHandle
    BY DEF XferInv
  <2>2. heap' = (heap \ OpenObjects(handles[s])) \cup OpenObjects(n)
    BY <1>2, <1>4
  <2> QED BY <1>1, <1>2, <1>7, <1>9, <2>1, <2>2, HeapFollows
<1>11. OneHandle'
  <2>1. \A i \in Handles : (Live(i)' <=> Live(i)) /\ (Live(i) => handles'[i].id = handles[i].id)
    BY <1>1, <1>2, <1>7, <1>9 DEF Live
  <2>2. OneHandle
    BY DEF XferInv
  <2> QED BY <2>1, <2>2 DEF OneHandle
<1>12. RequestFits'
  <2>0. handles'[s] = n
    BY <1>1, <1>7
  <2>1. handles'[s] # NoHandle /\ ~handles'[s].term /\ handles'[s].id = r0.id
    BY <1>1, <1>2, <1>9, <2>0 DEF Same
  <2>2. request'.op # "open"
    BY <1>6
  <2>3. request'.block = Len(replies'[handles'[s].id])
    BY <1>1, <1>2, <1>4, <1>6, <2>1
  <2>4. handles'[request'.slot] # NoHandle /\ ~handles'[request'.slot].term
    BY <1>6, <2>1
  <2>5. Len(request'.fill) <= BlockUnits /\ request'.block = Len(replies'[handles'[request'.slot].id])
    BY <1>5, <1>6, <2>3
  <2> QED BY <2>2, <2>4, <2>5 DEF RequestFits, Live
<1>13. ASSUME NEW i \in Handles, Live(i)' PROVE HandleFits(i)'
  <2>1. CASE i # s
    <3>1. handles'[i] = handles[i] /\ Live(i)
      BY <1>7, <1>13, <2>1 DEF Live
    <3>2. Filling(request', i) = Filling(request, i)
      BY <1>6, <2>1 DEF Filling, s
    <3>3. next_handle \in Nat /\ next_handle' = next_handle
      BY <1>2, <1>4 DEF XferTypes
    <3>4. /\ replies'[handles[i].id] = replies[handles[i].id] /\ opens'[handles[i].id] = opens[handles[i].id]
          /\ handles[i].id \in steady' <=> handles[i].id \in steady
      BY <1>4
    <3>5. next_handle <= next_handle' /\ next_handle' \in Nat /\ media' = media
      BY <1>4, <3>3
    <3> QED BY <3>1, <3>2, <3>4, <3>5, HandleKept
  <2>2. CASE i = s
    <3>1. handles'[i] = n /\ handles'[i].id = r0.id
      BY <1>1, <1>7, <1>9, <2>2
    <3>2. handles'[i].id < next_handle'
      <4>1. r0.id < next_handle
        BY <1>2 DEF HandleFits
      <4> QED BY <1>4, <3>1, <4>1
    <3>3. Remembers(n, replies[r0.id], opens[r0.id])
      <4>1. Remembers(r0, replies[r0.id], opens[r0.id])
        BY <1>2, Zenon DEF HandleFits
      <4> QED BY <4>1 DEF Remembers, Same
    <3>4. Flowing(i)' = FlowOf(replies[r0.id], fill2, n.stage)
      <4>1. Filling(request', i) = fill2
        BY <1>6, <2>2 DEF Filling
      <4>2. Flowing(i)' = FlowOf(replies'[handles'[i].id], Filling(request', i), handles'[i].stage)
        BY DEF Flowing
      <4> QED BY <1>4, <3>1, <4>1, <4>2
    <3>5. Flowing(s) = FlowOf(replies[r0.id], request.fill, r0.stage)
      <4>1. Filling(request, s) = request.fill
        BY <1>0 DEF Filling, s
      <4> QED BY <1>2, <4>1 DEF Flowing
    <3>6. Flowing(i)' = Flowing(s) \o x
      <4>1. r0.stage \in Seq(Units)
        BY <1>2, ReaderFields
      <4>2. units \o n.stage = r0.stage \o x /\ request.fill \in Seq(Units) /\ n.stage \in Seq(Units)
        BY <1>1, <1>3
      <4>3. units \in Seq(Units) /\ x \in Seq(Units) /\ replies[r0.id] \in Seq(Replies)
        BY <1>2
      <4>4. FlowOf(replies[r0.id], request.fill \o units, n.stage)
               = FlowOf(replies[r0.id], request.fill, r0.stage) \o x
        <5>1. Carries(replies[r0.id], request.fill, r0.stage, units, n.stage, x)
          BY <4>1, <4>2, <4>3 DEF Carries
        <5> QED BY <5>1, FlowStep
      <4> QED BY <3>4, <3>5, <4>4 DEF fill2
    <3>7. Runs(n, Flowing(i)', n.id \in steady', media')
      <4>1. (n.id \in steady') = (r0.id \in steady)
        BY <1>4, <1>9
      <4> QED BY <1>4, <3>6, <4>1, Zenon DEF s
    <3> QED BY <1>4, <3>1, <3>2, <3>3, <3>7, Zenon DEF HandleFits
  <2> QED BY <2>1, <2>2
<1>14. \A h \in DOMAIN replies' : StreamFits(replies'[h], opens'[h], h \in steady', media')
  BY <1>4, StreamsKept
<1>15. honest' = TRUE
  BY <1>4 DEF XferInv
<1> QED BY <1>8, <1>10, <1>11, <1>12, <1>13, <1>14, <1>15 DEF XferInv

\* Nothing is added.
LEMMA GrowsNone == ASSUME NEW w \in Seq(Units) PROVE w \o <<>> = w /\ Grows(w, <<>>, w) /\ <<>> \in Seq(Units)
<1>1. <<>> \in Seq(Units)
  BY EmptySeq
<1>2. w \o <<>> = w
  BY ConcatEmptySeq
<1>3. Grows(w, <<>>, w \o <<>>)
  BY <1>1, ConcatGrows
<1> QED BY <1>1, <1>2, <1>3

\* No data, none of it old.
LEMMA UpToDateNone == \A md : UpToDate(<<>>, md)
  BY DEF UpToDate

\* The reader of the request in hand, and the room its block has.
LEMMA ReadingRuns ==
    ASSUME XferInv, Reading
    PROVE  /\ r0 = handles[request.slot] /\ r0 \in Readers
           /\ Flowing(request.slot) \in Seq(Units)
           /\ Runs(r0, Flowing(request.slot), r0.id \in steady, media)
           /\ request.fill \in Seq(Units) /\ Len(request.fill) \in Nat
           /\ Space \in Nat /\ Space = BlockUnits - Len(request.fill)
           /\ r0.stage \in Seq(Units) /\ Len(r0.stage) \in Nat
<1>0. request.op = "read"
  BY DEF Reading
<1>1. /\ request.slot \in Handles /\ request.fill \in Seq(Units) /\ Live(request.slot)
      /\ ~handles[request.slot].term /\ Len(request.fill) <= BlockUnits
  BY <1>0, RequestFacts
<1>2. r0 = handles[request.slot]
  BY DEF r0
<1>3. r0 \in Readers /\ HandleFits(request.slot)
  BY <1>1, <1>2, HandleFacts
<1>4. Runs(r0, Flowing(request.slot), r0.id \in steady, media)
  BY <1>1, <1>2, <1>3, Zenon DEF HandleFits
<1>5. Flowing(request.slot) \in Seq(Units)
  BY <1>4, Zenon DEF Runs
<1>6. Len(request.fill) \in Nat /\ BlockUnits \in Nat
  BY <1>1, LenProperties, UnitCounts
<1>7. Space \in Nat /\ Space = BlockUnits - Len(request.fill)
  BY <1>1, <1>6 DEF Space
<1>8. r0.stage \in Seq(Units) /\ Len(r0.stage) \in Nat
  <2>1. r0.stage \in Seq(Units)
    BY <1>3, ReaderFields
  <2> QED BY <2>1, LenProperties
<1> QED BY <1>1, <1>2, <1>3, <1>4, <1>5, <1>6, <1>7, <1>8

\* The smaller of two counts.
LEMMA LeastOf ==
    ASSUME NEW a \in Nat, NEW b \in Nat
    PROVE  Least(a, b) \in Nat /\ Least(a, b) <= a /\ Least(a, b) <= b
  BY DEF Least

\* Staged units go into the block: the flow stays.
LEMMA StepTakeStage == ASSUME XferInv, TakeStage PROVE XferInv'
<1> DEFINE w == Flowing(request.slot)
           k == Least(Space, Len(r0.stage))
           n == [r0 EXCEPT !.stage = SubSeq(@, k + 1, Len(@))]
           units == SubSeq(r0.stage, 1, k)
<1>0. Reading /\ r0.stage # <<>> /\ Goes(n, units) /\ faults' = faults
  BY DEF TakeStage
<1>1. /\ r0 \in Readers /\ w \in Seq(Units) /\ Runs(r0, w, r0.id \in steady, media)
      /\ Space \in Nat /\ Space = BlockUnits - Len(request.fill)
      /\ r0.stage \in Seq(Units) /\ Len(r0.stage) \in Nat
  BY <1>0, ReadingRuns
<1>2. k \in Nat /\ k <= Space /\ k <= Len(r0.stage)
  BY <1>1, LeastOf
<1> HIDE DEF w, k
<1>3. units \in Seq(Units) /\ Len(units) = k /\ SubSeq(r0.stage, k + 1, Len(r0.stage)) \in Seq(Units)
  <2>1. \A i \in 1 .. k : r0.stage[i] \in Units
    BY <1>1, <1>2, ElementOfSeq
  <2>2. \A i \in k + 1 .. Len(r0.stage) : r0.stage[i] \in Units
    BY <1>1, <1>2, ElementOfSeq
  <2>3. units \in Seq(Units) /\ Len(units) = IF 1 <= k THEN k - 1 + 1 ELSE 0
    BY <1>2, <2>1, SubSeqProperties
  <2>4. SubSeq(r0.stage, k + 1, Len(r0.stage)) \in Seq(Units)
    BY <1>1, <1>2, <2>2, SubSeqProperties
  <2> QED BY <1>2, <2>3, <2>4
<1>4. units \o SubSeq(r0.stage, k + 1, Len(r0.stage)) = r0.stage
  <2>1. 1 \in 1 .. Len(r0.stage) + 1 /\ k \in 1 - 1 .. Len(r0.stage) /\ Len(r0.stage) \in k .. Len(r0.stage)
    BY <1>1, <1>2
  <2>2. SubSeq(r0.stage, 1, k) \o SubSeq(r0.stage, k + 1, Len(r0.stage)) = SubSeq(r0.stage, 1, Len(r0.stage))
    BY <1>1, <2>1, ConcatAdjacentSubSeq
  <2>3. SubSeq(r0.stage, 1, Len(r0.stage)) = r0.stage
    BY <1>1, SubSeqFull
  <2> QED BY <2>2, <2>3
<1>5. n.stage = SubSeq(r0.stage, k + 1, Len(r0.stage))
  BY <1>1 DEF Readers
<1>6. /\ n \in Readers /\ Same(r0, n) /\ n.phase = r0.phase /\ n.info = r0.info /\ n.remaining = r0.remaining
      /\ n.padding = r0.padding /\ n.dirs = r0.dirs /\ n.file = r0.file
  <2>1. n \in Readers
    BY <1>1, <1>3 DEF Readers
  <2> QED BY <1>1, <2>1 DEF Readers, Same
<1> HIDE DEF n, units
<1>7. units \o n.stage = r0.stage \o <<>> /\ w \o <<>> = w /\ Grows(w, <<>>, w) /\ <<>> \in Seq(Units)
  BY <1>1, <1>4, <1>5, GrowsNone
<1>8. r0.kind # "file"
  BY <1>0, <1>1 DEF Runs, FileFlow
<1>9. Runs(n, w, r0.id \in steady, media)
  <2>1. PhaseFits(n)
    BY <1>0, <1>1, <1>6 DEF Runs, PhaseFits, Same
  <2>2. n.kind = "tar" => TarFlow(n, w)
    <3>1. r0.kind = "tar" => TarFlow(r0, w)
      BY <1>1 DEF Runs
    <3> QED BY <1>6, <3>1, TarKept DEF Same
  <2>3. ASSUME r0.id \in steady PROVE SteadyFlow(n, w, media)
    <3>1. SteadyFlow(r0, w, media)
      BY <1>1, <2>3 DEF Runs
    <3>2. Named(n, w) = Named(r0, w)
      BY <1>6 DEF Named
    <3>3. n.file # <<>> => n.file[2] = media[n.file[1]].ver
      BY <1>6, <3>1 DEF SteadyFlow
    <3>4. n.kind = r0.kind /\ n.dirs = r0.dirs
      BY <1>6 DEF Same
    <3> QED BY <1>7, <3>1, <3>2, <3>3, <3>4, SteadyOn, UpToDateNone
  <2> QED BY <1>1, <1>6, <1>8, <2>1, <2>2, <2>3 DEF Runs, Same
<1>10. Len(units) <= BlockUnits - Len(request.fill)
  BY <1>1, <1>2, <1>3
<1> QED BY <1>0, <1>3, <1>6, <1>7, <1>9, <1>10, GoesKeeps DEF w

\* Data of one file, and more of it.
LEMMA AllOfGrows ==
    ASSUME NEW w, NEW x, NEW v, NEW name, Grows(w, x, v), AllOf(w, name), AllOf(x, name)
    PROVE  AllOf(v, name)
<1>1. /\ Len(w) \in Nat /\ Len(x) \in Nat /\ Len(v) = Len(w) + Len(x)
      /\ DOMAIN w = 1 .. Len(w) /\ DOMAIN x = 1 .. Len(x) /\ DOMAIN v = 1 .. Len(v)
  BY LenProperties DEF Grows
<1>2. ASSUME NEW j \in DOMAIN v PROVE v[j][1] = "data" /\ v[j][2] = name
  <2>2. CASE j <= Len(w)
    <3>1. j \in DOMAIN w /\ v[j] = w[j]
      BY <1>1, <2>2 DEF Grows
    <3> QED BY <3>1 DEF AllOf
  <2>3. CASE j > Len(w)
    <3>1. j - Len(w) \in DOMAIN x /\ v[j] = x[j - Len(w)]
      BY <1>1, <2>3, GrownUnit
    <3> QED BY <3>1 DEF AllOf
  <2> QED BY <1>1, <2>2, <2>3
<1> QED BY <1>2 DEF AllOf

\* Nothing is staged.
LEMMA Staged == \A x \in Seq(Units) : x \o <<>> = <<>> \o x /\ <<>> \o x = x
  BY ConcatEmptySeq

\* The parts of a file on the medium.
LEMMA MediaTypes ==
    ASSUME XferTypes, NEW f \in StoredFiles
    PROVE  media[f].here \in BOOLEAN /\ media[f].size \in Nat /\ media[f].ver \in Nat
<1>1. media[f] \in Versions
  BY DEF XferTypes
<1> QED BY <1>1 DEF Versions

\* Data goes into the block: the flow goes on by it.
LEMMA StepTakeData == ASSUME XferInv, TakeData PROVE XferInv'
<1>1. Reading /\ TakesData /\ faults' = faults
  BY DEF TakeData
<1> DEFINE w == Flowing(request.slot)
           k == Least(Space, r0.remaining)
           n == [r0 EXCEPT !.remaining = @ - k]
<1>2. PICK ver \in Seen(r0.file) : Goes(n, [j \in 1 .. k |-> Data(r0.file[1], ver)])
  BY DEF TakeData
<1> DEFINE x == [j \in 1 .. k |-> Data(r0.file[1], ver)]
<1>3. /\ r0 \in Readers /\ w \in Seq(Units) /\ Runs(r0, w, r0.id \in steady, media)
      /\ Space \in Nat /\ Space = BlockUnits - Len(request.fill)
  BY <1>1, ReadingRuns
<1> HIDE DEF w
<1>4. /\ r0.stage = <<>> /\ r0.phase = "data" /\ r0.file # <<>> /\ r0.file[1] = r0.info.name
      /\ r0.remaining \in Nat /\ r0.kind # "tree"
      /\ r0.kind \in {"file", "tree", "tar"} /\ PhaseFits(r0)
  BY <1>1, <1>3, ReaderFields DEF TakesData, Runs, PhaseFits
<1>5. r0.file \in StoredFiles \X Int /\ r0.info.name \in StoredFiles /\ r0.file[2] \in Int
  BY <1>3, <1>4, ReaderFields
<1>6. XferTypes
  BY DEF XferInv
<1>7. ver \in Int
  <2>1. media[r0.file[1]].ver \in Nat /\ Junk \in Int
    BY <1>4, <1>5, <1>6, MediaTypes DEF Junk
  <2> QED BY <1>2, <1>5, <2>1 DEF Seen
<1>8. k \in Nat /\ k <= Space /\ k <= r0.remaining
  BY <1>3, <1>4, LeastOf
<1> HIDE DEF k
<1>9. /\ x \in Seq(Units) /\ Len(x) = k /\ DOMAIN x = 1 .. k
      /\ \A j \in 1 .. k : x[j] = Data(r0.info.name, ver)
  <2>1. Data(r0.info.name, ver) \in Units
    BY <1>5, <1>7, UnitKinds
  <2>2. x = [j \in 1 .. k |-> Data(r0.info.name, ver)]
    BY <1>4
  <2> HIDE DEF x
  <2> QED BY <1>8, <2>1, <2>2
<1>10. /\ n \in Readers /\ Same(r0, n) /\ n.phase = "data" /\ n.info = r0.info
       /\ n.remaining = r0.remaining - k /\ n.stage = <<>> /\ n.dirs = r0.dirs /\ n.file = r0.file
  <2>1. r0.remaining - k \in Nat
    BY <1>4, <1>8
  <2>2. n \in Readers
    BY <1>3, <2>1 DEF Readers
  <2> QED BY <1>3, <1>4, <2>2 DEF Readers, Same
<1>11. Goes(n, x)
  BY <1>2
<1> HIDE DEF n, x
<1>12. Grows(w, x, w \o x)
  BY <1>3, <1>9, ConcatGrows
<1>13. AllOf(x, r0.info.name)
  BY <1>5, <1>7, <1>9, UnitKinds DEF AllOf
<1>14. Runs(n, w \o x, r0.id \in steady, media)
  <2>1. PhaseFits(n)
    BY <1>4, <1>10 DEF PhaseFits, Same
  <2>2. ASSUME n.kind = "tar" PROVE TarFlow(n, w \o x)
    <3>1. PICK m \in 1 .. Len(w) + 1 : TarAt(r0, w, m)
      BY <1>3, <1>10, <2>2 DEF Runs, Same, TarFlow
    <3>2. TarAt(n, w \o x, m)
      BY <1>3, <1>4, <1>8, <1>9, <1>10, <1>12, <1>13, <3>1, TarData
    <3>3. m \in 1 .. Len(w \o x) + 1
      BY <1>12, LenProperties DEF Grows
    <3> QED BY <3>2, <3>3 DEF TarFlow
  <2>3. ASSUME n.kind = "file" PROVE FileFlow(n, w \o x)
    <3>1. FileFlow(r0, w) /\ r0.info.size \in Nat
      BY <1>3, <1>10, <2>3, ReaderFields DEF Runs, Same
    <3>2. AllOf(w \o x, n.info.name)
      BY <1>10, <1>12, <1>13, <3>1, AllOfGrows DEF FileFlow
    <3>3. Len(w \o x) + n.remaining = n.info.size
      <4>1. Len(w \o x) = Len(w) + k /\ Len(w) \in Nat
        BY <1>9, <1>12, LenProperties DEF Grows
      <4>2. Len(w) + r0.remaining = r0.info.size
        BY <3>1 DEF FileFlow
      <4> QED BY <1>4, <1>8, <1>10, <4>1, <4>2
    <3> QED BY <1>10, <3>2, <3>3 DEF FileFlow
  <2>4. ASSUME r0.id \in steady PROVE SteadyFlow(n, w \o x, media)
    <3>1. SteadyFlow(r0, w, media)
      BY <1>3, <2>4 DEF Runs
    <3>2. r0.file[2] = media[r0.file[1]].ver
      BY <1>4, <3>1 DEF SteadyFlow
    <3>3. ver = media[r0.info.name].ver
      BY <1>2, <1>4, <3>2 DEF Seen
    <3>4. UpToDate(x, media)
      BY <1>5, <1>7, <1>9, <3>3, UnitKinds DEF UpToDate
    <3>5. Listed(x) = {}
      BY <1>5, <1>7, <1>9, UnitKinds, ListedNone
    <3>6. Named(n, w \o x) = Named(r0, w)
      <4>1. Listed(w \o x) = Listed(w) \cup Listed(x)
        BY <1>12, ListedGrows
      <4> QED BY <1>4, <1>10, <3>5, <4>1 DEF Named
    <3>7. n.kind = r0.kind /\ n.dirs = r0.dirs /\ (n.file # <<>> => n.file[2] = media[n.file[1]].ver)
      BY <1>10, <3>2 DEF Same
    <3> QED BY <1>12, <3>1, <3>4, <3>6, <3>7, SteadyOn
  <2>5. w \o x \in Seq(Units)
    BY <1>12 DEF Grows
  <2> QED BY <1>10, <2>1, <2>2, <2>3, <2>4, <2>5 DEF Runs
<1>15. x \o n.stage = r0.stage \o x
  BY <1>4, <1>9, <1>10, Staged
<1>16. Len(x) <= BlockUnits - Len(request.fill)
  BY <1>3, <1>8, <1>9
<1> QED BY <1>1, <1>9, <1>10, <1>11, <1>14, <1>15, <1>16, GoesKeeps DEF w

\* The file is closed: its padding is owed, or the stream has ended.
LEMMA StepFinishFile == ASSUME XferInv, finish_file PROVE XferInv'
<1> DEFINE w == Flowing(request.slot)
           n == IF r0.kind = "file" THEN [r0 EXCEPT !.file = <<>>, !.phase = "finished"]
                ELSE [r0 EXCEPT !.file = <<>>, !.phase = "padding", !.padding = Padding(r0.info.size)]
<1>1. Reading /\ FileDone /\ Goes(n, <<>>) /\ faults' = faults
  BY DEF finish_file
<1>3. /\ r0 \in Readers /\ w \in Seq(Units) /\ Runs(r0, w, r0.id \in steady, media)
      /\ Space \in Nat /\ Space = BlockUnits - Len(request.fill)
  BY <1>1, ReadingRuns
<1> HIDE DEF w
<1>4. /\ r0.stage = <<>> /\ r0.phase = "data" /\ r0.remaining = 0
      /\ r0.kind \in {"file", "tree", "tar"} /\ PhaseFits(r0)
  BY <1>1, <1>3, ReaderFields DEF FileDone, Runs
<1>5. r0.kind # "tree" /\ (r0.kind = "file" => r0.dirs = <<>>)
  BY <1>4 DEF PhaseFits
<1>6. Padding(r0.info.size) \in Nat
  BY <1>3, ReaderFields, UnitCounts
<1>7. n \in Readers
  <2>1. r0.kind = "file" => n \in Readers
    BY <1>3 DEF Readers, Phases
  <2>2. r0.kind # "file" => n \in Readers
    BY <1>3, <1>6 DEF Readers, Phases
  <2> QED BY <2>1, <2>2
<1>8. /\ Same(r0, n) /\ n.info = r0.info /\ n.remaining = 0 /\ n.stage = <<>> /\ n.dirs = r0.dirs
      /\ n.file = <<>> /\ n.phase = (IF r0.kind = "file" THEN "finished" ELSE "padding")
      /\ r0.kind # "file" => n.padding = Padding(r0.info.size)
  <2>1. CASE r0.kind = "file"
    BY <1>3, <1>4, <2>1 DEF Readers, Same
  <2>2. CASE r0.kind # "file"
    BY <1>3, <1>4, <2>2 DEF Readers, Same
  <2> QED BY <2>1, <2>2
<1> HIDE DEF n
<1>12. w \o <<>> = w /\ Grows(w, <<>>, w) /\ <<>> \in Seq(Units)
  BY <1>3, GrowsNone
<1>14. Runs(n, w, r0.id \in steady, media)
  <2>1. PhaseFits(n)
    BY <1>4, <1>5, <1>8 DEF PhaseFits, Same
  <2>2. ASSUME n.kind = "tar" PROVE TarFlow(n, w)
    <3>1. PICK m \in 1 .. Len(w) + 1 : TarAt(r0, w, m)
      BY <1>3, <1>8, <2>2 DEF Runs, Same, TarFlow
    <3>2. TarAt(n, w, m)
      BY <1>3, <1>4, <1>8, <2>2, <3>1, TarPads DEF Same
    <3> QED BY <3>1, <3>2 DEF TarFlow
  <2>3. ASSUME n.kind = "file" PROVE FileFlow(n, w)
    <3>1. FileFlow(r0, w)
      BY <1>3, <1>8, <2>3 DEF Runs, Same
    <3> QED BY <1>4, <1>8, <3>1 DEF FileFlow
  <2>4. ASSUME r0.id \in steady PROVE SteadyFlow(n, w, media)
    <3>1. SteadyFlow(r0, w, media)
      BY <1>3, <2>4 DEF Runs
    <3>6. Named(n, w) = Named(r0, w)
      BY <1>4, <1>8 DEF Named
    <3>7. n.kind = r0.kind /\ n.dirs = r0.dirs /\ (n.file # <<>> => n.file[2] = media[n.file[1]].ver)
      BY <1>8 DEF Same
    <3> QED BY <1>12, <3>1, <3>6, <3>7, SteadyOn, UpToDateNone
  <2> QED BY <1>3, <1>7, <2>1, <2>2, <2>3, <2>4 DEF Runs
<1>15. <<>> \o n.stage = r0.stage \o <<>>
  BY <1>4, <1>8, <1>12, Staged
<1>16. Len(<<>>) <= BlockUnits - Len(request.fill)
  BY <1>3
<1> QED BY <1>1, <1>8, <1>12, <1>14, <1>15, <1>16, GoesKeeps DEF w

\* Padding goes into the block.
LEMMA StepTakePadding == ASSUME XferInv, TakePadding PROVE XferInv'
<1> DEFINE w == Flowing(request.slot)
           k == Least(Space, r0.padding)
           n == [r0 EXCEPT !.padding = @ - k, !.phase = IF k = r0.padding THEN "walk" ELSE @]
           x == [j \in 1 .. k |-> Zero]
<1>1. Reading /\ r0.stage = <<>> /\ r0.phase = "padding" /\ Goes(n, x) /\ faults' = faults
  BY DEF TakePadding
<1>3. /\ r0 \in Readers /\ w \in Seq(Units) /\ Runs(r0, w, r0.id \in steady, media)
      /\ Space \in Nat /\ Space = BlockUnits - Len(request.fill)
  BY <1>1, ReadingRuns
<1> HIDE DEF w
<1>4. r0.kind = "tar" /\ r0.file = <<>> /\ r0.padding \in Nat /\ PhaseFits(r0)
  BY <1>1, <1>3, ReaderFields DEF Runs, PhaseFits
<1>8. k \in Nat /\ k <= Space /\ k <= r0.padding
  BY <1>3, <1>4, LeastOf
<1> HIDE DEF k
<1>9. x \in Seq(Units) /\ Len(x) = k /\ DOMAIN x = 1 .. k /\ \A j \in DOMAIN x : x[j] = Zero
  <2>1. Zero \in Units
    BY UnitKinds
  <2> QED BY <1>8, <2>1
<1>10. /\ n \in Readers /\ Same(r0, n) /\ n.info = r0.info /\ n.padding = r0.padding - k
       /\ n.phase = (IF k = r0.padding THEN "walk" ELSE "padding")
       /\ n.stage = <<>> /\ n.dirs = r0.dirs /\ n.file = <<>>
  <2>1. r0.padding - k \in Nat
    BY <1>4, <1>8
  <2>2. n \in Readers
    BY <1>3, <2>1 DEF Readers, Phases
  <2> QED BY <1>1, <1>3, <1>4, <2>2 DEF Readers, Same
<1> HIDE DEF n, x
<1>12. Grows(w, x, w \o x)
  BY <1>3, <1>9, ConcatGrows
<1>14. Runs(n, w \o x, r0.id \in steady, media)
  <2>1. PhaseFits(n)
    BY <1>4, <1>10 DEF PhaseFits, Same
  <2>2. TarFlow(n, w \o x)
    <3>1. PICK m \in 1 .. Len(w) + 1 : TarAt(r0, w, m)
      BY <1>3, <1>4 DEF Runs, TarFlow
    <3> QED BY <1>1, <1>3, <1>8, <1>9, <1>10, <1>12, <3>1, TarZeros
  <2>4. ASSUME r0.id \in steady PROVE SteadyFlow(n, w \o x, media)
    <3>1. SteadyFlow(r0, w, media)
      BY <1>3, <2>4 DEF Runs
    <3>4. UpToDate(x, media)
      BY <1>9, UnitKinds DEF UpToDate
    <3>5. Listed(x) = {}
      BY <1>9, UnitKinds, ListedNone
    <3>6. Named(n, w \o x) = Named(r0, w)
      <4>1. Listed(w \o x) = Listed(w) \cup Listed(x)
        BY <1>12, ListedGrows
      <4> QED BY <1>1, <1>10, <3>5, <4>1 DEF Named
    <3>7. n.kind = r0.kind /\ n.dirs = r0.dirs /\ (n.file # <<>> => n.file[2] = media[n.file[1]].ver)
      BY <1>10 DEF Same
    <3> QED BY <1>12, <3>1, <3>4, <3>6, <3>7, SteadyOn
  <2>5. w \o x \in Seq(Units)
    BY <1>12 DEF Grows
  <2>6. n.kind = "tar"
    BY <1>4, <1>10 DEF Same
  <2> QED BY <1>10, <2>1, <2>2, <2>4, <2>5, <2>6 DEF Runs
<1>15. x \o n.stage = r0.stage \o x
  BY <1>1, <1>9, <1>10, Staged
<1>16. Len(x) <= BlockUnits - Len(request.fill)
  BY <1>3, <1>8, <1>9
<1> QED BY <1>1, <1>9, <1>10, <1>14, <1>15, <1>16, GoesKeeps DEF w

\* A file of an archive is open: its header block is staged.
LEMMA StepOpenFile == ASSUME XferInv, open_file PROVE XferInv'
<1> DEFINE w == Flowing(request.slot)
           x == stage_tar_entry(r0.info.name, r0.info.size)
           file == <<r0.info.name, media[r0.info.name].ver>>
           n == [r0 EXCEPT !.file = file, !.phase = "data", !.remaining = r0.info.size, !.stage = x]
<1>1. Reading /\ r0.phase = "opening" /\ Goes(n, <<>>) /\ faults' = faults
  BY DEF open_file
<1>3. /\ r0 \in Readers /\ w \in Seq(Units) /\ Runs(r0, w, r0.id \in steady, media)
      /\ Space \in Nat /\ Space = BlockUnits - Len(request.fill)
  BY <1>1, ReadingRuns
<1> HIDE DEF w
<1>4. /\ r0.kind = "tar" /\ r0.file = <<>> /\ r0.stage = <<>> /\ r0.info.name \in StoredFiles
      /\ r0.info.name \in AllNames /\ r0.info.size \in Nat
  BY <1>1, <1>3, ReaderFields DEF Runs, PhaseFits
<1>6. XferTypes
  BY DEF XferInv
<1>7. media[r0.info.name].ver \in Nat
  BY <1>4, <1>6, MediaTypes
<1>9. x \in Seq(Units) /\ Len(x) = TarUnits /\ x[1] = Header(r0.info.name, r0.info.size)
      /\ \A j \in 2 .. TarUnits : x[j] = Zero
  BY <1>4, HeaderBlock
<1>a. x = stage_tar_entry(r0.info.name, r0.info.size)
  OBVIOUS
<1>b. file \in StoredFiles \X Int
  BY <1>4, <1>7
<1> HIDE DEF x, file
<1>10. /\ n \in Readers /\ Same(r0, n) /\ n.info = r0.info /\ n.remaining = r0.info.size
       /\ n.phase = "data" /\ n.stage = x /\ n.dirs = r0.dirs
       /\ n.file = <<r0.info.name, media[r0.info.name].ver>>
  <2>1. n \in Readers
    BY <1>3, <1>4, <1>9, <1>b DEF Readers, Phases
  <2>2. /\ Same(r0, n) /\ n.info = r0.info /\ n.remaining = r0.info.size
        /\ n.phase = "data" /\ n.stage = x /\ n.dirs = r0.dirs /\ n.file = file
    BY <1>3, <1>4 DEF Readers, Same
  <2> QED BY <2>1, <2>2 DEF file
<1> HIDE DEF n
<1>12. Grows(w, x, w \o x)
  BY <1>3, <1>9, ConcatGrows
<1>14. Runs(n, w \o x, r0.id \in steady, media)
  <2>1. PhaseFits(n)
    BY <1>4, <1>10 DEF PhaseFits, Same
  <2>2. TarFlow(n, w \o x)
    <3>1. TarFlow(r0, w)
      BY <1>3, <1>4 DEF Runs
    <3> QED BY <1>1, <1>3, <1>10, <1>12, <1>a, <3>1, TarOpens
  <2>4. ASSUME r0.id \in steady PROVE SteadyFlow(n, w \o x, media)
    <3>1. SteadyFlow(r0, w, media)
      BY <1>3, <2>4 DEF Runs
    <3>2. DOMAIN x = 1 .. TarUnits /\ TarUnits \in Nat \ {0} /\ Len(w) \in Nat
      BY <1>3, <1>9, LenProperties, UnitCounts
    <3>3. \A j \in DOMAIN x : x[j] = IF j = 1 THEN Header(r0.info.name, r0.info.size) ELSE Zero
      BY <1>9, <3>2
    <3>4. UpToDate(x, media)
      BY <1>4, <3>3, UnitKinds DEF UpToDate
    <3>5. Listed(x) = {r0.info.name}
      <4>1. \A j \in DOMAIN x : x[j][1] = "head" <=> j = 1
        BY <1>4, <3>3, UnitKinds
      <4>2. 1 \in DOMAIN x /\ x[1][2] = r0.info.name
        BY <1>4, <1>9, <3>2, UnitKinds
      <4> QED BY <4>1, <4>2 DEF Listed
    <3>6. Named(n, w \o x) = Named(r0, w)
      <4>1. Listed(w \o x) = Listed(w) \cup Listed(x)
        BY <1>12, ListedGrows
      <4> QED BY <1>1, <1>10, <3>5, <4>1 DEF Named
    <3>7. n.kind = r0.kind /\ n.dirs = r0.dirs /\ (n.file # <<>> => n.file[2] = media[n.file[1]].ver)
      BY <1>10 DEF Same
    <3> QED BY <1>12, <3>1, <3>4, <3>6, <3>7, SteadyOn
  <2>5. w \o x \in Seq(Units)
    BY <1>12 DEF Grows
  <2>6. n.kind = "tar"
    BY <1>4, <1>10 DEF Same
  <2> QED BY <1>10, <2>1, <2>2, <2>4, <2>5, <2>6 DEF Runs
<1>15. <<>> \o n.stage = r0.stage \o x /\ <<>> \in Seq(Units) /\ Len(<<>>) = 0
  BY <1>4, <1>9, <1>10, Staged, EmptySeq
<1>16. Len(<<>>) <= BlockUnits - Len(request.fill)
  BY <1>3
<1> QED BY <1>1, <1>9, <1>10, <1>14, <1>15, <1>16, GoesKeeps DEF w

\* The walk is over: an archive still owes its two zero blocks.
LEMMA StepWalkEnds == ASSUME XferInv, WalkEnds PROVE XferInv'
<1> DEFINE w == Flowing(request.slot)
           x == IF r0.kind = "tar" THEN ArchiveEnd ELSE <<>>
           n == [r0 EXCEPT !.phase = "finished", !.stage = x]
<1>1. /\ Reading /\ r0.stage = <<>> /\ r0.phase = "walk" /\ r0.dirs = <<>>
      /\ Goes(n, <<>>) /\ faults' = faults
  BY DEF WalkEnds, Walks
<1>3. /\ r0 \in Readers /\ w \in Seq(Units) /\ Runs(r0, w, r0.id \in steady, media)
      /\ Space \in Nat /\ Space = BlockUnits - Len(request.fill)
  BY <1>1, ReadingRuns
<1> HIDE DEF w
<1>4. r0.kind \in {"tree", "tar"} /\ r0.file = <<>>
  BY <1>1, <1>3, ReaderFields DEF Runs, PhaseFits
<1>9. x \in Seq(Units) /\ \A j \in DOMAIN x : x[j] = Zero
  <2>1. ArchiveEnd \in Seq(Units) /\ \A j \in DOMAIN ArchiveEnd : ArchiveEnd[j] = Zero
    <3>1. Zero \in Units
      BY UnitKinds
    <3>2. 2 * TarUnits \in Nat
      BY UnitCounts
    <3> QED BY <3>1, <3>2 DEF ArchiveEnd
  <2>2. <<>> \in Seq(Units) /\ \A j \in DOMAIN <<>> : <<>>[j] = Zero
    BY EmptySeq
  <2> QED BY <2>1, <2>2
<1>a. /\ r0.kind = "tar" => x = ArchiveEnd
      /\ r0.kind # "tar" => x = <<>>
  OBVIOUS
<1> HIDE DEF x
<1>10. /\ n \in Readers /\ Same(r0, n) /\ n.info = r0.info
       /\ n.phase = "finished" /\ n.stage = x /\ n.dirs = r0.dirs /\ n.file = <<>>
  <2>2. n \in Readers
    BY <1>3, <1>9 DEF Readers, Phases
  <2> QED BY <1>3, <1>4, <2>2 DEF Readers, Same
<1> HIDE DEF n
<1>12. Grows(w, x, w \o x)
  BY <1>3, <1>9, ConcatGrows
<1>14. Runs(n, w \o x, r0.id \in steady, media)
  <2>1. PhaseFits(n)
    BY <1>1, <1>4, <1>10 DEF PhaseFits, Same
  <2>2. ASSUME n.kind = "tar" PROVE TarFlow(n, w \o x)
    <3>1. TarFlow(r0, w) /\ r0.kind = "tar"
      BY <1>3, <1>10, <2>2 DEF Runs, Same
    <3> QED BY <1>1, <1>3, <1>10, <1>12, <1>a, <3>1, TarEnds
  <2>4. ASSUME r0.id \in steady PROVE SteadyFlow(n, w \o x, media)
    <3>1. SteadyFlow(r0, w, media)
      BY <1>3, <2>4 DEF Runs
    <3>4. UpToDate(x, media)
      BY <1>9, UnitKinds DEF UpToDate
    <3>5. Listed(x) = {}
      BY <1>9, UnitKinds, ListedNone
    <3>6. Named(n, w \o x) = Named(r0, w)
      <4>1. Listed(w \o x) = Listed(w) \cup Listed(x)
        BY <1>12, ListedGrows
      <4> QED BY <1>1, <1>10, <3>5, <4>1 DEF Named
    <3>7. n.kind = r0.kind /\ n.dirs = r0.dirs /\ (n.file # <<>> => n.file[2] = media[n.file[1]].ver)
      BY <1>10 DEF Same
    <3> QED BY <1>12, <3>1, <3>4, <3>6, <3>7, SteadyOn
  <2>5. w \o x \in Seq(Units)
    BY <1>12 DEF Grows
  <2>6. n.kind # "file"
    BY <1>4, <1>10 DEF Same
  <2> QED BY <1>10, <2>1, <2>2, <2>4, <2>5, <2>6 DEF Runs
<1>15. <<>> \o n.stage = r0.stage \o x /\ <<>> \in Seq(Units) /\ Len(<<>>) = 0
  BY <1>1, <1>9, <1>10, Staged, EmptySeq
<1>16. Len(<<>>) <= BlockUnits - Len(request.fill)
  BY <1>3
<1> QED BY <1>1, <1>9, <1>10, <1>14, <1>15, <1>16, GoesKeeps DEF w

\* The innermost directory of a reader, and what it holds past where it stands.
LEMMA LastDir ==
    ASSUME NEW r \in Readers, r.dirs # <<>>
    PROVE  /\ Last(r.dirs) = r.dirs[Len(r.dirs)] /\ Len(r.dirs) \in Nat \ {0} /\ DOMAIN r.dirs = 1 .. Len(r.dirs)
           /\ Last(r.dirs).dir \in DOMAIN Layout /\ Last(r.dirs).pos \in Nat
<1>1. r.dirs \in Seq([dir : DOMAIN Layout, pos : Nat])
  BY ReaderFields
<1>2. Len(r.dirs) \in Nat \ {0} /\ DOMAIN r.dirs = 1 .. Len(r.dirs)
  BY <1>1, LenProperties, EmptySeq
<1>3. r.dirs[Len(r.dirs)] \in [dir : DOMAIN Layout, pos : Nat]
  <2>1. Len(r.dirs) \in 1 .. Len(r.dirs)
    BY <1>2
  <2> QED BY <1>1, <2>1, ElementOfSeq, Zenon
<1> QED BY <1>2, <1>3 DEF Last

\* What is ahead in a directory is what is there.
LEMMA AheadOf ==
    ASSUME XferTypes, NEW dir \in DOMAIN Layout, NEW lo \in Nat, NEW top, top.dir = dir, top.pos = lo
    PROVE  Ahead(top) = {i \in lo + 1 .. Len(Layout[dir]) : Present(Layout[dir][i], media)}
  BY DEF Ahead, Filled, Present

\* The innermost directory is at its end.
LEMMA StepDirectoryEnds == ASSUME XferInv, DirectoryEnds PROVE XferInv'
<1> DEFINE w == Flowing(request.slot)
           n == [r0 EXCEPT !.dirs = Front(@)]
<1>1. /\ Reading /\ r0.stage = <<>> /\ r0.phase = "walk" /\ r0.dirs # <<>> /\ Ahead(Last(r0.dirs)) = {}
      /\ Goes(n, <<>>) /\ faults' = faults
  BY DEF DirectoryEnds, Walks
<1>3. /\ r0 \in Readers /\ w \in Seq(Units) /\ Runs(r0, w, r0.id \in steady, media)
      /\ Space \in Nat /\ Space = BlockUnits - Len(request.fill)
  BY <1>1, ReadingRuns
<1> HIDE DEF w
<1>4. r0.kind \in {"tree", "tar"} /\ r0.file = <<>>
  BY <1>1, <1>3, ReaderFields DEF Runs, PhaseFits
<1>5. Front(r0.dirs) \in Seq([dir : DOMAIN Layout, pos : Nat])
  BY <1>1, <1>3, ReaderFields, FrontDirs
<1>10. /\ n \in Readers /\ Same(r0, n) /\ n.info = r0.info /\ n.remaining = r0.remaining
       /\ n.padding = r0.padding
       /\ n.phase = "walk" /\ n.stage = <<>> /\ n.dirs = Front(r0.dirs) /\ n.file = <<>>
  <2>2. n \in Readers
    BY <1>3, <1>5 DEF Readers
  <2> QED BY <1>1, <1>3, <1>4, <2>2 DEF Readers, Same
<1> HIDE DEF n
<1>12. w \o <<>> = w /\ <<>> \in Seq(Units) /\ Len(<<>>) = 0
  BY <1>3, GrowsNone, EmptySeq
<1>14. Runs(n, w, r0.id \in steady, media)
  <2>1. PhaseFits(n)
    BY <1>4, <1>10 DEF PhaseFits, Same
  <2>2. ASSUME n.kind = "tar" PROVE TarFlow(n, w)
    <3>1. TarFlow(r0, w)
      BY <1>3, <1>10, <2>2 DEF Runs, Same
    <3> QED BY <1>1, <1>10, <3>1, TarKept
  <2>4. ASSUME r0.id \in steady PROVE SteadyFlow(n, w, media)
    <3>1. SteadyFlow(r0, w, media)
      BY <1>3, <2>4 DEF Runs
    <3>2. PICK dir \in DOMAIN Layout, lo \in Nat : Last(r0.dirs).dir = dir /\ Last(r0.dirs).pos = lo
      BY <1>1, <1>3, LastDir
    <3>3. \A i \in lo + 1 .. Len(Layout[dir]) : ~Present(Layout[dir][i], media)
      <4>1. XferTypes
        BY DEF XferInv
      <4> QED BY <1>1, <3>2, <4>1, AheadOf
    <3>4. r0.dirs[Len(r0.dirs)].dir = dir /\ r0.dirs[Len(r0.dirs)].pos = lo
      BY <1>1, <1>3, <3>2, LastDir
    <3>6. Named(n, w) = Named(r0, w)
      BY <1>1, <1>10 DEF Named
    <3>7. n.kind = r0.kind /\ r0.kind # "file" /\ n.file = <<>> /\ n.dirs = Front(r0.dirs)
      BY <1>4, <1>10 DEF Same
    <3> QED BY <1>1, <1>3, <3>1, <3>3, <3>4, <3>6, <3>7, SteadyUp
  <2>6. n.kind # "file"
    BY <1>4, <1>10 DEF Same
  <2> QED BY <1>3, <1>10, <2>1, <2>2, <2>4, <2>6 DEF Runs
<1>15. <<>> \o n.stage = r0.stage \o <<>>
  BY <1>1, <1>10, <1>12, Staged
<1>16. Len(<<>>) <= BlockUnits - Len(request.fill)
  BY <1>3
<1> QED BY <1>1, <1>10, <1>12, <1>14, <1>15, <1>16, GoesKeeps DEF w

\* The entry of a directory that is read next: the first one that is there.
LEMMA EntryAhead ==
    ASSUME XferTypes, NEW dir \in DOMAIN Layout, NEW lo \in Nat, NEW top, top.dir = dir, top.pos = lo,
           Ahead(top) # {}, NEW k, k = Min(Ahead(top))
    PROVE  /\ k \in Nat /\ k \in DOMAIN Layout[dir] /\ Layout[dir][k] \in TreeNames
           /\ Present(Layout[dir][k], media)
           /\ \A i \in lo + 1 .. k - 1 : ~Present(Layout[dir][i], media)
<1>1. Ahead(top) = {i \in lo + 1 .. Len(Layout[dir]) : Present(Layout[dir][i], media)}
  BY AheadOf
<1>2. Len(Layout[dir]) \in Nat /\ DOMAIN Layout[dir] = 1 .. Len(Layout[dir])
      /\ \A j \in DOMAIN Layout[dir] : Layout[dir][j] \in TreeNames
  BY LayoutEntry
<1>3. Ahead(top) \subseteq Nat
  BY <1>1, <1>2
<1>4. PICK y \in Ahead(top) : \A z \in Ahead(top) : y <= z
  BY <1>3, FirstExists
<1>5. k \in Ahead(top) /\ \A z \in Ahead(top) : k <= z
  BY <1>4 DEF Min
<1>6. k \in Nat /\ k \in lo + 1 .. Len(Layout[dir]) /\ k \in DOMAIN Layout[dir]
      /\ Present(Layout[dir][k], media)
  BY <1>1, <1>2, <1>3, <1>5
<1>7. ASSUME NEW i \in lo + 1 .. k - 1 PROVE ~Present(Layout[dir][i], media)
  BY <1>1, <1>2, <1>5, <1>6
<1> QED BY <1>2, <1>6, <1>7

\* What the next entry stages for each kind of stream.
LEMMA EntryStaged ==
    ASSUME NEW name \in AllNames, NEW size \in Nat, NEW md,
           NEW x, x = <<Header(name, size)>> \/ x = stage_tar_entry(name, size)
    PROVE  x \in Seq(Units) /\ Listed(x) = {name} /\ UpToDate(x, md)
<1>1. x \in Seq(Units) /\ Len(x) \in Nat \ {0} /\ DOMAIN x = 1 .. Len(x)
      /\ x[1] = Header(name, size) /\ \A j \in 2 .. Len(x) : x[j] = Zero
  <2>1. CASE x = <<Header(name, size)>>
    <3>1. Header(name, size) \in Units
      BY UnitKinds
    <3>2. \A u \in Units : /\ <<u>> \in Seq(Units) /\ Len(<<u>>) = 1 /\ DOMAIN <<u>> = 1 .. 1 /\ <<u>>[1] = u
      OBVIOUS
    <3>3. x \in Seq(Units) /\ Len(x) = 1 /\ DOMAIN x = 1 .. 1 /\ x[1] = Header(name, size)
      BY <2>1, <3>1, <3>2, Zenon
    <3> QED BY <3>3
  <2>2. CASE x = stage_tar_entry(name, size)
    <3>1. x \in Seq(Units) /\ Len(x) = TarUnits /\ x[1] = Header(name, size)
          /\ \A j \in 2 .. TarUnits : x[j] = Zero
      BY <2>2, HeaderBlock
    <3> QED BY <3>1, UnitCounts, LenProperties
  <2> QED BY <2>1, <2>2
<1>2. \A j \in DOMAIN x : x[j] = IF j = 1 THEN Header(name, size) ELSE Zero
  BY <1>1
<1>3. \A j \in DOMAIN x : (x[j][1] = "head" <=> j = 1) /\ x[j][1] # "data"
  BY <1>2, UnitKinds
<1>4. 1 \in DOMAIN x /\ x[1][2] = name
  BY <1>1, UnitKinds
<1> QED BY <1>1, <1>3, <1>4 DEF Listed, UpToDate

\* The innermost directory names its next entry.
LEMMA StepNextEntry == ASSUME XferInv, next_entry PROVE XferInv'
<1> DEFINE w == Flowing(request.slot)
           L == Len(r0.dirs)
           top == Last(r0.dirs)
           k == Min(Ahead(top))
           name == Layout[top.dir][k]
           D == [r0.dirs EXCEPT ![L].pos = k]
           on == [r0 EXCEPT !.dirs[L].pos = k]
           nf == [on EXCEPT !.info = [name |-> name, size |-> media[name].size],
                            !.phase = IF r0.kind = "tar" THEN "opening" ELSE "walk",
                            !.stage = IF r0.kind = "tar" THEN <<>> ELSE <<Header(name, media[name].size)>>]
           nd == [on EXCEPT !.dirs = Append(@, [dir |-> name, pos |-> 0]),
                            !.stage = IF r0.kind = "tar" THEN stage_tar_entry(name, 0)
                                      ELSE <<Header(name, 0)>>]
           n == IF name \in StoredFiles THEN nf ELSE nd
<1>1. /\ Reading /\ r0.stage = <<>> /\ r0.phase = "walk" /\ r0.dirs # <<>> /\ Ahead(top) # {}
      /\ Goes(n, <<>>) /\ faults' = faults
  BY DEF next_entry, Walks
<1>3. /\ r0 \in Readers /\ w \in Seq(Units) /\ Runs(r0, w, r0.id \in steady, media)
      /\ Space \in Nat /\ Space = BlockUnits - Len(request.fill)
  BY <1>1, ReadingRuns
<1> HIDE DEF w
<1>4. r0.kind \in {"tree", "tar"} /\ r0.file = <<>>
  BY <1>1, <1>3, ReaderFields DEF Runs, PhaseFits
<1>5. /\ top = r0.dirs[L] /\ L \in Nat \ {0} /\ DOMAIN r0.dirs = 1 .. L
      /\ top.dir \in DOMAIN Layout /\ top.pos \in Nat
  BY <1>1, <1>3, LastDir
<1>6. XferTypes
  BY DEF XferInv
<1>7. /\ k \in Nat /\ k \in DOMAIN Layout[top.dir] /\ name \in TreeNames /\ Present(name, media)
      /\ \A i \in top.pos + 1 .. k - 1 : ~Present(Layout[top.dir][i], media)
  BY <1>1, <1>5, <1>6, EntryAhead
<1>8. /\ name \in AllNames /\ (name \notin StoredFiles => name \in DOMAIN Layout)
      /\ name \in StoredFiles => name \notin DOMAIN Layout /\ media[name].size \in Nat
  <2>1. name \in AllNames /\ (name \notin StoredFiles => name \in DOMAIN Layout)
    BY <1>7 DEF AllNames, TreeNames
  <2>2. name \in StoredFiles => name \notin DOMAIN Layout
    BY FileTransferBounds
  <2>3. name \in StoredFiles => media[name].size \in Nat
    BY <1>6, MediaTypes
  <2> QED BY <2>1, <2>2, <2>3
<1>d. DEFINE Dirs == [dir : DOMAIN Layout, pos : Nat]
<1>9. /\ D \in Seq(Dirs) /\ Len(D) = L /\ DOMAIN D = 1 .. L
      /\ \A l \in 1 .. L - 1 : D[l] = r0.dirs[l]
      /\ D[L].dir = top.dir /\ D[L].pos = k
  <2>1. r0.dirs \in Seq(Dirs)
    BY <1>3, ReaderFields
  <2>2. r0.dirs[L] \in Dirs
    <3>1. L \in 1 .. L
      BY <1>5
    <3> QED BY <2>1, <3>1, ElementOfSeq, Zenon
  <2>3. [r0.dirs[L] EXCEPT !.pos = k] \in Dirs
    BY <1>7, <2>2
  <2>4. [r0.dirs[L] EXCEPT !.pos = k].dir = top.dir /\ [r0.dirs[L] EXCEPT !.pos = k].pos = k
    BY <1>5, <2>2
  <2>5. PICK e : e = [r0.dirs[L] EXCEPT !.pos = k]
    OBVIOUS
  <2>6. D = [r0.dirs EXCEPT ![L] = e]
    BY <2>5
  <2> HIDE DEF L, k, top, Dirs
  <2>7. e \in Dirs /\ e.dir = top.dir /\ e.pos = k
    BY <2>3, <2>4, <2>5
  <2>8. L \in 1 .. Len(r0.dirs)
    BY <1>5 DEF L
  <2>9. D \in Seq(Dirs) /\ Len(D) = Len(r0.dirs)
    BY <2>1, <2>6, <2>7, <2>8, ExceptSeq
  <2>10. DOMAIN D = 1 .. L /\ D[L] = e /\ \A l \in 1 .. L - 1 : D[l] = r0.dirs[l]
    BY <1>5, <2>6
  <2> QED BY <2>7, <2>9, <2>10 DEF L
<1>10. on = [r0 EXCEPT !.dirs = D]
  OBVIOUS
<1> DEFINE size == IF name \in StoredFiles THEN media[name].size ELSE 0
           x == IF name \in StoredFiles /\ r0.kind = "tar" THEN <<>>
                ELSE IF r0.kind = "tar" THEN stage_tar_entry(name, size) ELSE <<Header(name, size)>>
           m == Append(D, [dir |-> name, pos |-> 0])
<1>a. x \in Seq(Units) /\ UpToDate(x, media)
      /\ Listed(x) = IF name \in StoredFiles /\ r0.kind = "tar" THEN {} ELSE {name}
  <2>1. size \in Nat
    BY <1>8
  <2>2. CASE name \in StoredFiles /\ r0.kind = "tar"
    <3>1. <<>> \in Seq(Units) /\ UpToDate(<<>>, media) /\ Listed(<<>>) = {}
      BY EmptySeq, UpToDateNone DEF Listed
    <3> QED BY <2>2, <3>1
  <2>3. CASE ~(name \in StoredFiles /\ r0.kind = "tar")
    <3> HIDE DEF size, name
    <3>1. x = <<Header(name, size)>> \/ x = stage_tar_entry(name, size)
      BY <2>3
    <3>2. name \in AllNames
      BY <1>8
    <3> HIDE DEF x
    <3>3. x \in Seq(Units) /\ Listed(x) = {name} /\ UpToDate(x, media)
      BY <2>1, <3>1, <3>2, EntryStaged
    <3> QED BY <2>3, <3>3
  <2> QED BY <2>2, <2>3
<1>b. ASSUME name \notin StoredFiles
      PROVE  /\ m \in Seq(Dirs) /\ Len(m) = L + 1 /\ DOMAIN m = 1 .. L + 1
             /\ \A l \in 1 .. L : m[l] = D[l]
             /\ m[L + 1].dir = name /\ m[L + 1].pos = 0
  <2>1. [dir |-> name, pos |-> 0] \in Dirs
    BY <1>8, <1>b
  <2>2. PICK e : e = [dir |-> name, pos |-> 0]
    OBVIOUS
  <2>3. e.dir = name /\ e.pos = 0 /\ e \in Dirs /\ m = Append(D, e)
    BY <2>1, <2>2
  <2> HIDE DEF D, L, name, m, Dirs
  <2>4. /\ m \in Seq(Dirs) /\ Len(m) = Len(D) + 1
        /\ \A i \in 1 .. Len(D) : m[i] = D[i]
        /\ m[Len(D) + 1] = e
    BY <1>9, <2>3, AppendProperties
  <2>5. DOMAIN m = 1 .. Len(m)
    BY <2>4, LenProperties
  <2> QED BY <1>9, <2>3, <2>4, <2>5
<1> HIDE DEF m, x, D, on, name, k, L, top
<1>11. /\ n \in Readers /\ Same(r0, n) /\ n.file = <<>> /\ n.stage = x
       /\ n.phase = (IF name \in StoredFiles /\ r0.kind = "tar" THEN "opening" ELSE "walk")
       /\ name \in StoredFiles => n.info = [name |-> name, size |-> media[name].size]
       /\ n.dirs = IF name \in StoredFiles THEN D ELSE m
  <2>1. CASE name \in StoredFiles
    <3>1. PICK i : i = [name |-> name, size |-> media[name].size]
      OBVIOUS
    <3>2. i \in [name : AllNames, size : Nat]
      BY <1>8, <2>1, <3>1
    <3>3. x = IF r0.kind = "tar" THEN <<>> ELSE <<Header(name, media[name].size)>>
      BY <2>1 DEF x
    <3>4. PICK p : p = IF r0.kind = "tar" THEN "opening" ELSE "walk"
      OBVIOUS
    <3>5. p \in Phases
      BY <3>4 DEF Phases
    <3>6. n = [r0 EXCEPT !.dirs = D, !.info = i, !.phase = p, !.stage = x]
      BY <1>3, <1>10, <2>1, <3>1, <3>3, <3>4 DEF Readers
    <3> HIDE DEF n
    <3>7. n \in Readers
      BY <1>3, <1>9, <1>a, <3>2, <3>5, <3>6 DEF Readers
    <3>8. Same(r0, n) /\ n.file = <<>> /\ n.stage = x /\ n.phase = p /\ n.info = i /\ n.dirs = D
      BY <1>3, <1>4, <3>6 DEF Readers, Same
    <3> QED BY <2>1, <3>1, <3>4, <3>7, <3>8
  <2>2. CASE name \notin StoredFiles
    <3>3. x = IF r0.kind = "tar" THEN stage_tar_entry(name, 0) ELSE <<Header(name, 0)>>
      BY <2>2 DEF x
    <3>6. n = [r0 EXCEPT !.dirs = m, !.stage = x]
      BY <1>3, <1>10, <2>2, <3>3 DEF Readers, m
    <3> HIDE DEF n
    <3>7. n \in Readers
      BY <1>3, <1>a, <1>b, <2>2, <3>6 DEF Readers
    <3>8. Same(r0, n) /\ n.file = <<>> /\ n.stage = x /\ n.phase = "walk" /\ n.dirs = m
      BY <1>1, <1>3, <1>4, <3>6 DEF Readers, Same
    <3> QED BY <2>2, <3>7, <3>8
  <2> QED BY <2>1, <2>2
<1> HIDE DEF n
<1>12. Grows(w, x, w \o x)
  BY <1>3, <1>a, ConcatGrows
<1>14. Runs(n, w \o x, r0.id \in steady, media)
  <2>1. PhaseFits(n)
    <3>1. n.phase = "opening" => n.stage = <<>> /\ n.kind = "tar" /\ n.info.name \in StoredFiles
      BY <1>11 DEF x, Same
    <3> QED BY <1>4, <1>11, <3>1 DEF PhaseFits, Same
  <2>2. ASSUME n.kind = "tar" PROVE TarFlow(n, w \o x)
    <3>1. TarFlow(r0, w) /\ r0.kind = "tar"
      BY <1>3, <1>11, <2>2 DEF Runs, Same
    <3>2. CASE name \in StoredFiles
      <4>1. x = <<>> /\ w \o <<>> = w
        BY <1>3, <3>1, <3>2, GrowsNone DEF x
      <4> QED BY <1>1, <1>11, <3>1, <3>2, <4>1, TarWalks
    <3>3. CASE name \notin StoredFiles
      <4>1. x = stage_tar_entry(name, 0) /\ n.phase = "walk"
        BY <1>11, <3>1, <3>3 DEF x
      <4> QED BY <1>1, <1>3, <1>8, <1>12, <3>1, <4>1, TarDirectory
    <3> QED BY <3>2, <3>3
  <2>4. ASSUME r0.id \in steady PROVE SteadyFlow(n, w \o x, media)
    <3>1. SteadyFlow(r0, w, media)
      BY <1>3, <2>4 DEF Runs
    <3>2. Named(n, w \o x) = Named(r0, w) \cup {name}
      <4>1. Listed(w \o x) = Listed(w) \cup Listed(x)
        BY <1>12, ListedGrows
      <4>2. Named(r0, w) = Listed(w)
        BY <1>1 DEF Named
      <4>3. n.phase = "opening" => n.info.name = name
        BY <1>11
      <4> QED BY <1>11, <1>a, <4>1, <4>2, <4>3 DEF Named
    <3>3. n.kind = r0.kind /\ r0.kind # "file"
      BY <1>4, <1>11 DEF Same
    <3>4. /\ Len(n.dirs) \in Nat /\ DOMAIN n.dirs = 1 .. Len(n.dirs) /\ Len(n.dirs) >= L
          /\ \A l \in 1 .. L - 1 : n.dirs[l] = r0.dirs[l]
          /\ n.dirs[L].dir = top.dir /\ n.dirs[L].pos = k
      BY <1>5, <1>9, <1>11, <1>b
    <3>5. name \in DOMAIN Layout => /\ Len(n.dirs) = L + 1
                                    /\ n.dirs[Len(n.dirs)].dir = name /\ n.dirs[Len(n.dirs)].pos = 0
      <4>1. name \in DOMAIN Layout => name \notin StoredFiles
        BY <1>8
      <4> QED BY <1>11, <1>b, <4>1
    <3>6. name = Layout[top.dir][k] /\ L = Len(r0.dirs)
      BY DEF name, L
    <3>7. PICK dir \in DOMAIN Layout, lo \in Nat : dir = top.dir /\ lo = top.pos
      BY <1>5
    <3>8. r0.dirs[Len(r0.dirs)].dir = dir /\ r0.dirs[Len(r0.dirs)].pos = lo
      BY <1>5, <3>6, <3>7
    <3>9. /\ k \in Nat /\ k \in DOMAIN Layout[dir] /\ name = Layout[dir][k] /\ Present(name, media)
          /\ \A i \in lo + 1 .. k - 1 : ~Present(Layout[dir][i], media)
      BY <1>7, <3>6, <3>7
    <3>10. /\ Len(n.dirs) \in Nat /\ DOMAIN n.dirs = 1 .. Len(n.dirs) /\ Len(n.dirs) >= Len(r0.dirs)
           /\ \A l \in 1 .. Len(r0.dirs) - 1 : n.dirs[l] = r0.dirs[l]
           /\ n.dirs[Len(r0.dirs)].dir = dir /\ n.dirs[Len(r0.dirs)].pos = k
      BY <3>4, <3>6, <3>7
    <3>11. name \in DOMAIN Layout => /\ Len(n.dirs) = Len(r0.dirs) + 1
                                     /\ n.dirs[Len(n.dirs)].dir = name /\ n.dirs[Len(n.dirs)].pos = 0
      BY <3>5, <3>6
    <3>12. UpToDate(x, media) /\ n.file = <<>> /\ r0.dirs # <<>> /\ r0 \in Readers
      BY <1>1, <1>3, <1>11, <1>a
    <3> QED BY <1>12, <3>1, <3>2, <3>3, <3>8, <3>9, <3>10, <3>11, <3>12, SteadyNext
  <2>5. w \o x \in Seq(Units)
    BY <1>12 DEF Grows
  <2>6. n.kind # "file"
    BY <1>4, <1>11 DEF Same
  <2> QED BY <1>11, <2>1, <2>2, <2>4, <2>5, <2>6 DEF Runs
<1>15. <<>> \o n.stage = r0.stage \o x /\ <<>> \in Seq(Units) /\ Len(<<>>) = 0
  BY <1>1, <1>11, <1>a, Staged, EmptySeq
<1>16. Len(<<>>) <= BlockUnits - Len(request.fill)
  BY <1>3
<1> QED BY <1>1, <1>11, <1>14, <1>15, <1>16, <1>a, GoesKeeps DEF w

\* The handles and the streams stay as they are.
LEMMA RequestOnly ==
    ASSUME XferInv, media' = media, heap' = heap, handles' = handles, next_handle' = next_handle,
           replies' = replies, opens' = opens, steady' = steady, honest' = TRUE,
           rewrites' \in Nat, faults' \in Nat,
           request' \in {Quiet} \cup OpenRequests \cup ReadRequests, RequestFits',
           \A i \in Handles : Filling(request', i) = Filling(request, i)
    PROVE  XferInv'
<1>1. XferTypes'
  BY DEF XferInv, XferTypes
<1>2. NoLeak' /\ OneHandle'
  <2>1. NoLeak /\ OneHandle
    BY DEF XferInv
  <2>2. \A i \in Handles : Live(i)' <=> Live(i)
    BY DEF Live
  <2>3. UNION {OpenObjects(handles'[i]) : i \in {j \in Handles : handles'[j] # NoHandle}}
           = UNION {OpenObjects(handles[i]) : i \in {j \in Handles : handles[j] # NoHandle}}
    OBVIOUS
  <2>4. NoLeak'
    BY <2>1, <2>3, Zenon DEF NoLeak, Live
  <2>5. OneHandle'
    BY <2>1, <2>2 DEF OneHandle
  <2> QED BY <2>4, <2>5
<1>3. ASSUME NEW i \in Handles, Live(i)' PROVE HandleFits(i)'
  <2>1. Live(i) /\ handles'[i] = handles[i]
    BY <1>3 DEF Live
  <2>2. next_handle \in Nat
    BY DEF XferInv, XferTypes
  <2>3. /\ replies'[handles[i].id] = replies[handles[i].id] /\ opens'[handles[i].id] = opens[handles[i].id]
        /\ handles[i].id \in steady' <=> handles[i].id \in steady
    OBVIOUS
  <2>4. next_handle <= next_handle' /\ next_handle' \in Nat
    BY <2>2
  <2> QED BY <2>1, <2>3, <2>4, HandleKept
<1>4. \A h \in DOMAIN replies' : StreamFits(replies'[h], opens'[h], h \in steady', media')
  BY StreamsKept
<1> QED BY <1>1, <1>2, <1>3, <1>4 DEF XferInv

\* What the invariant says of the counters.
LEMMA CountsOf == XferInv => rewrites \in Nat /\ faults \in Nat /\ honest = TRUE
  BY DEF XferInv, XferTypes

\* No block is filled but by a READ.
LEMMA FillingNone == \A q, i : q.op # "read" => Filling(q, i) = <<>>
  BY DEF Filling

\* A step that changes nothing.
LEMMA StepSame == ASSUME XferInv, UNCHANGED xfervars PROVE XferInv'
<1>1. /\ media' = media /\ heap' = heap /\ handles' = handles /\ next_handle' = next_handle
      /\ request' = request /\ replies' = replies /\ opens' = opens /\ steady' = steady
      /\ honest' = honest /\ rewrites' = rewrites /\ faults' = faults
  BY DEF xfervars
<1>2. request \in {Quiet} \cup OpenRequests \cup ReadRequests /\ RequestFits
  BY DEF XferInv, XferTypes
<1>3. RequestFits'
  BY <1>1, <1>2 DEF RequestFits, Live
<1>4. honest' = TRUE /\ rewrites' \in Nat /\ faults' \in Nat
  BY <1>1, CountsOf
<1>5. \A i \in Handles : Filling(request', i) = Filling(request, i)
  BY <1>1
<1> QED BY <1>1, <1>2, <1>3, <1>4, <1>5, RequestOnly

\* A block given again is the block that was given.
LEMMA StepReadAgain ==
    ASSUME XferInv, NEW i \in Handles, NEW block \in Nat, ReadAgain(i, block) PROVE XferInv'
<1>1. /\ Live(i) /\ handles[i].has /\ block = handles[i].last /\ request = Quiet
      /\ Replied(handles[i].id, block, handles[i].cached, handles[i].eof)
      /\ media' = media /\ heap' = heap /\ handles' = handles /\ next_handle' = next_handle
      /\ request' = request /\ opens' = opens /\ steady' = steady
      /\ rewrites' = rewrites /\ faults' = faults
  BY DEF ReadAgain, AsksAgain
<1>2. /\ handles[i] \in Readers /\ HandleFits(i) /\ replies[handles[i].id] \in Seq(Replies)
      /\ handles[i].last \in Nat
  BY <1>1, HandleFacts, ReaderFields
<1>3. /\ Len(replies[handles[i].id]) = handles[i].last + 1
      /\ replies[handles[i].id][handles[i].last + 1] = <<handles[i].cached, handles[i].eof>>
  BY <1>1, <1>2 DEF HandleFits, Remembers
<1>4. block < Len(replies[handles[i].id])
  BY <1>1, <1>2, <1>3
<1>5. replies' = replies /\ honest' = TRUE
  BY <1>1, <1>3, <1>4, CountsOf DEF Replied
<1>6. request \in {Quiet} \cup OpenRequests \cup ReadRequests /\ RequestFits
  BY DEF XferInv, XferTypes
<1>7. RequestFits'
  BY <1>1, <1>5, <1>6 DEF RequestFits, Live
<1>8. rewrites' \in Nat /\ faults' \in Nat /\ \A j \in Handles : Filling(request', j) = Filling(request, j)
  BY <1>1, CountsOf
<1> QED BY <1>1, <1>5, <1>6, <1>7, <1>8, RequestOnly

\* The block asked for is the next one.
LEMMA StepReadStarts ==
    ASSUME XferInv, NEW i \in Handles, NEW block \in Nat, ReadStarts(i, block) PROVE XferInv'
<1>1. /\ request = Quiet /\ Live(i) /\ ~handles[i].term /\ AsksNext(handles[i], block)
      /\ request' = [op |-> "read", slot |-> i, block |-> block, fill |-> <<>>]
      /\ media' = media /\ heap' = heap /\ handles' = handles /\ next_handle' = next_handle
      /\ replies' = replies /\ opens' = opens /\ steady' = steady /\ honest' = honest
      /\ rewrites' = rewrites /\ faults' = faults
  BY DEF ReadStarts
<1>2. /\ handles[i] \in Readers /\ HandleFits(i) /\ handles[i].last \in Nat
  BY <1>1, HandleFacts, ReaderFields
<1>3. block = Len(replies[handles[i].id])
  <2>1. CASE handles[i].has
    BY <1>1, <1>2, <2>1 DEF AsksNext, HandleFits, Remembers
  <2>2. CASE ~handles[i].has
    BY <1>1, <1>2, <2>2 DEF AsksNext, HandleFits, Remembers
  <2> QED BY <2>1, <2>2
<1>4. <<>> \in Seq(Units) /\ Len(<<>>) = 0 /\ BlockUnits \in Nat
  BY EmptySeq, UnitCounts
<1>5. request' \in ReadRequests /\ request'.op = "read" /\ request'.slot = i /\ request'.block = block
      /\ request'.fill = <<>>
  BY <1>1, <1>4 DEF ReadRequests
<1>6. RequestFits'
  <2>1. Live(i)'
    BY <1>1 DEF Live
  <2>2. ~handles'[request'.slot].term /\ request'.block = Len(replies'[handles'[request'.slot].id])
        /\ Len(request'.fill) <= BlockUnits
    BY <1>1, <1>3, <1>4, <1>5
  <2> QED BY <1>5, <2>1, <2>2 DEF RequestFits, Live
<1>7. \A j \in Handles : Filling(request', j) = Filling(request, j)
  BY <1>1, <1>5 DEF Filling, Quiet
<1>8. rewrites' \in Nat /\ faults' \in Nat /\ honest' = TRUE
  BY <1>1, CountsOf
<1> QED BY <1>1, <1>5, <1>6, <1>7, <1>8, RequestOnly

\* The first half of an open: stat.
LEMMA StepOpenStats ==
    ASSUME XferInv, NEW oid \in OpenIds, NEW kind \in Kinds, NEW name \in StoredFiles \cup {TopDir},
           (kind = "file") = (name \in StoredFiles), OpenStats(oid, kind, name)
    PROVE  XferInv'
<1>1. /\ request = Quiet /\ FreeSlots # {}
      /\ request' = [op |-> "open", slot |-> Min(FreeSlots), oid |-> oid, kind |-> kind, name |-> name,
                     size |-> IF kind = "file" THEN media[name].size ELSE 0]
      /\ media' = media /\ heap' = heap /\ handles' = handles /\ next_handle' = next_handle
      /\ replies' = replies /\ opens' = opens /\ steady' = steady /\ honest' = honest
      /\ rewrites' = rewrites /\ faults' = faults
  BY DEF OpenStats
<1>2. Min(FreeSlots) \in FreeSlots
  <2>1. FreeSlots \subseteq Nat
    BY FileTransferBounds DEF FreeSlots
  <2>2. PICK y \in FreeSlots : \A z \in FreeSlots : y <= z
    BY <1>1, <2>1, FirstExists
  <2> QED BY <2>2 DEF Min
<1>3. Min(FreeSlots) \in Handles /\ ~Live(Min(FreeSlots))
  BY <1>2 DEF FreeSlots
<1>4. PICK size : size = IF kind = "file" THEN media[name].size ELSE 0
  OBVIOUS
<1>5. size \in Nat
  <2>1. XferTypes
    BY DEF XferInv
  <2> QED BY <1>4, <2>1, MediaTypes
<1>6. kind \in {"file", "tree", "tar"} /\ name \in AllNames
  BY FileTransferBounds DEF AllNames
<1>7. PICK s \in Handles : s = Min(FreeSlots) /\ ~Live(s)
  BY <1>3
<1>8. request' = [op |-> "open", slot |-> s, oid |-> oid, kind |-> kind, name |-> name, size |-> size]
  BY <1>1, <1>4, <1>7
<1>9. request' \in OpenRequests /\ request'.op = "open" /\ request'.slot = s
      /\ request'.kind = kind /\ request'.name = name
  BY <1>5, <1>6, <1>8 DEF OpenRequests
<1>10. RequestFits'
  BY <1>1, <1>7, <1>9 DEF RequestFits, Live
<1>11. \A j \in Handles : Filling(request', j) = Filling(request, j)
  BY <1>1, <1>9 DEF Filling, Quiet
<1>12. rewrites' \in Nat /\ faults' \in Nat /\ honest' = TRUE
  BY <1>1, CountsOf
<1> QED BY <1>1, <1>9, <1>10, <1>11, <1>12, RequestOnly

\* An open that fails leaves nothing behind.
LEMMA StepOpenFails == ASSUME XferInv, OpenFails PROVE XferInv'
<1>1. /\ request.op = "open" /\ request' = Quiet /\ (faults' = faults \/ faults' = faults + 1)
      /\ media' = media /\ heap' = heap /\ handles' = handles /\ next_handle' = next_handle
      /\ replies' = replies /\ opens' = opens /\ steady' = steady /\ honest' = honest
      /\ rewrites' = rewrites
  BY DEF OpenFails
<1>2. RequestFits'
  BY <1>1 DEF RequestFits, Quiet
<1>3. \A j \in Handles : Filling(request', j) = Filling(request, j)
  BY <1>1 DEF Filling, Quiet
<1>4. rewrites' \in Nat /\ faults' \in Nat /\ honest' = TRUE
  BY <1>1, CountsOf
<1> QED BY <1>1, <1>2, <1>3, <1>4, RequestOnly

\* A handle is given up, or keeps only its error: its objects are freed.
LEMMA Released ==
    ASSUME XferInv, NEW s \in Handles, Live(s), NEW n,
           n = NoHandle \/ (/\ n \in Readers /\ n.term /\ n.id = handles[s].id /\ OpenObjects(n) = {}
                            /\ n.kind = handles[s].kind /\ n.info = handles[s].info /\ n.has = handles[s].has
                            /\ n.last = handles[s].last /\ n.cached = handles[s].cached
                            /\ n.eof = handles[s].eof),
           handles' \in [Handles -> {NoHandle} \cup Readers],
           \A i \in Handles : handles'[i] = IF i = s THEN n ELSE handles[i],
           heap' = heap \ OpenObjects(handles[s]), request' = Quiet,
           request = Quiet \/ (request.op = "read" /\ request.slot = s),
           media' = media, next_handle' = next_handle, replies' = replies, opens' = opens,
           steady' = steady, honest' = honest, rewrites' = rewrites, faults' \in Nat
    PROVE  XferInv'
<1>1. XferTypes'
  BY DEF XferInv, XferTypes
<1>2. n # NoHandle => n \in Readers /\ n.id = handles[s].id
  OBVIOUS
<1>3. NoLeak'
  <2>1. NoLeak /\ OneHandle /\ XferTypes
    BY DEF XferInv
  <2>2. PICK held : held = IF n = NoHandle THEN {} ELSE OpenObjects(n)
    OBVIOUS
  <2>3. held = {}
    BY <2>2
  <2>4. heap' = (heap \ OpenObjects(handles[s])) \cup held
    BY <2>3
  <2>5. n = NoHandle \/ n.id = handles[s].id
    OBVIOUS
  <2> QED BY <2>1, <2>2, <2>4, <2>5, HeapFollows
<1>4. OneHandle'
  <2>1. \A i \in Handles : Live(i)' => Live(i) /\ handles'[i].id = handles[i].id
    BY <1>2 DEF Live
  <2>2. OneHandle
    BY DEF XferInv
  <2> QED BY <2>1, <2>2 DEF OneHandle
<1>5. RequestFits'
  BY DEF RequestFits, Quiet
<1>6. ASSUME NEW i \in Handles, Live(i)' PROVE HandleFits(i)'
  <2>0. next_handle \in Nat
    BY DEF XferInv, XferTypes
  <2>1. CASE i # s
    <3>1. handles'[i] = handles[i] /\ Live(i)
      BY <1>6, <2>1 DEF Live
    <3>2. Filling(request', i) = Filling(request, i)
      BY <2>1 DEF Filling, Quiet
    <3>3. /\ replies'[handles[i].id] = replies[handles[i].id] /\ opens'[handles[i].id] = opens[handles[i].id]
          /\ handles[i].id \in steady' <=> handles[i].id \in steady
      OBVIOUS
    <3>4. next_handle <= next_handle' /\ next_handle' \in Nat /\ media' = media
      BY <2>0
    <3> QED BY <3>1, <3>2, <3>3, <3>4, HandleKept
  <2>2. CASE i = s
    <3>1. /\ handles'[i] = n /\ n \in Readers /\ n.term /\ n.id = handles[s].id
          /\ n.kind = handles[s].kind /\ n.info = handles[s].info /\ n.has = handles[s].has
          /\ n.last = handles[s].last /\ n.cached = handles[s].cached /\ n.eof = handles[s].eof
      BY <1>6, <2>2 DEF Live
    <3>2. handles[s].id < next_handle /\ Remembers(handles[s], replies[handles[s].id], opens[handles[s].id])
      BY HandleFacts DEF HandleFits
    <3>3. Remembers(n, replies[handles[s].id], opens[handles[s].id])
      BY <3>1, <3>2 DEF Remembers
    <3> QED BY <3>1, <3>2, <3>3 DEF HandleFits
  <2> QED BY <2>1, <2>2
<1>7. \A h \in DOMAIN replies' : StreamFits(replies'[h], opens'[h], h \in steady', media')
  BY StreamsKept
<1> QED BY <1>1, <1>3, <1>4, <1>5, <1>6, <1>7 DEF XferInv

\* close_handle frees what the reader had open.
LEMMA StepCloseHandle == ASSUME XferInv, NEW s \in Handles, close_handle(s) PROVE XferInv'
<1>1. /\ request = Quiet /\ Live(s) /\ heap' = heap \ Freed(handles[s])
      /\ handles' = [handles EXCEPT ![s] = NoHandle] /\ request' = Quiet
      /\ media' = media /\ next_handle' = next_handle /\ replies' = replies /\ opens' = opens
      /\ steady' = steady /\ honest' = honest /\ rewrites' = rewrites /\ faults' = faults
  BY DEF close_handle
<1>2. handles \in [Handles -> {NoHandle} \cup Readers]
  BY DEF XferInv, XferTypes
<1>3. /\ handles' \in [Handles -> {NoHandle} \cup Readers]
      /\ \A i \in Handles : handles'[i] = IF i = s THEN NoHandle ELSE handles[i]
  BY <1>1, <1>2
<1>4. heap' = heap \ OpenObjects(handles[s])
  BY <1>1, HandleFacts, ClosedEmpty
<1>5. faults' \in Nat
  BY <1>1, CountsOf
<1> QED BY <1>1, <1>3, <1>4, <1>5, Released

\* A failed call closes the reader: its error stays with the handle.
LEMMA StepReadFails == ASSUME XferInv, ReadFails PROVE XferInv'
<1> DEFINE n == [bvstk_fs_reader_close(r0) EXCEPT !.term = TRUE, !.stage = <<>>]
<1>1. /\ Reading /\ heap' = heap \ Freed(r0)
      /\ handles' = [handles EXCEPT ![request.slot] = n] /\ request' = Quiet
      /\ media' = media /\ next_handle' = next_handle /\ replies' = replies /\ opens' = opens
      /\ steady' = steady /\ honest' = honest /\ rewrites' = rewrites
      /\ (faults' = faults \/ faults' = faults + 1)
  BY DEF ReadFails
<1>2. /\ request.op = "read" /\ request.slot \in Handles /\ Live(request.slot)
  BY <1>1, RequestFacts DEF Reading
<1>3. PICK s \in Handles : s = request.slot /\ Live(s)
  BY <1>2
<1>4. r0 = handles[s] /\ r0 \in Readers
  BY <1>1, <1>3, ReadingRuns
<1>5. <<>> \in Seq(Units) /\ <<>> \in Seq([dir : DOMAIN Layout, pos : Nat])
  BY EmptySeq
<1>6. n = [r0 EXCEPT !.file = <<>>, !.dirs = <<>>, !.phase = "finished", !.term = TRUE, !.stage = <<>>]
  BY <1>4 DEF bvstk_fs_reader_close, Readers
<1> HIDE DEF n
<1>7. n \in Readers
  BY <1>4, <1>5, <1>6 DEF Readers, Phases
<1>8. /\ n.term /\ n.id = handles[s].id /\ n.file = <<>> /\ n.dirs = <<>>
      /\ n.kind = handles[s].kind /\ n.info = handles[s].info /\ n.has = handles[s].has
      /\ n.last = handles[s].last /\ n.cached = handles[s].cached /\ n.eof = handles[s].eof
  BY <1>4, <1>6 DEF Readers
<1>9. OpenObjects(n) = {}
  <2>1. DOMAIN n.dirs = {}
    BY <1>8
  <2> QED BY <1>8, <2>1 DEF OpenObjects
<1>10. heap' = heap \ OpenObjects(handles[s])
  BY <1>1, <1>4, ClosedEmpty
<1>11. handles \in [Handles -> {NoHandle} \cup Readers]
  BY DEF XferInv, XferTypes
<1>12. /\ handles' \in [Handles -> {NoHandle} \cup Readers]
       /\ \A i \in Handles : handles'[i] = IF i = s THEN n ELSE handles[i]
  BY <1>1, <1>3, <1>7, <1>11
<1>13. faults' \in Nat
  BY <1>1, CountsOf
<1>14. request.op = "read" /\ request.slot = s
  BY <1>2, <1>3
<1> QED BY <1>1, <1>3, <1>7, <1>8, <1>9, <1>10, <1>12, <1>13, <1>14, Released

\* The end of the connection.
LEMMA StepDestroy == ASSUME XferInv, bvstk_dcp2_fs_destroy PROVE XferInv'
<1>1. /\ request = Quiet /\ heap' = heap \ UNION {Freed(handles[i]) : i \in {j \in Handles : Live(j)}}
      /\ handles' = [i \in Handles |-> NoHandle] /\ next_handle' = 1
      /\ replies' = <<>> /\ opens' = <<>> /\ steady' = {}
      /\ media' = media /\ request' = Quiet /\ honest' = honest /\ rewrites' = rewrites /\ faults' = faults
  BY DEF bvstk_dcp2_fs_destroy
<1>2. \A i \in Handles : ~Live(i)'
  BY <1>1 DEF Live
<1>3. heap' = {}
  <2>1. NoLeak
    BY DEF XferInv
  <2>2. \A i \in Handles : Live(i) => Freed(handles[i]) = OpenObjects(handles[i])
    BY HandleFacts, ClosedEmpty
  <2> QED BY <1>1, <2>1, <2>2 DEF NoLeak
<1>4. NoLeak'
  BY <1>2, <1>3 DEF NoLeak
<1>5. XferTypes'
  <2>1. /\ <<>> \in Seq(Seq(Replies)) /\ Len(<<>>) = 1 - 1 /\ <<>> \in Seq(Openings)
    BY EmptySeq
  <2>2. XferTypes
    BY DEF XferInv
  <2> QED BY <1>1, <2>1, <2>2 DEF XferTypes
<1>6. RequestFits'
  BY <1>1 DEF RequestFits, Quiet
<1>7. honest' = TRUE
  BY <1>1, CountsOf
<1>8. DOMAIN replies' = {}
  BY <1>1
<1> QED BY <1>2, <1>4, <1>5, <1>6, <1>7, <1>8 DEF XferInv, OneHandle

\* The stream of a reader that has finished is whole.
LEMMA FinishedWhole ==
    ASSUME NEW r \in Readers, NEW w \in Seq(Units), NEW rs, NEW o, NEW quiet, NEW md, Runs(r, w, quiet, md),
           Remembers(r, rs, o), r.phase = "finished"
    PROVE  EndedWhole(w, o) /\ (quiet => SteadyWhole(w, o, md))
<1>1. o.kind = r.kind /\ r.dirs = <<>>
  BY DEF Remembers, Runs, PhaseFits
<1>2. o.kind = "file" => Len(w) = o.size /\ AllOf(w, o.name)
  <2>1. ASSUME o.kind = "file" PROVE Len(w) = o.size /\ AllOf(w, o.name)
    <3>1. FileFlow(r, w) /\ o.size = r.info.size /\ o.name = r.info.name
      BY <1>1, <2>1 DEF Runs, Remembers
    <3>2. Len(w) + r.remaining = r.info.size /\ r.remaining = 0 /\ AllOf(w, r.info.name)
      BY <3>1 DEF FileFlow
    <3>3. Len(w) \in Nat
      BY LenProperties
    <3> QED BY <3>1, <3>2, <3>3
  <2> QED BY <2>1
<1>3. o.kind = "tar" => IsArchive(w)
  BY <1>1, TarWhole DEF Runs
<1>4. ASSUME quiet PROVE SteadyWhole(w, o, md)
  <2>1. SteadyFlow(r, w, md)
    BY <1>4 DEF Runs
  <2>2. ASSUME o.kind # "file" PROVE Listed(w) = {y \in TreeNames : Present(y, md)}
    BY <1>1, <2>1, <2>2, SteadyAll
  <2> QED BY <2>1, <2>2 DEF SteadyWhole, SteadyFlow
<1> QED BY <1>2, <1>3, <1>4 DEF EndedWhole

\* A block more of a stream.
LEMMA StreamGoesOn ==
    ASSUME NEW rs \in Seq(Replies), NEW fill \in Seq(Units), NEW eof \in BOOLEAN, NEW o, NEW quiet, NEW md,
           StreamFits(rs, o, quiet, md), fill = <<>> => eof, NEW u, u = GotOf(rs) \o fill,
           eof => EndedWhole(u, o) /\ (quiet => SteadyWhole(u, o, md)), NEW e, e = <<fill, eof>>
    PROVE  StreamFits(Append(rs, e), o, quiet, md)
<1> DEFINE a == Append(rs, e)
<1>1. e \in Replies /\ e[1] = fill /\ e[2] = eof
  BY DEF Replies
<1>2. /\ a \in Seq(Replies) /\ Len(a) = Len(rs) + 1 /\ Len(rs) \in Nat
      /\ \A i \in 1 .. Len(rs) : a[i] = rs[i]
      /\ a[Len(rs) + 1] = e
  BY <1>1, AppendProperties, LenProperties
<1>3. GotOf(a) = u
  BY GotAppend
<1> HIDE DEF a
<1>4. DOMAIN a = 1 .. Len(rs) + 1 /\ DOMAIN rs = 1 .. Len(rs)
  BY <1>2, LenProperties
<1>5. ASSUME NEW b \in DOMAIN a, a[b][1] = <<>> PROVE a[b][2]
  <2>1. CASE b \in DOMAIN rs
    <3>1. a[b] = rs[b]
      BY <1>2, <1>4, <2>1
    <3> QED BY <1>5, <2>1, <3>1 DEF StreamFits
  <2>2. CASE b = Len(rs) + 1
    BY <1>1, <1>2, <1>5, <2>2
  <2> QED BY <1>2, <1>4, <2>1, <2>2
<1>6. Last(a) = e
  BY <1>2 DEF Last
<1>7. Last(a)[2] => EndedWhole(GotOf(a), o) /\ (quiet => SteadyWhole(GotOf(a), o, md))
  BY <1>1, <1>3, <1>6
<1> QED BY <1>5, <1>7 DEF StreamFits, a

\* The block is given: it is remembered, and the flow stays.
LEMMA StepBlockDone == ASSUME XferInv, BlockDone PROVE XferInv'
<1> DEFINE eof == Eof(r0)
           n == [r0 EXCEPT !.has = TRUE, !.last = request.block, !.cached = request.fill, !.eof = eof]
<1>1. /\ Reading /\ (Space = 0 \/ (r0.phase = "finished" /\ r0.stage = <<>>))
      /\ handles' = [handles EXCEPT ![request.slot] = n]
      /\ Replied(r0.id, request.block, request.fill, eof) /\ request' = Quiet
      /\ media' = media /\ heap' = heap /\ next_handle' = next_handle /\ opens' = opens
      /\ steady' = steady /\ rewrites' = rewrites /\ faults' = faults
  BY DEF BlockDone
<1>2. /\ request.op = "read" /\ request.slot \in Handles /\ Live(request.slot)
      /\ request.block \in Nat /\ request.fill \in Seq(Units)
      /\ ~handles[request.slot].term /\ request.block = Len(replies[handles[request.slot].id])
  BY <1>1, RequestFacts DEF Reading
<1>3. PICK s \in Handles : s = request.slot /\ Live(s)
  BY <1>2
<1>4. r0 = handles[s] /\ r0 \in Readers /\ Runs(r0, Flowing(s), r0.id \in steady, media) /\ Flowing(s) \in Seq(Units)
      /\ Space = BlockUnits - Len(request.fill) /\ Len(request.fill) \in Nat /\ r0.stage \in Seq(Units)
  BY <1>1, <1>3, ReadingRuns
<1>5. PICK h : h = r0.id
  OBVIOUS
<1>6. /\ h \in 1 .. next_handle - 1 /\ h \in DOMAIN replies /\ replies[h] \in Seq(Replies)
      /\ GotOf(replies[h]) \in Seq(Units) /\ HandleFits(s) /\ XferTypes
  BY <1>3, <1>4, <1>5, HandleFacts
<1>7. eof \in BOOLEAN
  BY DEF Eof
<1>8. PICK e : e = <<request.fill, eof>>
  OBVIOUS
<1>9. e \in Replies
  BY <1>2, <1>7, <1>8 DEF Replies
<1>10. Len(replies[h]) \in Nat /\ request.block = Len(replies[h])
  BY <1>2, <1>3, <1>4, <1>5, <1>6, LenProperties
<1>11. replies' = [replies EXCEPT ![h] = Append(replies[h], e)] /\ honest' = honest
  BY <1>1, <1>5, <1>8, <1>10 DEF Replied
<1>12. PICK rs : rs = Append(replies[h], e)
  OBVIOUS
<1>13. /\ rs \in Seq(Replies) /\ Len(rs) = Len(replies[h]) + 1
       /\ rs[Len(replies[h]) + 1] = e
  BY <1>6, <1>9, <1>12, AppendProperties
<1>14. /\ replies' \in Seq(Seq(Replies)) /\ Len(replies') = Len(replies)
       /\ DOMAIN replies' = DOMAIN replies
       /\ \A g \in DOMAIN replies : replies'[g] = IF g = h THEN rs ELSE replies[g]
  <2>1. replies \in Seq(Seq(Replies)) /\ DOMAIN replies = 1 .. Len(replies)
    BY <1>6, LenProperties DEF XferTypes
  <2>2. h \in 1 .. Len(replies)
    BY <1>6, <2>1
  <2>3. replies' = [replies EXCEPT ![h] = rs]
    BY <1>11, <1>12
  <2>4. replies' \in Seq(Seq(Replies)) /\ Len(replies') = Len(replies)
    BY <1>13, <2>1, <2>2, <2>3, ExceptSeq
  <2> QED BY <2>1, <2>3, <2>4
<1>15. /\ n \in Readers /\ n.id = r0.id /\ n.kind = r0.kind /\ n.info = r0.info /\ n.stage = r0.stage
       /\ n.phase = r0.phase /\ n.dirs = r0.dirs /\ n.file = r0.file /\ n.remaining = r0.remaining
       /\ n.padding = r0.padding /\ n.term = r0.term
       /\ n.has /\ n.last = request.block /\ n.cached = request.fill /\ n.eof = eof
  <2>1. n \in Readers
    BY <1>2, <1>4, <1>7 DEF Readers
  <2> QED BY <1>4, <2>1 DEF Readers
<1>16. handles' = [handles EXCEPT ![s] = n]
  BY <1>1, <1>3
<1> HIDE DEF n, eof
<1>17. /\ handles' \in [Handles -> {NoHandle} \cup Readers]
       /\ \A i \in Handles : handles'[i] = IF i = s THEN n ELSE handles[i]
  <2>1. handles \in [Handles -> {NoHandle} \cup Readers]
    BY <1>6 DEF XferTypes
  <2> QED BY <1>15, <1>16, <2>1
<1>18. XferTypes'
  BY <1>1, <1>6, <1>11, <1>14, <1>17 DEF XferTypes
<1>19. n # NoHandle
  BY <1>15, NoReader
<1>20. NoLeak'
  <2>1. NoLeak /\ OneHandle
    BY DEF XferInv
  <2>2. OpenObjects(n) = OpenObjects(r0)
    BY <1>15 DEF OpenObjects
  <2>3. OpenObjects(handles[s]) \subseteq heap
    BY <1>3, <2>1 DEF NoLeak
  <2>4. heap' = (heap \ OpenObjects(handles[s])) \cup OpenObjects(n)
    BY <1>1, <1>4, <2>2, <2>3
  <2>5. n = NoHandle \/ n.id = handles[s].id
    BY <1>4, <1>15
  <2>6. PICK held : held = IF n = NoHandle THEN {} ELSE OpenObjects(n)
    OBVIOUS
  <2>7. heap' = (heap \ OpenObjects(handles[s])) \cup held
    BY <1>19, <2>4, <2>6
  <2> QED BY <1>3, <1>6, <1>17, <2>1, <2>5, <2>6, <2>7, HeapFollows
<1>21. OneHandle'
  <2>1. \A i \in Handles : Live(i)' => Live(i) /\ handles'[i].id = handles[i].id
    BY <1>3, <1>4, <1>15, <1>17 DEF Live
  <2>2. OneHandle
    BY DEF XferInv
  <2> QED BY <2>1, <2>2 DEF OneHandle
<1>22. RequestFits'
  BY <1>1 DEF RequestFits, Quiet
<1>23. Filling(request', s) = <<>> /\ Filling(request, s) = request.fill
  BY <1>1, <1>2, <1>3 DEF Filling, Quiet
<1>24. GotOf(rs) = GotOf(replies[h]) \o request.fill
  <2>1. GotOf(Append(replies[h], <<request.fill, eof>>)) = GotOf(replies[h]) \o request.fill
    BY <1>2, <1>6, <1>7, GotAppend
  <2> QED BY <1>8, <1>12, <2>1
<1>25. Flowing(s)' = Flowing(s)
  <2>1. Flowing(s)' = (GotOf(rs) \o <<>>) \o r0.stage
    <3>1. handles'[s] = n /\ replies'[handles'[s].id] = rs
      BY <1>4, <1>5, <1>6, <1>14, <1>15, <1>17
    <3>2. Flowing(s)' = FlowOf(replies'[handles'[s].id], Filling(request', s), handles'[s].stage)
      BY DEF Flowing
    <3> QED BY <1>15, <1>23, <3>1, <3>2 DEF FlowOf
  <2>2. Flowing(s) = (GotOf(replies[h]) \o request.fill) \o r0.stage
    BY <1>4, <1>5, <1>23 DEF Flowing, FlowOf
  <2>3. GotOf(rs) \o <<>> = GotOf(rs)
    BY <1>13, GotType, GrowsNone
  <2> QED BY <1>24, <2>1, <2>2, <2>3
<1>26. Runs(n, Flowing(s), r0.id \in steady, media)
  <2>1. PhaseFits(n)
    BY <1>4, <1>15 DEF Runs, PhaseFits
  <2>2. n.kind = "file" => FileFlow(n, Flowing(s))
    BY <1>4, <1>15 DEF Runs, FileFlow
  <2>3. n.kind = "tar" => TarFlow(n, Flowing(s))
    BY <1>4, <1>15, TarKept DEF Runs
  <2>4. ASSUME r0.id \in steady PROVE SteadyFlow(n, Flowing(s), media)
    <3>1. SteadyFlow(r0, Flowing(s), media)
      BY <1>4, <2>4 DEF Runs
    <3>2. Named(n, Flowing(s)) = Named(r0, Flowing(s))
      BY <1>15 DEF Named
    <3>3. Grows(Flowing(s), <<>>, Flowing(s))
      BY <1>4, GrowsNone
    <3>4. n.file # <<>> => n.file[2] = media[n.file[1]].ver
      BY <1>15, <3>1 DEF SteadyFlow
    <3> QED BY <1>15, <3>1, <3>2, <3>3, <3>4, SteadyOn, UpToDateNone
  <2> QED BY <1>4, <1>15, <2>1, <2>2, <2>3, <2>4 DEF Runs
<1>27. Remembers(r0, replies[h], opens[h]) /\ h < next_handle
  BY <1>4, <1>5, <1>6, Zenon DEF HandleFits
<1>28. ASSUME NEW i \in Handles, Live(i)' PROVE HandleFits(i)'
  <2>1. CASE i # s
    <3>1. handles'[i] = handles[i] /\ Live(i)
      BY <1>17, <1>28, <2>1 DEF Live
    <3>2. Filling(request', i) = Filling(request, i)
      BY <1>1, <1>3, <2>1 DEF Filling, Quiet
    <3>3. handles[i].id # h /\ handles[i].id \in DOMAIN replies
      <4>1. OneHandle
        BY DEF XferInv
      <4>2. handles[i].id # handles[s].id
        BY <1>3, <2>1, <3>1, <4>1 DEF OneHandle
      <4> QED BY <1>4, <1>5, <3>1, <4>2, HandleFacts
    <3>4. next_handle <= next_handle' /\ next_handle' \in Nat /\ media' = media
      BY <1>1, <1>6 DEF XferTypes
    <3>5. /\ replies'[handles[i].id] = replies[handles[i].id] /\ opens'[handles[i].id] = opens[handles[i].id]
          /\ handles[i].id \in steady' <=> handles[i].id \in steady
      BY <1>1, <1>14, <3>3
    <3> QED BY <3>1, <3>2, <3>4, <3>5, HandleKept
  <2>2. CASE i = s
    <3>1. handles'[s] = n /\ n.id = h /\ replies'[h] = rs /\ opens'[h] = opens[h]
      BY <1>1, <1>5, <1>6, <1>14, <1>15, <1>17
    <3>2. Remembers(n, rs, opens[h])
      BY <1>8, <1>10, <1>13, <1>15, <1>27 DEF Remembers
    <3>3. handles'[s].id < next_handle'
      BY <1>1, <1>27, <3>1
    <3>4. Runs(n, Flowing(s)', n.id \in steady', media')
      BY <1>1, <1>15, <1>25, <1>26, Zenon
    <3> QED BY <2>2, <3>1, <3>2, <3>3, <3>4, Zenon DEF HandleFits
  <2> QED BY <2>1, <2>2
<1>29. StreamFits(rs, opens[h], h \in steady, media)
  <2>1. StreamFits(replies[h], opens[h], h \in steady, media)
    BY <1>6 DEF XferInv
  <2>2. ASSUME request.fill = <<>> PROVE eof
    <3>1. Len(request.fill) = 0 /\ BlockUnits \in Nat \ {0}
      BY <2>2, UnitCounts
    <3>2. Space # 0
      BY <1>4, <3>1
    <3> QED BY <1>1, <3>2 DEF eof, Eof
  <2>3. ASSUME eof
        PROVE  EndedWhole(GotOf(rs), opens[h]) /\ (h \in steady => SteadyWhole(GotOf(rs), opens[h], media))
    <3>1. r0.phase = "finished" /\ r0.stage = <<>>
      BY <2>3 DEF eof, Eof
    <3>2. Flowing(s) = GotOf(rs)
      <4>1. Flowing(s) = (GotOf(replies[h]) \o request.fill) \o r0.stage
        BY <1>4, <1>5, <1>23 DEF Flowing, FlowOf
      <4>2. GotOf(rs) \o <<>> = GotOf(rs)
        BY <1>13, GotType, GrowsNone
      <4> QED BY <1>24, <3>1, <4>1, <4>2
    <3>3. Runs(r0, Flowing(s), h \in steady, media) /\ Flowing(s) \in Seq(Units)
      BY <1>4, <1>5
    <3> QED BY <1>4, <1>27, <3>1, <3>2, <3>3, FinishedWhole
  <2>4. PICK u : u = GotOf(replies[h]) \o request.fill
    OBVIOUS
  <2>5. eof => EndedWhole(u, opens[h]) /\ (h \in steady => SteadyWhole(u, opens[h], media))
    BY <1>24, <2>3, <2>4
  <2>6. StreamFits(Append(replies[h], e), opens[h], h \in steady, media)
    BY <1>2, <1>6, <1>7, <1>8, <2>1, <2>2, <2>4, <2>5, StreamGoesOn
  <2> QED BY <1>12, <2>6
<1>30. \A g \in DOMAIN replies' : StreamFits(replies'[g], opens'[g], g \in steady', media')
  <2>1. \A g \in DOMAIN replies : StreamFits(replies[g], opens[g], g \in steady, media)
    BY DEF XferInv
  <2>2. ASSUME NEW g \in DOMAIN replies' PROVE StreamFits(replies'[g], opens[g], g \in steady, media)
    BY <1>14, <1>29, <2>1
  <2> QED BY <1>1, <2>2
<1>31. honest' = TRUE
  BY <1>11, CountsOf
<1> QED BY <1>18, <1>20, <1>21, <1>22, <1>28, <1>30, <1>31 DEF XferInv

\* A stream at its start.
LEMMA StreamStarts ==
    ASSUME NEW n \in Readers, NEW md, n.stage = <<>>, n.remaining = n.info.size \/ n.kind # "file",
           n.phase = (IF n.kind = "file" THEN "data" ELSE "walk"),
           n.kind = "file" => n.file # <<>> /\ n.file[1] = n.info.name /\ n.file[2] = md[n.file[1]].ver
                              /\ n.dirs = <<>>,
           n.kind # "file" => n.file = <<>> /\ Len(n.dirs) = 1 /\ n.dirs[1].dir = TopDir /\ n.dirs[1].pos = 0
    PROVE  Runs(n, <<>>, TRUE, md)
<1>1. PhaseFits(n)
  BY DEF PhaseFits
<1>2. <<>> \in Seq(Units) /\ Len(<<>>) = 0 /\ DOMAIN <<>> = {}
  BY EmptySeq
<1>3. n.info.size \in Nat
  BY ReaderFields
<1>4. n.kind = "file" => FileFlow(n, <<>>)
  BY <1>2, <1>3 DEF FileFlow, AllOf
<1>5. n.kind # "file" => TarFlow(n, <<>>)
  <2>1. ASSUME n.kind # "file" PROVE TarAt(n, <<>>, 1)
    <3>1. Chain(<<>>, 1)
      BY ChainStarts
    <3>2. 1 = Len(<<>>) + 1
      BY <1>2
    <3> QED BY <2>1, <3>1, <3>2 DEF TarAt
  <2>2. 1 \in 1 .. Len(<<>>) + 1
    BY <1>2
  <2> QED BY <2>1, <2>2 DEF TarFlow
<1>6. SteadyFlow(n, <<>>, md)
  <2>1. Named(n, <<>>) = {}
    BY <1>2 DEF Named, Listed
  <2>2. ASSUME n.kind # "file", NEW d \in {TopDir} \cap DOMAIN Layout, NEW k \in DOMAIN Layout[d]
        PROVE  Coming(n, d, k)
    <3>1. DOMAIN n.dirs = 1 .. Len(n.dirs)
      BY ReaderFields, LenProperties
    <3>2. 1 \in DOMAIN n.dirs
      BY <2>2, <3>1
    <3>3. k > 0
      BY <2>2, LayoutEntry
    <3> QED BY <2>2, <3>2, <3>3 DEF Coming
  <2>3. UpToDate(<<>>, md)
    BY UpToDateNone
  <2> QED BY <2>1, <2>2, <2>3 DEF SteadyFlow
<1> QED BY <1>1, <1>2, <1>4, <1>5, <1>6 DEF Runs

\* A pair and its parts.
LEMMA PairParts == \A a, b : <<a, b>> # <<>> /\ <<a, b>>[1] = a /\ <<a, b>>[2] = b
  OBVIOUS

\* The second half of an open: a new handle, an empty flow, one object.
LEMMA StepOpenDone == ASSUME XferInv, OpenDone PROVE XferInv'
<1> DEFINE isfile == request.kind = "file"
           file == IF isfile THEN <<request.name, media[request.name].ver>> ELSE <<>>
           dirs == IF isfile THEN <<>> ELSE <<[dir |-> request.name, pos |-> 0]>>
           n == [id |-> next_handle, open_id |-> request.oid, kind |-> request.kind, root |-> request.name,
                 phase |-> IF isfile THEN "data" ELSE "walk", file |-> file,
                 info |-> [name |-> request.name, size |-> request.size],
                 remaining |-> request.size, padding |-> 0, stage |-> <<>>, dirs |-> dirs,
                 has |-> FALSE, last |-> 0, cached |-> <<>>, eof |-> FALSE, term |-> FALSE]
           o == [kind |-> request.kind, name |-> request.name, size |-> request.size]
<1>1. /\ request.op = "open" /\ handles' = [handles EXCEPT ![request.slot] = n]
      /\ heap' = heap \cup {<<next_handle, IF isfile THEN 0 ELSE 1>>}
      /\ next_handle' = next_handle + 1 /\ replies' = Append(replies, <<>>) /\ opens' = Append(opens, o)
      /\ steady' = steady \cup {next_handle} /\ request' = Quiet
      /\ media' = media /\ honest' = honest /\ rewrites' = rewrites /\ faults' = faults
  BY DEF OpenDone
<1>2. XferTypes /\ RequestFits /\ NoLeak /\ OneHandle
  BY DEF XferInv
<1>3. /\ request \in OpenRequests /\ request.slot \in Handles /\ ~Live(request.slot)
  BY <1>1, RequestFacts
<1>4. /\ request.oid \in OpenIds /\ request.kind \in {"file", "tree", "tar"} /\ request.name \in AllNames
      /\ request.size \in Nat
  BY <1>3 DEF OpenRequests
<1>5. /\ isfile => request.name \in StoredFiles
      /\ ~isfile => request.name = TopDir
  BY <1>1, <1>2 DEF RequestFits
<1>6. next_handle \in Nat \ {0} /\ Len(replies) = next_handle - 1 /\ Len(opens) = next_handle - 1
      /\ replies \in Seq(Seq(Replies)) /\ opens \in Seq(Openings) /\ steady \subseteq 1 .. next_handle - 1
  BY <1>2 DEF XferTypes
<1>7. file \in {<<>>} \cup (StoredFiles \X Int)
  <2>1. CASE isfile
    <3>1. media[request.name].ver \in Nat
      BY <1>2, <1>5, <2>1, MediaTypes
    <3>2. <<request.name, media[request.name].ver>> \in StoredFiles \X Int
      BY <1>5, <2>1, <3>1
    <3> QED BY <2>1, <3>2
  <2> QED BY <2>1
<1>d. DEFINE Dirs == [dir : DOMAIN Layout, pos : Nat]
<1>8. /\ dirs \in Seq(Dirs) /\ (~isfile => Len(dirs) = 1 /\ dirs[1].dir = TopDir /\ dirs[1].pos = 0
                                           /\ DOMAIN dirs = {1})
  <2>1. CASE isfile
    BY <2>1, EmptySeq
  <2>2. CASE ~isfile
    <3>1. TopDir \in DOMAIN Layout
      BY FileTransferBounds
    <3>2. PICK e : e = [dir |-> request.name, pos |-> 0]
      OBVIOUS
    <3>3. e \in Dirs /\ e.dir = TopDir /\ e.pos = 0 /\ dirs = <<e>>
      BY <1>5, <2>2, <3>1, <3>2
    <3> HIDE DEF dirs, Dirs
    <3>4. <<e>> \in Seq(Dirs) /\ Len(<<e>>) = 1 /\ <<e>>[1] = e /\ DOMAIN <<e>> = 1 .. 1
      BY <3>3
    <3> QED BY <3>3, <3>4
  <2> QED BY <2>1, <2>2
<1>9. o \in Openings /\ o.kind = request.kind /\ o.name = request.name /\ o.size = request.size
  BY <1>4 DEF Openings
<1>10. /\ isfile => file # <<>> /\ file[1] = request.name /\ file[2] = media[request.name].ver /\ dirs = <<>>
       /\ ~isfile => file = <<>>
  BY PairParts
<1> HIDE DEF file, dirs, o
<1>11. /\ n \in Readers /\ n.id = next_handle /\ n.kind = request.kind
       /\ n.phase = (IF isfile THEN "data" ELSE "walk")
       /\ n.file = file /\ n.info.name = request.name /\ n.info.size = request.size
       /\ n.remaining = request.size /\ n.stage = <<>> /\ n.dirs = dirs /\ ~n.has /\ ~n.term
  <2>1. <<>> \in Seq(Units) /\ 0 \in Nat
    BY EmptySeq
  <2>2. PICK p : p = IF isfile THEN "data" ELSE "walk"
    OBVIOUS
  <2>3. p \in Phases
    BY <2>2 DEF Phases
  <2>4. PICK i : i = [name |-> request.name, size |-> request.size]
    OBVIOUS
  <2>5. i \in [name : AllNames, size : Nat] /\ i.name = request.name /\ i.size = request.size
    BY <1>4, <2>4
  <2>6. n = [id |-> next_handle, open_id |-> request.oid, kind |-> request.kind, root |-> request.name,
             phase |-> p, file |-> file, info |-> i,
             remaining |-> request.size, padding |-> 0, stage |-> <<>>, dirs |-> dirs,
             has |-> FALSE, last |-> 0, cached |-> <<>>, eof |-> FALSE, term |-> FALSE]
    BY <2>2, <2>4
  <2> HIDE DEF n
  <2>7. n \in Readers
    BY <1>4, <1>6, <1>7, <1>8, <2>1, <2>3, <2>5, <2>6 DEF Readers
  <2>8. /\ n.id = next_handle /\ n.kind = request.kind /\ n.phase = p
        /\ n.file = file /\ n.info = i
        /\ n.remaining = request.size /\ n.stage = <<>> /\ n.dirs = dirs /\ n.has = FALSE /\ n.term = FALSE
    BY <2>6
  <2> QED BY <2>2, <2>5, <2>7, <2>8
<1> HIDE DEF n
<1>12. n # NoHandle
  BY <1>11, NoReader
<1>13. PICK s \in Handles : s = request.slot /\ ~Live(s)
  BY <1>3
<1>14. /\ handles' \in [Handles -> {NoHandle} \cup Readers]
       /\ \A i \in Handles : handles'[i] = IF i = s THEN n ELSE handles[i]
  <2>1. handles \in [Handles -> {NoHandle} \cup Readers]
    BY <1>2 DEF XferTypes
  <2>2. handles' = [handles EXCEPT ![s] = n]
    BY <1>1, <1>13
  <2> QED BY <1>11, <2>1, <2>2
<1>15. \A i \in Handles : Live(i)' => i = s \/ (i # s /\ Live(i) /\ handles'[i] = handles[i])
  BY <1>14 DEF Live
<1>16. /\ replies' \in Seq(Seq(Replies)) /\ Len(replies') = next_handle
       /\ \A h \in 1 .. next_handle - 1 : replies'[h] = replies[h]
       /\ replies'[next_handle] = <<>> /\ DOMAIN replies' = 1 .. next_handle
       /\ opens' \in Seq(Openings) /\ Len(opens') = next_handle
       /\ \A h \in 1 .. next_handle - 1 : opens'[h] = opens[h]
       /\ opens'[next_handle] = o
  <2>1. <<>> \in Seq(Replies)
    BY EmptySeq
  <2>2. /\ replies' \in Seq(Seq(Replies)) /\ Len(replies') = Len(replies) + 1
        /\ \A h \in 1 .. Len(replies) : replies'[h] = replies[h]
        /\ replies'[Len(replies) + 1] = <<>>
    BY <1>1, <1>6, <2>1, AppendProperties
  <2>3. /\ opens' \in Seq(Openings) /\ Len(opens') = Len(opens) + 1
        /\ \A h \in 1 .. Len(opens) : opens'[h] = opens[h]
        /\ opens'[Len(opens) + 1] = o
    BY <1>1, <1>6, <1>9, AppendProperties
  <2>4. DOMAIN replies' = 1 .. Len(replies')
    BY <2>2, LenProperties
  <2> QED BY <1>6, <2>2, <2>3, <2>4
<1>17. XferTypes'
  <2>1. next_handle' \in Nat \ {0} /\ next_handle' - 1 = next_handle
    BY <1>1, <1>6
  <2>2. steady' \subseteq 1 .. next_handle' - 1
    BY <1>1, <1>6, <2>1
  <2>3. request' \in {Quiet} \cup OpenRequests \cup ReadRequests
    BY <1>1
  <2>4. media' \in [StoredFiles -> Versions] /\ honest' \in BOOLEAN /\ rewrites' \in Nat /\ faults' \in Nat
    BY <1>1, <1>2 DEF XferTypes
  <2> QED BY <1>14, <1>16, <2>1, <2>2, <2>3, <2>4 DEF XferTypes
<1>18. \A i \in Handles : Live(i) => handles[i].id \in 1 .. next_handle - 1
  BY HandleFacts
<1>19. OneHandle'
  <2>1. \A i \in Handles : Live(i)' /\ i # s => handles'[i].id # next_handle /\ Live(i) /\ handles'[i] = handles[i]
    BY <1>6, <1>15, <1>18
  <2>2. handles'[s].id = next_handle
    BY <1>11, <1>14
  <2> QED BY <1>2, <2>1, <2>2 DEF OneHandle
<1>20. OpenObjects(n) = {<<next_handle, IF isfile THEN 0 ELSE 1>>}
  <2>1. CASE isfile
    <3>1. n.file # <<>> /\ n.dirs = <<>>
      BY <1>10, <1>11, <2>1
    <3>2. DOMAIN n.dirs = {}
      BY <3>1
    <3> QED BY <1>11, <2>1, <3>1, <3>2 DEF OpenObjects
  <2>2. CASE ~isfile
    <3>1. n.file = <<>> /\ DOMAIN n.dirs = {1}
      BY <1>8, <1>10, <1>11, <2>2
    <3> QED BY <1>11, <2>2, <3>1 DEF OpenObjects
  <2> QED BY <2>1, <2>2
<1>21. NoLeak'
  <2>1. heap = UNION {OpenObjects(handles[i]) : i \in {j \in Handles : Live(j)}}
    BY <1>2 DEF NoLeak
  <2>2. heap' = heap \cup OpenObjects(n)
    BY <1>1, <1>20
  <2>3. ASSUME NEW b \in heap' PROVE b \in UNION {OpenObjects(handles'[i]) : i \in {j \in Handles : Live(j)'}}
    <3>1. CASE b \in OpenObjects(n)
      <4>1. handles'[s] = n /\ Live(s)'
        BY <1>12, <1>14 DEF Live
      <4> QED BY <3>1, <4>1
    <3>2. CASE b \in heap
      <4>1. PICK i \in Handles : Live(i) /\ b \in OpenObjects(handles[i])
        BY <2>1, <3>2
      <4>2. i # s /\ handles'[i] = handles[i] /\ Live(i)'
        BY <1>13, <1>14, <4>1 DEF Live
      <4> QED BY <4>1, <4>2
    <3> QED BY <2>2, <2>3, <3>1, <3>2
  <2>4. ASSUME NEW i \in Handles, Live(i)', NEW b \in OpenObjects(handles'[i]) PROVE b \in heap'
    <3>1. CASE i = s
      BY <1>14, <2>2, <2>4, <3>1
    <3>2. CASE i # s
      BY <1>15, <2>1, <2>2, <2>4, <3>2
    <3> QED BY <3>1, <3>2
  <2> QED BY <2>3, <2>4 DEF NoLeak
<1>22. RequestFits'
  BY <1>1 DEF RequestFits, Quiet
<1>23. ASSUME NEW i \in Handles, Live(i)' PROVE HandleFits(i)'
  <2>1. CASE i # s
    <3>1. handles'[i] = handles[i] /\ Live(i)
      BY <1>15, <1>23, <2>1
    <3>2. Filling(request', i) = Filling(request, i)
      BY <1>1 DEF Filling, Quiet
    <3>3. handles[i].id \in 1 .. next_handle - 1 /\ handles[i].id # next_handle
      BY <1>6, <1>18, <3>1
    <3>4. next_handle <= next_handle' /\ next_handle' \in Nat /\ media' = media
      BY <1>1, <1>6
    <3>5. /\ replies'[handles[i].id] = replies[handles[i].id] /\ opens'[handles[i].id] = opens[handles[i].id]
          /\ handles[i].id \in steady' <=> handles[i].id \in steady
      BY <1>1, <1>16, <3>3
    <3> QED BY <3>1, <3>2, <3>4, <3>5, HandleKept
  <2>2. CASE i = s
    <3>1. handles'[i] = n /\ n.id = next_handle /\ replies'[next_handle] = <<>> /\ opens'[next_handle] = o
      BY <1>11, <1>14, <1>16, <2>2
    <3>2. handles'[i].id < next_handle'
      BY <1>1, <1>6, <3>1
    <3>3. Remembers(n, <<>>, o)
      BY <1>9, <1>11 DEF Remembers
    <3>4. Flowing(i)' = <<>>
      <4>1. Filling(request', i) = <<>>
        BY <1>1 DEF Filling, Quiet
      <4>2. Flowing(i)' = FlowOf(replies'[handles'[i].id], Filling(request', i), handles'[i].stage)
        BY DEF Flowing
      <4>3. <<>> \o <<>> = <<>>
        BY GrowsNone, EmptySeq
      <4>4. Flowing(i)' = (GotOf(<<>>) \o <<>>) \o <<>>
        BY <1>11, <3>1, <4>1, <4>2 DEF FlowOf
      <4> QED BY <4>3, <4>4, GotNone
    <3>5. Runs(n, <<>>, TRUE, media)
      <4>1. isfile => n.file # <<>> /\ n.file[1] = n.info.name /\ n.file[2] = media[n.file[1]].ver
        BY <1>10, <1>11
      <4>2. isfile => n.dirs = <<>>
        BY <1>10, <1>11
      <4>3. ~isfile => n.file = <<>> /\ Len(n.dirs) = 1 /\ n.dirs[1].dir = TopDir /\ n.dirs[1].pos = 0
        BY <1>8, <1>10, <1>11
      <4>4. n.phase = (IF n.kind = "file" THEN "data" ELSE "walk") /\ n.stage = <<>>
            /\ n.remaining = n.info.size /\ (n.kind = "file" <=> isfile)
        BY <1>11
      <4> HIDE DEF isfile
      <4> QED BY <1>11, <4>1, <4>2, <4>3, <4>4, StreamStarts
    <3>6. Runs(n, <<>>, handles'[i].id \in steady', media')
      <4>1. handles'[i].id \in steady'
        BY <1>1, <3>1
      <4> QED BY <1>1, <3>5, <4>1 DEF Runs
    <3>7. Remembers(handles'[i], replies'[handles'[i].id], opens'[handles'[i].id])
      BY <3>1, <3>3
    <3>8. Runs(handles'[i], Flowing(i)', handles'[i].id \in steady', media')
      BY <3>1, <3>4, <3>6, Zenon
    <3> QED BY <3>2, <3>7, <3>8, Zenon DEF HandleFits
  <2> QED BY <2>1, <2>2
<1>24. \A h \in DOMAIN replies' : StreamFits(replies'[h], opens'[h], h \in steady', media')
  <2>1. ASSUME NEW h \in DOMAIN replies' PROVE StreamFits(replies'[h], opens'[h], h \in steady', media')
    <3>1. CASE h = next_handle
      <4>1. replies'[h] = <<>>
        BY <1>16, <3>1
      <4> QED BY <4>1 DEF StreamFits
    <3>2. CASE h # next_handle
      <4>1. h \in 1 .. next_handle - 1 /\ (h \in steady' <=> h \in steady)
        BY <1>1, <1>6, <1>16, <2>1, <3>2
      <4>2. h \in DOMAIN replies
        BY <1>2, <4>1, StreamOf
      <4>3. StreamFits(replies[h], opens[h], h \in steady, media)
        BY <4>2 DEF XferInv
      <4>4. replies'[h] = replies[h] /\ opens'[h] = opens[h] /\ (h \in steady') = (h \in steady)
        BY <1>16, <4>1
      <4> QED BY <1>1, <4>3, <4>4, Zenon
    <3> QED BY <3>1, <3>2
  <2> QED BY <2>1
<1>25. honest' = TRUE
  BY <1>1, CountsOf
<1> QED BY <1>17, <1>19, <1>21, <1>22, <1>23, <1>24, <1>25 DEF XferInv

SameBut(md, md2, f) == \A x \in StoredFiles : x # f => md2[x] = md[x]
\* Another file changes.
LEMMA UpToDateOther ==
    ASSUME NEW w \in Seq(Units), NEW name, NEW f, name # f, AllOf(w, name), NEW md, NEW md2,
           UpToDate(w, md), SameBut(md, md2, f)
    PROVE  UpToDate(w, md2)
<1>1. ASSUME NEW i \in DOMAIN w, w[i][1] = "data" PROVE w[i][3] = md2[w[i][2]].ver
  <2>1. w[i] \in Units
    BY ElementOfSeq, LenProperties
  <2>2. w[i][2] \in StoredFiles
    BY <1>1, <2>1, UnitForms
  <2>3. w[i][2] # f
    BY DEF AllOf
  <2>4. w[i][3] = md[w[i][2]].ver
    BY <1>1 DEF UpToDate
  <2> QED BY <2>2, <2>3, <2>4 DEF SameBut
<1> QED BY <1>1 DEF UpToDate

\* Somebody changes a file: the streams that are about it are steady no more.
LEMMA StepRewrite == ASSUME XferInv, NEW f \in StoredFiles, Rewrite(f) PROVE XferInv'
<1>1. /\ rewrites' = rewrites + 1
      /\ steady' = {h \in steady : opens[h].kind = "file" /\ opens[h].name # f}
      /\ heap' = heap /\ handles' = handles /\ next_handle' = next_handle /\ request' = request
      /\ replies' = replies /\ opens' = opens /\ honest' = honest /\ faults' = faults
  BY DEF Rewrite
<1>2. PICK size \in 0 .. MaxSize, here \in BOOLEAN :
          media' = [media EXCEPT ![f] = [here |-> here, size |-> IF here THEN size ELSE 0, ver |-> rewrites + 1]]
  BY DEF Rewrite
<1>3. XferTypes /\ RequestFits /\ NoLeak /\ OneHandle /\ rewrites \in Nat /\ faults \in Nat /\ honest = TRUE
  BY CountsOf DEF XferInv
<1>4. media' \in [StoredFiles -> Versions] /\ \A x \in StoredFiles : x # f => media'[x] = media[x]
  <2>1. media \in [StoredFiles -> Versions]
    BY <1>3 DEF XferTypes
  <2>2. PICK v : v = [here |-> here, size |-> IF here THEN size ELSE 0, ver |-> rewrites + 1]
    OBVIOUS
  <2>3. size \in Nat
    BY FileTransferBounds
  <2>4. v \in Versions
    BY <1>3, <2>2, <2>3 DEF Versions
  <2> QED BY <1>2, <2>1, <2>2, <2>4
<1>5. XferTypes'
  <2>1. rewrites' \in Nat
    BY <1>1, <1>3
  <2>2. steady' \subseteq 1 .. next_handle' - 1
    BY <1>1, <1>3 DEF XferTypes
  <2>3. media' \in [StoredFiles -> Versions]
    BY <1>4
  <2> QED BY <1>1, <1>3, <2>1, <2>2, <2>3 DEF XferTypes
<1>6. NoLeak' /\ OneHandle' /\ RequestFits'
  <2>1. \A i : Live(i)' <=> Live(i)
    BY <1>1 DEF Live
  <2>2. UNION {OpenObjects(handles'[i]) : i \in {j \in Handles : handles'[j] # NoHandle}}
           = UNION {OpenObjects(handles[i]) : i \in {j \in Handles : handles[j] # NoHandle}}
    BY <1>1
  <2>3. NoLeak'
    BY <1>1, <1>3, <2>2, Zenon DEF NoLeak, Live
  <2>4. OneHandle'
    BY <1>1, <1>3, <2>1 DEF OneHandle
  <2>5. RequestFits'
    BY <1>1, <1>3, <2>1 DEF RequestFits
  <2> QED BY <2>3, <2>4, <2>5
<1>7. ASSUME NEW i \in Handles, Live(i)' PROVE HandleFits(i)'
  <2>1. Live(i) /\ handles'[i] = handles[i]
    BY <1>1, <1>7 DEF Live
  <2>2. PICK r : r = handles[i]
    OBVIOUS
  <2>3. PICK w : w = Flowing(i)
    OBVIOUS
  <2>4. /\ r \in Readers /\ HandleFits(i) /\ r.id < next_handle
        /\ Remembers(r, replies[r.id], opens[r.id])
        /\ ~r.term => Runs(r, w, r.id \in steady, media)
    <3>1. r \in Readers /\ HandleFits(i)
      BY <2>1, <2>2, HandleFacts
    <3> QED BY <2>2, <2>3, <3>1, Zenon DEF HandleFits
  <2>5. Flowing(i)' = w
    BY <1>1, <2>3 DEF Flowing
  <2>6. ASSUME ~r.term PROVE Runs(r, w, r.id \in steady', media')
    <3>1. Runs(r, w, r.id \in steady, media)
      BY <2>4, <2>6
    <3>2. ASSUME r.id \in steady' PROVE SteadyFlow(r, w, media')
      <4>1. r.id \in steady /\ r.kind = "file" /\ r.info.name # f
        BY <1>1, <2>4, <3>2 DEF Remembers
      <4>2. SteadyFlow(r, w, media) /\ FileFlow(r, w) /\ PhaseFits(r) /\ w \in Seq(Units)
        BY <3>1, <4>1 DEF Runs
      <4>3. UpToDate(w, media')
        <5>1. AllOf(w, r.info.name) /\ UpToDate(w, media) /\ w \in Seq(Units)
          BY <4>2 DEF SteadyFlow, FileFlow
        <5>2. SameBut(media, media', f)
          BY <1>4 DEF SameBut
        <5>3. r.info.name # f
          BY <4>1
        <5> QED BY <5>1, <5>2, <5>3, UpToDateOther
      <4>4. ASSUME r.file # <<>> PROVE r.file[2] = media'[r.file[1]].ver
        <5>1. r.file[1] = r.info.name
          BY <4>2, <4>4 DEF PhaseFits
        <5>2. r.file[1] \in StoredFiles
          BY <2>4, <4>4, ReaderFields
        <5> QED BY <1>4, <4>1, <4>2, <4>4, <5>1, <5>2 DEF SteadyFlow
      <4> QED BY <4>1, <4>3, <4>4 DEF SteadyFlow
    <3> QED BY <3>1, <3>2 DEF Runs
  <2>7. handles'[i] = r /\ replies' = replies /\ opens' = opens /\ next_handle' = next_handle
    BY <1>1, <2>1, <2>2
  <2>8. handles'[i].id < next_handle' /\ Remembers(handles'[i], replies'[handles'[i].id], opens'[handles'[i].id])
    BY <2>4, <2>7
  <2>9. ~handles'[i].term => Runs(handles'[i], Flowing(i)', handles'[i].id \in steady', media')
    BY <2>5, <2>6, <2>7, Zenon
  <2> QED BY <2>8, <2>9, Zenon DEF HandleFits
<1>8. ASSUME NEW h \in DOMAIN replies' PROVE StreamFits(replies'[h], opens'[h], h \in steady', media')
  <2>1. StreamFits(replies[h], opens[h], h \in steady, media)
    BY <1>1, <1>8 DEF XferInv
  <2>2. ASSUME replies[h] # <<>>, Last(replies[h])[2], h \in steady' PROVE SteadyWhole(GotOf(replies[h]), opens[h], media')
    <3>1. h \in steady /\ opens[h].kind = "file" /\ opens[h].name # f
      BY <1>1, <2>2
    <3>2. EndedWhole(GotOf(replies[h]), opens[h]) /\ SteadyWhole(GotOf(replies[h]), opens[h], media)
      BY <2>1, <2>2, <3>1 DEF StreamFits
    <3>3. GotOf(replies[h]) \in Seq(Units)
      <4>1. h \in 1 .. next_handle - 1
        BY <1>3, <3>1 DEF XferTypes
      <4> QED BY <1>3, <4>1, StreamOf
    <3>4. UpToDate(GotOf(replies[h]), media')
      <4>1. AllOf(GotOf(replies[h]), opens[h].name) /\ UpToDate(GotOf(replies[h]), media)
        BY <3>1, <3>2 DEF EndedWhole, SteadyWhole
      <4>2. SameBut(media, media', f)
        BY <1>4 DEF SameBut
      <4>3. opens[h].name # f
        BY <3>1
      <4> QED BY <3>3, <4>1, <4>2, <4>3, UpToDateOther
    <3> QED BY <3>1, <3>4 DEF SteadyWhole
  <2>3. StreamFits(replies[h], opens[h], h \in steady', media')
    BY <2>1, <2>2 DEF StreamFits
  <2> QED BY <1>1, <2>3, Zenon
<1> QED BY <1>1, <1>3, <1>5, <1>6, <1>7, <1>8 DEF XferInv

\* The invariant holds at the start.
LEMMA XferStarts == TransferInit => XferInv
<1> SUFFICES ASSUME TransferInit PROVE XferInv
  OBVIOUS
<1>1. /\ heap = {} /\ handles = [i \in Handles |-> NoHandle] /\ next_handle = 1 /\ request = Quiet
      /\ replies = <<>> /\ opens = <<>> /\ steady = {} /\ honest = TRUE /\ rewrites = 0 /\ faults = 0
  BY DEF TransferInit
<1>2. media \in [StoredFiles -> Versions]
  <2>1. PICK size \in [StoredFiles -> 0 .. MaxSize] :
            media = [f \in StoredFiles |-> [here |-> TRUE, size |-> size[f], ver |-> 0]]
    BY DEF TransferInit
  <2>2. \A f \in StoredFiles : size[f] \in Nat
    BY FileTransferBounds
  <2> QED BY <2>1, <2>2 DEF Versions
<1>3. \A i \in Handles : ~Live(i)
  BY <1>1 DEF Live
<1>4. <<>> \in Seq(Seq(Replies)) /\ <<>> \in Seq(Openings) /\ Len(<<>>) = 1 - 1 /\ DOMAIN <<>> = {}
  BY EmptySeq
<1>5. XferTypes
  BY <1>1, <1>2, <1>4 DEF XferTypes
<1>6. NoLeak
  BY <1>1, <1>3 DEF NoLeak
<1>7. RequestFits
  BY <1>1 DEF RequestFits, Quiet
<1> QED BY <1>1, <1>3, <1>4, <1>5, <1>6, <1>7 DEF XferInv, OneHandle

\* Every step keeps it.
LEMMA XferSteps == XferInv /\ [TransferNext]_xfervars => XferInv'
<1> SUFFICES ASSUME XferInv, [TransferNext]_xfervars PROVE XferInv'
  OBVIOUS
<1>1. CASE UNCHANGED xfervars
  BY <1>1, StepSame
<1>2. ASSUME NEW oid \in OpenIds, NEW kind \in Kinds, NEW name \in StoredFiles \cup {TopDir},
             (kind = "file") = (name \in StoredFiles), Reopen(oid, kind, name) \/ OpenStats(oid, kind, name)
      PROVE  XferInv'
  <2>1. CASE Reopen(oid, kind, name)
    <3>1. UNCHANGED xfervars
      BY <2>1 DEF Reopen
    <3> QED BY <3>1, StepSame
  <2>2. CASE OpenStats(oid, kind, name)
    BY <1>2, <2>2, StepOpenStats
  <2> QED BY <1>2, <2>1, <2>2
<1>3. ASSUME NEW i \in Handles, NEW block \in 0 .. BlockUnits * 10, ReadAgain(i, block) \/ ReadStarts(i, block)
      PROVE  XferInv'
  <2>1. block \in Nat
    BY UnitCounts
  <2> QED BY <1>3, <2>1, StepReadAgain, StepReadStarts
<1>4. ASSUME NEW i \in Handles, close_handle(i) PROVE XferInv'
  BY <1>4, StepCloseHandle
<1>5. CASE Reader
  <2>1. CASE TakeStage
    BY <2>1, StepTakeStage
  <2>2. CASE TakeData
    BY <2>2, StepTakeData
  <2>3. CASE finish_file
    BY <2>3, StepFinishFile
  <2>4. CASE TakePadding
    BY <2>4, StepTakePadding
  <2>5. CASE next_entry
    BY <2>5, StepNextEntry
  <2>6. CASE open_file
    BY <2>6, StepOpenFile
  <2>7. CASE DirectoryEnds
    BY <2>7, StepDirectoryEnds
  <2>8. CASE WalkEnds
    BY <2>8, StepWalkEnds
  <2>9. CASE BlockDone
    BY <2>9, StepBlockDone
  <2>10. CASE ReadFails
    BY <2>10, StepReadFails
  <2> QED BY <1>5, <2>1, <2>2, <2>3, <2>4, <2>5, <2>6, <2>7, <2>8, <2>9, <2>10 DEF Reader
<1>6. CASE OpenDone
  BY <1>6, StepOpenDone
<1>7. CASE OpenFails
  BY <1>7, StepOpenFails
<1>8. CASE bvstk_dcp2_fs_destroy
  BY <1>8, StepDestroy
<1>9. ASSUME NEW f \in StoredFiles, Rewrite(f) PROVE XferInv'
  BY <1>9, StepRewrite
<1> QED BY <1>1, <1>2, <1>3, <1>4, <1>5, <1>6, <1>7, <1>8, <1>9 DEF TransferNext, Requests

\* The inductive invariant of the file service.
LEMMA XferAlways == TransferSpec => []XferInv
<1>1. TransferInit => XferInv
  BY XferStarts
<1>2. XferInv /\ [TransferNext]_xfervars => XferInv'
  BY XferSteps
<1> QED BY <1>1, <1>2, PTL DEF TransferSpec

\* A stream that reached its end is whole, for every layout of the tree, every size
\* of a block, a TAR block and a file, and whatever is rewritten, fails or is closed
\* in between: a file has the announced size, an archive is well formed, an
\* undisturbed stream is the present contents and names every object, and a block
\* asked for again is the block that was given.
THEOREM StreamsAreWhole == TransferSpec => []StreamWhole
<1>1. XferInv => StreamWhole
  <2> SUFFICES ASSUME XferInv PROVE StreamWhole
    OBVIOUS
  <2>1. honest
    BY DEF XferInv
  <2>2. ASSUME NEW h \in DOMAIN replies PROVE StreamFits(replies[h], opens[h], h \in steady, media)
    BY DEF XferInv
  <2>3. \A h : Got(h) = GotOf(replies[h])
    BY DEF Got, GotOf
  <2>4. {n \in TreeNames : Present(n, media)} = {n \in TreeNames : n \in StoredFiles => media[n].here}
    BY DEF Present
  <2> QED BY <2>1, <2>2, <2>3, <2>4 DEF StreamWhole, StreamFits, EndedWhole, SteadyWhole, UpToDate, Ended
<1> QED BY <1>1, XferAlways, PTL

\* The objects of the backend are those of the live handles, after every close,
\* failed READ, refused open and end of connection: nothing is left allocated and
\* nothing is freed twice.
THEOREM NothingLeaks == TransferSpec => []NoLeak
<1>1. XferInv => NoLeak
  BY DEF XferInv
<1> QED BY <1>1, XferAlways, PTL

\* What is proved of the file service holds of the whole.
THEOREM FilesHaveTransfers == FilesSpec => TransferSpec
<1>1. FilesInit => TransferInit
  BY DEF FilesInit
<1>2. [FilesNext]_<<part, vars, xfervars, convars>> => [TransferNext]_xfervars
  <2> SUFFICES ASSUME [FilesNext]_<<part, vars, xfervars, convars>> PROVE [TransferNext]_xfervars
    OBVIOUS
  <2>1. CASE UNCHANGED <<part, vars, xfervars, convars>>
    BY <2>1
  <2>2. CASE FilesNext
    BY <2>2 DEF FilesNext
  <2> QED BY <2>1, <2>2
<1> QED BY <1>1, <1>2, PTL DEF FilesSpec, TransferSpec
=============================================================================
