---------------------------- MODULE ScreenProofs -----------------------------
(***************************************************************************)
(* Proofs about the screen of the browser terminal, for every size of it,  *)
(* every size it is resized to, every parameter and any number of          *)
(* operations.                                                             *)
(*                                                                         *)
(* The inductive invariant (IInv) says that both buffers are screens of    *)
(* the terminal's size with the cursor and the margins on them, and how    *)
(* the renderer's flags go together.  The rest is about single operations: *)
(* Draws says that one changed the active screen only, Does what it made   *)
(* of the rows and cells.  Most of the work is arithmetic on flat indices  *)
(* (Below, Within, DivisionExact), which makes rows of them.               *)
(***************************************************************************)
EXTENDS Screen, SequenceTheorems, WellFoundedInduction, TLAPS

-----------------------------------------------------------------------------
(* Well-formed terminals, and changes of the active screen.                *)

\* The names of the two screens.
Buffers == {"primary", "alternate"}

\* A screen of that size: the cursor, the margins and the cells fit it.
GoodScreen(s, columns, rows) ==
  /\ DOMAIN s = {"columns", "rows", "x", "y", "scrollTop", "scrollBottom", "cells"}
  /\ s.columns = columns /\ s.rows = rows
  /\ s.x \in 0 .. columns - 1 /\ s.y \in 0 .. rows - 1
  /\ s.scrollTop \in 0 .. s.scrollBottom /\ s.scrollBottom \in 0 .. rows - 1
  /\ s.cells \in [0 .. columns * rows - 1 -> Cells]

\* A terminal with two screens of its size.
Good(t) ==
  /\ DOMAIN t = {"columns", "rows", "primary", "alternate", "active", "saved", "current",
                 "cursorVisible", "insertMode", "lastGraphic"}
  /\ t.columns \in Nat \ {0} /\ t.rows \in Nat \ {0}
  /\ t.active \in Buffers
  /\ \A b \in Buffers : GoodScreen(t[b], t.columns, t.rows)
  /\ t.saved \in [x : Nat, y : Nat, style : Styles] /\ t.current \in Styles
  /\ t.lastGraphic \in Cells \cup {NoGraphic}

\* The terminal with the screen s in the place of the active one.
Over(t, s) == [t EXCEPT ![t.active] = s]

\* u is t after something was done to its active screen only.
Draws(t, u) ==
  /\ Good(u)
  /\ u.columns = t.columns /\ u.rows = t.rows /\ u.active = t.active
  /\ u.current = t.current
  /\ \A b \in Buffers : b # t.active => u[b] = t[b]

\* What replacing the active screen of a terminal (the code's screen getter)
\* leaves alone.
LEMMA OverShape ==
  ASSUME NEW t, Good(t), NEW s
  PROVE  /\ Active(Over(t, s)) = s
         /\ \A b \in Buffers : b # t.active => Over(t, s)[b] = t[b]
         /\ Over(t, s).columns = t.columns /\ Over(t, s).rows = t.rows
         /\ Over(t, s).active = t.active /\ Over(t, s).current = t.current
         /\ Over(t, s).saved = t.saved
         /\ Over(t, s).lastGraphic = t.lastGraphic
         /\ Over(t, s).insertMode = t.insertMode
         /\ Over(t, s).cursorVisible = t.cursorVisible
<1>1. CASE t.active = "primary"
  BY <1>1 DEF Good, Over, Active, Buffers
<1>2. CASE t.active = "alternate"
  BY <1>2 DEF Good, Over, Active, Buffers
<1> QED BY <1>1, <1>2 DEF Good, Buffers

\* A well-formed screen in the place of the active one gives a well-formed
\* terminal.
LEMMA OverDraws ==
  ASSUME NEW t, Good(t), NEW s, GoodScreen(s, t.columns, t.rows)
  PROVE  Draws(t, Over(t, s)) /\ Active(Over(t, s)) = s
<1> DEFINE u == Over(t, s)
<1>1. DOMAIN u = DOMAIN t
  BY DEF Over
<1>2. ASSUME NEW b \in Buffers
      PROVE  GoodScreen(u[b], t.columns, t.rows)
  <2>1. CASE b = t.active
    BY <2>1, OverShape DEF Active
  <2>2. CASE b # t.active
    BY <2>2, OverShape DEF Good
  <2> QED BY <2>1, <2>2
<1> HIDE DEF u
<1> QED BY <1>1, <1>2, OverShape DEF Draws, Good, u

\* index(x, y) of a place on the screen is an index of the cells.
LEMMA IndexIn ==
  ASSUME NEW c \in Nat, NEW r \in Nat, NEW x \in 0 .. c - 1, NEW y \in 0 .. r - 1
  PROVE  y * c + x \in 0 .. c * r - 1
  OBVIOUS

\* The setter of x changes the active screen and nothing else.
LEMMA SetXOver ==
  ASSUME NEW t, NEW v
  PROVE  SetX(t, v) = Over(t, [Active(t) EXCEPT !.x = Clamp(v, 0, t.columns - 1)])
  BY DEF SetX, Over, Active

\* The setter of y changes the active screen and nothing else.
LEMMA SetYOver ==
  ASSUME NEW t, NEW v
  PROVE  SetY(t, v) = Over(t, [Active(t) EXCEPT !.y = Clamp(v, 0, t.rows - 1)])
  BY DEF SetY, Over, Active

\* Writing cells changes the active screen and nothing else.
LEMMA SetCellsOver ==
  ASSUME NEW t, NEW cells
  PROVE  SetCells(t, cells) = Over(t, [Active(t) EXCEPT !.cells = cells])
  BY DEF SetCells, Over, Active

\* The active screen of a well-formed terminal is well formed.
LEMMA ActiveGood ==
  ASSUME NEW t, Good(t)
  PROVE  GoodScreen(Active(t), t.columns, t.rows)
  BY Zenon DEF Active, Good

\* The setter of x clamps any number to a column of the screen.
LEMMA SetXDraws ==
  ASSUME NEW t, Good(t), NEW v \in Int
  PROVE  /\ Draws(t, SetX(t, v))
         /\ Active(SetX(t, v)) = [Active(t) EXCEPT !.x = Clamp(v, 0, t.columns - 1)]
<1>1. Clamp(v, 0, t.columns - 1) \in 0 .. t.columns - 1
  BY DEF Clamp, Good
<1>2. GoodScreen([Active(t) EXCEPT !.x = Clamp(v, 0, t.columns - 1)], t.columns, t.rows)
  BY <1>1, ActiveGood DEF GoodScreen
<1> QED BY <1>2, SetXOver, OverDraws, Zenon

\* The setter of y clamps any number to a row of the screen.
LEMMA SetYDraws ==
  ASSUME NEW t, Good(t), NEW v \in Int
  PROVE  /\ Draws(t, SetY(t, v))
         /\ Active(SetY(t, v)) = [Active(t) EXCEPT !.y = Clamp(v, 0, t.rows - 1)]
<1>1. Clamp(v, 0, t.rows - 1) \in 0 .. t.rows - 1
  BY DEF Clamp, Good
<1>2. GoodScreen([Active(t) EXCEPT !.y = Clamp(v, 0, t.rows - 1)], t.columns, t.rows)
  BY <1>1, ActiveGood DEF GoodScreen
<1> QED BY <1>2, SetYOver, OverDraws, Zenon

\* Cells of the right number and kind can be written to the active screen.
LEMMA SetCellsDraws ==
  ASSUME NEW t, Good(t), NEW cells \in [0 .. t.columns * t.rows - 1 -> Cells]
  PROVE  /\ Draws(t, SetCells(t, cells))
         /\ Active(SetCells(t, cells)) = [Active(t) EXCEPT !.cells = cells]
<1>2. GoodScreen([Active(t) EXCEPT !.cells = cells], t.columns, t.rows)
  BY ActiveGood DEF GoodScreen
<1> QED BY <1>2, SetCellsOver, OverDraws, Zenon

\* Two changes of the active screen, one after the other, are one.
LEMMA DrawsTwice ==
  ASSUME NEW t, NEW u, NEW w, Draws(t, u), Draws(u, w)
  PROVE  Draws(t, w)
  BY DEF Draws

\* makeCell with a style of the terminal makes a cell.
LEMMA StyleCells ==
  ASSUME NEW style \in Styles, NEW code \in 0 .. Columns * Rows \cup {Typed}
  PROVE  Cell(code, style) \in Cells
<1>1. CASE style = Plain
  BY <1>1 DEF Cell, Cells, Plain
<1>2. CASE style = Reversed
  BY <1>2 DEF Cell, Cells, Reversed
<1> QED BY <1>1, <1>2 DEF Styles

\* The blanks that erasing and scrolling write (blank, eraseCell) and a typed
\* character are cells.
LEMMA BlankCells ==
  ASSUME NEW t, Good(t)
  PROVE  /\ BlankCell \in Cells /\ EraseCell(t) \in Cells
         /\ Cell(Space, t.current) \in Cells /\ Cell(Typed, t.current) \in Cells
<1>1. Space \in 0 .. Columns * Rows
  BY ScreenAssumption DEF Space
<1>2. Plain \in Styles /\ t.current \in Styles
  BY DEF Styles, Good
<1>3. EraseCell(t) \in Cells
  <2>1. \A c \in Cells : [c EXCEPT !.decorated = FALSE] \in Cells
    BY DEF Cells
  <2> QED BY <1>1, <1>2, <2>1, StyleCells DEF EraseCell
<1> QED BY <1>1, <1>2, <1>3, StyleCells DEF BlankCell

-----------------------------------------------------------------------------
(* Lines: rows of the flat layout.                                         *)

\* Multiplication by the number of columns is monotone and distributes.
LEMMA Times ==
  ASSUME NEW a \in Int, NEW b \in Int, NEW c \in Nat
  PROVE  /\ a * c \in Int /\ b * c \in Int
         /\ a <= b => a * c <= b * c
         /\ (a + b) * c = a * c + b * c /\ (a - b) * c = a * c - b * c
  OBVIOUS

\* Of two places of the flat layout, the one in the earlier row comes first:
\* index(x, y) is before row k exactly if y is.
LEMMA Below ==
  ASSUME NEW c \in Nat, NEW x \in 0 .. c - 1, NEW y \in Int, NEW k \in Int
  PROVE  (y * c + x < k * c) <=> (y < k)
<1>1. ASSUME y < k PROVE y * c + x < k * c
  <2>1. (y + 1) * c <= k * c
    BY <1>1
  <2> QED BY <2>1
<1>2. ASSUME y >= k PROVE y * c + x >= k * c
  <2>1. y * c >= k * c
    BY <1>2
  <2> QED BY <2>1
<1>3. y * c \in Int /\ k * c \in Int
  OBVIOUS
<1> QED BY <1>1, <1>2, <1>3

\* The same where the row is a sum or a difference, as the offsets of
\* scrollLines are.
LEMMA Within ==
  ASSUME NEW c \in Nat, NEW x \in 0 .. c - 1, NEW y \in Int, NEW k \in Int, NEW n \in Int
  PROVE  /\ (y * c + x < k * c + n * c) <=> (y < k + n)
         /\ (y * c + x < k * c - n * c) <=> (y < k - n)
<1>1. k + n \in Int /\ k - n \in Int
  OBVIOUS
<1>2. /\ (y * c + x < (k + n) * c) <=> (y < k + n)
      /\ (y * c + x < (k - n) * c) <=> (y < k - n)
  BY <1>1, Below, Zenon
<1> QED BY <1>2, Times, Zenon

\* What the active screen of u shows is what that of t showed, or blanks.
Blanked(t, u) ==
  \A i \in DOMAIN Active(u).cells :
    \/ Active(u).cells[i] = EraseCell(t)
    \/ \E j \in DOMAIN Active(t).cells : Active(u).cells[i] = Active(t).cells[j]

\* scrollLines, cell by cell: inside the rows it is given a cell comes from the
\* row number further on or is a blank, outside it stays; copyWithin on flat
\* indices moves whole rows.
LEMMA ScrollLinesCells ==
  ASSUME NEW t, Good(t), NEW bottom \in 0 .. t.rows - 1, NEW top \in 0 .. bottom,
         NEW number \in Nat \ {0}, NEW down \in BOOLEAN
  PROVE  LET u == ScrollLines(t, top, bottom, number, down)
             old == Active(t).cells
             new == Active(u).cells
         IN /\ Draws(t, u)
            /\ Active(u) = [Active(t) EXCEPT !.cells = new]
            /\ Blanked(t, u)
            /\ \A x \in 0 .. t.columns - 1, y \in 0 .. t.rows - 1 :
                 LET from == IF down THEN y - number ELSE y + number
                 IN new[y * t.columns + x] =
                      IF y \notin top .. bottom THEN old[y * t.columns + x]
                      ELSE IF from \in top .. bottom THEN old[from * t.columns + x]
                      ELSE EraseCell(t)
<1> DEFINE c == t.columns
           u == ScrollLines(t, top, bottom, number, down)
           old == Active(t).cells
           count == Clamp(number, 1, bottom - top + 1)
           start == top * c
           end == (bottom + 1) * c
           offset == count * c
           copied == IF down THEN CopyWithin(old, start + offset, start, end - offset)
                     ELSE CopyWithin(old, start, start + offset, end)
           blankStart == IF down THEN start ELSE end - offset
           new == [i \in DOMAIN old |->
                     IF blankStart <= i /\ i < blankStart + offset THEN EraseCell(t) ELSE copied[i]]
<1>1. c \in Nat \ {0} /\ t.rows \in Nat \ {0} /\ old \in [0 .. c * t.rows - 1 -> Cells]
  BY ActiveGood, SMT, Z3 DEF Good, GoodScreen
<1>2. count \in 1 .. bottom - top + 1
  BY DEF Clamp
<1>3. u = SetCells(t, new)
  BY DEF ScrollLines
<1> HIDE DEF count, u, c
<1>4. /\ start \in Nat /\ end \in Nat /\ offset \in Nat
      /\ offset <= end - start /\ end <= c * t.rows
  <2>1. /\ count \in Int /\ bottom + 1 \in Int /\ top \in Int /\ t.rows \in Int /\ c \in Nat
        /\ (bottom + 1) - top \in Int /\ count <= (bottom + 1) - top /\ bottom + 1 <= t.rows
    BY <1>1, <1>2
  <2>2. /\ count * c <= ((bottom + 1) - top) * c /\ (bottom + 1) * c <= t.rows * c
    BY <2>1, Times, Zenon
  <2>5. ((bottom + 1) - top) * c = end - start
    BY <2>1, Times, ZenonT(30)
  <2>3. start \in Nat /\ end \in Nat /\ offset \in Nat /\ c * t.rows = t.rows * c
    BY <1>1, <1>2
  <2>4. offset = count * c /\ end = (bottom + 1) * c
    OBVIOUS
  <2> QED BY <2>2, <2>3, <2>4, <2>5
<1> HIDE DEF start, end, offset
<1>5. ASSUME NEW i \in DOMAIN old
      PROVE  IF start <= i /\ i < end
             THEN new[i] = IF down THEN (IF i < start + offset THEN EraseCell(t) ELSE old[i - offset])
                           ELSE (IF i >= end - offset THEN EraseCell(t) ELSE old[i + offset])
             ELSE new[i] = old[i]
  <2>0. i \in Int /\ new[i] = IF blankStart <= i /\ i < blankStart + offset THEN EraseCell(t) ELSE copied[i]
    BY <1>1
  <2>1. CASE down
    <3>1. copied[i] = IF start + offset <= i /\ i < start + offset + ((end - offset) - start)
                      THEN old[start + i - (start + offset)] ELSE old[i]
      BY <2>1, Zenon DEF CopyWithin
    <3>2. start + i - (start + offset) = i - offset /\ start + offset + ((end - offset) - start) = end
      BY <2>0, <1>4
    <3>3. blankStart = start
      BY <2>1
    <3> HIDE DEF new, copied, blankStart
    <3> QED BY <2>0, <2>1, <3>1, <3>2, <3>3, <1>4
  <2>2. CASE ~down
    <3>1. copied[i] = IF start <= i /\ i < start + (end - (start + offset))
                      THEN old[(start + offset) + i - start] ELSE old[i]
      BY <2>2, Zenon DEF CopyWithin
    <3>2. (start + offset) + i - start = i + offset /\ start + (end - (start + offset)) = end - offset
      BY <2>0, <1>4
    <3>3. blankStart = end - offset
      BY <2>2
    <3> HIDE DEF new, copied, blankStart
    <3> QED BY <2>0, <2>2, <3>1, <3>2, <3>3, <1>4
  <2> QED BY <2>1, <2>2
<1>6. DOMAIN new = DOMAIN old /\ DOMAIN old = 0 .. c * t.rows - 1
  BY <1>1
<1> HIDE DEF new
<1>7. \A i \in DOMAIN new : new[i] = EraseCell(t) \/ \E j \in DOMAIN old : new[i] = old[j]
  <2> SUFFICES ASSUME NEW i \in DOMAIN old
               PROVE  new[i] = EraseCell(t) \/ \E j \in DOMAIN old : new[i] = old[j]
    BY <1>6
  <2>1. CASE ~(start <= i /\ i < end)
    BY <1>5, <2>1
  <2>2. CASE (start <= i /\ i < end) /\ down /\ i >= start + offset
    <3>1. i - offset \in DOMAIN old
      BY <1>1, <1>4, <1>6, <2>2, SMT, Z3
    <3>2. new[i] = old[i - offset]
      BY <1>1, <1>4, <1>5, <1>6, <2>2
    <3> QED BY <3>1, <3>2
  <2>3. CASE (start <= i /\ i < end) /\ ~down /\ i < end - offset
    <3>1. i + offset \in DOMAIN old
      BY <1>1, <1>4, <1>6, <2>3, SMT, Z3
    <3>2. new[i] = old[i + offset]
      BY <1>1, <1>4, <1>5, <1>6, <2>3
    <3> QED BY <3>1, <3>2
  <2>4. CASE (start <= i /\ i < end) /\ down /\ i < start + offset
    BY <1>5, <2>4
  <2>5. CASE (start <= i /\ i < end) /\ ~down /\ i >= end - offset
    BY <1>5, <2>5
  <2> QED BY <1>1, <1>4, <1>6, <2>1, <2>2, <2>3, <2>4, <2>5
<1>8. new \in [0 .. c * t.rows - 1 -> Cells]
  <2>1. \A i \in DOMAIN new : new[i] \in Cells
    BY <1>1, <1>7, BlankCells
  <2>2. new = [i \in DOMAIN old |-> new[i]]
    BY DEF new
  <2> QED BY <1>6, <2>1, <2>2
<1>9. Draws(t, u) /\ Active(u) = [Active(t) EXCEPT !.cells = new]
  BY <1>3, <1>8, SetCellsDraws DEF c
<1>10. Active(u).cells = new
  BY <1>9, ActiveGood DEF GoodScreen
<1>11. ASSUME NEW x \in 0 .. c - 1, NEW y \in 0 .. t.rows - 1
       PROVE  LET from == IF down THEN y - number ELSE y + number
              IN new[y * c + x] =
                      IF y \notin top .. bottom THEN old[y * c + x]
                      ELSE IF from \in top .. bottom THEN old[from * c + x]
                      ELSE EraseCell(t)
  <2> DEFINE i == y * c + x
  <2>0. /\ c \in Nat /\ t.rows \in Nat /\ y \in Int /\ top \in Int /\ bottom + 1 \in Int
        /\ top + count \in Int /\ (bottom + 1) - count \in Int /\ count \in Int
    BY <1>1, <1>2
  <2>1. i \in DOMAIN old
    BY <1>6, <2>0, IndexIn, Zenon
  <2>2. (i < start) <=> (y < top)
    BY <2>0, Below, Zenon DEF start
  <2>3. (i < end) <=> (y < bottom + 1)
    BY <2>0, Below, Zenon DEF end
  <2>4. (i < start + offset) <=> (y < top + count)
    BY <2>0, Within, Zenon DEF start, offset
  <2>5. (i < end - offset) <=> (y < (bottom + 1) - count)
    BY <2>0, Within, Zenon DEF end, offset
  <2>6. i - offset = (y - count) * c + x /\ i + offset = (y + count) * c + x
    BY <1>1, <1>2 DEF offset
  <2>7. i \in Int
    BY <1>1
  <2> HIDE DEF i
  <2>8. CASE y \notin top .. bottom
    <3>1. ~(start <= i /\ i < end)
      BY <1>4, <2>2, <2>3, <2>7, <2>8
    <3> QED BY <1>5, <2>1, <2>8, <3>1 DEF i
  <2>9. CASE y \in top .. bottom
    <3>0. start <= i /\ i < end
      BY <1>4, <2>2, <2>3, <2>7, <2>9
    <3>1. CASE down
      <4>1. new[i] = IF i < start + offset THEN EraseCell(t) ELSE old[i - offset]
        BY <1>5, <2>1, <3>0, <3>1
      <4>2. new[i] = IF y < top + count THEN EraseCell(t) ELSE old[(y - count) * c + x]
        BY <4>1, <2>4, <2>6
      <4>3. CASE number <= bottom - top + 1
        <5>1. count = number
          BY <4>3 DEF count, Clamp
        <5> QED BY <4>2, <5>1, <2>9, <3>1 DEF i
      <4>4. CASE number > bottom - top + 1
        <5>1. count = bottom - top + 1
          BY <4>4 DEF count, Clamp
        <5>2. y < top + count /\ y - number \notin top .. bottom
          BY <5>1, <4>4, <2>9
        <5> QED BY <4>2, <5>2, <2>9, <3>1 DEF i
      <4> QED BY <4>3, <4>4
    <3>2. CASE ~down
      <4>1. new[i] = IF i >= end - offset THEN EraseCell(t) ELSE old[i + offset]
        BY <1>5, <2>1, <3>0, <3>2
      <4>2. new[i] = IF y >= (bottom + 1) - count THEN EraseCell(t) ELSE old[(y + count) * c + x]
        BY <4>1, <2>5, <2>6, <2>7, <1>2, <1>4
      <4>3. CASE number <= bottom - top + 1
        <5>1. count = number
          BY <4>3 DEF count, Clamp
        <5> QED BY <4>2, <5>1, <2>9, <3>2 DEF i
      <4>4. CASE number > bottom - top + 1
        <5>1. count = bottom - top + 1
          BY <4>4 DEF count, Clamp
        <5>2. y >= (bottom + 1) - count /\ y + number \notin top .. bottom
          BY <5>1, <4>4, <2>9
        <5> QED BY <4>2, <5>2, <2>9, <3>2 DEF i
      <4> QED BY <4>3, <4>4
    <3> QED BY <3>1, <3>2
  <2> QED BY <2>8, <2>9
<1>12. Blanked(t, u)
  BY <1>7, <1>10 DEF Blanked
<1> QED BY <1>9, <1>10, <1>11, <1>12 DEF u, c

\* u is t with the same cells on its active screen.
SameCells(t, u) == Draws(t, u) /\ Active(u).cells = Active(t).cells

\* A terminal with the same cells has the same rows, and scrolls to the same
\* rows.
LEMMA SameCellsRows ==
  ASSUME NEW t, NEW u, SameCells(t, u)
  PROVE  /\ AllRows(u) = AllRows(t) /\ Blanked(t, u) /\ EraseCell(u) = EraseCell(t)
         /\ \A first, last, n, down : Moved(u, first, last, n, down) = Moved(t, first, last, n, down)
<1>1. u.columns = t.columns /\ u.rows = t.rows /\ u.current = t.current /\ u.active = t.active
  BY DEF SameCells, Draws
<1>2. u[u.active].cells = t[t.active].cells
  BY DEF SameCells, Active
<1>3. \A y : RowOf(u, u.active, y) = RowOf(t, t.active, y)
  BY <1>1, <1>2 DEF RowOf, Index
<1>4. EraseCell(u) = EraseCell(t)
  BY <1>1 DEF EraseCell
<1>5. AllRows(u) = AllRows(t)
  BY <1>1, <1>3 DEF AllRows
<1>6. Blanked(t, u)
  BY DEF SameCells, Blanked
<1>7. \A first, last, n, down : Moved(u, first, last, n, down) = Moved(t, first, last, n, down)
  BY <1>1, <1>3, <1>4 DEF Moved
<1> QED BY <1>4, <1>5, <1>6, <1>7

\* Moving the cursor in its row writes no cell and keeps the margins.
LEMMA SetXSame ==
  ASSUME NEW t, Good(t), NEW v \in Int
  PROVE  /\ SameCells(t, SetX(t, v)) /\ Good(SetX(t, v))
         /\ Active(SetX(t, v)).x = Clamp(v, 0, t.columns - 1)
         /\ Active(SetX(t, v)).y = Active(t).y
         /\ Active(SetX(t, v)).scrollTop = Active(t).scrollTop
         /\ Active(SetX(t, v)).scrollBottom = Active(t).scrollBottom
<1>1. /\ Draws(t, SetX(t, v))
      /\ Active(SetX(t, v)) = [Active(t) EXCEPT !.x = Clamp(v, 0, t.columns - 1)]
  BY SetXDraws, Zenon
<1>2. DOMAIN Active(t) = {"columns", "rows", "x", "y", "scrollTop", "scrollBottom", "cells"}
  BY ActiveGood DEF GoodScreen
<1> QED BY <1>1, <1>2 DEF SameCells, Draws

\* Moving the cursor to another row writes no cell and keeps the margins.
LEMMA SetYSame ==
  ASSUME NEW t, Good(t), NEW v \in Int
  PROVE  /\ SameCells(t, SetY(t, v)) /\ Good(SetY(t, v))
         /\ Active(SetY(t, v)).y = Clamp(v, 0, t.rows - 1)
         /\ Active(SetY(t, v)).x = Active(t).x
         /\ Active(SetY(t, v)).scrollTop = Active(t).scrollTop
         /\ Active(SetY(t, v)).scrollBottom = Active(t).scrollBottom
<1>1. /\ Draws(t, SetY(t, v))
      /\ Active(SetY(t, v)) = [Active(t) EXCEPT !.y = Clamp(v, 0, t.rows - 1)]
  BY SetYDraws, Zenon
<1>2. DOMAIN Active(t) = {"columns", "rows", "x", "y", "scrollTop", "scrollBottom", "cells"}
  BY ActiveGood DEF GoodScreen
<1> QED BY <1>1, <1>2 DEF SameCells, Draws

\* scrollLines moves whole rows, as Moved says, whatever the count: more rows
\* than there are blank them all.
LEMMA ScrollLinesDone ==
  ASSUME NEW t, Good(t), NEW bottom \in 0 .. t.rows - 1, NEW top \in 0 .. bottom,
         NEW number \in Nat \ {0}, NEW down \in BOOLEAN
  PROVE  LET u == ScrollLines(t, top, bottom, number, down)
         IN Draws(t, u) /\ Blanked(t, u) /\ AllRows(u) = Moved(t, top, bottom, number, down)
<1> DEFINE u == ScrollLines(t, top, bottom, number, down)
           old == Active(t).cells
           new == Active(u).cells
           from(y) == IF down THEN y - number ELSE y + number
<1>1. Draws(t, u) /\ Blanked(t, u)
  BY ScrollLinesCells, Zenon
<1>2. \A x \in 0 .. t.columns - 1, y \in 0 .. t.rows - 1 :
        new[y * t.columns + x] = IF y \notin top .. bottom THEN old[y * t.columns + x]
                                 ELSE IF from(y) \in top .. bottom THEN old[from(y) * t.columns + x]
                                 ELSE EraseCell(t)
  BY ScrollLinesCells
<1> HIDE DEF u
<1>3. u.columns = t.columns /\ u.rows = t.rows /\ u.active = t.active
  BY <1>1 DEF Draws
<1>4. ASSUME NEW y \in 0 .. t.rows - 1
      PROVE  RowOf(u, u.active, y) = IF y \notin top .. bottom THEN RowOf(t, t.active, y)
                                     ELSE IF from(y) \in top .. bottom THEN RowOf(t, t.active, from(y))
                                     ELSE [x \in 0 .. t.columns - 1 |-> EraseCell(t)]
  <2>1. RowOf(u, u.active, y) = [x \in 0 .. t.columns - 1 |-> new[y * t.columns + x]]
    BY <1>3 DEF RowOf, Index, Active
  <2>2. \A z : RowOf(t, t.active, z) = [x \in 0 .. t.columns - 1 |-> old[z * t.columns + x]]
    BY DEF RowOf, Index, Active
  <2>3. CASE y \notin top .. bottom
    BY <1>2, <2>1, <2>2, <2>3
  <2>4. CASE y \in top .. bottom /\ from(y) \in top .. bottom
    <3> HIDE DEF from
    <3>1. \A x \in 0 .. t.columns - 1 : new[y * t.columns + x] = old[from(y) * t.columns + x]
      BY <1>2, <2>4
    <3>2. RowOf(t, t.active, from(y)) = [x \in 0 .. t.columns - 1 |-> old[from(y) * t.columns + x]]
      BY <2>2
    <3> QED BY <2>1, <2>4, <3>1, <3>2
  <2>5. CASE y \in top .. bottom /\ from(y) \notin top .. bottom
    <3> HIDE DEF from
    <3>1. \A x \in 0 .. t.columns - 1 : new[y * t.columns + x] = EraseCell(t)
      BY <1>2, <2>5
    <3> QED BY <2>1, <2>5, <3>1
  <2> QED BY <2>3, <2>4, <2>5
<1>5. AllRows(u) = Moved(t, top, bottom, number, down)
  BY <1>3, <1>4 DEF AllRows, Moved
<1> QED BY <1>1, <1>5 DEF u

\* The cursor and the margins of a well-formed terminal are on its screen.
LEMMA OnScreen ==
  ASSUME NEW t, Good(t)
  PROVE  /\ t.columns \in Nat \ {0} /\ t.rows \in Nat \ {0}
         /\ Active(t).x \in 0 .. t.columns - 1 /\ Active(t).y \in 0 .. t.rows - 1
         /\ Active(t).scrollBottom \in 0 .. t.rows - 1
         /\ Active(t).scrollTop \in 0 .. Active(t).scrollBottom
         /\ Active(t).cells \in [0 .. t.columns * t.rows - 1 -> Cells]
  BY ActiveGood DEF GoodScreen, Good

\* lineFeed scrolls the margins up by a row at the lower one, and only moves
\* the cursor elsewhere.
LEMMA LineFeedDone ==
  ASSUME NEW t, Good(t)
  PROVE  /\ Draws(t, LineFeed(t)) /\ Blanked(t, LineFeed(t))
         /\ AllRows(LineFeed(t)) =
              IF Active(t).y = Active(t).scrollBottom
              THEN Moved(t, Active(t).scrollTop, Active(t).scrollBottom, 1, FALSE) ELSE AllRows(t)
<1>1. CASE Active(t).y = Active(t).scrollBottom
  <2>1. 1 \in Nat \ {0} /\ FALSE \in BOOLEAN
    OBVIOUS
  <2> QED BY <1>1, <2>1, OnScreen, ScrollLinesDone, Zenon DEF LineFeed, Scroll
<1>2. CASE Active(t).y # Active(t).scrollBottom
  <2>1. Active(t).y + 1 \in Int
    BY OnScreen
  <2> QED BY <1>2, <2>1, SetYSame, SameCellsRows, Zenon DEF LineFeed, SameCells
<1> QED BY <1>1, <1>2

\* reverseIndex scrolls the margins down by a row at the upper one, and only
\* moves the cursor elsewhere.
LEMMA ReverseIndexDone ==
  ASSUME NEW t, Good(t)
  PROVE  /\ Draws(t, ReverseIndex(t)) /\ Blanked(t, ReverseIndex(t))
         /\ AllRows(ReverseIndex(t)) =
              IF Active(t).y = Active(t).scrollTop
              THEN Moved(t, Active(t).scrollTop, Active(t).scrollBottom, 1, TRUE) ELSE AllRows(t)
<1>1. CASE Active(t).y = Active(t).scrollTop
  <2>1. 1 \in Nat \ {0} /\ TRUE \in BOOLEAN
    OBVIOUS
  <2> QED BY <1>1, <2>1, OnScreen, ScrollLinesDone, Zenon DEF ReverseIndex, Scroll
<1>2. CASE Active(t).y # Active(t).scrollTop
  <2>1. Active(t).y - 1 \in Int
    BY OnScreen
  <2> QED BY <1>2, <2>1, SetYSame, SameCellsRows, Zenon DEF ReverseIndex, SameCells
<1> QED BY <1>1, <1>2

\* changeLines moves the rows from the cursor to the lower margin, and does
\* nothing outside the margins.
LEMMA ChangeLinesDone ==
  ASSUME NEW t, Good(t), NEW number \in Nat \ {0}, NEW insert \in BOOLEAN
  PROVE  LET u == ChangeLines(t, number, insert)
         IN /\ Draws(t, u) /\ Blanked(t, u)
            /\ AllRows(u) = IF Active(t).y \in Active(t).scrollTop .. Active(t).scrollBottom
                            THEN Moved(t, Active(t).y, Active(t).scrollBottom, number, insert)
                            ELSE AllRows(t)
<1>1. CASE Active(t).y \notin Active(t).scrollTop .. Active(t).scrollBottom
  BY <1>1 DEF ChangeLines, Blanked, Draws
<1>2. CASE Active(t).y \in Active(t).scrollTop .. Active(t).scrollBottom
  <2> DEFINE w == ScrollLines(t, Active(t).y, Active(t).scrollBottom, number, insert)
             u == SetX(w, 0)
  <2>1. Active(t).y \in 0 .. Active(t).scrollBottom /\ Active(t).scrollBottom \in 0 .. t.rows - 1
    BY <1>2, OnScreen
  <2>2. /\ Draws(t, w) /\ Blanked(t, w)
        /\ AllRows(w) = Moved(t, Active(t).y, Active(t).scrollBottom, number, insert)
    BY <2>1, ScrollLinesDone, Zenon
  <2>3. ChangeLines(t, number, insert) = u
    BY <1>2 DEF ChangeLines
  <2> HIDE DEF w
  <2>4. SameCells(w, u)
    BY <2>2, SetXSame DEF Draws
  <2>5. AllRows(u) = AllRows(w)
    BY <2>4, SameCellsRows
  <2>6. Draws(t, u) /\ Blanked(t, u)
    BY <2>2, <2>4, DrawsTwice DEF SameCells, Blanked
  <2> QED BY <1>2, <2>2, <2>3, <2>5, <2>6
<1> QED BY <1>1, <1>2

-----------------------------------------------------------------------------
(* Characters.                                                             *)

\* A set of numbers that is not empty has a least one.
LEMMA LeastNat ==
  ASSUME NEW S, S \subseteq Nat, S # {}
  PROVE  \E x \in S : \A y \in S : x <= y
<1> DEFINE Less == {z \in Nat \X Nat : z[1] < z[2]}
<1>1. IsWellFoundedOn(Less, Nat)
  BY NatLessThanWellFounded DEF OpToRel
<1> HIDE DEF Less
<1>2. PICK x \in S : \A y \in S : <<y, x>> \notin Less
  BY <1>1, WFMin, Zenon
<1>3. \A y \in S : ~(y < x)
  BY <1>2, Zenon DEF Less
<1>4. \A y \in S : x <= y
  BY <1>3
<1> QED BY <1>4

\* Remembering the last character changes no screen.
LEMMA GraphicDraws ==
  ASSUME NEW t, Good(t), NEW cell \in Cells
  PROVE  LET u == [t EXCEPT !.lastGraphic = cell]
         IN Draws(t, u) /\ Active(u) = Active(t)
<1> DEFINE u == [t EXCEPT !.lastGraphic = cell]
<1>1. /\ DOMAIN u = DOMAIN t /\ u.lastGraphic = cell
      /\ u.columns = t.columns /\ u.rows = t.rows /\ u.active = t.active /\ u.saved = t.saved
      /\ u.current = t.current /\ u.primary = t.primary /\ u.alternate = t.alternate
  BY DEF Good
<1> HIDE DEF u
<1>2. \A b \in Buffers : u[b] = t[b]
  BY <1>1 DEF Buffers
<1>3. t.active \in Buffers
  BY DEF Good
<1>4. Good(u)
  BY <1>1, <1>2 DEF Good
<1> QED BY <1>1, <1>2, <1>3, <1>4 DEF Draws, Active, u

\* putCell, in insert mode or not, wrapping or not, changes only the active
\* screen and leaves it well formed.
LEMMA PutCellDraws ==
  ASSUME NEW t, Good(t), NEW cell \in Cells
  PROVE  Draws(t, PutCell(t, cell))
<1> DEFINE s == Active(t)
           here == Index(t, s.x, s.y)
           rowEnd == Index(t, t.columns - 1, s.y)
           shifted == IF t.insertMode
                      THEN [i \in DOMAIN s.cells |->
                              IF here < i /\ i <= rowEnd THEN s.cells[i - 1] ELSE s.cells[i]]
                      ELSE s.cells
           placed == [shifted EXCEPT ![here] = cell]
           put == SetCells(t, placed)
           written == [put EXCEPT !.lastGraphic = cell]
<1>1. s.cells \in [0 .. t.columns * t.rows - 1 -> Cells]
  BY OnScreen
<1>2. here \in Nat /\ rowEnd \in Int
  BY OnScreen, SMT, Z3 DEF Index
<1>3. shifted \in [0 .. t.columns * t.rows - 1 -> Cells]
  <2> DEFINE size == t.columns * t.rows
  <2>0. size \in Int /\ s.cells \in [0 .. size - 1 -> Cells]
    BY <1>1, OnScreen
  <2> HIDE DEF here, rowEnd, size
  <2>2. ASSUME NEW i \in DOMAIN s.cells
        PROVE  (IF here < i /\ i <= rowEnd THEN s.cells[i - 1] ELSE s.cells[i]) \in Cells
    <3>1. i \in 0 .. size - 1
      BY <2>0
    <3>2. CASE here < i /\ i <= rowEnd
      <4>1. i - 1 \in 0 .. size - 1
        BY <1>2, <2>0, <3>1, <3>2
      <4> QED BY <2>0, <3>2, <4>1
    <3>3. CASE ~(here < i /\ i <= rowEnd)
      BY <2>0, <3>1, <3>3
    <3> QED BY <3>2, <3>3
  <2>3. [i \in DOMAIN s.cells |-> IF here < i /\ i <= rowEnd THEN s.cells[i - 1] ELSE s.cells[i]]
          \in [0 .. t.columns * t.rows - 1 -> Cells]
    BY <1>1, <2>2
  <2> QED BY <1>1, <2>3
<1>4. placed \in [0 .. t.columns * t.rows - 1 -> Cells]
  <2> HIDE DEF shifted, here
  <2> QED BY <1>3
<1>5. Draws(t, put)
  <2> HIDE DEF placed
  <2> QED BY <1>4, SetCellsDraws, Zenon
<1>6. Draws(put, written)
  <2> HIDE DEF put
  <2> QED BY <1>5, GraphicDraws, Zenon DEF Draws
<1>7. PutCell(t, cell) = IF s.x = t.columns - 1 THEN LineFeed(SetX(written, 0)) ELSE SetX(written, s.x + 1)
  BY DEF PutCell
<1> HIDE DEF written, put
<1>8. Draws(t, written) /\ Good(written)
  BY <1>5, <1>6, DrawsTwice DEF Draws
<1>9. 0 \in Int /\ s.x + 1 \in Int
  BY OnScreen
<1>10. Draws(t, SetX(written, s.x + 1))
  <2>1. Draws(written, SetX(written, s.x + 1))
    BY <1>8, <1>9, SetXDraws, Zenon
  <2> QED BY <1>8, <2>1, DrawsTwice, Zenon
<1>11. Draws(t, SetX(written, 0)) /\ Good(SetX(written, 0))
  <2>1. Draws(written, SetX(written, 0))
    BY <1>8, <1>9, SetXDraws, Zenon
  <2> QED BY <1>8, <2>1, DrawsTwice DEF Draws
<1>12. Draws(t, LineFeed(SetX(written, 0)))
  <2>1. Draws(SetX(written, 0), LineFeed(SetX(written, 0)))
    BY <1>11, LineFeedDone, Zenon
  <2> QED BY <1>11, <2>1, DrawsTwice, Zenon
<1> QED BY <1>7, <1>10, <1>12

\* f[n] is the terminal t after n times the same character.
Repeats(f, t, cell, count) ==
  f = [n \in 0 .. count |-> IF n = 0 THEN t ELSE PutCell(f[n - 1], cell)]

\* The loop of repeatLast has a value after every number of rounds.
LEMMA RepeatExists ==
  ASSUME NEW t, NEW cell, NEW count \in Nat
  PROVE  \E f : Repeats(f, t, cell, count)
<1> DEFINE Q(k) == \E f : Repeats(f, t, cell, k)
           Bad == {k \in Nat : ~Q(k)}
<1> SUFFICES ASSUME Bad # {} PROVE FALSE
  OBVIOUS
<1>1. PICK k \in Bad : \A j \in Bad : k <= j
  <2>1. Bad \subseteq Nat
    OBVIOUS
  <2> HIDE DEF Bad
  <2> QED BY <2>1, LeastNat, Zenon
<1>2. k # 0
  <2>1. Q(0)
    <3> DEFINE f == [n \in 0 .. 0 |-> t]
    <3>1. f = [n \in 0 .. 0 |-> IF n = 0 THEN t ELSE PutCell(f[n - 1], cell)]
      OBVIOUS
    <3> QED BY <3>1, Zenon DEF Repeats
  <2> QED BY <2>1
<1>3. k - 1 \in Nat /\ ~(k <= k - 1)
  BY <1>2
<1>4. Q(k - 1)
  BY <1>1, <1>3
<1>5. PICK f : f = [n \in 0 .. k - 1 |-> IF n = 0 THEN t ELSE PutCell(f[n - 1], cell)]
  BY <1>4 DEF Repeats
<1> DEFINE g == [n \in 0 .. k |-> IF n = k THEN PutCell(f[k - 1], cell) ELSE f[n]]
<1>6. g = [n \in 0 .. k |-> IF n = 0 THEN t ELSE PutCell(g[n - 1], cell)]
  <2> SUFFICES ASSUME NEW n \in 0 .. k
               PROVE  g[n] = IF n = 0 THEN t ELSE PutCell(g[n - 1], cell)
    OBVIOUS
  <2>1. CASE n = k
    <3>1. g[n - 1] = f[k - 1] /\ n # 0
      BY <1>2, <1>3, <2>1
    <3> QED BY <2>1, <3>1
  <2>2. CASE n # k /\ n # 0
    <3>1. n \in 0 .. k - 1 /\ n - 1 \in 0 .. k - 1 /\ n - 1 # k
      BY <2>2
    <3>2. f[n] = PutCell(f[n - 1], cell)
      BY <1>5, <2>2, <3>1, Zenon
    <3> QED BY <2>2, <3>1, <3>2
  <2>3. CASE n # k /\ n = 0
    BY <1>2, <1>3, <1>5, <2>3
  <2> QED BY <2>1, <2>2, <2>3
<1>7. Q(k)
  BY <1>6, Zenon DEF Repeats
<1> QED BY <1>1, <1>7

\* repeatLast changes only the active screen, whatever the count, and nothing
\* before the first character.
LEMMA RepeatLastDraws ==
  ASSUME NEW t, Good(t), NEW number \in Nat
  PROVE  Draws(t, RepeatLast(t, number))
<1>1. CASE t.lastGraphic = NoGraphic
  BY <1>1 DEF RepeatLast, Draws
<1>2. CASE t.lastGraphic # NoGraphic
  <2> DEFINE cell == t.lastGraphic
             count == Clamp(number, 1, t.columns * t.rows)
             after[n \in 0 .. count] == IF n = 0 THEN t ELSE PutCell(after[n - 1], cell)
  <2>1. RepeatLast(t, number) = after[count]
    BY <1>2, Zenon DEF RepeatLast
  <2>2. after = CHOOSE f : Repeats(f, t, cell, count)
    BY Zenon DEF Repeats
  <2>3. cell \in Cells
    BY <1>2 DEF Good
  <2>4. count \in Nat
    <3>1. t.columns * t.rows \in Nat
      BY OnScreen
    <3> QED BY <3>1 DEF Clamp
  <2> HIDE DEF after, count, cell
  <2>5. after = [n \in 0 .. count |-> IF n = 0 THEN t ELSE PutCell(after[n - 1], cell)]
    <3>1. \E f : Repeats(f, t, cell, count)
      BY <2>4, RepeatExists, Zenon
    <3>2. Repeats(after, t, cell, count)
      BY <2>2, <3>1, Zenon
    <3> QED BY <3>2, Zenon DEF Repeats
  <2> DEFINE Bad == {n \in 0 .. count : ~Draws(t, after[n])}
  <2>6. Bad = {}
    <3> SUFFICES ASSUME Bad # {} PROVE FALSE
      OBVIOUS
    <3>1. PICK k \in Bad : \A j \in Bad : k <= j
      <4>1. Bad \subseteq Nat
        BY <2>4
      <4> HIDE DEF Bad
      <4> QED BY <4>1, LeastNat, Zenon
    <3>2. Draws(t, after[0]) /\ 0 \in 0 .. count
      BY <2>4, <2>5 DEF Draws
    <3>3. k # 0 /\ k \in 0 .. count
      BY <3>2
    <3>4. k - 1 \in 0 .. count /\ ~(k <= k - 1)
      BY <2>4, <3>3
    <3>5. Draws(t, after[k - 1])
      BY <3>1, <3>4
    <3>6. Draws(after[k - 1], PutCell(after[k - 1], cell))
      BY <2>3, <3>5, PutCellDraws, Zenon DEF Draws
    <3>7. after[k] = PutCell(after[k - 1], cell)
      BY <2>5, <3>3, Zenon
    <3> QED BY <3>5, <3>6, <3>7, DrawsTwice
  <2>7. count \in 0 .. count
    BY <2>4
  <2> QED BY <2>1, <2>6, <2>7
<1> QED BY <1>1, <1>2

\* An edit of the row of the cursor writes that row from the cursor on, and no
\* other cell.
LEMMA EditRowDone ==
  ASSUME NEW t, Good(t), NEW f \in [Active(t).x .. t.columns - 1 -> Cells]
  PROVE  LET u == EditRow(t, f)
             old == Active(t).cells
             new == Active(u).cells
         IN /\ Draws(t, u)
            /\ Active(u).y = Active(t).y
            /\ \A x \in 0 .. t.columns - 1, y \in 0 .. t.rows - 1 :
                 new[y * t.columns + x] =
                   IF y = Active(t).y /\ x >= Active(t).x THEN f[x] ELSE old[y * t.columns + x]
<1> DEFINE s == Active(t)
           c == t.columns
           size == c * t.rows
           row == Index(t, 0, s.y)
           new == [i \in DOMAIN s.cells |-> IF i - row \in DOMAIN f THEN f[i - row] ELSE s.cells[i]]
           u == EditRow(t, f)
<1>1. /\ c \in Nat \ {0} /\ t.rows \in Nat \ {0} /\ size \in Nat
      /\ s.cells \in [0 .. size - 1 -> Cells]
      /\ s.x \in 0 .. c - 1 /\ s.y \in 0 .. t.rows - 1
      /\ row \in Int /\ row = s.y * c
  BY OnScreen DEF Index
<1>2. u = SetCells(t, new)
  BY DEF EditRow
<1>3. new \in [0 .. size - 1 -> Cells]
  <2> HIDE DEF row, size
  <2> QED BY <1>1, SMT, Z3
<1>4. Draws(t, u) /\ Active(u) = [s EXCEPT !.cells = new]
  <2> HIDE DEF new
  <2> QED BY <1>2, <1>3, SetCellsDraws, ZenonT(30)
<1>5. Active(u).y = s.y /\ Active(u).cells = new
  <2>1. DOMAIN s = {"columns", "rows", "x", "y", "scrollTop", "scrollBottom", "cells"}
    BY ActiveGood DEF GoodScreen
  <2> HIDE DEF new, u, s
  <2> QED BY <1>4, <2>1
<1>6. ASSUME NEW x \in 0 .. c - 1, NEW y \in 0 .. t.rows - 1
      PROVE  new[y * c + x] = IF y = s.y /\ x >= s.x THEN f[x] ELSE s.cells[y * c + x]
  <2> DEFINE i == y * c + x
  <2> HIDE DEF c
  <2>1. c \in Nat /\ t.rows \in Nat /\ y \in Int /\ s.y \in Int /\ s.y + 1 \in Int
    BY <1>1
  <2>2. i \in DOMAIN s.cells
    BY <1>1, <2>1, IndexIn
  <2>3. (i < s.y * c) <=> (y < s.y)
    BY <2>1, Below, Zenon
  <2>4. (i < (s.y + 1) * c) <=> (y < s.y + 1)
    BY <2>1, Below, Zenon
  <2>5. (s.y + 1) * c = row + c
    BY <1>1
  <2>6. i \in Int /\ (y = s.y => i - row = x)
    BY <1>1
  <2>7. new[i] = IF i - row \in DOMAIN f THEN f[i - row] ELSE s.cells[i]
    BY <2>2
  <2>8. DOMAIN f = s.x .. c - 1
    BY DEF c
  <2> HIDE DEF i, row, s, new
  <2>9. s.x \in Int /\ c \in Int /\ row \in Int /\ row = s.y * c
    BY <1>1
  <2>10. CASE y = s.y
    <3>1. (i - row \in DOMAIN f) <=> (x >= s.x)
      BY <2>6, <2>8, <2>9, <2>10
    <3> QED BY <2>6, <2>7, <2>10, <3>1 DEF i
  <2>11. CASE y # s.y
    <3>1. i < row \/ ~(i < row + c)
      BY <2>1, <2>3, <2>4, <2>5, <2>9, <2>11
    <3>2. i - row \notin DOMAIN f
      <4>1. 0 <= s.x
        BY <1>1
      <4> QED BY <2>6, <2>8, <2>9, <3>1, <4>1
    <3> QED BY <2>7, <2>11, <3>2 DEF i
  <2> QED BY <2>10, <2>11
<1> HIDE DEF new, u
<1> QED BY <1>4, <1>5, <1>6 DEF u

\* eraseCharacters, insertCharacters and deleteCharacters edit the row of the
\* cursor by the cells named here, with a count clamped to what is left of the
\* row.
LEMMA CharactersDone ==
  ASSUME NEW t, Good(t), NEW number \in Nat
  PROVE  LET s == Active(t)
             n == Clamp(number, 1, t.columns - s.x)
             cell(x) == s.cells[Index(t, x, s.y)]
             blank == Cell(Space, t.current)
             erased == [x \in s.x .. t.columns - 1 |-> IF x < s.x + n THEN blank ELSE cell(x)]
             inserted == [x \in s.x .. t.columns - 1 |-> IF x < s.x + n THEN blank ELSE cell(x - n)]
             deleted == [x \in s.x .. t.columns - 1 |->
                           IF x >= t.columns - n THEN blank ELSE cell(x + n)]
         IN /\ n \in 1 .. t.columns - s.x
            /\ EraseCharacters(t, number) = EditRow(t, erased)
            /\ InsertCharacters(t, number) = EditRow(t, inserted)
            /\ DeleteCharacters(t, number) = EditRow(t, deleted)
            /\ erased \in [s.x .. t.columns - 1 -> Cells]
            /\ inserted \in [s.x .. t.columns - 1 -> Cells]
            /\ deleted \in [s.x .. t.columns - 1 -> Cells]
<1> DEFINE s == Active(t)
           n == Clamp(number, 1, t.columns - s.x)
           cell(x) == s.cells[Index(t, x, s.y)]
           blank == Cell(Space, t.current)
           erased == [x \in s.x .. t.columns - 1 |-> IF x < s.x + n THEN blank ELSE cell(x)]
           inserted == [x \in s.x .. t.columns - 1 |-> IF x < s.x + n THEN blank ELSE cell(x - n)]
           deleted == [x \in s.x .. t.columns - 1 |->
                         IF x >= t.columns - n THEN blank ELSE cell(x + n)]
<1>1. /\ t.columns \in Nat \ {0} /\ t.rows \in Nat \ {0}
      /\ s.x \in 0 .. t.columns - 1 /\ s.y \in 0 .. t.rows - 1
      /\ s.cells \in [0 .. t.columns * t.rows - 1 -> Cells]
  BY OnScreen
<1>2. n \in 1 .. t.columns - s.x
  BY <1>1 DEF Clamp
<1>3. \A x \in 0 .. t.columns - 1 : cell(x) \in Cells
  <2> TAKE x \in 0 .. t.columns - 1
  <2>1. s.y * t.columns + x \in 0 .. t.columns * t.rows - 1
    BY <1>1, IndexIn
  <2> QED BY <1>1, <2>1 DEF Index
<1>4. blank \in Cells
  BY BlankCells
<1>5. /\ EraseCharacters(t, number) = EditRow(t, erased)
      /\ InsertCharacters(t, number) = EditRow(t, inserted)
      /\ DeleteCharacters(t, number) = EditRow(t, deleted)
  BY Zenon DEF EraseCharacters, InsertCharacters, DeleteCharacters
<1> HIDE DEF cell, blank, n, s
<1>6. /\ erased \in [s.x .. t.columns - 1 -> Cells]
      /\ inserted \in [s.x .. t.columns - 1 -> Cells]
      /\ deleted \in [s.x .. t.columns - 1 -> Cells]
  BY <1>1, <1>2, <1>3, <1>4, SMT, Z3
<1> HIDE DEF erased, inserted, deleted
<1> QED BY <1>2, <1>5, <1>6, Zenon DEF cell, blank, n, s, erased, inserted, deleted

\* eraseLine changes only the active screen, in every mode.
LEMMA EraseLineDraws ==
  ASSUME NEW t, Good(t), NEW mode
  PROVE  Draws(t, EraseLine(t, mode))
<1> DEFINE s == Active(t)
           from == IF mode = 1 THEN 0 ELSE s.x
           to == IF mode = 1 THEN s.x ELSE t.columns - 1
           new == [i \in DOMAIN s.cells |->
                     IF Index(t, from, s.y) <= i /\ i <= Index(t, to, s.y) THEN BlankCell ELSE s.cells[i]]
<1>1. EraseLine(t, mode) = SetCells(t, new)
  BY DEF EraseLine
<1>2. new \in [0 .. t.columns * t.rows - 1 -> Cells]
  <2> HIDE DEF from, to, s
  <2> QED BY OnScreen, BlankCells DEF s
<1> HIDE DEF new
<1>3. Draws(t, SetCells(t, new))
  BY <1>2, SetCellsDraws, Zenon
<1> QED BY <1>1, <1>3, Zenon

\* eraseDisplay changes only the active screen, in every mode.
LEMMA EraseDisplayDraws ==
  ASSUME NEW t, Good(t), NEW mode
  PROVE  Draws(t, EraseDisplay(t, mode))
<1> DEFINE s == Active(t)
           new(first, end) == [i \in DOMAIN s.cells |->
                                 IF first <= i /\ i < end THEN BlankCell ELSE s.cells[i]]
           cleared(first, end) == SetCells(t, new(first, end))
<1>1. EraseDisplay(t, mode) =
        CASE mode \in {2, 3} -> cleared(0, t.columns * t.rows)
          [] mode = 1 -> EraseLine(cleared(0, Index(t, 0, s.y)), 1)
          [] OTHER -> EraseLine(cleared(Index(t, 0, s.y + 1), t.columns * t.rows), 0)
  BY DEF EraseDisplay
<1>2. ASSUME NEW first, NEW end
      PROVE  Draws(t, cleared(first, end))
  <2>1. new(first, end) \in [0 .. t.columns * t.rows - 1 -> Cells]
    <3> HIDE DEF s
    <3> QED BY OnScreen, BlankCells DEF s
  <2> HIDE DEF new
  <2> QED BY <2>1, SetCellsDraws, Zenon
<1> HIDE DEF cleared
<1>3. ASSUME NEW first, NEW end, NEW m
      PROVE  Draws(t, EraseLine(cleared(first, end), m))
  <2>1. Draws(t, cleared(first, end)) /\ Good(cleared(first, end))
    BY <1>2 DEF Draws
  <2>2. Draws(cleared(first, end), EraseLine(cleared(first, end), m))
    BY <2>1, EraseLineDraws, Zenon
  <2> QED BY <2>1, <2>2, DrawsTwice, Zenon
<1>4. CASE mode \in {2, 3}
  BY <1>1, <1>2, <1>4
<1>5. CASE mode = 1
  BY <1>1, <1>3, <1>5
<1>6. CASE mode \notin {1, 2, 3}
  BY <1>1, <1>3, <1>6
<1> QED BY <1>4, <1>5, <1>6

\* setScrollRegion leaves margins that are rows of the screen in the right
\* order, or changes nothing.
LEMMA MarginsDraws ==
  ASSUME NEW t, Good(t), NEW first \in Nat, NEW last \in Nat
  PROVE  Draws(t, SetScrollRegion(t, first, last))
<1> DEFINE top == Default(first, 1) - 1
           bottom == Default(last, t.rows) - 1
           w == [t EXCEPT ![t.active].scrollTop = top, ![t.active].scrollBottom = bottom]
           s == [Active(t) EXCEPT !.scrollTop = top, !.scrollBottom = bottom]
<1>1. CASE bottom >= t.rows \/ top >= bottom
  BY <1>1 DEF SetScrollRegion, Draws
<1>2. CASE ~(bottom >= t.rows \/ top >= bottom)
  <2>1. SetScrollRegion(t, first, last) = SetY(SetX(w, 0), 0)
    BY <1>2 DEF SetScrollRegion
  <2>2. top \in 0 .. bottom /\ bottom \in 0 .. t.rows - 1
    BY <1>2, OnScreen DEF Default
  <2>3. w = Over(t, s)
    <3> HIDE DEF top, bottom
    <3>1. t.active \in DOMAIN t
      BY DEF Good, Buffers
    <3> QED BY <3>1 DEF Over, Active
  <2>4. GoodScreen(s, t.columns, t.rows)
    <3> HIDE DEF top, bottom
    <3> QED BY <2>2, ActiveGood DEF GoodScreen
  <2>5. Draws(t, w)
    <3> HIDE DEF s, w
    <3> QED BY <2>3, <2>4, OverDraws, Zenon
  <2> HIDE DEF w
  <2>6. Draws(w, SetX(w, 0)) /\ Good(SetX(w, 0))
    BY <2>5, SetXDraws DEF Draws
  <2>7. Draws(SetX(w, 0), SetY(SetX(w, 0), 0))
    BY <2>6, SetYDraws DEF Draws
  <2> QED BY <2>1, <2>5, <2>6, <2>7, DrawsTwice, Zenon
<1> QED BY <1>1, <1>2

-----------------------------------------------------------------------------
(* The cursor, the buffers and the size.                                   *)

\* u is a terminal of t's size, and if the alternate screen is shown before or
\* after then the primary one has its text and margins still.
Kept(t, u) ==
  /\ Good(u)
  /\ u.columns = t.columns /\ u.rows = t.rows
  /\ t.active = "alternate" \/ u.active = "alternate" =>
       /\ u.primary.cells = t.primary.cells
       /\ u.primary.scrollTop = t.primary.scrollTop
       /\ u.primary.scrollBottom = t.primary.scrollBottom

\* What changes only the active screen keeps the primary one while the
\* alternate one is shown.
LEMMA DrawsKept ==
  ASSUME NEW t, NEW u, Draws(t, u)
  PROVE  Kept(t, u)
<1>1. u.active = t.active /\ \A b \in Buffers : b # t.active => u[b] = t[b]
  BY DEF Draws
<1>2. CASE t.active = "alternate"
  <2>1. u.primary = t.primary
    BY <1>1, <1>2 DEF Buffers
  <2> QED BY <2>1 DEF Kept, Draws
<1>3. CASE t.active # "alternate"
  BY <1>1, <1>3 DEF Kept, Draws
<1> QED BY <1>2, <1>3

\* Every movement of the cursor, by any count, ends on the screen.
LEMMA MoveDraws ==
  ASSUME NEW t, Good(t), NEW name \in Moves, NEW n \in Nat
  PROVE  Draws(t, Move(t, name, n))
<1> DEFINE s == Active(t)
           count == Default(n, 1)
<1>1. /\ count \in Nat /\ count - 1 \in Int
      /\ s.y - count \in Int /\ s.y + count \in Int /\ s.x - count \in Int /\ s.x + count \in Int
      /\ s.x - 1 \in Int /\ ((s.x + 8) \div 8) * 8 \in Int /\ 0 \in Int
  BY OnScreen DEF Default
<1>2. Move(t, name, n) =
        CASE name = "A" -> SetY(t, s.y - count)
          [] name = "B" -> SetY(t, s.y + count)
          [] name = "C" -> SetX(t, s.x + count)
          [] name = "D" -> SetX(t, s.x - count)
          [] name = "E" -> SetX(SetY(t, s.y + count), 0)
          [] name = "F" -> SetX(SetY(t, s.y - count), 0)
          [] name = "G" -> SetX(t, count - 1)
          [] name = "d" -> SetY(t, count - 1)
          [] name = "CR" -> SetX(t, 0)
          [] name = "BS" -> SetX(t, s.x - 1)
          [] name = "HT" -> SetX(t, ((s.x + 8) \div 8) * 8)
  BY DEF Move
<1> HIDE DEF s, count
<1>3. \A v \in Int : Draws(t, SetX(t, v)) /\ Draws(t, SetY(t, v)) /\ Good(SetY(t, v))
  BY SetXDraws, SetYDraws, Zenon DEF Draws
<1>4. \A v \in Int, w \in Int : Draws(t, SetX(SetY(t, v), w))
  BY <1>3, SetXDraws, DrawsTwice, Zenon
<1>5. \/ \E v \in Int : Move(t, name, n) = SetX(t, v) \/ Move(t, name, n) = SetY(t, v)
      \/ \E v \in Int, w \in Int : Move(t, name, n) = SetX(SetY(t, v), w)
  <2>1. CASE name = "A"  BY <1>1, <1>2, <2>1
  <2>2. CASE name = "B"  BY <1>1, <1>2, <2>2
  <2>3. CASE name = "C"  BY <1>1, <1>2, <2>3
  <2>4. CASE name = "D"  BY <1>1, <1>2, <2>4
  <2>5. CASE name = "E"  BY <1>1, <1>2, <2>5
  <2>6. CASE name = "F"  BY <1>1, <1>2, <2>6
  <2>7. CASE name = "G"  BY <1>1, <1>2, <2>7
  <2>8. CASE name = "d"  BY <1>1, <1>2, <2>8
  <2>9. CASE name = "CR"  BY <1>1, <1>2, <2>9
  <2>10. CASE name = "BS"  BY <1>1, <1>2, <2>10
  <2>11. CASE name = "HT"  BY <1>1, <1>2, <2>11
  <2> QED BY <2>1, <2>2, <2>3, <2>4, <2>5, <2>6, <2>7, <2>8, <2>9, <2>10, <2>11 DEF Moves
<1> QED BY <1>3, <1>4, <1>5, Zenon

\* Every operation on characters changes only the active screen.
LEMMA RowDraws ==
  ASSUME NEW t, Good(t), NEW name \in RowOps, NEW n \in Nat
  PROVE  Draws(t, Row(t, name, n))
<1> DEFINE count == Default(n, 1)
<1>1. count \in Nat
  BY DEF Default
<1>2. \A f \in [Active(t).x .. t.columns - 1 -> Cells] : Draws(t, EditRow(t, f))
  BY EditRowDone, Zenon
<1>3. Row(t, name, n) =
        CASE name = "PUT" -> PutCell(t, Cell(Typed, t.current))
          [] name = "REP" -> RepeatLast(t, count)
          [] name = "ECH" -> EraseCharacters(t, count)
          [] name = "ICH" -> InsertCharacters(t, count)
          [] name = "DCH" -> DeleteCharacters(t, count)
          [] name = "EL" -> EraseLine(t, n)
          [] name = "ED" -> EraseDisplay(t, n)
  BY DEF Row, Put
<1> HIDE DEF count
<1>4. /\ Draws(t, EraseCharacters(t, count)) /\ Draws(t, InsertCharacters(t, count))
      /\ Draws(t, DeleteCharacters(t, count))
  <2>1. \E e, i, d \in [Active(t).x .. t.columns - 1 -> Cells] :
          /\ EraseCharacters(t, count) = EditRow(t, e)
          /\ InsertCharacters(t, count) = EditRow(t, i)
          /\ DeleteCharacters(t, count) = EditRow(t, d)
    BY <1>1, CharactersDone, Zenon
  <2> QED BY <1>2, <2>1, Zenon
<1>5. Draws(t, PutCell(t, Cell(Typed, t.current)))
  BY BlankCells, PutCellDraws, Zenon
<1>6. Draws(t, RepeatLast(t, count))
  BY <1>1, RepeatLastDraws, Zenon
<1>7. Draws(t, EraseLine(t, n)) /\ Draws(t, EraseDisplay(t, n))
  BY EraseLineDraws, EraseDisplayDraws, Zenon
<1> QED BY <1>3, <1>4, <1>5, <1>6, <1>7 DEF RowOps

\* makeScreen makes a well-formed screen.
LEMMA SizedGood ==
  ASSUME NEW c \in Nat \ {0}, NEW r \in Nat \ {0}
  PROVE  GoodScreen(MakeScreen(c, r), c, r)
<1>1. BlankCell \in Cells
  <2>1. Space \in 0 .. Columns * Rows /\ Plain \in Styles
    BY ScreenAssumption DEF Space, Styles
  <2> QED BY <2>1, StyleCells DEF BlankCell
<1> QED BY <1>1 DEF MakeScreen, GoodScreen

\* saveCursor changes no screen.
LEMMA SaveKept ==
  ASSUME NEW t, Good(t)
  PROVE  Draws(t, SaveCursor(t)) /\ Active(SaveCursor(t)) = Active(t)
<1> DEFINE place == [x |-> Active(t).x, y |-> Active(t).y, style |-> t.current]
           u == SaveCursor(t)
<1>1. place \in [x : Nat, y : Nat, style : Styles]
  BY OnScreen DEF Good
<1>2. u = [t EXCEPT !.saved = place]
  BY DEF SaveCursor
<1> HIDE DEF place, u
<1>3. /\ DOMAIN u = DOMAIN t /\ u.saved = place
      /\ u.columns = t.columns /\ u.rows = t.rows /\ u.active = t.active /\ u.lastGraphic = t.lastGraphic
      /\ u.current = t.current /\ u.primary = t.primary /\ u.alternate = t.alternate
  BY <1>2 DEF Good
<1>4. \A b \in Buffers : u[b] = t[b]
  BY <1>3 DEF Buffers
<1>5. t.active \in Buffers
  BY DEF Good
<1>6. Good(u)
  BY <1>1, <1>3, <1>4 DEF Good
<1> QED BY <1>3, <1>4, <1>5, <1>6 DEF Draws, Active, u

\* A new style changes no screen.
LEMMA StyleGood ==
  ASSUME NEW t, Good(t), NEW style \in Styles
  PROVE  LET u == [t EXCEPT !.current = style]
         IN /\ Good(u) /\ u.columns = t.columns /\ u.rows = t.rows /\ u.active = t.active
            /\ \A b \in Buffers : u[b] = t[b]
<1> DEFINE u == [t EXCEPT !.current = style]
<1>1. /\ DOMAIN u = DOMAIN t /\ u.current = style
      /\ u.columns = t.columns /\ u.rows = t.rows /\ u.active = t.active /\ u.lastGraphic = t.lastGraphic
      /\ u.saved = t.saved /\ u.primary = t.primary /\ u.alternate = t.alternate
  BY DEF Good
<1> HIDE DEF u
<1>2. \A b \in Buffers : u[b] = t[b]
  BY <1>1 DEF Buffers
<1>3. Good(u)
  BY <1>1, <1>2 DEF Good
<1> QED BY <1>1, <1>2, <1>3 DEF u

\* The text and the margins of every buffer are the same.
SameText(t, u) ==
  \A b \in Buffers : /\ u[b].cells = t[b].cells
                     /\ u[b].scrollTop = t[b].scrollTop
                     /\ u[b].scrollBottom = t[b].scrollBottom

\* Placing the cursor anywhere changes no text and no margins.
LEMMA PlaceSameText ==
  ASSUME NEW t, Good(t), NEW x \in Int, NEW y \in Int
  PROVE  LET u == SetY(SetX(t, x), y)
         IN Draws(t, u) /\ SameText(t, u)
<1> DEFINE a == SetX(t, x)
           u == SetY(a, y)
<1>1. /\ Draws(t, a) /\ Good(a) /\ Active(a).cells = Active(t).cells
      /\ Active(a).scrollTop = Active(t).scrollTop
      /\ Active(a).scrollBottom = Active(t).scrollBottom
  BY SetXSame, Zenon DEF SameCells
<1> HIDE DEF a
<1>2. /\ Draws(a, u) /\ Active(u).cells = Active(a).cells
      /\ Active(u).scrollTop = Active(a).scrollTop
      /\ Active(u).scrollBottom = Active(a).scrollBottom
  BY <1>1, SetYSame, Zenon DEF SameCells
<1> HIDE DEF u
<1>3. Draws(t, u)
  BY <1>1, <1>2, DrawsTwice, Zenon
<1>4. u.active = t.active /\ \A b \in Buffers : b # t.active => u[b] = t[b]
  BY <1>3 DEF Draws
<1>5. SameText(t, u)
  BY <1>1, <1>2, <1>4 DEF SameText, Active
<1> QED BY <1>3, <1>5 DEF u, a

\* restoreCursor, with a place saved at any size, changes no text and no
\* margins and ends on the screen.
LEMMA RestoreGood ==
  ASSUME NEW t, Good(t)
  PROVE  LET u == RestoreCursor(t)
         IN /\ Good(u) /\ u.columns = t.columns /\ u.rows = t.rows
            /\ u.active = t.active /\ SameText(t, u)
<1> DEFINE w == SetY(SetX(t, t.saved.x), t.saved.y)
           u == [w EXCEPT !.current = t.saved.style]
<1>1. t.saved.x \in Int /\ t.saved.y \in Int /\ t.saved.style \in Styles
  BY DEF Good
<1>2. Draws(t, w) /\ SameText(t, w)
  BY <1>1, PlaceSameText, Zenon
<1>3. RestoreCursor(t) = u
  BY DEF RestoreCursor
<1> HIDE DEF w
<1>4. /\ Good(u) /\ u.columns = w.columns /\ u.rows = w.rows /\ u.active = w.active
      /\ \A b \in Buffers : u[b] = w[b]
  BY <1>1, <1>2, StyleGood, Zenon DEF Draws
<1> HIDE DEF u
<1> QED BY <1>2, <1>3, <1>4 DEF SameText, Draws

\* Entering and leaving the alternate screen, saving, restoring and the modes
\* keep the primary screen.
LEMMA ModeKept ==
  ASSUME NEW t, Good(t), NEW name \in ModeOps \ {"RESET"}, NEW n
  PROVE  Kept(t, Mode(t, name, n))
<1>1. CASE name = "SAVE"
  <2>1. Mode(t, name, n) = SaveCursor(t)
    BY <1>1 DEF Mode
  <2> QED BY <2>1, SaveKept, DrawsKept, Zenon
<1>2. CASE name = "RESTORE"
  <2> DEFINE u == RestoreCursor(t)
  <2>1. Mode(t, name, n) = u
    BY <1>2 DEF Mode
  <2>2. Good(u) /\ u.columns = t.columns /\ u.rows = t.rows /\ SameText(t, u)
    BY RestoreGood, Zenon
  <2> HIDE DEF u
  <2> QED BY <2>1, <2>2 DEF Kept, SameText, Buffers
<1>3. CASE name = "ENTER"
  <2> DEFINE w == SaveCursor(t)
             s == MakeScreen(t.columns, t.rows)
             u == [w EXCEPT !.alternate = s, !.active = "alternate"]
  <2>1. Mode(t, name, n) = u
    BY <1>3 DEF Mode, EnterAlternate
  <2>2. Good(w) /\ w.columns = t.columns /\ w.rows = t.rows /\ w.primary = t.primary
    <3>1. Draws(t, w) /\ Active(w) = Active(t)
      BY SaveKept
    <3> HIDE DEF w
    <3> QED BY <3>1 DEF Draws, Active, Good, Buffers
  <2>3. GoodScreen(s, t.columns, t.rows)
    BY SizedGood DEF Good
  <2> HIDE DEF w, s
  <2>4. /\ DOMAIN u = DOMAIN w /\ u.columns = w.columns /\ u.rows = w.rows
        /\ u.primary = w.primary /\ u.alternate = s /\ u.active = "alternate"
        /\ u.saved = w.saved /\ u.current = w.current /\ u.lastGraphic = w.lastGraphic
    BY <2>2 DEF Good
  <2> HIDE DEF u
  <2>5. Good(u)
    BY <2>2, <2>3, <2>4 DEF Good, Buffers
  <2> QED BY <2>1, <2>2, <2>4, <2>5 DEF Kept
<1>4. CASE name = "LEAVE"
  <2> DEFINE w == [t EXCEPT !.active = "primary"]
             u == RestoreCursor(w)
  <2>1. Mode(t, name, n) = u
    BY <1>4 DEF Mode, LeaveAlternate
  <2>2. /\ DOMAIN w = DOMAIN t /\ w.columns = t.columns /\ w.rows = t.rows
        /\ w.primary = t.primary /\ w.alternate = t.alternate /\ w.active = "primary"
        /\ w.saved = t.saved /\ w.current = t.current /\ w.lastGraphic = t.lastGraphic
    BY DEF Good
  <2> HIDE DEF w
  <2>3. Good(w)
    BY <2>2 DEF Good, Buffers
  <2>4. Good(u) /\ u.columns = w.columns /\ u.rows = w.rows /\ SameText(w, u)
    BY <2>3, RestoreGood, Zenon
  <2> HIDE DEF u
  <2> QED BY <2>1, <2>2, <2>4 DEF Kept, SameText, Buffers
<1>5. CASE name = "INSERT"
  <2> DEFINE u == [t EXCEPT !.insertMode = n # 0]
  <2>1. Mode(t, name, n) = u
    BY <1>5 DEF Mode
  <2>2. /\ DOMAIN u = DOMAIN t /\ u.columns = t.columns /\ u.rows = t.rows
        /\ u.primary = t.primary /\ u.alternate = t.alternate /\ u.active = t.active
        /\ u.saved = t.saved /\ u.current = t.current /\ u.lastGraphic = t.lastGraphic
    BY DEF Good
  <2> HIDE DEF u
  <2>3. Good(u)
    BY <2>2 DEF Good, Buffers
  <2> QED BY <2>1, <2>2, <2>3 DEF Kept
<1>6. CASE name = "CURSOR"
  <2> DEFINE u == [t EXCEPT !.cursorVisible = n # 0]
  <2>1. Mode(t, name, n) = u
    BY <1>6 DEF Mode
  <2>2. /\ DOMAIN u = DOMAIN t /\ u.columns = t.columns /\ u.rows = t.rows
        /\ u.primary = t.primary /\ u.alternate = t.alternate /\ u.active = t.active
        /\ u.saved = t.saved /\ u.current = t.current /\ u.lastGraphic = t.lastGraphic
    BY DEF Good
  <2> HIDE DEF u
  <2>3. Good(u)
    BY <2>2 DEF Good, Buffers
  <2> QED BY <2>1, <2>2, <2>3 DEF Kept
<1> QED BY <1>1, <1>2, <1>3, <1>4, <1>5, <1>6 DEF ModeOps

\* fullReset leaves a well-formed terminal of the same size.
LEMMA ResetGood ==
  ASSUME NEW t, Good(t)
  PROVE  LET u == FullReset(t)
         IN Good(u) /\ u.columns = t.columns /\ u.rows = t.rows
<1> DEFINE s == MakeScreen(t.columns, t.rows)
           u == FullReset(t)
<1>1. GoodScreen(s, t.columns, t.rows) /\ Plain \in Styles
  BY SizedGood DEF Good, Styles
<1>2. u = [t EXCEPT !.primary = s, !.alternate = s, !.active = "primary", !.cursorVisible = TRUE,
                    !.insertMode = FALSE, !.lastGraphic = NoGraphic, !.current = Plain]
  BY DEF FullReset
<1> HIDE DEF s, u
<1>3. /\ DOMAIN u = DOMAIN t /\ u.columns = t.columns /\ u.rows = t.rows
      /\ u.primary = s /\ u.alternate = s /\ u.active = "primary"
      /\ u.saved = t.saved /\ u.current = Plain /\ u.lastGraphic = NoGraphic
  BY <1>2 DEF Good
<1>4. Good(u)
  BY <1>1, <1>3 DEF Good, Buffers
<1> QED BY <1>3, <1>4 DEF u

\* The column and the row of a flat index.
LEMMA DivisionIn ==
  ASSUME NEW c \in Nat \ {0}, NEW r \in Nat \ {0}, NEW i \in 0 .. c * r - 1
  PROVE  i % c \in 0 .. c - 1 /\ i \div c \in Nat
  OBVIOUS

\* index(x, y) gives back its column x and its row y.
LEMMA DivisionExact ==
  ASSUME NEW c \in Nat \ {0}, NEW x \in 0 .. c - 1, NEW y \in Nat
  PROVE  (y * c + x) % c = x /\ (y * c + x) \div c = y
<1> DEFINE i == y * c + x
<1>1. i \in Nat
  OBVIOUS
<1>2. i = c * (i \div c) + (i % c) /\ i % c \in 0 .. c - 1 /\ i \div c \in Nat
  BY <1>1
<1> DEFINE q == i \div c
           m == i % c
<1> HIDE DEF q, m
<1>3. q * c + m = y * c + x /\ m \in 0 .. c - 1 /\ q \in Nat
  BY <1>2 DEF q, m
<1>4. q = y
  <2>1. q \in Int /\ y \in Int /\ q + 1 \in Int /\ y + 1 \in Int /\ c \in Nat
    BY <1>3
  <2>2. (q * c + m < (y + 1) * c) <=> (q < y + 1)
    BY <1>3, <2>1, Below, Zenon
  <2>3. (y * c + x < (q + 1) * c) <=> (y < q + 1)
    BY <1>3, <2>1, Below, Zenon
  <2>4. (q * c + m < (q + 1) * c) <=> (q < q + 1)
    BY <1>3, <2>1, Below, Zenon
  <2>5. (y * c + x < (y + 1) * c) <=> (y < y + 1)
    BY <1>3, <2>1, Below, Zenon
  <2> QED BY <1>3, <2>1, <2>2, <2>3, <2>4, <2>5
<1>5. m = x
  BY <1>3, <1>4
<1> QED BY <1>4, <1>5 DEF q, m

\* The cells of new, a screen of the given size, and of old agree where both
\* screens have them.
KeepsCorner(old, oldColumns, oldRows, new, columns, rows) ==
  \A x \in 0 .. oldColumns - 1, y \in 0 .. oldRows - 1 :
    x < columns /\ y < rows => new[y * columns + x] = old[y * oldColumns + x]

\* resizeScreen makes a screen of the new size with the common corner of the
\* old one.
LEMMA ResizeScreenDone ==
  ASSUME NEW t, t.columns \in Nat \ {0}, t.rows \in Nat \ {0},
         NEW oldColumns \in Nat \ {0}, NEW oldRows \in Nat \ {0},
         NEW old, GoodScreen(old, oldColumns, oldRows)
  PROVE  /\ GoodScreen(ResizeScreen(t, old), t.columns, t.rows)
         /\ KeepsCorner(old.cells, oldColumns, oldRows, ResizeScreen(t, old).cells, t.columns, t.rows)
<1> DEFINE c == t.columns
           r == t.rows
           next == MakeScreen(c, r)
           x(i) == i % c
           y(i) == i \div c
           px == Clamp(old.x, 0, c - 1)
           py == Clamp(old.y, 0, r - 1)
           new == [i \in DOMAIN next.cells |->
                     IF x(i) < old.columns /\ y(i) < old.rows
                     THEN old.cells[y(i) * old.columns + x(i)] ELSE BlankCell]
           u == [next EXCEPT !.x = px, !.y = py, !.cells = new]
<1>1. ResizeScreen(t, old) = u
  BY DEF ResizeScreen
<1>2. GoodScreen(next, c, r) /\ DOMAIN next.cells = 0 .. c * r - 1
  <2>1. GoodScreen(next, c, r)
    BY SizedGood
  <2> HIDE DEF next
  <2> QED BY <2>1 DEF GoodScreen
<1>3. BlankCell \in Cells
  <2>1. Space \in 0 .. Columns * Rows /\ Plain \in Styles
    BY ScreenAssumption DEF Space, Styles
  <2> QED BY <2>1, StyleCells DEF BlankCell
<1>4. /\ old.columns = oldColumns /\ old.rows = oldRows
      /\ old.cells \in [0 .. oldColumns * oldRows - 1 -> Cells]
      /\ old.x \in Int /\ old.y \in Int
  BY DEF GoodScreen
<1>5. px \in 0 .. c - 1 /\ py \in 0 .. r - 1
  <2>1. c \in Nat \ {0} /\ r \in Nat \ {0}
    BY Zenon
  <2> HIDE DEF c, r
  <2> QED BY <1>4, <2>1, SMT, Z3 DEF Clamp
<1>6. \A i \in 0 .. c * r - 1 :
        new[i] = IF x(i) < oldColumns /\ y(i) < oldRows
                 THEN old.cells[y(i) * oldColumns + x(i)] ELSE BlankCell
  <2> HIDE DEF next, x, y
  <2> QED BY <1>2, <1>4
<1>7. new \in [0 .. c * r - 1 -> Cells]
  <2>1. ASSUME NEW i \in 0 .. c * r - 1
        PROVE  new[i] \in Cells
    <3>1. x(i) \in Nat /\ y(i) \in Nat
      BY DivisionIn
    <3>2. CASE x(i) < oldColumns /\ y(i) < oldRows
      <4> HIDE DEF x, y, new
      <4>1. x(i) \in 0 .. oldColumns - 1 /\ y(i) \in 0 .. oldRows - 1
        BY <3>1, <3>2
      <4>2. y(i) * oldColumns + x(i) \in 0 .. oldColumns * oldRows - 1
        BY <4>1, IndexIn
      <4> QED BY <1>4, <1>6, <3>2, <4>2
    <3>3. CASE ~(x(i) < oldColumns /\ y(i) < oldRows)
      <4> HIDE DEF x, y, new
      <4> QED BY <1>3, <1>6, <3>3
    <3> QED BY <3>2, <3>3
  <2>2. new = [i \in 0 .. c * r - 1 |-> new[i]]
    <3> HIDE DEF next, x, y
    <3> QED BY <1>2
  <2> HIDE DEF new
  <2> QED BY <2>1, <2>2
<1>8. GoodScreen(u, c, r) /\ u.cells = new
  <2> HIDE DEF next, new, px, py
  <2> QED BY <1>2, <1>5, <1>7 DEF GoodScreen
<1>9. ASSUME NEW a \in 0 .. oldColumns - 1, NEW b \in 0 .. oldRows - 1, a < c, b < r
      PROVE  new[b * c + a] = old.cells[b * oldColumns + a]
  <2> DEFINE i == b * c + a
  <2>1. a \in 0 .. c - 1 /\ b \in 0 .. r - 1 /\ b \in Nat
    BY <1>9
  <2>2. i \in 0 .. c * r - 1
    BY <2>1, IndexIn
  <2>3. x(i) = a /\ y(i) = b
    BY <2>1, DivisionExact
  <2> HIDE DEF i, x, y, new
  <2> QED BY <1>6, <2>2, <2>3 DEF i
<1> HIDE DEF u, new
<1> QED BY <1>1, <1>8, <1>9 DEF KeepsCorner

\* resize keeps the common corner of both buffers and leaves both cursors on
\* the screen.
LEMMA ResizeDone ==
  ASSUME NEW t, Good(t), NEW columns \in Nat \ {0}, NEW rows \in Nat \ {0}
  PROVE  LET u == Resize(t, columns, rows)
         IN /\ Good(u)
            /\ \A b \in Buffers :
                 KeepsCorner(t[b].cells, t.columns, t.rows, u[b].cells, u.columns, u.rows)
<1>1. CASE columns = t.columns /\ rows = t.rows
  BY <1>1 DEF Resize, KeepsCorner
<1>2. CASE ~(columns = t.columns /\ rows = t.rows)
  <2> DEFINE sized == [t EXCEPT !.columns = columns, !.rows = rows]
             p == ResizeScreen(sized, t.primary)
             a == ResizeScreen(sized, t.alternate)
             next == [sized EXCEPT !.primary = p, !.alternate = a]
             u == SetY(SetX(next, Active(t).x), Active(t).y)
  <2>1. Resize(t, columns, rows) = u
    BY <1>2 DEF Resize
  <2>2. /\ DOMAIN sized = DOMAIN t /\ sized.columns = columns /\ sized.rows = rows
        /\ sized.active = t.active /\ sized.saved = t.saved /\ sized.current = t.current
        /\ sized.lastGraphic = t.lastGraphic
    BY DEF Good
  <2> HIDE DEF sized
  <2>3. /\ t.columns \in Nat \ {0} /\ t.rows \in Nat \ {0}
        /\ GoodScreen(t.primary, t.columns, t.rows) /\ GoodScreen(t.alternate, t.columns, t.rows)
    BY DEF Good, Buffers
  <2>4. /\ GoodScreen(p, columns, rows) /\ GoodScreen(a, columns, rows)
        /\ KeepsCorner(t.primary.cells, t.columns, t.rows, p.cells, columns, rows)
        /\ KeepsCorner(t.alternate.cells, t.columns, t.rows, a.cells, columns, rows)
    <3>1. sized.columns \in Nat \ {0} /\ sized.rows \in Nat \ {0}
      BY <2>2
    <3>2. /\ GoodScreen(p, sized.columns, sized.rows) /\ GoodScreen(a, sized.columns, sized.rows)
          /\ KeepsCorner(t.primary.cells, t.columns, t.rows, p.cells, sized.columns, sized.rows)
          /\ KeepsCorner(t.alternate.cells, t.columns, t.rows, a.cells, sized.columns, sized.rows)
      BY <2>3, <3>1, ResizeScreenDone, Zenon
    <3> HIDE DEF p, a
    <3> QED BY <2>2, <3>2
  <2> HIDE DEF p, a
  <2>5. /\ DOMAIN next = DOMAIN sized /\ next.columns = columns /\ next.rows = rows
        /\ next.primary = p /\ next.alternate = a
        /\ next.active = t.active /\ next.saved = t.saved /\ next.current = t.current
        /\ next.lastGraphic = t.lastGraphic
    BY <2>2 DEF Good
  <2> HIDE DEF next
  <2>6. Good(next)
    BY <2>2, <2>4, <2>5 DEF Good, Buffers
  <2>7. Active(t).x \in Int /\ Active(t).y \in Int
    BY OnScreen
  <2>8. Draws(next, u) /\ SameText(next, u)
    BY <2>6, <2>7, PlaceSameText, Zenon
  <2> HIDE DEF u
  <2>9. Good(u) /\ u.columns = columns /\ u.rows = rows
    BY <2>5, <2>8 DEF Draws
  <2>10. u.primary.cells = p.cells /\ u.alternate.cells = a.cells
    BY <2>5, <2>8 DEF SameText, Buffers
  <2> QED BY <2>1, <2>4, <2>9, <2>10 DEF Buffers
<1> QED BY <1>1, <1>2

-----------------------------------------------------------------------------
(* Rows as sequences.                                                      *)

\* Three sequences, the first two of the lengths a and b, one after the other
\* up to the length c.
Joined(p, q, r, a, b, c) ==
  [i \in 1 .. c |-> IF i <= a THEN p[i] ELSE IF i <= a + b THEN q[i - a] ELSE r[i - (a + b)]]

\* Three sequences in a row, place by place.
LEMMA ThreeParts ==
  ASSUME NEW p \in Seq(Cells), NEW q \in Seq(Cells), NEW r \in Seq(Cells)
  PROVE  p \o q \o r = Joined(p, q, r, Len(p), Len(q), Len(p) + Len(q) + Len(r))
<1> DEFINE a == Len(p)
           b == Len(q)
           c == a + b + Len(r)
           w == Joined(p, q, r, a, b, c)
<1>1. a \in Nat /\ b \in Nat /\ Len(r) \in Nat
  OBVIOUS
<1>2. p \o q \in Seq(Cells) /\ Len(p \o q) = a + b
  OBVIOUS
<1>3. \A i \in 1 .. a + b : (p \o q)[i] = IF i <= a THEN p[i] ELSE q[i - a]
  OBVIOUS
<1>4. p \o q \o r \in Seq(Cells) /\ Len(p \o q \o r) = c
  BY <1>2
<1>5. \A i \in 1 .. c : (p \o q \o r)[i] = IF i <= a + b THEN (p \o q)[i] ELSE r[i - (a + b)]
  BY <1>1, <1>2
<1>6. \A i \in 1 .. c : (p \o q \o r)[i] = w[i]
  BY <1>1, <1>3, <1>5 DEF Joined
<1>7. w \in [1 .. c -> Cells]
  BY <1>1 DEF Joined
<1>8. w \in Seq(Cells) /\ Len(w) = c
  <2>1. c \in Nat
    BY <1>1
  <2> HIDE DEF w, c
  <2> QED BY <1>7, <2>1
<1> HIDE DEF w
<1>9. p \o q \o r = w
  BY <1>4, <1>6, <1>8, SeqEqual
<1> QED BY <1>9 DEF w

\* A part of a row, place by place.
LEMMA PartOf ==
  ASSUME NEW S, NEW c \in Nat, NEW old \in [1 .. c -> S],
         NEW a \in 1 .. c + 1, NEW b \in 0 .. c, a <= b + 1
  PROVE  SubSeq(old, a, b) = [i \in 1 .. (b + 1) - a |-> old[(a - 1) + i]]
<1>1. old \in Seq(S) /\ Len(old) = c
  OBVIOUS
<1> QED BY <1>1

\* A row of c cells where n blanks are inserted after the first x cells, where
\* n cells are deleted there, and where n are erased.
InsertedRow(old, blank, x, n, c) ==
  [i \in 1 .. c |-> IF i <= x THEN old[i] ELSE IF i <= x + n THEN blank ELSE old[i - n]]
DeletedRow(old, blank, x, n, c) ==
  [i \in 1 .. c |-> IF i <= x THEN old[i] ELSE IF i <= c - n THEN old[i + n] ELSE blank]
ErasedRow(old, blank, x, n, c) ==
  [i \in 1 .. c |-> IF i <= x THEN old[i] ELSE IF i <= x + n THEN blank ELSE old[i]]

\* The rows that EditsRow puts together of parts of the old row and blanks,
\* place by place.
LEMMA RowParts ==
  ASSUME NEW c \in Nat, NEW old \in [1 .. c -> Cells], NEW blank \in Cells,
         NEW x \in 0 .. c - 1, NEW n \in 1 .. c - x
  PROVE  LET left == SubSeq(old, 1, x)
             blanks == [i \in 1 .. n |-> blank]
         IN /\ left \o blanks \o SubSeq(old, x + 1, c - n) = InsertedRow(old, blank, x, n, c)
            /\ left \o SubSeq(old, x + n + 1, c) \o blanks = DeletedRow(old, blank, x, n, c)
            /\ left \o blanks \o SubSeq(old, x + n + 1, c) = ErasedRow(old, blank, x, n, c)
<1> DEFINE left == SubSeq(old, 1, x)
           blanks == [i \in 1 .. n |-> blank]
           rest == SubSeq(old, x + 1, c - n)
           right == SubSeq(old, x + n + 1, c)
           d == c - (x + n)
<1>1. left \in [1 .. x -> Cells] /\ \A i \in 1 .. x : left[i] = old[i]
  <2>1. 1 \in 1 .. c + 1 /\ x \in 0 .. c /\ 1 <= x + 1
    OBVIOUS
  <2>2. left = [i \in 1 .. (x + 1) - 1 |-> old[(1 - 1) + i]]
    BY <2>1, PartOf
  <2> HIDE DEF left
  <2> QED BY <2>2
<1>2. rest \in [1 .. d -> Cells] /\ \A i \in 1 .. d : rest[i] = old[x + i]
  <2>1. x + 1 \in 1 .. c + 1 /\ c - n \in 0 .. c /\ x + 1 <= (c - n) + 1
    OBVIOUS
  <2>2. rest = [i \in 1 .. ((c - n) + 1) - (x + 1) |-> old[((x + 1) - 1) + i]]
    BY <2>1, PartOf
  <2>3. ((c - n) + 1) - (x + 1) = d /\ (x + 1) - 1 = x
    OBVIOUS
  <2> HIDE DEF rest, d
  <2> QED BY <2>2, <2>3
<1>3. right \in [1 .. d -> Cells] /\ \A i \in 1 .. d : right[i] = old[(x + n) + i]
  <2>1. x + n + 1 \in 1 .. c + 1 /\ c \in 0 .. c /\ x + n + 1 <= c + 1
    OBVIOUS
  <2>2. right = [i \in 1 .. (c + 1) - (x + n + 1) |-> old[((x + n + 1) - 1) + i]]
    BY <2>1, PartOf
  <2>3. (c + 1) - (x + n + 1) = d /\ (x + n + 1) - 1 = x + n
    OBVIOUS
  <2> HIDE DEF right, d
  <2> QED BY <2>2, <2>3
<1>4. blanks \in [1 .. n -> Cells] /\ \A i \in 1 .. n : blanks[i] = blank
  OBVIOUS
<1>5. /\ x \in 0 .. c /\ n \in 0 .. c /\ d \in 0 .. c
      /\ x + n + d = c /\ x + d + n = c /\ x + d = c - n
  OBVIOUS
<1> HIDE DEF left, blanks, rest, right, d
<1>6. /\ left \in Seq(Cells) /\ blanks \in Seq(Cells) /\ rest \in Seq(Cells) /\ right \in Seq(Cells)
      /\ Len(left) = x /\ Len(blanks) = n /\ Len(rest) = d /\ Len(right) = d
  BY <1>1, <1>2, <1>3, <1>4, <1>5
<1>7. /\ left \o blanks \o rest = Joined(left, blanks, rest, x, n, c)
      /\ left \o right \o blanks = Joined(left, right, blanks, x, d, c)
      /\ left \o blanks \o right = Joined(left, blanks, right, x, n, c)
  <2>1. left \o blanks \o rest =
          Joined(left, blanks, rest, Len(left), Len(blanks), Len(left) + Len(blanks) + Len(rest))
    BY <1>6, ThreeParts, Zenon
  <2>2. left \o right \o blanks =
          Joined(left, right, blanks, Len(left), Len(right), Len(left) + Len(right) + Len(blanks))
    BY <1>6, ThreeParts, Zenon
  <2>3. left \o blanks \o right =
          Joined(left, blanks, right, Len(left), Len(blanks), Len(left) + Len(blanks) + Len(right))
    BY <1>6, ThreeParts, Zenon
  <2> QED BY <1>5, <1>6, <2>1, <2>2, <2>3
<1>9. ASSUME NEW i \in 1 .. c
      PROVE  /\ i <= x => left[i] = old[i]
             /\ ~(i <= x) /\ i <= x + n => blanks[i - x] = blank
             /\ ~(i <= x + n) => rest[i - (x + n)] = old[i - n] /\ right[i - (x + n)] = old[i]
             /\ ~(i <= x) /\ i <= x + d => right[i - x] = old[i + n]
             /\ ~(i <= x + d) => blanks[i - (x + d)] = blank
  <2>1. ASSUME ~(i <= x + n)
        PROVE  rest[i - (x + n)] = old[i - n] /\ right[i - (x + n)] = old[i]
    <3>1. /\ i - (x + n) \in 1 .. d /\ x + (i - (x + n)) = i - n
          /\ (x + n) + (i - (x + n)) = i
      BY <2>1, <1>5
    <3> QED BY <1>2, <1>3, <3>1
  <2>2. ASSUME ~(i <= x), i <= x + d
        PROVE  right[i - x] = old[i + n]
    <3>1. i - x \in 1 .. d /\ (x + n) + (i - x) = i + n
      BY <2>2, <1>5
    <3> QED BY <1>3, <3>1
  <2> QED BY <1>1, <1>4, <1>5, <2>1, <2>2
<1>10. Joined(left, blanks, rest, x, n, c) = InsertedRow(old, blank, x, n, c)
  <2>1. ASSUME NEW i \in 1 .. c
        PROVE  (IF i <= x THEN left[i] ELSE IF i <= x + n THEN blanks[i - x] ELSE rest[i - (x + n)]) =
               (IF i <= x THEN old[i] ELSE IF i <= x + n THEN blank ELSE old[i - n])
    BY <1>9, Zenon
  <2> QED BY <2>1, Zenon DEF Joined, InsertedRow
<1>11. Joined(left, right, blanks, x, d, c) = DeletedRow(old, blank, x, n, c)
  <2>1. ASSUME NEW i \in 1 .. c
        PROVE  (IF i <= x THEN left[i] ELSE IF i <= x + d THEN right[i - x] ELSE blanks[i - (x + d)]) =
               (IF i <= x THEN old[i] ELSE IF i <= x + d THEN old[i + n] ELSE blank)
    BY <1>9, Zenon
  <2>2. x + d = c - n
    BY <1>5
  <2> QED BY <2>1, <2>2, Zenon DEF Joined, DeletedRow
<1>12. Joined(left, blanks, right, x, n, c) = ErasedRow(old, blank, x, n, c)
  <2>1. ASSUME NEW i \in 1 .. c
        PROVE  (IF i <= x THEN left[i] ELSE IF i <= x + n THEN blanks[i - x] ELSE right[i - (x + n)]) =
               (IF i <= x THEN old[i] ELSE IF i <= x + n THEN blank ELSE old[i])
    BY <1>9, Zenon
  <2> QED BY <2>1, Zenon DEF Joined, ErasedRow
<1> QED BY <1>7, <1>10, <1>11, <1>12 DEF left, blanks, rest, right

\* What an edit makes of the row of the cursor, as a sequence, and that it
\* leaves the other rows.
LEMMA EditedLine ==
  ASSUME NEW t, Good(t), NEW f \in [Active(t).x .. t.columns - 1 -> Cells]
  PROVE  LET u == EditRow(t, f)
         IN /\ Line1(u) = [i \in 1 .. t.columns |->
                             IF i <= Active(t).x THEN Line1(t)[i] ELSE f[i - 1]]
            /\ \A y \in 0 .. t.rows - 1 :
                 y # Active(t).y => RowOf(u, t.active, y) = RowOf(t, t.active, y)
<1> DEFINE u == EditRow(t, f)
           s == Active(t)
           c == t.columns
<1>1. /\ Draws(t, u) /\ Active(u).y = s.y
      /\ \A x \in 0 .. c - 1, y \in 0 .. t.rows - 1 :
           Active(u).cells[y * c + x] = IF y = s.y /\ x >= s.x THEN f[x] ELSE s.cells[y * c + x]
  BY EditRowDone
<1> HIDE DEF u
<1>2. u.columns = c /\ u.active = t.active
  BY <1>1 DEF Draws
<1>3. c \in Nat /\ s.x \in 0 .. c - 1 /\ s.y \in 0 .. t.rows - 1
  BY OnScreen
<1>4. \A y : RowOf(u, t.active, y) = [x \in 0 .. c - 1 |-> Active(u).cells[y * c + x]]
  BY <1>2 DEF RowOf, Index, Active
<1>5. \A y : RowOf(t, t.active, y) = [x \in 0 .. c - 1 |-> s.cells[y * c + x]]
  BY DEF RowOf, Index, Active
<1>6. ASSUME NEW y \in 0 .. t.rows - 1, y # s.y
      PROVE  RowOf(u, t.active, y) = RowOf(t, t.active, y)
  <2>1. \A x \in 0 .. c - 1 : Active(u).cells[y * c + x] = s.cells[y * c + x]
    BY <1>1, <1>6, Zenon
  <2> HIDE DEF c, s
  <2> QED BY <1>4, <1>5, <2>1
<1>7. Line1(u) = [i \in 1 .. c |-> RowOf(u, t.active, s.y)[i - 1]]
  BY <1>1, <1>2 DEF Line1
<1>8. Line1(t) = [i \in 1 .. c |-> RowOf(t, t.active, s.y)[i - 1]]
  BY DEF Line1
<1>9. ASSUME NEW i \in 1 .. c
      PROVE  RowOf(u, t.active, s.y)[i - 1] = IF i <= s.x THEN Line1(t)[i] ELSE f[i - 1]
  <2> HIDE DEF c, s
  <2>1. i - 1 \in 0 .. c - 1
    BY <1>3
  <2>2. RowOf(u, t.active, s.y)[i - 1] = Active(u).cells[s.y * c + (i - 1)]
    BY <1>4, <2>1
  <2>3. Line1(t)[i] = s.cells[s.y * c + (i - 1)]
    <3>1. Line1(t)[i] = RowOf(t, t.active, s.y)[i - 1]
      BY <1>8
    <3> QED BY <1>5, <2>1, <3>1
  <2>4. Active(u).cells[s.y * c + (i - 1)] = IF i - 1 >= s.x THEN f[i - 1] ELSE s.cells[s.y * c + (i - 1)]
    <3>1. Active(u).cells[s.y * c + (i - 1)] =
            IF s.y = s.y /\ i - 1 >= s.x THEN f[i - 1] ELSE s.cells[s.y * c + (i - 1)]
      BY <1>1, <1>3, <2>1, Zenon
    <3> QED BY <3>1, Zenon
  <2>5. (i - 1 >= s.x) <=> ~(i <= s.x)
    BY <1>3
  <2> QED BY <2>2, <2>3, <2>4, <2>5
<1>10. Line1(u) = [i \in 1 .. c |-> IF i <= s.x THEN Line1(t)[i] ELSE f[i - 1]]
  BY <1>7, <1>9
<1> QED BY <1>6, <1>10 DEF u

\* The row of the cursor after characters are inserted, deleted or erased, as
\* EditsRow says.
EditedRow(t, name, n) ==
  LET s == Active(t)
      old == Line1(t)
      left == SubSeq(old, 1, s.x)
      k == Clamp(Default(n, 1), 1, t.columns - s.x)
  IN CASE name = "ICH" -> left \o Blanks(t, k) \o SubSeq(old, s.x + 1, t.columns - k)
       [] name = "DCH" -> left \o SubSeq(old, s.x + k + 1, t.columns) \o Blanks(t, k)
       [] name = "ECH" -> left \o Blanks(t, k) \o SubSeq(old, s.x + k + 1, t.columns)

\* ICH, DCH and ECH make of the rows what EditsRow says.
LEMMA CharactersRow ==
  ASSUME NEW t, Good(t), NEW name \in {"ICH", "DCH", "ECH"}, NEW n \in Nat
  PROVE  LET u == Row(t, name, n)
         IN /\ Line1(u) = EditedRow(t, name, n)
            /\ \A y \in 0 .. t.rows - 1 :
                 y # Active(t).y => RowOf(u, t.active, y) = RowOf(t, t.active, y)
<1> DEFINE s == Active(t)
           c == t.columns
           number == Default(n, 1)
           k == Clamp(number, 1, c - s.x)
           cell(x) == s.cells[Index(t, x, s.y)]
           blank == Cell(Space, t.current)
           erased == [x \in s.x .. c - 1 |-> IF x < s.x + k THEN blank ELSE cell(x)]
           inserted == [x \in s.x .. c - 1 |-> IF x < s.x + k THEN blank ELSE cell(x - k)]
           deleted == [x \in s.x .. c - 1 |-> IF x >= c - k THEN blank ELSE cell(x + k)]
           old == Line1(t)
           left == SubSeq(old, 1, s.x)
           u == Row(t, name, n)
<1>1. number \in Nat
  BY DEF Default
<1>2. /\ k \in 1 .. c - s.x
      /\ EraseCharacters(t, number) = EditRow(t, erased)
      /\ InsertCharacters(t, number) = EditRow(t, inserted)
      /\ DeleteCharacters(t, number) = EditRow(t, deleted)
      /\ erased \in [s.x .. c - 1 -> Cells]
      /\ inserted \in [s.x .. c - 1 -> Cells]
      /\ deleted \in [s.x .. c - 1 -> Cells]
  <2> HIDE DEF number
  <2> QED BY <1>1, CharactersDone, Zenon
<1>3. /\ c \in Nat /\ t.rows \in Nat /\ s.x \in 0 .. c - 1 /\ s.y \in 0 .. t.rows - 1
      /\ s.cells \in [0 .. c * t.rows - 1 -> Cells]
  BY OnScreen, SMT, Z3
<1>4. \A i \in 1 .. c : old[i] = cell(i - 1)
  <2>1. \A i \in 1 .. c : i - 1 \in 0 .. c - 1
    BY <1>3
  <2> QED BY <2>1 DEF Line1, RowOf, Active
<1>5. old \in [1 .. c -> Cells]
  <2>1. ASSUME NEW i \in 1 .. c
        PROVE  cell(i - 1) \in Cells
    <3>1. i - 1 \in 0 .. c - 1
      BY <1>3
    <3>2. s.y * c + (i - 1) \in 0 .. c * t.rows - 1
      BY <1>3, <3>1, IndexIn, Zenon
    <3> QED BY <1>3, <3>2 DEF Index
  <2>2. old = [i \in 1 .. c |-> old[i]]
    BY DEF Line1
  <2> HIDE DEF old, cell
  <2> QED BY <1>4, <2>1, <2>2
<1>6. blank \in Cells /\ Blanks(t, k) = [i \in 1 .. k |-> blank]
  BY BlankCells DEF Blanks
<1> HIDE DEF cell, blank, k, old
<1> DEFINE blanks == [i \in 1 .. k |-> blank]
           insertedRow == InsertedRow(old, blank, s.x, k, c)
           deletedRow == DeletedRow(old, blank, s.x, k, c)
           erasedRow == ErasedRow(old, blank, s.x, k, c)
<1>7. /\ left \o Blanks(t, k) \o SubSeq(old, s.x + 1, c - k) = insertedRow
      /\ left \o SubSeq(old, s.x + k + 1, c) \o Blanks(t, k) = deletedRow
      /\ left \o Blanks(t, k) \o SubSeq(old, s.x + k + 1, c) = erasedRow
  <2> HIDE DEF s, c
  <2>1. /\ left \o blanks \o SubSeq(old, s.x + 1, c - k) = insertedRow
        /\ left \o SubSeq(old, s.x + k + 1, c) \o blanks = deletedRow
        /\ left \o blanks \o SubSeq(old, s.x + k + 1, c) = erasedRow
    BY <1>2, <1>3, <1>5, <1>6, RowParts, Zenon
  <2> HIDE DEF insertedRow, deletedRow, erasedRow, blanks
  <2> QED BY <1>6, <2>1 DEF blanks
<1>8. ASSUME NEW f \in [s.x .. c - 1 -> Cells], u = EditRow(t, f)
      PROVE  /\ Line1(u) = [i \in 1 .. c |-> IF i <= s.x THEN old[i] ELSE f[i - 1]]
             /\ \A y \in 0 .. t.rows - 1 :
                  y # s.y => RowOf(u, t.active, y) = RowOf(t, t.active, y)
  BY <1>8, EditedLine, Zenon DEF old
<1>9. EditedRow(t, name, n) =
        CASE name = "ICH" -> left \o Blanks(t, k) \o SubSeq(old, s.x + 1, c - k)
          [] name = "DCH" -> left \o SubSeq(old, s.x + k + 1, c) \o Blanks(t, k)
          [] name = "ECH" -> left \o Blanks(t, k) \o SubSeq(old, s.x + k + 1, c)
  BY Zenon DEF EditedRow, old, k
<1>10. k \in 1 .. c - s.x /\ c \in Nat /\ s.x \in 0 .. c - 1
  BY <1>2, <1>3, Zenon
<1>11. CASE name = "ICH"
  <2>1. u = EditRow(t, inserted)
    BY <1>2, <1>11, SMT, Z3 DEF Row
  <2>2. ASSUME NEW i \in 1 .. c
        PROVE  (IF i <= s.x THEN old[i] ELSE inserted[i - 1]) =
               (IF i <= s.x THEN old[i] ELSE IF i <= s.x + k THEN blank ELSE old[i - k])
    <3> HIDE DEF s, c
    <3> QED BY <1>4, <1>10, SMT, Z3
  <2>3. Line1(u) = [i \in 1 .. c |-> IF i <= s.x THEN old[i] ELSE inserted[i - 1]]
    BY <1>2, <1>8, <2>1, Zenon
  <2>4. Line1(u) = insertedRow
    <3> HIDE DEF inserted, c, s
    <3> QED BY <2>2, <2>3 DEF InsertedRow
  <2>5. EditedRow(t, name, n) = insertedRow
    <3> HIDE DEF left, s, c, insertedRow
    <3> QED BY <1>7, <1>9, <1>11
  <2> QED BY <1>2, <1>8, <2>1, <2>4, <2>5, Zenon
<1>12. CASE name = "DCH"
  <2>1. u = EditRow(t, deleted)
    BY <1>2, <1>12 DEF Row
  <2>2. ASSUME NEW i \in 1 .. c
        PROVE  (IF i <= s.x THEN old[i] ELSE deleted[i - 1]) =
               (IF i <= s.x THEN old[i] ELSE IF i <= c - k THEN old[i + k] ELSE blank)
    <3> HIDE DEF s, c
    <3> QED BY <1>4, <1>10, SMT, Z3
  <2>3. Line1(u) = [i \in 1 .. c |-> IF i <= s.x THEN old[i] ELSE deleted[i - 1]]
    BY <1>2, <1>8, <2>1, Zenon
  <2>4. Line1(u) = deletedRow
    <3> HIDE DEF deleted, c, s
    <3> QED BY <2>2, <2>3, SMT, Z3 DEF DeletedRow
  <2>5. EditedRow(t, name, n) = deletedRow
    <3> HIDE DEF left, s, c, deletedRow
    <3> QED BY <1>7, <1>9, <1>12
  <2> QED BY <1>2, <1>8, <2>1, <2>4, <2>5, Zenon
<1>13. CASE name = "ECH"
  <2>1. u = EditRow(t, erased)
    BY <1>2, <1>13 DEF Row
  <2>2. ASSUME NEW i \in 1 .. c
        PROVE  (IF i <= s.x THEN old[i] ELSE erased[i - 1]) =
               (IF i <= s.x THEN old[i] ELSE IF i <= s.x + k THEN blank ELSE old[i])
    <3> HIDE DEF s, c
    <3> QED BY <1>4, <1>10, SMT, Z3
  <2>3. Line1(u) = [i \in 1 .. c |-> IF i <= s.x THEN old[i] ELSE erased[i - 1]]
    BY <1>2, <1>8, <2>1, Zenon
  <2>4. Line1(u) = erasedRow
    <3> HIDE DEF erased, c, s
    <3> QED BY <2>2, <2>3 DEF ErasedRow
  <2>5. EditedRow(t, name, n) = erasedRow
    <3> HIDE DEF left, s, c, erasedRow
    <3> QED BY <1>7, <1>9, <1>13
  <2> QED BY <1>2, <1>8, <2>1, <2>4, <2>5, Zenon
<1> QED BY <1>11, <1>12, <1>13

\* The rows of the active screen after a line operation, as ScrollsByRows says.
LineRows(t, name, n) ==
  LET s == Active(t)
      k == Default(n, 1)
      edge(y, down) == IF s.y = y THEN Moved(t, s.scrollTop, s.scrollBottom, 1, down) ELSE AllRows(t)
      below(down) == IF s.y \in s.scrollTop .. s.scrollBottom
                     THEN Moved(t, s.y, s.scrollBottom, k, down) ELSE AllRows(t)
  IN CASE name \in {"LF", "NEL"} -> edge(s.scrollBottom, FALSE)
       [] name = "RI" -> edge(s.scrollTop, TRUE)
       [] name = "IL" -> below(TRUE)
       [] name = "DL" -> below(FALSE)
       [] name = "SU" -> Moved(t, s.scrollTop, s.scrollBottom, k, FALSE)
       [] name = "SD" -> Moved(t, s.scrollTop, s.scrollBottom, k, TRUE)

\* LF, NEL, RI, IL, DL, SU and SD make of the rows what ScrollsByRows says.
LEMMA LineDone ==
  ASSUME NEW t, Good(t), NEW name \in LineOps, NEW n \in Nat
  PROVE  LET u == Line(t, name, n)
         IN Draws(t, u) /\ Blanked(t, u) /\ AllRows(u) = LineRows(t, name, n)
<1> DEFINE s == Active(t)
           k == Default(n, 1)
           u == Line(t, name, n)
           rows == LineRows(t, name, n)
           edge(y, down) == IF s.y = y THEN Moved(t, s.scrollTop, s.scrollBottom, 1, down) ELSE AllRows(t)
           below(down) == IF s.y \in s.scrollTop .. s.scrollBottom
                          THEN Moved(t, s.y, s.scrollBottom, k, down) ELSE AllRows(t)
<1>1. k \in Nat \ {0} /\ TRUE \in BOOLEAN /\ FALSE \in BOOLEAN
  BY DEF Default
<1>2. CASE name = "LF"
  <2>1. u = LineFeed(t) /\ rows = edge(s.scrollBottom, FALSE)
    BY <1>2 DEF Line, LineRows
  <2> QED BY <2>1, LineFeedDone, Zenon
<1>3. CASE name = "NEL"
  <2> DEFINE a == SetX(t, 0)
  <2>1. u = LineFeed(a) /\ rows = edge(s.scrollBottom, FALSE)
    BY <1>3 DEF Line, LineRows
  <2>2. /\ SameCells(t, a) /\ Good(a) /\ Active(a).y = s.y /\ Active(a).scrollTop = s.scrollTop
        /\ Active(a).scrollBottom = s.scrollBottom
    BY SetXSame
  <2> HIDE DEF a
  <2>3. /\ AllRows(a) = AllRows(t) /\ EraseCell(a) = EraseCell(t)
        /\ Moved(a, s.scrollTop, s.scrollBottom, 1, FALSE) = Moved(t, s.scrollTop, s.scrollBottom, 1, FALSE)
    <3>1. /\ AllRows(a) = AllRows(t) /\ EraseCell(a) = EraseCell(t)
          /\ \A first, last, n0, down : Moved(a, first, last, n0, down) = Moved(t, first, last, n0, down)
      BY <2>2, SameCellsRows, Zenon
    <3> QED BY <3>1, Zenon
  <2>4. /\ Draws(a, u) /\ Blanked(a, u)
        /\ AllRows(u) = IF Active(a).y = Active(a).scrollBottom
                        THEN Moved(a, Active(a).scrollTop, Active(a).scrollBottom, 1, FALSE)
                        ELSE AllRows(a)
    BY <2>1, <2>2, LineFeedDone, Zenon
  <2> HIDE DEF u, rows
  <2>5. Draws(t, u)
    BY <2>2, <2>4, DrawsTwice, Zenon DEF SameCells
  <2>6. Blanked(t, u)
    BY <2>2, <2>3, <2>4, SMT, Z3 DEF Blanked, SameCells
  <2>7. AllRows(u) = rows
    BY <2>1, <2>2, <2>3, <2>4
  <2> QED BY <2>5, <2>6, <2>7 DEF u, rows
<1>4. CASE name = "RI"
  <2>1. u = ReverseIndex(t) /\ rows = edge(s.scrollTop, TRUE)
    BY <1>4 DEF Line, LineRows
  <2> QED BY <2>1, ReverseIndexDone, Zenon
<1>5. CASE name = "IL"
  <2>1. u = ChangeLines(t, k, TRUE) /\ rows = below(TRUE)
    BY <1>5 DEF Line, LineRows
  <2> HIDE DEF k
  <2> QED BY <1>1, <2>1, ChangeLinesDone, Zenon
<1>6. CASE name = "DL"
  <2>1. u = ChangeLines(t, k, FALSE) /\ rows = below(FALSE)
    BY <1>6 DEF Line, LineRows
  <2> HIDE DEF k
  <2> QED BY <1>1, <2>1, ChangeLinesDone, Zenon
<1>7. CASE name = "SU"
  <2>1. /\ u = ScrollLines(t, s.scrollTop, s.scrollBottom, k, FALSE)
        /\ rows = Moved(t, s.scrollTop, s.scrollBottom, k, FALSE)
    BY <1>7 DEF Line, LineRows, Scroll
  <2> HIDE DEF k
  <2> QED BY <1>1, <2>1, OnScreen, ScrollLinesDone, Zenon
<1>8. CASE name = "SD"
  <2>1. /\ u = ScrollLines(t, s.scrollTop, s.scrollBottom, k, TRUE)
        /\ rows = Moved(t, s.scrollTop, s.scrollBottom, k, TRUE)
    BY <1>8 DEF Line, LineRows, Scroll
  <2> HIDE DEF k
  <2> QED BY <1>1, <2>1, OnScreen, ScrollLinesDone, Zenon
<1> QED BY <1>2, <1>3, <1>4, <1>5, <1>6, <1>7, <1>8 DEF LineOps

-----------------------------------------------------------------------------
(* The steps.                                                              *)

\* What an operation makes of the terminal t.
Does(t, name, n, u) ==
  /\ Good(u)
  /\ name \notin {"RESET", "RESIZE"} => Kept(t, u)
  /\ u.columns # t.columns \/ u.rows # t.rows =>
       \A b \in Buffers : KeepsCorner(t[b].cells, t.columns, t.rows, u[b].cells, u.columns, u.rows)
  /\ name \in LineOps => Blanked(t, u) /\ AllRows(u) = LineRows(t, name, n)
  /\ name \in {"ICH", "DCH", "ECH"} =>
       /\ Line1(u) = EditedRow(t, name, n)
       /\ \A y \in 0 .. t.rows - 1 :
            y # Active(t).y => RowOf(u, t.active, y) = RowOf(t, t.active, y)

\* An operation that is no edit only has to keep the primary screen.
LEMMA KeptDoes ==
  ASSUME NEW t, NEW u, Kept(t, u), NEW name, name \notin LineOps \cup {"ICH", "DCH", "ECH"}, NEW n
  PROVE  Does(t, name, n, u)
  BY DEF Does, Kept

\* The parameters of sequences are numbers.
LEMMA TakesNat ==
  ASSUME NEW name, NEW n \in Takes(name)
  PROVE  n \in Nat
  BY ScreenAssumption DEF Takes

\* What a step of consume or of a resize leaves in term and op.
LEMMA OperateTerm ==
  ASSUME NEW name, NEW n, NEW next, Operate(name, n, next)
  PROVE  term' = next /\ op'.name = name /\ op'.n = n
  BY DEF Operate

\* The movements of the cursor do what they ought to.
LEMMA MoveStep ==
  ASSUME Good(term), NEW name \in Moves, NEW n \in Takes(name), Operate(name, n, Move(term, name, n))
  PROVE  Does(term, op'.name, op'.n, term')
<1>1. term' = Move(term, name, n) /\ op'.name = name
  BY OperateTerm, Zenon
<1>2. Kept(term, term')
  BY <1>1, TakesNat, MoveDraws, DrawsKept, Zenon
<1>3. name \notin LineOps \cup {"ICH", "DCH", "ECH"}
  BY DEF Moves, LineOps
<1> QED BY <1>1, <1>2, <1>3, KeptDoes

\* The line operations do what they ought to.
LEMMA LineStep ==
  ASSUME Good(term), NEW name \in LineOps, NEW n \in Takes(name), Operate(name, n, Line(term, name, n))
  PROVE  Does(term, op'.name, op'.n, term')
<1>1. term' = Line(term, name, n) /\ op'.name = name /\ op'.n = n
  BY OperateTerm, Zenon
<1>2. Draws(term, term') /\ Blanked(term, term') /\ AllRows(term') = LineRows(term, name, n)
  BY <1>1, TakesNat, LineDone, Zenon
<1>3. Kept(term, term')
  BY <1>2, DrawsKept, Zenon
<1>4. name \notin {"ICH", "DCH", "ECH"}
  BY DEF LineOps
<1> QED BY <1>1, <1>2, <1>3, <1>4 DEF Does, Kept

\* The operations on characters do what they ought to.
LEMMA RowStep ==
  ASSUME Good(term), NEW name \in RowOps, NEW n \in Takes(name), Operate(name, n, Row(term, name, n))
  PROVE  Does(term, op'.name, op'.n, term')
<1>1. term' = Row(term, name, n) /\ op'.name = name /\ op'.n = n
  BY OperateTerm, Zenon
<1>2. Kept(term, term')
  BY <1>1, TakesNat, RowDraws, DrawsKept, Zenon
<1>3. name \notin LineOps
  BY DEF LineOps, RowOps
<1>4. CASE name \in {"ICH", "DCH", "ECH"}
  <2>1. /\ Line1(term') = EditedRow(term, name, n)
        /\ \A y \in 0 .. term.rows - 1 :
             y # Active(term).y => RowOf(term', term.active, y) = RowOf(term, term.active, y)
    BY <1>1, <1>4, TakesNat, CharactersRow, Zenon
  <2> QED BY <1>1, <1>2, <1>3, <2>1 DEF Does, Kept
<1>5. CASE name \notin {"ICH", "DCH", "ECH"}
  BY <1>1, <1>2, <1>3, <1>5, KeptDoes
<1> QED BY <1>4, <1>5

\* The modes, the buffers and the reset do what they ought to.
LEMMA ModeStep ==
  ASSUME Good(term), NEW name \in ModeOps, NEW n \in Takes(name), Operate(name, n, Mode(term, name, n))
  PROVE  Does(term, op'.name, op'.n, term')
<1>1. term' = Mode(term, name, n) /\ op'.name = name
  BY OperateTerm, Zenon
<1>2. name \notin LineOps \cup {"ICH", "DCH", "ECH"}
  BY DEF ModeOps, LineOps
<1>3. CASE name = "RESET"
  <2>1. term' = FullReset(term)
    BY <1>1, <1>3 DEF Mode
  <2>2. Good(term') /\ term'.columns = term.columns /\ term'.rows = term.rows
    BY <2>1, ResetGood, Zenon
  <2> QED BY <1>1, <1>2, <1>3, <2>2 DEF Does
<1>4. CASE name # "RESET"
  <2>1. Kept(term, term')
    BY <1>1, <1>4, ModeKept
  <2> QED BY <1>1, <1>2, <2>1, KeptDoes
<1> QED BY <1>3, <1>4

\* Setting the margins does what it ought to.
LEMMA MarginsStep ==
  ASSUME Good(term), NEW n \in Params, NEW m \in Params,
         Operate("MARGINS", 0, SetScrollRegion(term, n, m))
  PROVE  Does(term, op'.name, op'.n, term')
<1>1. term' = SetScrollRegion(term, n, m) /\ op'.name = "MARGINS"
  BY OperateTerm, Zenon
<1>2. n \in Nat /\ m \in Nat
  BY ScreenAssumption
<1>3. Kept(term, term')
  BY <1>1, <1>2, MarginsDraws, DrawsKept, Zenon
<1>4. "MARGINS" \notin LineOps \cup {"ICH", "DCH", "ECH"}
  BY DEF LineOps
<1> QED BY <1>1, <1>3, <1>4, KeptDoes

\* Placing the cursor does what it ought to.
LEMMA PlaceStep ==
  ASSUME Good(term), NEW n \in Params, NEW m \in Params,
         Operate("H", 0, SetX(SetY(term, Default(n, 1) - 1), Default(m, 1) - 1))
  PROVE  Does(term, op'.name, op'.n, term')
<1> DEFINE y == Default(n, 1) - 1
           x == Default(m, 1) - 1
<1>1. term' = SetX(SetY(term, y), x) /\ op'.name = "H"
  BY OperateTerm, Zenon
<1>2. y \in Int /\ x \in Int
  BY ScreenAssumption DEF Default
<1> HIDE DEF x, y
<1>3. Draws(term, SetY(term, y)) /\ Good(SetY(term, y))
  BY <1>2, SetYDraws, Zenon DEF Draws
<1>4. Draws(SetY(term, y), term')
  BY <1>1, <1>2, <1>3, SetXDraws, Zenon
<1>5. Kept(term, term')
  BY <1>3, <1>4, DrawsTwice, DrawsKept, Zenon
<1>6. "H" \notin LineOps \cup {"ICH", "DCH", "ECH"}
  BY DEF LineOps
<1> QED BY <1>1, <1>5, <1>6, KeptDoes

\* Setting the style does what it ought to.
LEMMA StyleStep ==
  ASSUME Good(term), NEW style \in Styles, Operate("SGR", 0, [term EXCEPT !.current = style])
  PROVE  Does(term, op'.name, op'.n, term')
<1>1. term' = [term EXCEPT !.current = style] /\ op'.name = "SGR"
  BY OperateTerm, Zenon
<1>2. /\ Good(term') /\ term'.columns = term.columns /\ term'.rows = term.rows
      /\ term'.active = term.active /\ \A b \in Buffers : term'[b] = term[b]
  BY <1>1, StyleGood, Zenon
<1>3. Kept(term, term')
  BY <1>2 DEF Kept, Buffers
<1>4. "SGR" \notin LineOps \cup {"ICH", "DCH", "ECH"}
  BY DEF LineOps
<1> QED BY <1>1, <1>3, <1>4, KeptDoes

\* A resize does what it ought to.
LEMMA ResizeStep ==
  ASSUME Good(term), NEW columns \in Widths, NEW rows \in Heights,
         Operate("RESIZE", 0, Resize(term, columns, rows))
  PROVE  Does(term, op'.name, op'.n, term')
<1>1. term' = Resize(term, columns, rows) /\ op'.name = "RESIZE"
  BY OperateTerm, Zenon
<1>2. columns \in Nat \ {0} /\ rows \in Nat \ {0}
  BY ScreenAssumption
<1>3. /\ Good(term')
      /\ \A b \in Buffers :
           KeepsCorner(term[b].cells, term.columns, term.rows, term'[b].cells, term'.columns, term'.rows)
  BY <1>1, <1>2, ResizeDone, Zenon
<1>4. "RESIZE" \notin LineOps \cup {"ICH", "DCH", "ECH"}
  BY DEF LineOps
<1> QED BY <1>1, <1>3, <1>4 DEF Does

-----------------------------------------------------------------------------
(* The invariant and the theorems.                                         *)

\* The inductive invariant: the terminal is well formed, the renderer holds a
\* handle exactly while the browser holds its callback, and what is not painted
\* is dirty with a callback to come.
IInv ==
  /\ Good(term)
  /\ frame <=> scheduled
  /\ stale => dirty /\ scheduled

\* The invariant holds at first.
LEMMA InitInv ==
  Init => IInv
<1> SUFFICES ASSUME Init PROVE IInv
  OBVIOUS
<1>1. PICK s \in Filled(1), active \in Buffers, style \in Styles :
        /\ ValidMargins(s)
        /\ term = [columns |-> Columns, rows |-> Rows, primary |-> s, alternate |-> s,
                   active |-> active, saved |-> [x |-> 0, y |-> 0, style |-> Plain],
                   current |-> style, cursorVisible |-> TRUE, insertMode |-> FALSE,
                   lastGraphic |-> Cell(1, Plain)]
  BY Zenon DEF Init, Buffers
<1> DEFINE blank == MakeScreen(Columns, Rows)
           cells == [i \in DOMAIN blank.cells |-> Cell(1 + i, Plain)]
<1>2. PICK x \in 0 .. Columns - 1, y \in 0 .. Rows - 1, top \in 0 .. Rows - 1, bottom \in 0 .. Rows - 1 :
        s = FilledAt(1, x, y, top, bottom)
  BY <1>1, SMT DEF Filled
<1>3. GoodScreen(blank, Columns, Rows) /\ DOMAIN blank.cells = 0 .. Columns * Rows - 1
  <2>1. GoodScreen(blank, Columns, Rows)
    BY ScreenAssumption, SizedGood
  <2> HIDE DEF blank
  <2> QED BY <2>1 DEF GoodScreen
<1>4. Plain \in Styles
  BY SMT, Z3 DEF Styles
<1>5. cells \in [0 .. Columns * Rows - 1 -> Cells]
  <2>1. ASSUME NEW i \in 0 .. Columns * Rows - 1
        PROVE  Cell(1 + i, Plain) \in Cells
    <3>1. 1 + i \in 0 .. Columns * Rows
      BY ScreenAssumption
    <3> QED BY <1>4, <3>1, StyleCells
  <2> HIDE DEF blank
  <2> QED BY <1>3, <2>1
<1>6. Cell(1, Plain) \in Cells
  <2>1. 1 \in 0 .. Columns * Rows
    BY ScreenAssumption
  <2> QED BY <1>4, <2>1, StyleCells
<1> HIDE DEF blank
<1>7. /\ DOMAIN s = DOMAIN blank /\ s.columns = Columns /\ s.rows = Rows /\ s.x = x /\ s.y = y
      /\ s.scrollTop = top /\ s.scrollBottom = bottom /\ s.cells = cells
  <2>1. s = [blank EXCEPT !.x = x, !.y = y, !.scrollTop = top, !.scrollBottom = bottom, !.cells = cells]
    BY <1>2, Zenon DEF FilledAt, blank
  <2> HIDE DEF cells
  <2> QED BY <2>1, <1>3 DEF GoodScreen
<1> HIDE DEF cells
<1>8. top <= bottom
  BY <1>1, <1>7, ScreenAssumption, SMT, Z3 DEF ValidMargins
<1>9. GoodScreen(s, Columns, Rows)
  BY <1>3, <1>5, <1>7, <1>8, SMT, Z3 DEF GoodScreen
<1>10. Good(term)
  BY <1>1, <1>4, <1>6, <1>9, ScreenAssumption DEF Good, Buffers
<1> QED BY <1>10 DEF Init, IInv

\* An operation or a frame: what a step does to the terminal.
LEMMA StepDone ==
  ASSUME Good(term), [Next]_vars
  PROVE  UNCHANGED <<term, op, ops>> \/ Does(term, op'.name, op'.n, term')
<1>1. CASE \E name \in Moves : \E n \in Takes(name) : Operate(name, n, Move(term, name, n))
  BY <1>1, MoveStep, Zenon
<1>2. CASE \E name \in LineOps : \E n \in Takes(name) : Operate(name, n, Line(term, name, n))
  BY <1>2, LineStep, Zenon
<1>3. CASE \E name \in RowOps : \E n \in Takes(name) : Operate(name, n, Row(term, name, n))
  BY <1>3, RowStep, Zenon
<1>4. CASE \E name \in ModeOps : \E n \in Takes(name) : Operate(name, n, Mode(term, name, n))
  BY <1>4, ModeStep, Zenon
<1>5. CASE \E n, m \in Params : Operate("MARGINS", 0, SetScrollRegion(term, n, m))
  BY <1>5, MarginsStep, Zenon
<1>6. CASE \E n, m \in Params : Operate("H", 0, SetX(SetY(term, Default(n, 1) - 1), Default(m, 1) - 1))
  BY <1>6, PlaceStep, Zenon
<1>7. CASE \E style \in Styles : Operate("SGR", 0, [term EXCEPT !.current = style])
  BY <1>7, StyleStep, Zenon
<1>8. CASE \E columns \in Widths, rows \in Heights : Operate("RESIZE", 0, Resize(term, columns, rows))
  BY <1>8, ResizeStep, Zenon
<1>9. CASE Frame \/ RendererResize \/ UNCHANGED vars
  BY <1>9, Zenon DEF Frame, RendererResize, vars
<1> QED BY <1>1, <1>2, <1>3, <1>4, <1>5, <1>6, <1>7, <1>8, <1>9, Zenon DEF Next

\* Every operation, frame and resize of the renderer keeps the invariant:
\* markDirty asks for a frame exactly when it holds no handle, so a change is
\* never left without a callback to come.
LEMMA StepInv ==
  IInv /\ [Next]_vars => IInv'
<1> SUFFICES ASSUME IInv, [Next]_vars PROVE IInv'
  OBVIOUS
<1>1. Good(term')
  BY StepDone, Zenon DEF IInv, Does
<1>2. CASE MarkDirty
  BY <1>1, <1>2, Zenon DEF MarkDirty, IInv
<1>3. CASE Frame
  BY <1>1, <1>3, Zenon DEF Frame, Render, IInv
<1>4. CASE RendererResize
  BY <1>1, <1>4, Zenon DEF RendererResize, IInv
<1>5. CASE UNCHANGED vars
  <2>1. frame' = frame /\ scheduled' = scheduled /\ stale' = stale /\ dirty' = dirty
    BY <1>5 DEF vars
  <2> QED BY <1>1, <2>1, Zenon DEF IInv
<1> QED BY <1>2, <1>3, <1>4, <1>5, Zenon DEF Next, Operate

\* The invariant always holds.
LEMMA Invariance ==
  Spec => []IInv
  BY InitInv, StepInv, PTL DEF Spec

\* For every size and every sequence of operations, sizes and frames, what the
\* model shows and the canvas does not is dirty with a frame coming (markDirty,
\* render), and the cursors, the margins and the cells of both buffers fit the
\* screen.
THEOREM RepaintDueHolds ==
  Spec => []RepaintDue
<1>1. IInv => RepaintDue
  BY SMT, Z3 DEF IInv, RepaintDue, TypeOK, Good, GoodScreen, Buffers
<1> QED BY <1>1, Invariance, PTL

\* Whatever a program does on the alternate screen (enterAlternate to
\* leaveAlternate), the text and the margins of the primary screen stay, unless
\* it is reset or resized.
THEOREM PrimaryIsKept ==
  Spec => PrimaryKept
<1>1. IInv /\ [Next]_vars =>
        [op'.name \notin {"RESET", "RESIZE"} /\ (term.active = "alternate" \/ term'.active = "alternate") =>
           /\ term'.primary.cells = term.primary.cells
           /\ term'.primary.scrollTop = term.primary.scrollTop
           /\ term'.primary.scrollBottom = term.primary.scrollBottom]_vars
  BY StepDone, Zenon DEF IInv, Does, Kept
<1> QED BY <1>1, Invariance, PTL DEF Spec, PrimaryKept

\* resize keeps, from every size to every other, the upper left part of both
\* buffers cell by cell.
THEOREM ResizeKeepsCorner ==
  Spec => ResizeKeeps
<1>1. IInv /\ [Next]_vars =>
        [term'.columns # term.columns \/ term'.rows # term.rows =>
           \A b \in {"primary", "alternate"} :
             \A x \in 0 .. term.columns - 1, y \in 0 .. term.rows - 1 :
               x < term'.columns /\ y < term'.rows =>
                 term'[b].cells[Index(term', x, y)] = term[b].cells[Index(term, x, y)]]_vars
  BY StepDone, Zenon DEF IInv, Does, KeepsCorner, Buffers, Index
<1> QED BY <1>1, Invariance, PTL DEF Spec, ResizeKeeps

\* eraseCell is a space without decorations in the colours of the style.
LEMMA BlankIsErased ==
  ASSUME NEW t
  PROVE  /\ EraseCell(t).code = Space /\ EraseCell(t).decorated = FALSE
         /\ EraseCell(t).fg = Cell(Typed, t.current).fg /\ EraseCell(t).bg = Cell(Typed, t.current).bg
  BY DEF EraseCell, Cell

\* The operations on lines and on characters do to the rows exactly what
\* ScrollsByRows, BlanksUndecorated and EditsRow say, for every screen, cursor,
\* margins, style and count.
THEOREM EditsAreExact ==
  Spec => EditsExact
<1>1. ASSUME IInv, [Next]_vars
      PROVE  ScrollsByRows
  <2> SUFFICES ASSUME ops' # ops, op'.name \in LineOps
               PROVE  AllRows(term') = LineRows(term, op'.name, op'.n)
    BY Zenon DEF ScrollsByRows, LineRows
  <2> QED BY <1>1, StepDone, Zenon DEF IInv, Does
<1>2. ASSUME IInv, [Next]_vars
      PROVE  BlanksUndecorated
  <2> SUFFICES ASSUME ops' # ops, op'.name \in LineOps, NEW i \in DOMAIN Active(term').cells
               PROVE  LET c == Active(term').cells[i]
                      IN \/ \E j \in DOMAIN Active(term).cells : Active(term).cells[j] = c
                         \/ /\ c.code = Space /\ ~c.decorated
                            /\ c.fg = Cell(Typed, term.current).fg
                            /\ c.bg = Cell(Typed, term.current).bg
    BY Zenon DEF BlanksUndecorated
  <2>1. Blanked(term, term')
    BY <1>2, StepDone, Zenon DEF IInv, Does
  <2> QED BY <2>1, BlankIsErased, Zenon DEF Blanked
<1>3. ASSUME IInv, [Next]_vars
      PROVE  EditsRow
  <2> SUFFICES ASSUME ops' # ops, op'.name \in {"ICH", "DCH", "ECH"}
               PROVE  /\ Line1(term') = EditedRow(term, op'.name, op'.n)
                      /\ \A y \in 0 .. term.rows - 1 :
                           y # Active(term).y => RowOf(term', term.active, y) = RowOf(term, term.active, y)
    BY Zenon DEF EditsRow, EditedRow
  <2> QED BY <1>3, StepDone, Zenon DEF IInv, Does
<1>4. IInv /\ [Next]_vars => [ScrollsByRows /\ BlanksUndecorated /\ EditsRow]_vars
  BY <1>1, <1>2, <1>3
<1> QED BY <1>4, Invariance, PTL DEF Spec, EditsExact

=============================================================================
