------------------------------- MODULE Screen --------------------------------
(***************************************************************************)
(* The screen of the browser terminal (TerminalModel of terminal/model.js) *)
(* and the repaints of its renderer (markDirty, render and resize of       *)
(* terminal/renderer.js).                                                  *)
(*                                                                         *)
(* A step is one operation of the model: a character, a control character *)
(* or a complete escape sequence, whose parsing (consume, params) is left  *)
(* out.  Cells keep the flat layout of the code, index y * columns + x.  A *)
(* cell has a code, two colours and its decorations (bold, underline and   *)
(* inverse as one flag).                                                   *)
(***************************************************************************)
EXTENDS Integers, Sequences

CONSTANTS Columns, Rows,  \* the size of the terminal at first
          Widths,         \* the columns and
          Heights,        \* the rows it is resized to
          Params,         \* the parameters of sequences; 0 is none
          MaxOps          \* how many operations a behaviour has

ASSUME ScreenAssumption ==
  /\ Columns \in Nat \ {0} /\ Rows \in Nat \ {0}
  /\ Widths \subseteq Nat \ {0} /\ Heights \subseteq Nat \ {0}
  /\ Params \subseteq Nat /\ MaxOps \in Nat

VARIABLES
  term,       \* the TerminalModel
  op,         \* the last operation, and its parameter
  ops,        \* how many there have been
  dirty,      \* dirty of the renderer
  frame,      \* frame of the renderer: a handle is held
  scheduled,  \* the browser holds a callback for the next frame
  stale       \* what is painted is not what the model shows

vars == <<term, op, ops, dirty, frame, scheduled, stale>>

-----------------------------------------------------------------------------
(* Cells and screens.                                                      *)

Clamp(value, low, high) ==
  IF value < low THEN low ELSE IF value > high THEN high ELSE value

Plain == [fg |-> "white", bg |-> "black", decorated |-> FALSE, inverse |-> FALSE]
Reversed == [fg |-> "red", bg |-> "blue", decorated |-> TRUE, inverse |-> TRUE]
Styles == {Plain, Reversed}

Space == 0
Cell(code, style) ==
  [code |-> code, decorated |-> style.decorated,
   fg |-> IF style.inverse THEN style.bg ELSE style.fg,
   bg |-> IF style.inverse THEN style.fg ELSE style.bg]

BlankCell == Cell(Space, Plain)

\* eraseCell: the colours of the style without its decorations.
EraseCell(t) == [Cell(Space, t.current) EXCEPT !.decorated = FALSE]

MakeScreen(columns, rows) ==
  [columns |-> columns, rows |-> rows, x |-> 0, y |-> 0,
   scrollTop |-> 0, scrollBottom |-> rows - 1,
   cells |-> [i \in 0 .. columns * rows - 1 |-> BlankCell]]

Active(t) == t[t.active]
SetX(t, value) == [t EXCEPT ![t.active].x = Clamp(value, 0, t.columns - 1)]
SetY(t, value) == [t EXCEPT ![t.active].y = Clamp(value, 0, t.rows - 1)]
SetCells(t, cells) == [t EXCEPT ![t.active].cells = cells]
Index(t, x, y) == y * t.columns + x
Default(value, otherwise) == IF value = 0 THEN otherwise ELSE value

-----------------------------------------------------------------------------
(* Lines.                                                                  *)

CopyWithin(cells, target, start, end) ==
  [i \in DOMAIN cells |->
     IF target <= i /\ i < target + (end - start) THEN cells[start + i - target] ELSE cells[i]]

ScrollLines_WholeCount(t, top, bottom, number, down) ==
  LET count == Clamp(number, 1, t.rows)
      start == top * t.columns
      end == (bottom + 1) * t.columns
      offset == count * t.columns
      cells == Active(t).cells
      copied == IF down THEN CopyWithin(cells, start + offset, start, end - offset)
                ELSE CopyWithin(cells, start, start + offset, end)
      blankStart == IF down THEN start ELSE end - offset
  IN SetCells(t, [i \in DOMAIN cells |->
       IF blankStart <= i /\ i < blankStart + offset THEN EraseCell(t) ELSE copied[i]])

ScrollLines(t, top, bottom, number, down) ==
  LET count == Clamp(number, 1, bottom - top + 1)
      start == top * t.columns
      end == (bottom + 1) * t.columns
      offset == count * t.columns
      cells == Active(t).cells
      copied == IF down THEN CopyWithin(cells, start + offset, start, end - offset)
                ELSE CopyWithin(cells, start, start + offset, end)
      blankStart == IF down THEN start ELSE end - offset
  IN SetCells(t, [i \in DOMAIN cells |->
       IF blankStart <= i /\ i < blankStart + offset THEN EraseCell(t) ELSE copied[i]])

Scroll(t, number, down) ==
  ScrollLines(t, Active(t).scrollTop, Active(t).scrollBottom, number, down)

LineFeed(t) ==
  IF Active(t).y = Active(t).scrollBottom THEN Scroll(t, 1, FALSE) ELSE SetY(t, Active(t).y + 1)

ReverseIndex(t) ==
  IF Active(t).y = Active(t).scrollTop THEN Scroll(t, 1, TRUE) ELSE SetY(t, Active(t).y - 1)

ChangeLines(t, number, insert) ==
  IF Active(t).y \notin Active(t).scrollTop .. Active(t).scrollBottom THEN t
  ELSE SetX(ScrollLines(t, Active(t).y, Active(t).scrollBottom, number, insert), 0)

SetScrollRegion(t, first, last) ==
  LET top == Default(first, 1) - 1
      bottom == Default(last, t.rows) - 1
  IN IF bottom >= t.rows \/ top >= bottom THEN t
     ELSE SetY(SetX([t EXCEPT ![t.active].scrollTop = top, ![t.active].scrollBottom = bottom], 0), 0)

-----------------------------------------------------------------------------
(* Characters.                                                             *)

\* In insert mode the rest of the row is moved right first.
PutCell(t, cell) ==
  LET s == Active(t)
      here == Index(t, s.x, s.y)
      rowEnd == Index(t, t.columns - 1, s.y)
      shifted == IF t.insertMode
                 THEN [i \in DOMAIN s.cells |->
                         IF here < i /\ i <= rowEnd THEN s.cells[i - 1] ELSE s.cells[i]]
                 ELSE s.cells
      written == [SetCells(t, [shifted EXCEPT ![here] = cell]) EXCEPT !.lastGraphic = cell]
  IN IF s.x = t.columns - 1 THEN LineFeed(SetX(written, 0)) ELSE SetX(written, s.x + 1)

Put(t, code) == PutCell(t, Cell(code, t.current))

NoGraphic == [code |-> -1]

RepeatLast(t, number) ==
  LET count == Clamp(number, 1, t.columns * t.rows)
      after[n \in 0 .. count] == IF n = 0 THEN t ELSE PutCell(after[n - 1], t.lastGraphic)
  IN IF t.lastGraphic = NoGraphic THEN t ELSE after[count]

\* The row of the cursor from the cursor on, by the cells it gets.
EditRow(t, f) ==
  LET s == Active(t)
      row == Index(t, 0, s.y)
  IN SetCells(t, [i \in DOMAIN s.cells |-> IF i - row \in DOMAIN f THEN f[i - row] ELSE s.cells[i]])

EraseCharacters(t, number) ==
  LET s == Active(t)
      count == Clamp(number, 1, t.columns - s.x)
  IN EditRow(t, [x \in s.x .. t.columns - 1 |->
                   IF x < s.x + count THEN Cell(Space, t.current) ELSE s.cells[Index(t, x, s.y)]])

InsertCharacters(t, number) ==
  LET s == Active(t)
      count == Clamp(number, 1, t.columns - s.x)
  IN EditRow(t, [x \in s.x .. t.columns - 1 |->
                   IF x < s.x + count THEN Cell(Space, t.current)
                   ELSE s.cells[Index(t, x - count, s.y)]])

DeleteCharacters(t, number) ==
  LET s == Active(t)
      count == Clamp(number, 1, t.columns - s.x)
  IN EditRow(t, [x \in s.x .. t.columns - 1 |->
                   IF x >= t.columns - count THEN Cell(Space, t.current)
                   ELSE s.cells[Index(t, x + count, s.y)]])

EraseLine(t, mode) ==
  LET s == Active(t)
      from == IF mode = 1 THEN 0 ELSE s.x
      to == IF mode = 1 THEN s.x ELSE t.columns - 1
  IN SetCells(t, [i \in DOMAIN s.cells |->
       IF Index(t, from, s.y) <= i /\ i <= Index(t, to, s.y) THEN BlankCell ELSE s.cells[i]])

EraseDisplay(t, mode) ==
  LET s == Active(t)
      cleared(first, end) ==
        SetCells(t, [i \in DOMAIN s.cells |-> IF first <= i /\ i < end THEN BlankCell ELSE s.cells[i]])
  IN CASE mode \in {2, 3} -> cleared(0, t.columns * t.rows)
       [] mode = 1 -> EraseLine(cleared(0, Index(t, 0, s.y)), 1)
       [] OTHER -> EraseLine(cleared(Index(t, 0, s.y + 1), t.columns * t.rows), 0)

-----------------------------------------------------------------------------
(* The cursor, the buffers and the size.                                   *)

SaveCursor(t) == [t EXCEPT !.saved = [x |-> Active(t).x, y |-> Active(t).y, style |-> t.current]]

RestoreCursor(t) == [SetY(SetX(t, t.saved.x), t.saved.y) EXCEPT !.current = t.saved.style]

EnterAlternate_ResetsActive(t) ==
  [SaveCursor(t) EXCEPT ![t.active] = MakeScreen(t.columns, t.rows), !.active = "alternate"]

EnterAlternate(t) ==
  [SaveCursor(t) EXCEPT !.alternate = MakeScreen(t.columns, t.rows), !.active = "alternate"]

LeaveAlternate(t) == RestoreCursor([t EXCEPT !.active = "primary"])

FullReset(t) ==
  [t EXCEPT !.primary = MakeScreen(t.columns, t.rows), !.alternate = MakeScreen(t.columns, t.rows),
            !.active = "primary", !.cursorVisible = TRUE, !.insertMode = FALSE,
            !.lastGraphic = NoGraphic, !.current = Plain]

ResizeScreen_NewStride(t, old) ==
  LET next == MakeScreen(t.columns, t.rows)
      x(i) == i % t.columns
      y(i) == i \div t.columns
  IN [next EXCEPT !.x = Clamp(old.x, 0, t.columns - 1), !.y = Clamp(old.y, 0, t.rows - 1),
        !.cells = [i \in DOMAIN next.cells |->
          IF x(i) < old.columns /\ y(i) < old.rows /\ i \in DOMAIN old.cells THEN old.cells[i] ELSE BlankCell]]

ResizeScreen(t, old) ==
  LET next == MakeScreen(t.columns, t.rows)
      x(i) == i % t.columns
      y(i) == i \div t.columns
  IN [next EXCEPT !.x = Clamp(old.x, 0, t.columns - 1), !.y = Clamp(old.y, 0, t.rows - 1),
        !.cells = [i \in DOMAIN next.cells |->
          IF x(i) < old.columns /\ y(i) < old.rows THEN old.cells[y(i) * old.columns + x(i)] ELSE BlankCell]]

Resize(t, columns, rows) ==
  LET sized == [t EXCEPT !.columns = columns, !.rows = rows]
      next == [sized EXCEPT !.primary = ResizeScreen(sized, t.primary),
                            !.alternate = ResizeScreen(sized, t.alternate)]
  IN IF columns = t.columns /\ rows = t.rows THEN t
     ELSE SetY(SetX(next, Active(t).x), Active(t).y)

-----------------------------------------------------------------------------
(* Operations: the terminal after one, by its name and parameter.          *)

Typed == 99  \* the code of a new character

Unparametrised == {"CR", "BS", "HT", "LF", "NEL", "RI", "PUT", "SAVE", "RESTORE", "ENTER", "LEAVE", "RESET"}
Takes(name) == IF name \in Unparametrised THEN {0} ELSE Params  \* the parameters it takes

Moves == {"A", "B", "C", "D", "E", "F", "G", "d", "CR", "BS", "HT"}
Move(t, name, n) ==
  LET s == Active(t)
      count == Default(n, 1)
  IN CASE name = "A" -> SetY(t, s.y - count)
       [] name = "B" -> SetY(t, s.y + count)
       [] name = "C" -> SetX(t, s.x + count)
       [] name = "D" -> SetX(t, s.x - count)
       [] name = "E" -> SetX(SetY(t, s.y + count), 0)
       [] name = "F" -> SetX(SetY(t, s.y - count), 0)
       [] name = "G" -> SetX(t, count - 1)
       [] name = "d" -> SetY(t, count - 1)
       [] name = "CR" -> SetX(t, 0)
       [] name = "BS" -> SetX(t, s.x - 1)
       [] name = "HT" -> SetX(t, ((s.x + 8) \div 8) * 8)

LineOps == {"LF", "NEL", "RI", "IL", "DL", "SU", "SD"}
Line(t, name, n) ==
  LET count == Default(n, 1)
  IN CASE name = "LF" -> LineFeed(t)
       [] name = "NEL" -> LineFeed(SetX(t, 0))
       [] name = "RI" -> ReverseIndex(t)
       [] name = "IL" -> ChangeLines(t, count, TRUE)
       [] name = "DL" -> ChangeLines(t, count, FALSE)
       [] name = "SU" -> Scroll(t, count, FALSE)
       [] name = "SD" -> Scroll(t, count, TRUE)

RowOps == {"PUT", "REP", "ECH", "ICH", "DCH", "EL", "ED"}
Row(t, name, n) ==
  LET count == Default(n, 1)
  IN CASE name = "PUT" -> Put(t, Typed)
       [] name = "REP" -> RepeatLast(t, count)
       [] name = "ECH" -> EraseCharacters(t, count)
       [] name = "ICH" -> InsertCharacters(t, count)
       [] name = "DCH" -> DeleteCharacters(t, count)
       [] name = "EL" -> EraseLine(t, n)
       [] name = "ED" -> EraseDisplay(t, n)

ModeOps == {"SAVE", "RESTORE", "ENTER", "LEAVE", "RESET", "INSERT", "CURSOR"}
Mode(t, name, n) ==
  CASE name = "SAVE" -> SaveCursor(t)
    [] name = "RESTORE" -> RestoreCursor(t)
    [] name = "ENTER" -> EnterAlternate(t)
    [] name = "LEAVE" -> LeaveAlternate(t)
    [] name = "RESET" -> FullReset(t)
    [] name = "INSERT" -> [t EXCEPT !.insertMode = n # 0]
    [] name = "CURSOR" -> [t EXCEPT !.cursorVisible = n # 0]

-----------------------------------------------------------------------------
(* The renderer and the steps.                                             *)

View(t) == <<t.columns, t.rows, Active(t).cells, Active(t).x, Active(t).y, t.cursorVisible>>

\* markDirty, after the model has changed.
MarkDirty ==
  /\ dirty' = TRUE
  /\ frame' = TRUE
  /\ scheduled' = (scheduled \/ ~frame)
  /\ stale' = (stale \/ View(term') # View(term))

Operate(name, n, next) ==
  /\ ops < MaxOps
  /\ ops' = ops + 1
  /\ op' = [name |-> name, n |-> n]
  /\ term' = next
  /\ MarkDirty

\* render: what the model shows is painted if the renderer is dirty.
Render ==
  /\ dirty' = FALSE
  /\ stale' = (stale /\ ~dirty)

Frame_KeepsHandle ==
  /\ scheduled
  /\ scheduled' = FALSE
  /\ Render
  /\ UNCHANGED <<term, op, ops, frame>>

\* The callback of the frame.
Frame ==
  /\ scheduled
  /\ scheduled' = FALSE /\ frame' = FALSE
  /\ Render
  /\ UNCHANGED <<term, op, ops>>

\* The container changes its size or the page its zoom: everything is painted.
RendererResize ==
  /\ dirty' = FALSE /\ stale' = FALSE
  /\ UNCHANGED <<term, op, ops, frame, scheduled>>

\* A screen whose cells are told apart by their codes, with any cursor and
\* margins that sequences can set.
FilledAt(from, x, y, top, bottom) ==
  [MakeScreen(Columns, Rows) EXCEPT !.x = x, !.y = y, !.scrollTop = top, !.scrollBottom = bottom,
      !.cells = [i \in DOMAIN @ |-> Cell(from + i, Plain)]]

Filled(from) ==
  {FilledAt(from, x, y, top, bottom) :
     x \in 0 .. Columns - 1, y \in 0 .. Rows - 1,
     top \in 0 .. Rows - 1, bottom \in 0 .. Rows - 1}

ValidMargins(s) == s.scrollTop < s.scrollBottom \/ (s.scrollTop = 0 /\ s.scrollBottom = s.rows - 1)

Init ==
  /\ \E s \in Filled(1), active \in {"primary", "alternate"}, style \in Styles :
       /\ ValidMargins(s)
       /\ term = [columns |-> Columns, rows |-> Rows, primary |-> s, alternate |-> s,
                  active |-> active, saved |-> [x |-> 0, y |-> 0, style |-> Plain],
                  current |-> style, cursorVisible |-> TRUE, insertMode |-> FALSE,
                  lastGraphic |-> Cell(1, Plain)]
  /\ op = [name |-> "none", n |-> 0] /\ ops = 0
  /\ dirty = FALSE /\ frame = FALSE /\ scheduled = FALSE /\ stale = FALSE

Next ==
  \/ \E name \in Moves : \E n \in Takes(name) : Operate(name, n, Move(term, name, n))
  \/ \E name \in LineOps : \E n \in Takes(name) : Operate(name, n, Line(term, name, n))
  \/ \E name \in RowOps : \E n \in Takes(name) : Operate(name, n, Row(term, name, n))
  \/ \E name \in ModeOps : \E n \in Takes(name) : Operate(name, n, Mode(term, name, n))
  \/ \E n, m \in Params : Operate("MARGINS", 0, SetScrollRegion(term, n, m))
  \/ \E n, m \in Params : Operate("H", 0, SetX(SetY(term, Default(n, 1) - 1), Default(m, 1) - 1))
  \/ \E style \in Styles : Operate("SGR", 0, [term EXCEPT !.current = style])
  \/ \E columns \in Widths, rows \in Heights : Operate("RESIZE", 0, Resize(term, columns, rows))
  \/ Frame \/ RendererResize

Spec == Init /\ [][Next]_vars

-----------------------------------------------------------------------------
(* Properties.                                                             *)

Cells == [code : 0 .. Columns * Rows \cup {Typed}, decorated : BOOLEAN,
          fg : {"white", "black", "red", "blue"}, bg : {"white", "black", "red", "blue"}]

\* In both buffers, at every size, the cursor and the margins are rows and
\* columns of the screen and every cell of it exists.
TypeOK ==
  \A b \in {"primary", "alternate"} :
    LET s == term[b]
    IN /\ s.columns = term.columns /\ s.rows = term.rows
       /\ s.x \in 0 .. s.columns - 1 /\ s.y \in 0 .. s.rows - 1
       /\ s.scrollTop \in 0 .. s.scrollBottom /\ s.scrollBottom \in 0 .. s.rows - 1
       /\ s.cells \in [0 .. s.columns * s.rows - 1 -> Cells]

RowOf(t, b, y) == [x \in 0 .. t.columns - 1 |-> t[b].cells[Index(t, x, y)]]

\* The rows first to last of the active screen, moved by n rows, up or down:
\* what every line operation ought to do.
Moved(t, first, last, n, down) ==
  [y \in 0 .. t.rows - 1 |->
     LET from == IF down THEN y - n ELSE y + n
     IN IF y \notin first .. last THEN RowOf(t, t.active, y)
        ELSE IF from \in first .. last THEN RowOf(t, t.active, from)
        ELSE [x \in 0 .. t.columns - 1 |-> EraseCell(t)]]

AllRows(t) == [y \in 0 .. t.rows - 1 |-> RowOf(t, t.active, y)]

\* The line operations move whole rows within the margins, by the count or by
\* all that there are, and leave the header and status rows outside alone.
ScrollsByRows ==
  LET s == Active(term)
      n == Default(op'.n, 1)
      edge(y, down) == IF s.y = y THEN Moved(term, s.scrollTop, s.scrollBottom, 1, down) ELSE AllRows(term)
      below(down) == IF s.y \in s.scrollTop .. s.scrollBottom
                     THEN Moved(term, s.y, s.scrollBottom, n, down) ELSE AllRows(term)
  IN ops' # ops /\ op'.name \in LineOps =>
       AllRows(term') =
         CASE op'.name \in {"LF", "NEL"} -> edge(s.scrollBottom, FALSE)
           [] op'.name = "RI" -> edge(s.scrollTop, TRUE)
           [] op'.name = "IL" -> below(TRUE)
           [] op'.name = "DL" -> below(FALSE)
           [] op'.name = "SU" -> Moved(term, s.scrollTop, s.scrollBottom, n, FALSE)
           [] op'.name = "SD" -> Moved(term, s.scrollTop, s.scrollBottom, n, TRUE)

\* A blank that a line operation brings in has no decorations, whatever the
\* style, and the colours that a character printed then would have.
BlanksUndecorated ==
  ops' # ops /\ op'.name \in LineOps =>
    \A i \in DOMAIN Active(term').cells :
      LET c == Active(term').cells[i]
      IN \/ \E j \in DOMAIN Active(term).cells : Active(term).cells[j] = c
         \/ /\ c.code = Space /\ ~c.decorated
            /\ c.fg = Cell(Typed, term.current).fg /\ c.bg = Cell(Typed, term.current).bg

\* What a program does on the alternate screen leaves the text and the margins
\* of the primary screen as they were, up to and including its leaving it.
PrimaryKept ==
  [][op'.name \notin {"RESET", "RESIZE"} /\ (term.active = "alternate" \/ term'.active = "alternate") =>
       /\ term'.primary.cells = term.primary.cells
       /\ term'.primary.scrollTop = term.primary.scrollTop
       /\ term'.primary.scrollBottom = term.primary.scrollBottom]_vars

\* A resize keeps the upper left part of both buffers, cell by cell.
ResizeKeeps ==
  [][term'.columns # term.columns \/ term'.rows # term.rows =>
       \A b \in {"primary", "alternate"} :
         \A x \in 0 .. term.columns - 1, y \in 0 .. term.rows - 1 :
           x < term'.columns /\ y < term'.rows =>
             term'[b].cells[Index(term', x, y)] = term[b].cells[Index(term, x, y)]]_vars

\* The row of the cursor as a sequence, split at the cursor.
Line1(t) == [i \in 1 .. t.columns |-> RowOf(t, t.active, Active(t).y)[i - 1]]
Blanks(t, n) == [i \in 1 .. n |-> Cell(Space, t.current)]

\* Characters are inserted, deleted and erased at the cursor and in its row:
\* what is before the cursor stays, the rest moves or goes, the length stays.
EditsRow ==
  LET s == Active(term)
      old == Line1(term)
      left == SubSeq(old, 1, s.x)
      n == Clamp(Default(op'.n, 1), 1, term.columns - s.x)
  IN ops' # ops /\ op'.name \in {"ICH", "DCH", "ECH"} =>
       /\ Line1(term') =
            CASE op'.name = "ICH" -> left \o Blanks(term, n) \o SubSeq(old, s.x + 1, term.columns - n)
              [] op'.name = "DCH" -> left \o SubSeq(old, s.x + n + 1, term.columns) \o Blanks(term, n)
              [] op'.name = "ECH" -> left \o Blanks(term, n) \o SubSeq(old, s.x + n + 1, term.columns)
       /\ \A y \in 0 .. term.rows - 1 :
            y # s.y => RowOf(term', term.active, y) = RowOf(term, term.active, y)

\* The editing operations do to the rows and cells what a terminal's user
\* expects, whatever the margins, the style, the buffer and the size.
EditsExact == [][ScrollsByRows /\ BlanksUndecorated /\ EditsRow]_vars

\* What the model shows and the canvas does not is dirty, with a frame coming,
\* and what is to be drawn exists.
RepaintDue == TypeOK /\ (stale => dirty /\ scheduled)
=============================================================================
