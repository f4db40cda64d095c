----------------------------- MODULE EditorText -----------------------------
(***************************************************************************)
(* The text that the editor commands see, and the places in it: the line   *)
(* access of kvim-core/src/buffer.rs and, from kvim-editor, the cursor     *)
(* (cursor.rs), grapheme clusters (grapheme.rs), selections (selection.rs),*)
(* the viewport (viewport.rs) and the state of a window (window.rs).       *)
(*                                                                         *)
(* A text is a sequence of characters: "n" and "r" end a line, " " is the  *)
(* blank, "u" is a combining mark, which joins the cluster of the          *)
(* character before it.  Lines, columns and positions count from zero; a   *)
(* position is the number of characters before it.                         *)
(***************************************************************************)
EXTENDS Integers, Sequences, FiniteSets, SequencesExt

CONSTANTS
  ScrollOff,      \* DisplaySettings::scrolloff_rows
  SideScrollOff   \* DisplaySettings::sidescrolloff_cells

Lesser(x, y) == IF x < y THEN x ELSE y
Greater(x, y) == IF x > y THEN x ELSE y
Less(x, y) == Greater(x - y, 0)
Least(S) == CHOOSE x \in S : \A y \in S : x <= y
Greatest(S) == CHOOSE x \in S : \A y \in S : x >= y
Ascending(S) == IF S = {} THEN <<>> ELSE SelectSeq([i \in 1..(Greatest(S) + 1) |-> i - 1], LAMBDA p : p \in S)

Between(text, start, end) == SubSeq(text, start + 1, end)
Copies(text, times) == FlattenSeq([i \in 1..times |-> text])

-----------------------------------------------------------------------------
(* Lines. *)

\* A carriage return and the line feed behind it end one line together.
LineEnds(text) ==
  {i \in 1..Len(text) : text[i] = "n" \/ (text[i] = "r" /\ (i = Len(text) \/ text[i + 1] # "n"))}
BreakWidth(text, i) == IF text[i] = "n" /\ i > 1 /\ text[i - 1] = "r" THEN 2 ELSE 1

\* The terminator of the last line opens no line: what lies behind it has a
\* start and a length, as in the rope, and is not counted.
LaidAt(text, ending, ends) ==
  [text |-> text, ending |-> ending,
   starts |-> [l \in 0..Len(ends) |-> IF l = 0 THEN 0 ELSE ends[l]],
   lens |-> [l \in 0..Len(ends) |->
     IF l = Len(ends) THEN 0
     ELSE ends[l + 1] - BreakWidth(text, ends[l + 1]) - (IF l = 0 THEN 0 ELSE ends[l])]]
Laid(text, ending) == LaidAt(text, ending, Ascending(LineEnds(text)))

LineCount(b) == Cardinality(DOMAIN b.lens) - 1
LastLine(b) == LineCount(b) - 1
LineAt(b, line) == Lesser(line, LastLine(b))
LineOf(b, p) == Greatest({l \in DOMAIN b.starts : b.starts[l] <= p})
ColumnOf(b, p) == Lesser(p - b.starts[LineOf(b, p)], b.lens[LineOf(b, p)])
ContentEnd(b, line) == b.starts[line] + b.lens[line]
LineText(b, line) == Between(b.text, b.starts[line], ContentEnd(b, line))

-----------------------------------------------------------------------------
(* Clusters: a combining mark belongs to the character before it. *)

Boundaries(b, line) ==
  {0, b.lens[line]} \cup {c \in 1..(b.lens[line] - 1) : b.text[b.starts[line] + c + 1] # "u"}
Snapped(b, line, column) == Greatest({c \in Boundaries(b, line) : c <= column})

\* The column some clusters to the left or to the right.
ClusterIndex(b, line, column) == Cardinality({c \in Boundaries(b, line) : c <= column}) - 1
BoundaryAt(b, line, index) ==
  CHOOSE c \in Boundaries(b, line) :
    Cardinality({k \in Boundaries(b, line) : k < c}) = Lesser(index, Cardinality(Boundaries(b, line)) - 1)
ColumnLeft(b, line, column, count) == BoundaryAt(b, line, Less(ClusterIndex(b, line, column), count))
ColumnRight(b, line, column, count) == BoundaryAt(b, line, ClusterIndex(b, line, column) + count)

-----------------------------------------------------------------------------
(* Cursors. *)

EndOfLine == -1   \* PreferredColumn::LineEnd
Cursor(line, column, preferred) == [line |-> line, column |-> column, preferred |-> preferred]
Origin == Cursor(0, 0, 0)

\* Insert mode alone places the cursor behind the last character.
LastColumn(mode, len) == IF mode = "Insert" THEN len ELSE Less(len, 1)

ClampedWith(b, line, column, preferred, mode) ==
  LET l == LineAt(b, line)
  IN Cursor(l, Snapped(b, l, Lesser(column, LastColumn(mode, b.lens[l]))), preferred)
PreferringItself(cursor) == [cursor EXCEPT !.preferred = cursor.column]
Clamped(b, line, column, mode) == PreferringItself(ClampedWith(b, line, column, EndOfLine, mode))
AtPosition(b, p, mode) == Clamped(b, LineOf(b, p), ColumnOf(b, p), mode)
ReClamped(b, cursor, mode) == ClampedWith(b, cursor.line, cursor.column, cursor.preferred, mode)
PositionOf(b, cursor) == b.starts[cursor.line] + cursor.column

-----------------------------------------------------------------------------
(* Windows and their viewports. *)

NoAnchor == [line |-> -1, column |-> -1]
Window(buffer, rows, cells) ==
  [buffer |-> buffer, cursor |-> Origin, anchor |-> NoAnchor,
   first |-> 0, left |-> 0, rows |-> rows, cells |-> cells]
ShowingNewBuffer(w, buffer) == [w EXCEPT !.buffer = buffer, !.cursor = Origin, !.anchor = NoAnchor]

\* The least change of an offset that shows a position with its margin.
\* Mutant: the margin may be wider than half of the window.
ReconcileUnreduced(offset, position, last, size, margin) ==
  Greater(Lesser(offset, Less(position, margin)), Less(Lesser(position + margin, last) + 1, size))
ReconcileWith(offset, position, last, size, margin) ==
  Greater(Lesser(offset, Less(position, margin)), Less(Lesser(position + margin, last) + 1, size))
ReconcileAxis(offset, position, last, size, margin) ==
  ReconcileWith(offset, position, last, size, Lesser(margin, (size - 1) \div 2))

Reconciled(b, w) ==
  [w EXCEPT !.first = ReconcileAxis(@, w.cursor.line, LastLine(b), w.rows, ScrollOff),
            !.left = ReconcileAxis(@, w.cursor.column, b.lens[w.cursor.line], w.cells, SideScrollOff)]

HalfPage(w) == IF w.rows > 1 THEN w.rows \div 2 ELSE 1
FullPage(w) == IF w.rows > 3 THEN w.rows - 2 ELSE 1

Aligned(w, where) ==
  [w EXCEPT !.first = CASE where = "AlignCursorLineTop" -> w.cursor.line
                        [] where = "CenterCursorLine" -> Less(w.cursor.line, w.rows \div 2)
                        [] where = "AlignCursorLineBottom" -> Less(w.cursor.line, w.rows - 1)]

\* Scrolling moves the viewport first, and the cursor only as far as it must:
\* into the lines that keep their margin.
LowestLine(b, w, first) ==
  IF first = 0 THEN 0 ELSE first + Lesser(ScrollOff, (w.rows - 1) \div 2)
HighestLine(b, w, first) ==
  LET last == Lesser(first + w.rows - 1, LastLine(b))
  IN IF last = LastLine(b) THEN last ELSE Less(last, Lesser(ScrollOff, (w.rows - 1) \div 2))
ScrolledTo(b, w, first, mode) ==
  [w EXCEPT !.first = first,
            !.cursor = Clamped(b, Greater(LowestLine(b, w, first), Lesser(@.line, HighestLine(b, w, first))),
                               @.column, mode)]
FirstBelow(b, w, rows) == Lesser(w.first + rows, Less(LineCount(b), w.rows))
FirstAbove(w, rows) == Less(w.first, rows)
\* The anchor of a window, or its cursor, inside the text.
AnchorPoint(b, w) ==
  LET from == IF w.anchor = NoAnchor THEN w.cursor ELSE w.anchor
      line == LineAt(b, from.line)
  IN [line |-> line, column |-> Lesser(from.column, b.lens[line])]

-----------------------------------------------------------------------------
(* Selections. *)

VisualModes == {"Visual", "VisualLine", "VisualBlock"}
Chars(start, end) == [shape |-> "characters", start |-> start, end |-> end]
Lines(first, last) == [shape |-> "lines", first |-> first, last |-> last]
Block(first, last, left, right) == [shape |-> "block", first |-> first, last |-> last, left |-> left, right |-> right]
NoSelection == [shape |-> "none"]

SelectionFrom(b, mode, anchor, cursor) ==
  LET at == b.starts[anchor.line] + anchor.column
      head == PositionOf(b, cursor)
      first == Lesser(anchor.line, cursor.line)
      last == Greater(anchor.line, cursor.line)
  IN CASE mode = "Visual" -> Chars(Lesser(at, head), Lesser(Greater(at, head) + 1, Len(b.text)))
       [] mode = "VisualLine" -> Lines(first, last)
       [] mode = "VisualBlock" -> Block(first, last, Lesser(anchor.column, cursor.column),
                                        Greater(anchor.column, cursor.column))
       [] OTHER -> NoSelection
SelectionOf(b, mode, w) == SelectionFrom(b, mode, AnchorPoint(b, w), w.cursor)
=============================================================================
