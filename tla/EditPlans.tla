----------------------------- MODULE EditPlans ------------------------------
(***************************************************************************)
(* What an edit command plans to change, before it changes anything: the   *)
(* operators of kvim-editor/src/operator.rs, the plans of edit.rs and the  *)
(* registers of register.rs.                                               *)
(*                                                                         *)
(* A plan is a sequence of changes in ascending order, a value for the     *)
(* register, a place for the cursor and the mode that follows.  No changes *)
(* mean no transaction.  Indentation is spaces, as with the default        *)
(* settings; one letter in two cases stands for the case mapping, and "#"  *)
(* for the comment token.                                                  *)
(***************************************************************************)
EXTENDS EditorMotions

CONSTANTS
  ShiftWidth,        \* IndentPolicy::shift_width
  RegisterBytesMax   \* REGISTER_BYTES_MAX

-----------------------------------------------------------------------------
(* Registers. *)

Value(text, shape) == [text |-> text, shape |-> shape]
NoValue == Value(<<>>, "none")
LineValue(text, ending) == Value(IF IsSuffix(ending, text) THEN text ELSE text \o ending, "lines")
Joined(lines, ending) ==
  FoldLeft(LAMBDA text, i : text \o (IF i = 1 THEN <<>> ELSE ending) \o lines[i], <<>>, Steps(Len(lines)))
BlockLines(text, ending) ==
  LET cuts == Ascending({i \in 0..(Len(text) - Len(ending)) : Between(text, i, i + Len(ending)) = ending})
  IN [k \in 1..(Len(cuts) + 1) |->
        Between(text, IF k = 1 THEN 0 ELSE cuts[k - 1] + Len(ending), IF k > Len(cuts) THEN Len(text) ELSE cuts[k])]

RepeatedValue(value, times, ending) ==
  IF times <= 1 \/ Len(value.text) * times > RegisterBytesMax THEN value
  ELSE IF value.shape = "block"
  THEN LET lines == BlockLines(value.text, ending)
       IN [value EXCEPT !.text = Joined([i \in DOMAIN lines |-> Copies(lines[i], times)], ending)]
  ELSE [value EXCEPT !.text = Copies(@, times)]
Appended(stored, value, ending) ==
  IF Len(stored.text) + Len(value.text) > RegisterBytesMax THEN stored
  ELSE IF stored.shape = "lines" THEN LineValue(stored.text \o value.text, ending)
  ELSE [stored EXCEPT !.text = @ \o value.text]

\* One named register stands for all; its upper case appends to it.
RegisterNames == {"unnamed", "named", "append", "blackhole"}
NoRegisters == [unnamed |-> NoValue, named |-> NoValue]
RegisterValue(registers, name) ==
  CASE name = "unnamed" -> registers.unnamed
    [] name \in {"named", "append"} -> registers.named
    [] name = "blackhole" -> NoValue
Written(registers, name, value, ending) ==
  CASE name = "unnamed" -> [registers EXCEPT !.unnamed = value]
    [] name = "named" \/ (name = "append" /\ registers.named = NoValue) -> [registers EXCEPT !.named = value]
    [] name = "append" /\ registers.named # NoValue -> [registers EXCEPT !.named = Appended(@, value, ending)]
    [] name = "blackhole" -> registers

-----------------------------------------------------------------------------
(* Plans. *)

Change(start, end, new) == [start |-> start, end |-> end, new |-> new]
At(line, column) == [place |-> "at", line |-> line, column |-> column]
OnLine(line) == [place |-> "first-non-blank", line |-> line]
AtPlace(p) == [place |-> "position", position |-> p]
Stay == [place |-> "unchanged"]
Plan(changes, value, cursor, mode) == [changes |-> changes, value |-> value, cursor |-> cursor, mode |-> mode]
Unchanged == Plan(<<>>, NoValue, Stay, "keep")
OrUnchanged(plan) == IF plan.changes = <<>> THEN Unchanged ELSE plan

\* Text between two positions with the buffer's line ending between its lines.
TextIn(b, start, end) ==
  LET first == LineOf(b, start)
      last == LineOf(b, end)
      Part(l) == Between(LineText(b, l), IF l = first THEN ColumnOf(b, start) ELSE 0,
                         IF l = last THEN ColumnOf(b, end) ELSE b.lens[l])
  IN Joined([i \in 1..(last - first + 1) |-> Part(first + i - 1)], b.ending)
LinesText(b, first, last) ==
  FlattenSeq([i \in 1..(last - first + 1) |-> LineText(b, first + i - 1) \o b.ending])

\* The last line of a text with one line keeps its terminator.
LinewiseDeletion(b, first, last) ==
  Change(b.starts[first],
         IF last < LastLine(b) THEN b.starts[last + 1]
         ELSE IF b.starts[first] = 0 THEN ContentEnd(b, last) ELSE Len(b.text), <<>>)
SelectionLines(b, s) ==
  IF s.shape = "characters"
  THEN Lines(LineOf(b, s.start), LineOf(b, Lesser(Greater(Less(s.end, 1), s.start), Len(b.text))))
  ELSE Lines(s.first, s.last)

\* Indentation.
Spaces(columns) == Copies(<<" ">>, columns)
IndentOf(line) == Cardinality({i \in 1..Len(line) : \A k \in 1..i : line[k] = " "})
AllBlank(line) == \A i \in 1..Len(line) : Class(line[i]) = "blank"
FallbackIndent(b, from) ==
  LET filled == {l \in 0..LineAt(b, from) : ~AllBlank(LineText(b, l))}
  IN IF filled = {} THEN 0 ELSE IndentOf(LineText(b, Greatest(filled)))

\* The lines of a block that reach its left column, with the part inside it.
BlockParts(b, s) ==
  [l \in {k \in s.first..s.last : b.lens[k] >= s.left} |->
    Change(b.starts[l] + s.left, b.starts[l] + Lesser(s.right + 1, b.lens[l]), <<>>)]
InOrder(parts) ==
  LET order == Ascending(DOMAIN parts) IN [i \in DOMAIN order |-> parts[order[i]]]

-----------------------------------------------------------------------------
(* Operators. *)

\* An exclusive range to the first column of a later line ends the line before.
\* Mutant: it takes the line break with it.
MotionRangeWithBreak(b, before, after, kind) ==
  LET p == PositionOf(b, before)
      q == PositionOf(b, after)
  IN IF kind = "linewise" THEN Lines(Lesser(before.line, after.line), Greater(before.line, after.line))
     ELSE Chars(Lesser(p, q), IF kind = "inclusive" THEN Lesser(Greater(p, q) + 1, Len(b.text)) ELSE Greater(p, q))
MotionRange(b, before, after, kind) ==
  LET p == PositionOf(b, before)
      q == PositionOf(b, after)
      start == Lesser(p, q)
      end == Greater(p, q)
  IN IF kind = "linewise" THEN Lines(Lesser(before.line, after.line), Greater(before.line, after.line))
     ELSE IF kind = "inclusive" THEN Chars(start, Lesser(end + 1, Len(b.text)))
     ELSE IF LineOf(b, end) > LineOf(b, start) /\ ColumnOf(b, end) = 0
     THEN Chars(start, Greater(ContentEnd(b, LineOf(b, end) - 1), start))
     ELSE Chars(start, end)

ModeAfter(operator) == IF operator = "change" THEN "Insert" ELSE "Normal"
Unless(empty, change) == IF empty THEN <<>> ELSE <<change>>

CharsPlan(b, operator, s) ==
  Plan(Unless(operator = "yank" \/ s.start = s.end, Change(s.start, s.end, <<>>)),
       Value(TextIn(b, s.start, s.end), "characters"),
       At(LineOf(b, s.start), ColumnOf(b, s.start)), ModeAfter(operator))
LinesPlan(b, cursor, operator, s) ==
  LET value == LineValue(LinesText(b, s.first, s.last), b.ending)
      deletion == LinewiseDeletion(b, s.first, s.last)
      indent == IndentOf(LineText(b, s.first))
  IN CASE operator = "yank" -> Plan(<<>>, value, At(s.first, cursor.column), "Normal")
       [] operator = "delete" ->
            Plan(Unless(deletion.start >= deletion.end, deletion), value, OnLine(s.first), "Normal")
       [] operator = "change" ->
            Plan(<<Change(b.starts[s.first], ContentEnd(b, s.last), Spaces(indent))>>, value,
                 At(s.first, indent), "Insert")
BlockPlan(b, operator, s) ==
  LET parts == BlockParts(b, s)
      pieces == [i \in 1..(s.last - s.first + 1) |->
                  IF s.first + i - 1 \in DOMAIN parts
                  THEN TextIn(b, parts[s.first + i - 1].start, parts[s.first + i - 1].end) ELSE <<>>]
  IN Plan(IF operator = "yank" THEN <<>> ELSE SelectSeq(InOrder(parts), LAMBDA c : c.start < c.end),
          Value(Joined(pieces, b.ending), "block"), At(s.first, s.left), ModeAfter(operator))

OperatorPlan(b, cursor, operator, s) ==
  CASE s.shape = "characters" -> CharsPlan(b, operator, s)
    [] s.shape = "lines" -> LinesPlan(b, cursor, operator, s)
    [] s.shape = "block" -> BlockPlan(b, operator, s)

-----------------------------------------------------------------------------
(* Insertion and deletion of characters. *)

OpenLinePlan(b, cursor, below) ==
  LET indent == FallbackIndent(b, cursor.line)
      at == IF below THEN ContentEnd(b, cursor.line) ELSE b.starts[cursor.line]
  IN Plan(<<Change(at, at, IF below THEN b.ending \o Spaces(indent) ELSE Spaces(indent) \o b.ending)>>,
          NoValue, At(cursor.line + (IF below THEN 1 ELSE 0), indent), "Insert")

Inserting(at, text) == Plan(<<Change(at, at, text)>>, NoValue, AtPlace(at + Len(text)), "keep")
LineBreakPlan(b, cursor) ==
  Inserting(PositionOf(b, cursor), b.ending \o Spaces(FallbackIndent(b, cursor.line)))
\* The buffer's line ending takes the place of each line feed.
InsertPlan(b, cursor, text) ==
  Inserting(PositionOf(b, cursor), FlattenSeq([i \in DOMAIN text |-> IF text[i] = "n" THEN b.ending ELSE <<text[i]>>]))

DeleteBack(start, at) == Plan(<<Change(start, at, <<>>)>>, NoValue, AtPlace(start), "keep")
DeleteBackwardPlan(b, cursor) ==
  IF cursor.column > 0
  THEN DeleteBack(b.starts[cursor.line] + ColumnLeft(b, cursor.line, cursor.column, 1), PositionOf(b, cursor))
  ELSE IF cursor.line > 0 THEN DeleteBack(ContentEnd(b, cursor.line - 1), PositionOf(b, cursor))
  ELSE Unchanged
DeleteWordPlan(b, cursor, mode) ==
  IF PositionOf(b, cursor) = 0 THEN Unchanged
  ELSE DeleteBack(PositionOf(b, AtPosition(b, PreviousWordStart(b, PositionOf(b, cursor)), mode)), PositionOf(b, cursor))

\* A block insert repeats the text on every line that reaches the block.
BlockInsertPlan(b, block, text) ==
  LET At2(l) == IF block.after THEN Lesser(block.right + 1, b.lens[l]) ELSE block.left
      into == {l \in block.first..LineAt(b, block.last) : b.lens[l] >= block.left}
  IN OrUnchanged(Plan(InOrder([l \in into |-> Change(b.starts[l] + At2(l), b.starts[l] + At2(l), text)]), NoValue,
       At(block.first, Len(text) + (IF block.first \in into THEN At2(block.first) ELSE block.left)), "keep"))

-----------------------------------------------------------------------------
(* Changes of whole lines. *)

FilledLines(b, s) == {l \in s.first..s.last : ~AllBlank(LineText(b, l))}
AfterIndent(b, l) == Between(LineText(b, l), IndentOf(LineText(b, l)), b.lens[l])
CommentPlan(b, s) ==
  LET filled == FilledLines(b, s)
      remove == \A l \in filled : IsPrefix(<<"#">>, AfterIndent(b, l))
      At2(l) == b.starts[l] + IndentOf(LineText(b, l))
      width(l) == IF IsPrefix(<<"#", " ">>, AfterIndent(b, l)) THEN 2 ELSE 1
  IN OrUnchanged(Plan(InOrder([l \in filled |->
       IF remove THEN Change(At2(l), At2(l) + width(l), <<>>) ELSE Change(At2(l), At2(l), <<"#", " ">>)]),
       NoValue, Stay, "Normal"))

ShiftPlan(b, s, right) ==
  LET Shifted(l) == IF right THEN IndentOf(LineText(b, l)) + ShiftWidth ELSE Less(IndentOf(LineText(b, l)), ShiftWidth)
      moved == {l \in s.first..s.last : b.lens[l] > 0 /\ Shifted(l) # IndentOf(LineText(b, l))}
  IN OrUnchanged(Plan(InOrder([l \in moved |->
       Change(b.starts[l], b.starts[l] + IndentOf(LineText(b, l)), Spaces(Shifted(l)))]), NoValue, Stay, "keep"))

\* The moved lines take the indent of the line above their new place; the lines
\* among them keep theirs relative to the first.
Reindented(b, lines, passed, regionFirst) ==
  LET above == IF passed # <<>> /\ ~AllBlank(passed) THEN IndentOf(passed)
               ELSE IF regionFirst = 0 THEN 0 ELSE FallbackIndent(b, regionFirst - 1)
      delta == above - IndentOf(lines[1])
  IN [i \in DOMAIN lines |->
       IF AllBlank(lines[1]) \/ AllBlank(lines[i]) THEN lines[i]
       ELSE Spaces(Greater(IndentOf(lines[i]) + delta, 0)) \o Between(lines[i], IndentOf(lines[i]), Len(lines[i]))]
CanMove(b, s, down) == IF down THEN s.last < LastLine(b) ELSE s.first > 0
MovePlan(b, cursor, s, down) ==
  LET first == IF down THEN s.first ELSE s.first - 1
      last == IF down THEN s.last + 1 ELSE s.last
      lines == [i \in 1..(s.last - s.first + 1) |-> LineText(b, s.first + i - 1)]
      passed == LineText(b, IF down THEN last ELSE first)
      moved == Reindented(b, lines, IF down THEN passed ELSE <<>>, first)
  IN Plan(<<Change(b.starts[first], ContentEnd(b, last),
                   Joined(IF down THEN <<passed>> \o moved ELSE Append(moved, passed), b.ending))>>,
          NoValue, At(IF down THEN cursor.line + 1 ELSE Less(cursor.line, 1), cursor.column), "keep")

-----------------------------------------------------------------------------
(* Paste. *)

WithoutEnding(text, ending) == IF IsSuffix(ending, text) THEN SubSeq(text, 1, Len(text) - Len(ending)) ELSE text

PasteColumn(b, cursor, after) == IF after THEN Lesser(cursor.column + 1, b.lens[cursor.line]) ELSE cursor.column
CharsPaste(b, cursor, value, after) ==
  LET at == b.starts[cursor.line] + PasteColumn(b, cursor, after)
  IN Plan(<<Change(at, at, value.text)>>, NoValue, AtPlace(Less(at + Len(value.text), 1)), "keep")
LinesPaste(b, cursor, value, after) ==
  LET line == cursor.line
      into == IF ~after THEN b.starts[line]
              ELSE IF line < LastLine(b) THEN b.starts[line + 1] ELSE ContentEnd(b, line)
      text == IF after /\ line = LastLine(b) THEN b.ending \o WithoutEnding(value.text, b.ending) ELSE value.text
  IN Plan(<<Change(into, into, text)>>, NoValue, OnLine(line + (IF after THEN 1 ELSE 0)), "keep")
\* A block pastes one of its lines into each line, and appends what is missing.
BlockPaste(b, cursor, value, after) ==
  LET column == PasteColumn(b, cursor, after)
      lines == BlockLines(value.text, b.ending)
      Into(i) == Lesser(column, b.lens[cursor.line + i - 1])
      inside == {i \in DOMAIN lines : cursor.line + i - 1 < LineCount(b)}
      changes == InOrder([i \in inside |->
        Change(b.starts[cursor.line + i - 1] + Into(i), b.starts[cursor.line + i - 1] + Into(i),
               Spaces(column - Into(i)) \o lines[i])])
      behind == FlattenSeq([i \in 1..(Len(lines) - Cardinality(inside)) |->
        Spaces(column) \o lines[Cardinality(inside) + i] \o b.ending])
  IN Plan(changes \o Unless(behind = <<>>, Change(Len(b.text), Len(b.text), behind)), NoValue, At(cursor.line, column), "keep")
PastePlan(b, cursor, value, after) ==
  CASE value.text = <<>> -> Unchanged
    [] value.text # <<>> /\ value.shape = "characters" -> CharsPaste(b, cursor, value, after)
    [] value.text # <<>> /\ value.shape = "lines" -> LinesPaste(b, cursor, value, after)
    [] value.text # <<>> /\ value.shape = "block" -> BlockPaste(b, cursor, value, after)

VisualPastePlan(b, s, value) ==
  LET over == IF value.shape = "lines" THEN b.ending \o value.text ELSE value.text
      parts == BlockParts(b, s)
      top == Least(DOMAIN parts)
  IN CASE s.shape = "lines" ->
            Plan(<<Change(b.starts[s.first], ContentEnd(b, s.last),
                          IF value.shape = "lines" THEN WithoutEnding(value.text, b.ending) ELSE value.text)>>,
                 NoValue, OnLine(s.first), "Normal")
       [] s.shape = "characters" ->
            Plan(<<Change(s.start, s.end, over)>>, NoValue, AtPlace(Less(s.start + Len(over), 1)), "Normal")
       [] s.shape = "block" ->
            OrUnchanged(Plan(SelectSeq(InOrder([l \in DOMAIN parts |->
                               IF l = top THEN [parts[l] EXCEPT !.new = value.text] ELSE parts[l]]),
                             LAMBDA c : c.start < c.end \/ c.new # <<>>),
                        NoValue, At(s.first, s.left), "Normal"))

-----------------------------------------------------------------------------
(* Case. *)

Toggled(c) == CASE c = "a" -> "A" [] c = "A" -> "a" [] c = "b" -> "B" [] c = "B" -> "b" [] OTHER -> c
TogglePlan(b, start, end, cursor, mode) ==
  LET old == TextIn(b, start, end)
      new == [i \in DOMAIN old |-> Toggled(old[i])]
  IN Plan(Unless(new = old, Change(start, end, new)), NoValue, cursor, mode)
\* The part of a text that a block covers, toggled line by line.
ToggledBlock(b, s) ==
  Joined([i \in 1..(s.last - s.first + 1) |->
    [c \in 1..b.lens[s.first + i - 1] |->
      IF c - 1 \in s.left..s.right THEN Toggled(LineText(b, s.first + i - 1)[c]) ELSE LineText(b, s.first + i - 1)[c]]],
    b.ending)
ToggleCasePlan(b, cursor, s, count) ==
  LET at == PositionOf(b, cursor)
      lineEnd == ContentEnd(b, cursor.line)
      end == Lesser(at + count, lineEnd)
  IN CASE s.shape = "characters" -> TogglePlan(b, s.start, s.end, AtPlace(s.start), "Normal")
       [] s.shape = "lines" ->
            TogglePlan(b, b.starts[s.first], ContentEnd(b, s.last), AtPlace(b.starts[s.first]), "Normal")
       [] s.shape = "block" ->
            Plan(Unless(ToggledBlock(b, s) = TextIn(b, b.starts[s.first], ContentEnd(b, s.last)),
                        Change(b.starts[s.first], ContentEnd(b, s.last), ToggledBlock(b, s))),
                 NoValue, At(s.first, s.left), "Normal")
       [] s.shape = "none" ->
            TogglePlan(b, at, end, AtPlace(IF end = lineEnd THEN Greater(Less(end, 1), at) ELSE end), "keep")
=============================================================================
