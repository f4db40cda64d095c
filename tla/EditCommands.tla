---------------------------- MODULE EditCommands ----------------------------
(***************************************************************************)
(* One command of the editor, from the key to the text, the cursor, the    *)
(* mode and the registers: EditingState of kvim-editor/src/state.rs.       *)
(*                                                                         *)
(* A command is a function of one record: the buffer b with what can be    *)
(* undone and redone, the window w, the editing state e, the registers and *)
(* the search query.  The automatic indent follows the line before, as it  *)
(* does without a syntax tree.                                             *)
(***************************************************************************)
EXTENDS EditPlans

CONSTANTS
  TextCharsMax,      \* the size limit of the buffer
  InsertCharsMax,    \* INSERT_TEXT_BYTES_MAX
  MotionCountMax     \* MOTION_COUNT_MAX

NoPending == [operator |-> "none", count |-> 0]
Pending(operator, count) == [operator |-> operator, count |-> count]
NoBlock == [first |-> -1, last |-> -1, left |-> 0, right |-> 0, after |-> FALSE]
NoRepeat == [kind |-> "none"]
RepeatCommand(command, count) == [kind |-> "command", command |-> command, count |-> count]
RepeatOperator(pending, motion, count) ==
  [kind |-> "operator", pending |-> pending, motion |-> motion, count |-> count]
RepeatToggle(selection) == [kind |-> "toggle", selection |-> selection]

NewEditing == [mode |-> "Normal", pending |-> NoPending, block |-> NoBlock, repeat |-> NoRepeat, register |-> "unnamed"]
Buffer(b) == [b |-> b, past |-> <<>>, future |-> <<>>]
Situation(buffer, w, e, registers, query) ==
  [b |-> buffer.b, past |-> buffer.past, future |-> buffer.future, w |-> w, e |-> e,
   registers |-> registers, query |-> query, outcome |-> "none"]
BufferOf(s) == [b |-> s.b, past |-> s.past, future |-> s.future]
With(s, outcome) == [s EXCEPT !.outcome = outcome]
Product(count, motionCount) == Lesser(Times(count) * Times(motionCount), MotionCountMax)
Selected(s) == SelectionOf(s.b, s.e.mode, s.w)
InVisual(s) == s.e.mode \in VisualModes

-----------------------------------------------------------------------------
(* Committing a plan. *)

Shown(s) == [s EXCEPT !.w = Reconciled(s.b, s.w)]
Placed(s, at) ==
  [s EXCEPT !.w.cursor =
     CASE at.place = "at" -> Clamped(s.b, at.line, at.column, s.e.mode)
       [] at.place = "first-non-blank" -> ToLine(s.b, at.line, s.e.mode)
       [] at.place = "position" -> AtPosition(s.b, Lesser(at.position, Len(s.b.text)), s.e.mode)
       [] at.place = "unchanged" -> ReClamped(s.b, @, s.e.mode)]
InMode(s, mode) ==
  CASE mode = "keep" -> s
    [] mode = "Normal" -> [s EXCEPT !.e.mode = "Normal", !.e.block = NoBlock, !.w.anchor = NoAnchor]
    [] mode = "Insert" -> [s EXCEPT !.e.mode = "Insert", !.w.anchor = NoAnchor]
Settled(s, plan, outcome) == With(Shown(Placed(InMode(s, plan.mode), plan.cursor)), outcome)

Changed(text, changes) ==
  FoldLeft(LAMBDA t, i : LET c == changes[Len(changes) + 1 - i]
                         IN Between(t, 0, c.start) \o c.new \o Between(t, c.end, Len(t)),
           text, Steps(Len(changes)))
EndsTerminated(text) == text # <<>> /\ text[Len(text)] \in {"n", "r"}
\* A history entry holds the other text and the positions of both.
Entry(text, before, after) == [text |-> text, before |-> before, after |-> after]
Rewritten(s, changes, text) ==
  [s EXCEPT !.b = Laid(text, s.b.ending), !.future = <<>>,
            !.past = Append(@, Entry(s.b.text, PositionOf(s.b, s.w.cursor),
                                     Len(text) - (Len(s.b.text) - changes[Len(changes)].end)))]
\* The value reaches the register even when the buffer refuses the text.  An
\* edit that would take the last terminator changes nothing and reports success.
CommittedText(s, plan, text) ==
  IF plan.changes = <<>> \/ ~EndsTerminated(text) THEN Settled(s, plan, "Applied")
  ELSE IF Len(text) > TextCharsMax THEN With(s, "Rejected")
  ELSE Settled(Rewritten(s, plan.changes, text), plan, "Changed")
Committed(s, plan) ==
  CommittedText([s EXCEPT !.registers = IF plan.value = NoValue THEN @
                                        ELSE Written(@, s.e.register, plan.value, s.b.ending)],
                plan, Changed(s.b.text, plan.changes))
Recorded(s, change) == IF s.outcome = "Changed" /\ change # NoRepeat THEN [s EXCEPT !.e.repeat = change] ELSE s

-----------------------------------------------------------------------------
(* Modes, selections and history. *)

EnteredMode(s, mode) ==
  [s EXCEPT !.w.anchor = IF mode \in VisualModes THEN AnchorPoint(s.b, s.w) ELSE NoAnchor,
            !.e.mode = mode, !.w.cursor = ReClamped(s.b, s.w.cursor, mode)]
MovedTo(s, line, column) == [s EXCEPT !.w.cursor = Clamped(s.b, line, column, s.e.mode)]
RestoredAnchor(s, line, column) ==
  IF s.w.anchor = NoAnchor THEN s
  ELSE [s EXCEPT !.w.anchor = [line |-> LineAt(s.b, line), column |-> Lesser(column, s.b.lens[LineAt(s.b, line)])]]

SelectedObject(s, range) ==
  CASE s.w.anchor = NoAnchor -> With(s, "Unhandled")
    [] s.w.anchor # NoAnchor /\ range = NoRange -> With(s, "OperatorAborted")
    [] s.w.anchor # NoAnchor /\ range # NoRange ->
         With(Shown([RestoredAnchor(s, LineOf(s.b, range.start), ColumnOf(s.b, range.start)) EXCEPT
                       !.w.cursor = AtPosition(s.b, Greater(Less(range.end, 1), range.start), s.e.mode)]), "Applied")

\* Mutant: an undo goes back to Normal mode and keeps the selection.
SteppedKeepingAnchor(s, position) ==
  With(Shown(Placed([s EXCEPT !.e.mode = "Normal", !.e.block = NoBlock], AtPlace(position))), "Changed")
SteppedTo(s, position) ==
  With(Shown(Placed([s EXCEPT !.e.mode = "Normal", !.e.block = NoBlock, !.w.anchor = NoAnchor], AtPlace(position))), "Changed")
Undone(s) ==
  LET entry == s.past[Len(s.past)]
  IN IF s.past = <<>> THEN With(s, "HistoryExhausted")
     ELSE SteppedTo([s EXCEPT !.past = Front(@), !.future = Append(@, [entry EXCEPT !.text = s.b.text]),
                              !.b = Laid(entry.text, s.b.ending)], entry.before)
Redone(s) ==
  LET entry == s.future[Len(s.future)]
  IN IF s.future = <<>> THEN With(s, "HistoryExhausted")
     ELSE SteppedTo([s EXCEPT !.future = Front(@), !.past = Append(@, [entry EXCEPT !.text = s.b.text]),
                              !.b = Laid(entry.text, s.b.ending)], entry.after)

-----------------------------------------------------------------------------
(* Operators. *)

(* A deed is an operator, what it covers and what a repetition would repeat. *)

Deed(operator, over, change) == [operator |-> operator, over |-> over, change |-> change]
LinesFrom(s, lines) == Lines(s.w.cursor.line, LineAt(s.b, s.w.cursor.line + lines - 1))
Operated(s, deed) ==
  IF deed.over = NoSelection THEN With(s, "OperatorAborted")
  ELSE Recorded(Committed(s, OperatorPlan(s.b, s.w.cursor, deed.operator, deed.over)), deed.change)

\* Mutant: D and C reach from the cursor to the end of the line it started on.
ToFirstLineEnd(s, lines) == ClampedWith(s.b, s.w.cursor.line, Len(s.b.text), EndOfLine, s.e.mode)
ToLineEnd(s, lines) == ClampedWith(s.b, s.w.cursor.line + lines - 1, Len(s.b.text), EndOfLine, s.e.mode)

Operators == [DeleteOverMotion |-> "delete", DeleteSelection |-> "delete", ChangeOverMotion |-> "change",
              ChangeSelection |-> "change", YankOverMotion |-> "yank", YankSelection |-> "yank"]
LineOperators == [DeleteLine |-> "delete", ChangeLine |-> "change", YankLine |-> "yank"]
LineEndOperators == [DeleteToLineEnd |-> "delete", ChangeToLineEnd |-> "change"]
GivenDeed(s, command, count) ==
  CASE command \in DOMAIN Operators -> Deed(Operators[command], Selected(s), NoRepeat)
    [] command \in DOMAIN LineOperators -> Deed(LineOperators[command], LinesFrom(s, Times(count)), NoRepeat)
    [] command \in DOMAIN LineEndOperators ->
         Deed(LineEndOperators[command], MotionRange(s.b, s.w.cursor, ToLineEnd(s, Times(count)), "inclusive"),
              RepeatCommand(command, count))
\* A deed at once; an operator in Normal mode waits for what it covers.
IsDeed(s, command) ==
  command \in DOMAIN LineOperators \cup DOMAIN LineEndOperators \/ (command \in DOMAIN Operators /\ InVisual(s))

OperatorCommand == [delete |-> "DeleteOverMotion", change |-> "ChangeOverMotion", yank |-> "YankOverMotion"]
LineCommand == [delete |-> "DeleteLine", change |-> "ChangeLine", yank |-> "YankLine"]
MotionKind(command) ==
  CASE command \in Exclusive -> "exclusive" [] command \in Inclusive -> "inclusive" [] command \in Linewise -> "linewise"
OperatorCount(command, count, motionCount) ==
  IF command \in {"MoveFirstLine", "MoveLastLine"} THEN motionCount ELSE Product(count, motionCount)

\* A change to the start of the next word stops at the end of this one.
OperatorMotion(s, operator, command) ==
  IF command = "MoveNextWordStart" /\ operator = "change" /\ ~IsBlank(s.b, PositionOf(s.b, s.w.cursor))
  THEN "MoveNextWordEnd" ELSE command
OperatorTarget(s, command, count) ==
  IF command = "MoveNextWordStart" THEN OperatorWordStart(s.b, PositionOf(s.b, s.w.cursor), Times(count))
  ELSE MotionTarget(s.b, s.w, s.e.mode, s.query, command, count)
RangeTo(s, to, kind) == IF to = NoCursor THEN NoSelection ELSE MotionRange(s.b, s.w.cursor, to, kind)
CharsOf(range) == IF range = NoRange THEN NoSelection ELSE Chars(range.start, range.end)

\* What follows an operator: itself, a text object or a motion; all else ends it.
CompletedDeed(s, pending, command, count) ==
  CASE command = OperatorCommand[pending.operator] ->
         Deed(pending.operator, LinesFrom(s, Product(pending.count, count)),
              RepeatCommand(LineCommand[pending.operator], Product(pending.count, count)))
    [] command \in DOMAIN Objects ->
         Deed(pending.operator, CharsOf(ObjectRange(s.b, s.w.cursor, Objects[command], Product(pending.count, count))),
              RepeatOperator(pending, command, count))
    [] command \in Motions ->
         Deed(pending.operator,
              RangeTo(s, OperatorTarget(s, OperatorMotion(s, pending.operator, command),
                                        OperatorCount(command, pending.count, count)),
                      MotionKind(OperatorMotion(s, pending.operator, command))),
              RepeatOperator(pending, command, count))
    [] OTHER -> Deed(pending.operator, NoSelection, NoRepeat)

-----------------------------------------------------------------------------
(* Paste, selected lines, case, blocks. *)

Pasted(s, value, command, count) ==
  CASE value = NoValue -> With(s, "RegisterEmpty")
    [] value # NoValue /\ InVisual(s) -> Committed(s, VisualPastePlan(s.b, Selected(s), value))
    [] value # NoValue /\ ~InVisual(s) ->
         Recorded(Committed(s, PastePlan(s.b, s.w.cursor, value, command = "PasteAfter")), RepeatCommand(command, count))
PasteValue(s, count) == RepeatedValue(RegisterValue(s.registers, s.e.register), Times(count), s.b.ending)

MovedSelection(s, lines, down) ==
  IF ~CanMove(s.b, lines, down) THEN With(s, "Applied")
  ELSE RestoredAnchor(Committed(s, MovePlan(s.b, s.w.cursor, lines, down)),
                      IF down THEN s.w.anchor.line + 1 ELSE Less(s.w.anchor.line, 1), s.w.anchor.column)
ShiftedSelection(s, lines, right) ==
  RestoredAnchor(Committed(s, ShiftPlan(s.b, lines, right)), s.w.anchor.line, s.w.anchor.column)

Extent(selection) ==
  CASE selection.shape = "characters" -> [shape |-> "characters", chars |-> selection.end - selection.start]
    [] selection.shape = "lines" -> [shape |-> "lines", lines |-> selection.last - selection.first + 1]
    [] selection.shape = "block" ->
         [shape |-> "block", lines |-> selection.last - selection.first + 1,
          columns |-> selection.right - selection.left + 1]
ExtentAt(s, extent) ==
  LET c == s.w.cursor
      at == PositionOf(s.b, c)
  IN CASE extent.shape = "characters" -> Chars(at, Lesser(at + extent.chars, Len(s.b.text)))
       [] extent.shape = "lines" -> Lines(c.line, LineAt(s.b, c.line + extent.lines - 1))
       [] extent.shape = "block" ->
            Block(c.line, LineAt(s.b, c.line + extent.lines - 1), c.column,
                  Lesser(c.column + extent.columns - 1, s.b.lens[c.line]))
ToggledCase(s, selection, count) ==
  LET done == Committed(s, ToggleCasePlan(s.b, s.w.cursor, selection, Times(count)))
  IN IF done.outcome = "Rejected" THEN done
     ELSE [done EXCEPT !.e.repeat = IF selection = NoSelection THEN RepeatCommand("ToggleCase", count)
                                    ELSE RepeatToggle(Extent(selection))]

\* Insert mode begins on the first line of the block, and what is typed first
\* goes to every line of it.
BegunBlockInsert(s, block, after) ==
  IF block.shape # "block" THEN With(s, "Unhandled")
  ELSE With(Shown(Placed([s EXCEPT !.e.mode = "Insert", !.w.anchor = NoAnchor,
                                   !.e.block = [first |-> block.first, last |-> block.last, left |-> block.left,
                                                right |-> block.right, after |-> after]],
                         At(block.first, IF after THEN block.right + 1 ELSE block.left))), "Applied")

-----------------------------------------------------------------------------
(* The dispatch. *)

ModeOf ==
  [EnterVisual |-> "Visual", EnterVisualLine |-> "VisualLine", EnterVisualBlock |-> "VisualBlock"]
Alignments == {"AlignCursorLineTop", "CenterCursorLine", "AlignCursorLineBottom"}
Entries == {"InsertBeforeCursor", "InsertAtFirstNonBlank", "InsertAfterCursor", "InsertAtLineEnd"}
EntryCursor(s, command) ==
  CASE command = "InsertBeforeCursor" -> s.w.cursor
    [] command = "InsertAtFirstNonBlank" -> Clamped(s.b, s.w.cursor.line, FirstNonBlank(s.b, s.w.cursor.line), "Insert")
    [] command = "InsertAfterCursor" -> 
         Clamped(s.b, s.w.cursor.line, ColumnRight(s.b, s.w.cursor.line, s.w.cursor.column, 1), "Insert")
    [] command = "InsertAtLineEnd" -> Clamped(s.b, s.w.cursor.line, Len(s.b.text), "Insert")
Entered(s, command) == [s EXCEPT !.w.cursor = EntryCursor(s, command)]
Opened(s, command, count) ==
  Recorded(Committed(s, OpenLinePlan(s.b, s.w.cursor, command = "OpenLineBelow")), RepeatCommand(command, count))

OnSelectedLines(s, Edit(_)) == IF InVisual(s) THEN Edit(SelectionLines(s.b, Selected(s))) ELSE With(s, "Unhandled")

Edited(s, command, count) ==
  CASE command = "ReturnToNormal" -> With(Shown(EnteredMode([s EXCEPT !.e.block = NoBlock], "Normal")), "Applied")
    [] command \in DOMAIN ModeOf -> With(Shown(EnteredMode(s, ModeOf[command])), "Applied")
    [] command \in Entries -> With(Shown(Entered(EnteredMode(s, "Insert"), command)), "Applied")
    [] command \in {"OpenLineBelow", "OpenLineAbove"} -> Opened(s, command, count)
    [] command \in Alignments -> With([s EXCEPT !.w = Aligned(@, command)], "Applied")
    [] command \in DOMAIN Operators ->
         With([s EXCEPT !.e.pending = Pending(Operators[command], count)], "OperatorPending")
    [] command \in {"BlockInsertBefore", "BlockInsertAfter"} ->
         BegunBlockInsert(s, Selected(s), command = "BlockInsertAfter")
    [] command \in {"PasteAfter", "PasteBefore"} -> Pasted(s, PasteValue(s, count), command, count)
    [] command \in {"MoveSelectionDown", "MoveSelectionUp"} ->
         OnSelectedLines(s, LAMBDA lines : MovedSelection(s, lines, command = "MoveSelectionDown"))
    [] command \in {"ShiftSelectionLeft", "ShiftSelectionRight"} ->
         OnSelectedLines(s, LAMBDA lines : ShiftedSelection(s, lines, command = "ShiftSelectionRight"))
    [] command = "Undo" -> Undone(s)
    [] command = "Redo" -> Redone(s)
    [] command = "ToggleCase" -> ToggledCase(s, Selected(s), count)
    [] command = "ToggleRepeated" -> Committed(s, ToggleCasePlan(s.b, s.w.cursor, ExtentAt(s, s.e.repeat.selection), 1))
    [] command = "NothingRepeated" -> With(s, "Unhandled")

\* What a key asks for: a waiting operator takes it, and the repetition asks
\* again for what was asked.
Order(pending, command, count) == [pending |-> pending, command |-> command, count |-> count]
\* Mutant: a repetition forgets the count that the change was given.
RepeatedOnce(repeat) ==
  CASE repeat.kind = "none" -> Order(NoPending, "NothingRepeated", 0)
    [] repeat.kind = "command" -> Order(NoPending, repeat.command, 1)
    [] repeat.kind = "toggle" -> Order(NoPending, "ToggleRepeated", 0)
    [] repeat.kind = "operator" -> Order(repeat.pending, repeat.motion, repeat.count)
Repeated(repeat) ==
  CASE repeat.kind = "none" -> Order(NoPending, "NothingRepeated", 0)
    [] repeat.kind = "command" -> Order(NoPending, repeat.command, repeat.count)
    [] repeat.kind = "toggle" -> Order(NoPending, "ToggleRepeated", 0)
    [] repeat.kind = "operator" -> Order(repeat.pending, repeat.motion, repeat.count)
Ordered(s, command, count) ==
  IF s.e.pending = NoPending /\ command = "RepeatChange" THEN Repeated(s.e.repeat)
  ELSE Order(s.e.pending, command, count)

Moved(s, cursor) ==
  IF cursor = NoCursor THEN With(s, "SearchMissed") ELSE With(Shown([s EXCEPT !.w.cursor = cursor]), "Applied")
Executed(s, order) ==
  IF order.pending # NoPending \/ IsDeed(s, order.command)
  THEN Operated(s, IF order.pending # NoPending THEN CompletedDeed(s, order.pending, order.command, order.count)
                   ELSE GivenDeed(s, order.command, order.count))
  ELSE IF order.command \in Motions
  THEN Moved(s, MotionTarget(s.b, s.w, s.e.mode, s.query, order.command, order.count))
  ELSE IF order.command \in DOMAIN Objects
  THEN SelectedObject(s, IF s.w.anchor = NoAnchor THEN NoRange
                         ELSE ObjectRange(s.b, s.w.cursor, Objects[order.command], Times(order.count)))
  ELSE Edited(s, order.command, order.count)
Dispatched(s, command, count) == Executed([s EXCEPT !.e.pending = NoPending], Ordered(s, command, count))
\* A register names one operation; a waiting operator keeps the name.
Released(s) == IF s.outcome = "OperatorPending" THEN s ELSE [s EXCEPT !.e.register = "unnamed"]
Performed(s, command, count, register) ==
  Released(Dispatched(IF register = "unnamed" THEN s ELSE [s EXCEPT !.e.register = register], command, count))

-----------------------------------------------------------------------------
(* Typed text and the commands that are no bindings of the dispatch. *)

TypedPlan(s, text) == InsertPlan(s.b, s.w.cursor, text)
Typed(s, text) ==
  CASE s.e.block # NoBlock /\ Len(text) > InsertCharsMax -> With(s, "Rejected")
    [] s.e.block # NoBlock /\ Len(text) <= InsertCharsMax ->
         Committed([s EXCEPT !.e.block = NoBlock], BlockInsertPlan(s.b, s.e.block, text))
    [] s.e.block = NoBlock ->
         IF Len(TypedPlan(s, text).changes[1].new) > InsertCharsMax THEN With(s, "Rejected")
         ELSE Committed(s, TypedPlan(s, text))
WithoutBlock(s) == [s EXCEPT !.e.block = NoBlock]
BrokenLine(s) == Committed(WithoutBlock(s), LineBreakPlan(s.b, s.w.cursor))
DeletedBackward(s) == Committed(WithoutBlock(s), DeleteBackwardPlan(s.b, s.w.cursor))
DeletedWord(s) == Committed(WithoutBlock(s), DeleteWordPlan(s.b, s.w.cursor, s.e.mode))
ToggledComment(s) ==
  Committed(s, CommentPlan(s.b, IF InVisual(s) THEN SelectionLines(s.b, Selected(s))
                                ELSE Lines(s.w.cursor.line, s.w.cursor.line)))
\* A formatter's edits leave the mode and the cursor where they were.
Transacted(s, changes) == Committed(s, Plan(changes, NoValue, Stay, "keep"))
=============================================================================
