------------------------------ MODULE Editing -------------------------------
(***************************************************************************)
(* The modal editor behind the keys and the pointer: the one editing state *)
(* of a session, the buffers and the windows over them.  The commands are  *)
(* those of EditCommands; this module is what kvim-tui/src/session.rs does *)
(* around them: the keys bound in a mode, the pointer, the wheel, focus, a *)
(* reload of a changed file, the edits of a formatter, and the settling of *)
(* every window after each event.                                          *)
(*                                                                         *)
(* A scenario fixes the texts, the windows and the few keys in play.  Two  *)
(* windows show one buffer in a shared scenario.  There a command runs     *)
(* only while the focused cursor lies inside the text: what the commands   *)
(* do with a cursor outside is not described.                              *)
(***************************************************************************)
EXTENDS EditCommands

CONSTANTS
  Scenarios,    \* records: the layout ("one" window, "shared" text or "apart"), the texts and
                \* their line ending, the rows and cells of a window, the bound commands with
                \* counts and registers, what is typed, searched, reloaded and formatted, and
                \* the number of events
  WheelRows     \* MouseSettings::scroll_rows

VARIABLES
  scenario,
  keys,         \* events left
  buffers,
  windows,
  focused,
  editing,
  registers,
  query,        \* the search, empty if there is none
  drag,         \* PointerDragState
  panicked      \* whether a handler met a state it cannot answer

textVars == <<buffers, windows, focused, editing, registers, query, drag, panicked>>
vars == <<scenario, keys, textVars>>

Windows == {"left", "right"}
Texts == {"first", "second"}
ShownFirst(s, w) == IF s.layout = "apart" /\ w = "right" THEN "second" ELSE "first"
InLayout(s) == IF s.layout = "one" THEN {"left"} ELSE Windows
NoDrag == [window |-> "none", buffer |-> "none", anchor |-> 0]

-----------------------------------------------------------------------------
(* Bindings. *)


Visuals == DOMAIN ModeOf
NormalKeys ==
  Motions \cup Entries \cup Visuals \cup DOMAIN LineEndOperators \cup Alignments
    \cup {"OpenLineBelow", "OpenLineAbove", "DeleteOverMotion", "ChangeOverMotion", "YankOverMotion", "YankLine",
          "PasteAfter", "PasteBefore", "Undo", "Redo", "RepeatChange", "ToggleCase", "ToggleComment", "FocusWindow"}
PendingKeys ==
  Motions \cup DOMAIN Objects \cup {"DeleteOverMotion", "ChangeOverMotion", "YankOverMotion", "ReturnToNormal"}
VisualKeys(mode) ==
  (Motions \ {"SearchNext", "SearchPrevious"}) \cup DOMAIN Objects \cup Alignments
    \cup {command \in Visuals : ModeOf[command] # mode}
    \cup {"ReturnToNormal", "DeleteSelection", "ChangeSelection", "YankSelection", "MoveSelectionDown", "MoveSelectionUp",
          "ShiftSelectionLeft", "ShiftSelectionRight", "ToggleCase"}
    \cup (IF mode = "VisualBlock" THEN {"BlockInsertBefore", "BlockInsertAfter"}
          ELSE {"PasteAfter", "PasteBefore", "ToggleComment"})
InsertKeys ==
  {"MoveLeft", "MoveRight", "MoveUp", "MoveDown", "MovePreviousWordStart", "MoveNextWordStart", "MoveFirstColumn",
   "MoveLineEnd", "ReturnToNormal", "InsertLineBreak", "DeleteCharacterBefore", "DeleteWordBefore", "InsertIndent"}
BoundKeys(e) ==
  CASE e.pending # NoPending -> PendingKeys
    [] e.pending = NoPending /\ e.mode = "Normal" -> NormalKeys
    [] e.pending = NoPending /\ e.mode \in VisualModes -> VisualKeys(e.mode)
    [] e.pending = NoPending /\ e.mode = "Insert" -> InsertKeys

-----------------------------------------------------------------------------
(* Events and what follows each of them. *)

TextAt(w) == buffers[windows[w].buffer].b
Focused == Situation(buffers[windows[focused].buffer], windows[focused], editing, registers, query)
\* A cursor may rest on what lies behind the last line, and no further.
Readable(b, w) == w.cursor.line <= LineCount(b)
Inside(b, w) == w.cursor.line <= LastLine(b) /\ w.cursor.column <= b.lens[w.cursor.line]

\* Every window but one the wheel moved follows its cursor.
Settle(texts, shown, scrolled) ==
  /\ panicked' = (\E w \in InLayout(scenario) \ scrolled : ~Readable(texts[shown[w].buffer].b, shown[w]))
  /\ buffers' = texts
  /\ windows' = IF panicked' THEN shown
                ELSE [w \in Windows |-> IF w \in InLayout(scenario) \ scrolled
                                        THEN Reconciled(texts[shown[w].buffer].b, shown[w]) ELSE shown[w]]
Event == ~panicked /\ keys > 0 /\ keys' = keys - 1 /\ UNCHANGED scenario

\* The session follows the buffer of the focused window.
Follow(w) ==
  /\ focused' = w
  /\ IF windows[w].buffer = windows[focused].buffer THEN UNCHANGED <<editing, query>>
     ELSE editing' = NewEditing /\ query' = <<>>

Publish(s) ==
  /\ editing' = s.e
  /\ registers' = s.registers
  /\ Settle([buffers EXCEPT ![windows[focused].buffer] = BufferOf(s)], [windows EXCEPT ![focused] = s.w], {})
  /\ UNCHANGED <<focused, query>>

Answer(s, command, count, register) ==
  CASE command = "ToggleComment" -> ToggledComment(s)
    [] command = "InsertLineBreak" -> BrokenLine(s)
    [] command = "DeleteCharacterBefore" -> DeletedBackward(s)
    [] command = "DeleteWordBefore" -> DeletedWord(s)
    [] command = "InsertIndent" -> Typed(s, Spaces(ShiftWidth))
    [] OTHER -> Performed(s, command, count, register)

Press(command, count, register) ==
  /\ Event
  /\ command \in BoundKeys(editing) \ {"FocusWindow"}
  /\ Inside(TextAt(focused), windows[focused])
  /\ register # "unnamed" => editing.pending = NoPending /\ editing.mode # "Insert"
  /\ count > 0 => editing.mode # "Insert"
  /\ \E s \in {Answer(Focused, command, count, register)} : Publish(s)
  /\ drag' = NoDrag

Type(text) ==
  /\ Event
  /\ editing.mode = "Insert"
  /\ Inside(TextAt(focused), windows[focused])
  /\ \E s \in {Typed(Focused, text)} : Publish(s)
  /\ drag' = NoDrag

FocusWindow(w) ==
  /\ Event
  /\ "FocusWindow" \in BoundKeys(editing)
  /\ w # focused
  /\ Follow(w)
  /\ Settle(buffers, windows, {})
  /\ drag' = NoDrag
  /\ UNCHANGED registers

\* The text under a cell; below the last line it is the last line.
PointedLine(b, w, row) == LineAt(b, w.first + row)
PointedColumn(b, w, row, column) == Lesser(w.left + column, b.lens[PointedLine(b, w, row)])
Pointed(b, w, row, column) == b.starts[PointedLine(b, w, row)] + PointedColumn(b, w, row, column)

\* A press focuses its window, leaves a Visual mode and begins a drag.
Pressed(s, w, row, column) ==
  MovedTo(IF InVisual(s) THEN EnteredMode(s, "Normal") ELSE s,
          PointedLine(TextAt(w), windows[w], row), PointedColumn(TextAt(w), windows[w], row, column))
PointerPress(w, row, column) ==
  /\ Event
  /\ Follow(w)
  /\ \E s \in {Pressed(Situation(buffers[windows[w].buffer], windows[w],
                                 IF windows[w].buffer = windows[focused].buffer THEN editing ELSE NewEditing,
                                 registers, <<>>), w, row, column)} :
       /\ editing' = s.e
       /\ drag' = [window |-> w, buffer |-> windows[w].buffer, anchor |-> PositionOf(s.b, s.w.cursor)]
       /\ Settle(buffers, [windows EXCEPT ![w] = s.w], {})
  /\ UNCHANGED registers

\* A drag past an edge scrolls, and selects from where the press was to here.
Edges == {"none", "above", "below"}
Scrolled(b, w, edge, rows) ==
  CASE edge = "none" -> w
    [] edge = "above" -> ScrolledTo(b, w, FirstAbove(w, rows), "Normal")
    [] edge = "below" -> ScrolledTo(b, w, FirstBelow(b, w, rows), "Normal")
ScrollsNowhere(b, w, first) == LowestLine(b, w, first) > HighestLine(b, w, first)
CannotScroll(b, w, edge) ==
  \/ edge = "above" /\ ScrollsNowhere(b, w, FirstAbove(w, WheelRows))
  \/ edge = "below" /\ ScrollsNowhere(b, w, FirstBelow(b, w, WheelRows))
EdgeRow(w, edge, row) == CASE edge = "none" -> row [] edge = "above" -> 0 [] edge = "below" -> w.rows - 1

\* Mutant: the selection starts where the cursor is, not where the press was.
DraggedFromCursor(s, anchor, line, column) == MovedTo(EnteredMode(s, "Visual"), line, column)
Dragged(s, anchor, line, column) ==
  MovedTo(EnteredMode(EnteredMode(MovedTo(s, LineOf(s.b, anchor), ColumnOf(s.b, anchor)), "Normal"), "Visual"), line, column)
PointerDrag(edge, row, column) ==
  /\ Event
  /\ drag # NoDrag
  /\ UNCHANGED <<focused, registers, query>>
  /\ IF windows[drag.window].buffer # drag.buffer
     THEN drag' = NoDrag /\ Settle(buffers, windows, {}) /\ UNCHANGED editing
     ELSE IF CannotScroll(TextAt(drag.window), windows[drag.window], edge) \/ drag.anchor > Len(TextAt(drag.window).text)
     THEN panicked' = TRUE /\ UNCHANGED <<buffers, windows, editing, drag>>
     ELSE \E w \in {Scrolled(TextAt(drag.window), windows[drag.window], edge, WheelRows)} :
          \E s \in {Dragged(Situation(buffers[w.buffer], w, editing, registers, query), drag.anchor,
                            PointedLine(TextAt(drag.window), w, EdgeRow(w, edge, row)),
                            PointedColumn(TextAt(drag.window), w, EdgeRow(w, edge, row), column))} :
            /\ editing' = s.e
            /\ Settle(buffers, [windows EXCEPT ![drag.window] = s.w], IF edge = "none" THEN {} ELSE {drag.window})
            /\ UNCHANGED drag

\* The wheel scrolls a window and leaves the focus.
Wheel(w, edge) ==
  /\ Event
  /\ drag' = NoDrag
  /\ UNCHANGED <<focused, editing, registers, query>>
  /\ IF CannotScroll(TextAt(w), windows[w], edge) THEN panicked' = TRUE /\ UNCHANGED <<buffers, windows>>
     ELSE Settle(buffers, [windows EXCEPT ![w] = Scrolled(TextAt(w), @, edge, WheelRows)], {w})

-----------------------------------------------------------------------------
(* Search, other texts, reloads and formatters. *)

\* Accepting a search moves to the first match behind the cursor.
Searched(s) == Moved(s, MotionTarget(s.b, s.w, s.e.mode, s.query, "SearchNext", 1))
Search(text) ==
  /\ Event
  /\ "SearchNext" \in BoundKeys(editing)
  /\ editing.pending = NoPending
  /\ Inside(TextAt(focused), windows[focused])
  /\ query' = text
  /\ \E s \in {Searched([Focused EXCEPT !.query = text])} : Settle(buffers, [windows EXCEPT ![focused] = s.w], {})
  /\ drag' = NoDrag
  /\ UNCHANGED <<focused, editing, registers>>
EndSearch ==
  /\ Event
  /\ query # <<>>
  /\ editing.mode = "Normal" /\ editing.pending = NoPending
  /\ query' = <<>>
  /\ Settle(buffers, windows, {})
  /\ drag' = NoDrag
  /\ UNCHANGED <<focused, editing, registers>>

\* The focused window shows another text from its start.
SwitchTo(text) ==
  /\ Event
  /\ editing.mode = "Normal" /\ editing.pending = NoPending
  /\ windows[focused].buffer # text
  /\ editing' = NewEditing
  /\ query' = <<>>
  /\ Settle(buffers, [windows EXCEPT ![focused] = ShowingNewBuffer(@, text)], {})
  /\ drag' = NoDrag
  /\ UNCHANGED <<focused, registers>>

\* The watcher reloads an unmodified text, `:e!` reloads any.
\* Mutant: only the focused window comes back into a reloaded text.
ClampedFocused(texts, name) ==
  [windows EXCEPT ![focused].cursor = IF windows[focused].buffer = name
                                      THEN Clamped(texts[name].b, @.line, @.column, editing.mode) ELSE @]
ClampedWindows(texts, name) ==
  [w \in Windows |->
    IF w \notin InLayout(scenario) \/ windows[w].buffer # name THEN windows[w]
    ELSE [windows[w] EXCEPT !.cursor = Clamped(texts[name].b, @.line, @.column, editing.mode)]]
Reload(name, text, discard) ==
  /\ Event
  /\ IF discard THEN editing.mode = "Normal" /\ editing.pending = NoPending /\ drag' = NoDrag
     ELSE buffers[name].past = <<>> /\ UNCHANGED drag
  /\ \E texts \in {[buffers EXCEPT ![name] = Buffer(Laid(text, scenario.ending))]} :
       Settle(texts, ClampedWindows(texts, name), {})
  /\ UNCHANGED <<focused, editing, registers, query>>

\* A formatter's answer replaces the whole text of the focused window.
CommitFormat(text) ==
  /\ Event
  /\ Inside(TextAt(focused), windows[focused])
  /\ \E s \in {Transacted(Focused, <<Change(0, Len(TextAt(focused).text), text)>>)} : Publish(s)
  /\ UNCHANGED drag

Init ==
  \E s \in Scenarios :
    /\ scenario = s
    /\ keys = s.keys
    /\ buffers = [name \in Texts |-> Buffer(Laid(s.texts[name], s.ending))]
    /\ windows = [w \in Windows |-> Window(ShownFirst(s, w), s.rows, s.cells)]
    /\ focused = "left"
    /\ editing = NewEditing
    /\ registers = NoRegisters
    /\ query = <<>>
    /\ drag = NoDrag
    /\ panicked = FALSE

Pointer(s) == "Pointer" \in s.commands
Next ==
  \/ \E command \in scenario.commands, count \in scenario.counts, register \in scenario.names : Press(command, count, register)
  \/ \E text \in scenario.typed : Type(text)
  \/ \E w \in InLayout(scenario) : "FocusWindow" \in scenario.commands /\ FocusWindow(w)
  \/ \E w \in InLayout(scenario), row \in 0..(scenario.rows - 1), column \in 0..(scenario.cells - 1) :
       Pointer(scenario) /\ (PointerPress(w, row, column) \/ \E edge \in Edges : PointerDrag(edge, row, column))
  \/ \E w \in InLayout(scenario), edge \in Edges \ {"none"} : "Wheel" \in scenario.commands /\ Wheel(w, edge)
  \/ \E text \in scenario.searches : Search(text)
  \/ scenario.searches # {} /\ EndSearch
  \/ \E text \in Texts : "SwitchTo" \in scenario.commands /\ SwitchTo(text)
  \/ \E name \in Texts, text \in scenario.reloads, discard \in BOOLEAN : Reload(name, text, discard)
  \/ \E text \in scenario.formats : CommitFormat(text)
Spec == Init /\ [][Next]_vars

-----------------------------------------------------------------------------
(* Properties. *)

TypeOK ==
  /\ \A name \in Texts : LET b == buffers[name].b IN b = Laid(b.text, b.ending) /\ EndsTerminated(b.text)
  /\ focused \in InLayout(scenario)
  /\ editing.mode \in {"Normal", "Insert"} \cup VisualModes
  /\ drag.window \in InLayout(scenario) \cup {"none"}
  /\ panicked \in BOOLEAN

Apart == scenario.layout # "shared" /\ ~panicked

\* The cursor of every window stands on the start of a cluster inside its line,
\* where the mode lets it, and its window shows it.
CursorStandsInside ==
  Apart => \A w \in InLayout(scenario) :
    LET b == TextAt(w)
        c == windows[w].cursor
    IN /\ c.line \in 0..LastLine(b)
       /\ c.column \in Boundaries(b, c.line)
       /\ c.column <= LastColumn(IF w = focused THEN editing.mode ELSE "Insert", b.lens[c.line])
       /\ c.line \in windows[w].first..(windows[w].first + windows[w].rows - 1)
       /\ "Wheel" \notin scenario.commands /\ ~Pointer(scenario) =>
            c.column \in windows[w].left..(windows[w].left + windows[w].cells - 1)

\* An operator and a register wait in Normal mode, a block insert in Insert
\* mode, and the only window has an anchor exactly in a Visual mode.
ModesAgree ==
  Apart =>
    /\ editing.pending # NoPending => editing.mode = "Normal"
    /\ editing.register # "unnamed" => editing.pending # NoPending
    /\ editing.block # NoBlock => editing.mode = "Insert"
    /\ scenario.layout = "one" => (windows[focused].anchor # NoAnchor) = (editing.mode \in VisualModes)

Idle == Apart /\ editing.mode = "Normal" /\ editing.pending = NoPending
\* What a sequence of commands makes of a situation.
Key(command, count) == [command |-> command, count |-> count]
After(s, given) == FoldLeft(LAMBDA t, k : Performed(t, k.command, k.count, "unnamed"), s, given)
Deletions ==
  {<<Key("DeleteToLineEnd", 0)>>}
    \cup {<<Key("DeleteOverMotion", 0), Key(command, 2)>> :
            command \in {"DeleteOverMotion", "MoveRight", "MoveNextWordStart", "MovePreviousWordStart", "MoveLineEnd"}}

\* What a deletion takes, a paste before or behind the cursor puts back, unless
\* no line was left.  Three texts are left out: one whose lines end in two
\* characters may lose one of them, one with a mark may lose its letter, and an
\* empty last line may lose its terminator to a deletion of characters.
Plain(b) == b.ending = <<"n">> /\ ~Contains(b.text, "u") /\ b.lens[LastLine(b)] > 0
DeletionComesBack ==
  Idle /\ Plain(TextAt(focused)) =>
    \A deletion \in Deletions : \E t \in {After(Focused, deletion)} :
      t.outcome = "Changed" /\ t.b.text # <<"n">> =>
        \E command \in {"PasteBefore", "PasteAfter"} : After(t, <<Key(command, 0)>>).b.text = TextAt(focused).text

\* A change that was undone comes back when it is repeated.
Remade == <<Key("Undo", 0), Key("RepeatChange", 0)>>
RepetitionRemakes ==
  Idle /\ Plain(TextAt(focused)) =>
    \A change \in Deletions \cup {<<Key("PasteAfter", 2)>>, <<Key("ToggleCase", 2)>>} :
      \E t \in {After(Focused, change)} : t.outcome = "Changed" => After(t, Remade).b.text = t.b.text

\* A selection that moves keeps its lines, whatever their indent becomes.
SelectedText(s, lines) == [i \in 1..(lines.last - lines.first + 1) |-> AfterIndent(s.b, lines.first + i - 1)]
SelectionText(s) == SelectedText(s, SelectionLines(s.b, Selected(s)))
SelectionMovesWhole ==
  Apart /\ InVisual(Focused) =>
    \A command \in {"MoveSelectionDown", "MoveSelectionUp"} :
      \E t \in {After(Focused, <<Key(command, 0)>>)} : t.outcome = "Changed" => SelectionText(t) = SelectionText(Focused)

\* No event meets a window or a drag that lies outside its text.
NothingPanics == scenario.layout # "shared" => ~panicked

\* The promise of the windows, which a text in two of them breaks.
CursorsStandInside == \A w \in InLayout(scenario) : Inside(TextAt(w), windows[w])

EditingInvariant ==
  TypeOK /\ CursorStandsInside /\ ModesAgree /\ DeletionComesBack /\ RepetitionRemakes /\ SelectionMovesWhole
=============================================================================
