------------------------------- MODULE MCFiles --------------------------------
(***************************************************************************)
(* One model for seven parts that share no state: a behaviour is one of    *)
(* DurableSave, Mutation, RecoveryDecision, DiffCapture, Review,           *)
(* TextHistory or Editing, as "part" says.  The variables of the first     *)
(* three keep initial values in the other parts.                           *)
(***************************************************************************)
EXTENDS DurableSave, Mutation, RecoveryDecision, Integers, FiniteSets, Sequences, TLC

CONSTANTS
  PartsRun,                                  \* the parts that are run
  DiffChangesMax, Touched, AttemptsMax,      \* of DiffCapture
  BodyHeights, Repeats,                      \* of Review
  RangeMax, BytesMax, HistoryEntriesMax, HistoryBytesMax, StepsMax, StepBytesMax,   \* of TextHistory
  ScrollOff, SideScrollOff, ShiftWidth, RegisterBytesMax, TextCharsMax, InsertCharsMax, MotionCountMax,
  WheelRows,                                 \* of Editing
  EditLayouts                                \* the layouts of the scenarios that Editing runs through

VARIABLES
  part,
  comparison, repository, diffStep, pass, attempt, reads, fingerprints, candidate, verdict, moments,
  still, changed,
  halves, section, panel, body, bodyPath, row, firstRow, bodyHeight, focus,
  textBuffer, baseline, written, textDisk, foreign, undoFile, saving, states, budget,
  scenario, keys, buffers, windows, focused, editing, registers, query, drag, panicked

\* Three changes of what the index is compared with, two for the other
\* comparisons; and the five that no run of the three passes can tell from none.
DiffChanges == [base |-> 2, staged |-> 3, unstaged |-> 2]
FiveDiffChanges == [staged |-> 5]

\* Two files of one directory, one without text; then one hunk grew and one moved.
ChangedFile(path, group, hunks) == [path |-> path, group |-> group, hunks |-> hunks]
ReviewCaptures ==
  [unstaged |-> {<<ChangedFile("a", "dir", <<<<1, 2>>, <<3>>>>), ChangedFile("b", "dir", <<<<1>>>>),
                   ChangedFile("c", "none", <<>>)>>,
                 <<ChangedFile("a", "dir", <<<<3>>, <<1, 2, 3>>>>)>>, <<>>},
   staged |-> {<<ChangedFile("b", "none", <<<<1>>>>)>>, <<>>}]

\* An empty file and one whose line ends with a carriage return and a line feed; then
\* changes in pairs, more changes than the history keeps, or saves and reloads.
TextContents == {<<>>, <<"a", "r", "n">>}
TextBudgets ==
  {[edits |-> 1, steps |-> 1, events |-> 0, changes |-> 2],
   [edits |-> 3, steps |-> 2, events |-> 1, changes |-> 1],
   [edits |-> 2, steps |-> 1, events |-> 3, changes |-> 1]}

\* A text of words, one with an empty and an indented line, one with brackets and a
\* mark, one of short lines, and one whose lines end in two characters.
Words == <<"a", "b", " ", "a", "n", "n", " ", "b", "n">>
Indented == <<"a", "n", " ", " ", "b", "n", "n", "a", "n">>
Marked == <<"a", "u", "b", "n", "(", "a", ")", "n">>
Short == <<"a", "b", "n", "a", "n", "b", "a", "n">>
TwoEnds == <<"a", "b", "r", "n", "r", "n", "a", "r", "n">>
EditScenario(layout, content, commands, typed, presses) ==
  [layout |-> layout, ending |-> <<"n">>, texts |-> [first |-> content, second |-> Indented], rows |-> 2, cells |-> 3,
   counts |-> {0}, names |-> {"unnamed"}, commands |-> commands, typed |-> typed, searches |-> {}, reloads |-> {},
   formats |-> {}, keys |-> presses]
Motion == {"MoveNextWordStart", "MovePreviousWordStart", "MoveNextWordEnd", "MoveDown", "MoveLineEnd"}
Selecting == {"MoveNextWordStart", "MoveDown", "EnterVisual", "EnterVisualLine", "SelectInnerWord"}
AllEditScenarios ==
  {\* Operators over motions, pasted, undone and repeated.
   EditScenario("one", Words,
     Motion \cup {"DeleteOverMotion", "ChangeOverMotion", "PasteAfter", "PasteBefore", "Undo", "RepeatChange"}, {}, 4),
   EditScenario("one", Words, {"SelectAroundWord", "DeleteOverMotion", "DeleteToLineEnd", "ToggleCase", "RepeatChange"}, {}, 5),
   \* Selections of characters and lines, moved and shifted.
   EditScenario("one", Indented,
     Selecting \cup {"DeleteSelection", "MoveSelectionDown", "MoveSelectionUp", "ShiftSelectionRight",
                     "ShiftSelectionLeft", "PasteAfter", "Undo"}, {}, 4),
   \* Blocks, and what is typed into them.
   EditScenario("one", Short,
     {"MoveDown", "MoveRight", "EnterVisualBlock", "BlockInsertBefore", "BlockInsertAfter", "ReturnToNormal",
      "YankSelection", "PasteAfter", "Undo"}, {<<"b">>}, 6),
   \* Insert mode beside a mark and brackets.
   EditScenario("one", Marked,
     {"InsertAfterCursor", "InsertLineBreak", "InsertIndent", "DeleteWordBefore", "DeleteCharacterBefore",
      "ReturnToNormal", "MoveMatchingBracket", "MoveDown", "OpenLineBelow", "Redo", "Undo"}, {<<"b">>, <<"u">>}, 5),
   \* Line endings of two characters, registers with names.
   [EditScenario("one", TwoEnds,
     {"MoveDown", "DeleteToLineEnd", "EnterVisual", "DeleteSelection", "YankOverMotion", "PasteAfter", "ToggleComment"}, {}, 4)
     EXCEPT !.ending = <<"r", "n">>, !.texts.second = <<"a", "r", "n">>, !.names = {"unnamed", "named", "append"}],
   \* Counts, and the pages and ends of a text.
   [EditScenario("one", Words, {"MoveRight", "MoveHalfPageDown", "MoveLastLine", "YankLine", "PasteBefore"}, {}, 4)
     EXCEPT !.counts = {0, 2}],
   \* Two texts side by side, the pointer and a formatter.
   [EditScenario("apart", Short, {"Pointer", "FocusWindow", "MoveDown", "EnterVisual"}, {}, 3) EXCEPT !.formats = {<<"a", "n">>}],
   \* The wheel, alignment, another text, a reload and a search.
   [EditScenario("one", Indented, {"Wheel", "MoveLastLine", "AlignCursorLineTop", "SwitchTo", "SearchNext", "InsertBeforeCursor"}, {}, 5)
     EXCEPT !.reloads = {<<"n">>}, !.searches = {<<"b">>, <<"A">>}],
   \* One text in two windows.
   EditScenario("shared", Short, {"FocusWindow", "MoveDown", "DeleteOverMotion"}, {}, 5)}
EditScenarios == {s \in AllEditScenarios : s.layout \in EditLayouts}

Diff == INSTANCE DiffCapture WITH
  step <- diffStep, ChangesMax <- DiffChangesMax
Reviewed == INSTANCE Review WITH
  Captures <- ReviewCaptures, Heights <- BodyHeights
Text == INSTANCE TextHistory WITH
  Files <- TextContents, EntriesMax <- HistoryEntriesMax, Budgets <- TextBudgets,
    Replacements <- {<<>>}, buffer <- textBuffer, disk <- textDisk
Modal == INSTANCE Editing WITH
  Scenarios <- EditScenarios

ASSUME MutationAssumption /\ RecoveryAssumption

diffVars == <<comparison, repository, diffStep, pass, attempt, reads, fingerprints, candidate,
              verdict, moments, still, changed>>
reviewVars == <<halves, section, panel, body, bodyPath, row, firstRow, bodyHeight, focus>>
historyVars == <<textBuffer, baseline, written, textDisk, foreign, undoFile, saving, states, budget>>
editVars == <<scenario, keys, buffers, windows, focused, editing, registers, query, drag, panicked>>
filesVars == <<part, vars, mutationVars, recoveryVars, diffVars, reviewVars, historyVars, editVars>>

\* The variables of a part that does not run.
Off == "off"
NoDiff == comparison = Off /\ repository = Off /\ diffStep = Off /\ pass = Off /\ attempt = Off /\
          reads = Off /\ fingerprints = Off /\ candidate = Off /\ verdict = Off /\ moments = Off /\
          still = Off /\ changed = Off
NoReviewed == halves = Off /\ section = Off /\ panel = Off /\ body = Off /\ bodyPath = Off /\
              row = Off /\ firstRow = Off /\ bodyHeight = Off /\ focus = Off
NoText == textBuffer = Off /\ baseline = Off /\ written = Off /\ textDisk = Off /\ foreign = Off /\
          undoFile = Off /\ saving = Off /\ states = Off /\ budget = Off
NoModal == scenario = Off /\ keys = Off /\ buffers = Off /\ windows = Off /\ focused = Off /\
           editing = Off /\ registers = Off /\ query = Off /\ drag = Off /\ panicked = Off

FilesInit ==
  /\ part \in PartsRun
  /\ Init /\ (part = "save" \/ ~atomic)
  /\ MutationInit /\ (part = "mutation" \/ mode = "discard")
  /\ RecoveryInit /\ (part = "recovery" \/ (disk = (CHOOSE t \in DiskTexts : TRUE) /\ recoveryRecord = Absent))
  /\ IF part = "diff" THEN Diff!DiffInit ELSE NoDiff
  /\ IF part = "review" THEN Reviewed!ReviewInit ELSE NoReviewed
  /\ IF part = "text" THEN Text!HistoryInit ELSE NoText
  /\ IF part = "edit" THEN Modal!Init ELSE NoModal

FilesNext ==
  \/ /\ part = "save" /\ Next
     /\ UNCHANGED <<part, mutationVars, recoveryVars, diffVars, reviewVars, historyVars, editVars>>
  \/ /\ part = "mutation" /\ MutationNext
     /\ UNCHANGED <<part, vars, recoveryVars, diffVars, reviewVars, historyVars, editVars>>
  \/ /\ part = "recovery" /\ RecoveryNext
     /\ UNCHANGED <<part, vars, mutationVars, diffVars, reviewVars, historyVars, editVars>>
  \/ /\ part = "diff" /\ Diff!DiffNext
     /\ UNCHANGED <<part, vars, mutationVars, recoveryVars, reviewVars, historyVars, editVars>>
  \/ /\ part = "review" /\ Reviewed!ReviewNext
     /\ UNCHANGED <<part, vars, mutationVars, recoveryVars, diffVars, historyVars, editVars>>
  \/ /\ part = "text" /\ Text!HistoryNext
     /\ UNCHANGED <<part, vars, mutationVars, recoveryVars, diffVars, reviewVars, editVars>>
  \/ /\ part = "edit" /\ Modal!Next
     /\ UNCHANGED <<part, vars, mutationVars, recoveryVars, diffVars, reviewVars, historyVars>>

FilesSpec == FilesInit /\ [][FilesNext]_filesVars

-----------------------------------------------------------------------------
\* The invariants of the parts; those of the first three are checked as they stand.
ComparisonInvariant == (part = "diff" => Diff!DiffInvariant) /\ (part = "review" => Reviewed!ReviewInvariant)
ReadHunksWereMarked == part = "review" => Reviewed!ReadHunksWereMarked
TextHistoryInvariant == part = "text" => Text!TextHistoryInvariant
EditingInvariant == part = "edit" => Modal!EditingInvariant
\* The promise that a change between each two reads of a capture breaks.
NoMixedCandidate == part = "diff" => Diff!NoMixedCandidate
\* The promise that a text in two windows breaks.
CursorsStandInside == part = "edit" => Modal!CursorsStandInside
=============================================================================
