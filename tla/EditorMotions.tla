--------------------------- MODULE EditorMotions ----------------------------
(***************************************************************************)
(* Where a command moves the cursor and what a text object covers: the     *)
(* motions of kvim-editor/src/motion.rs, the text objects of               *)
(* text_object.rs and the search of search.rs, each by what it looks for   *)
(* and not by the walk that finds it.                                      *)
(*                                                                         *)
(* One bracket pair and one quote stand for those of the source.  A count  *)
(* of zero is no count.                                                    *)
(***************************************************************************)
EXTENDS EditorText

Nowhere == -1
NoCursor == Cursor(Nowhere, 0, 0)
NoRange == [start |-> Nowhere, end |-> Nowhere]
Span(start, end) == [start |-> start, end |-> end]

Times(count) == Greater(count, 1)
Steps(count) == [i \in 1..count |-> i]

-----------------------------------------------------------------------------
(* Classes and runs. *)

BlankChars == {" ", "n", "r"}
WordChars == {"a", "b", "A", "B"}
Class(c) == IF c \in BlankChars THEN "blank" ELSE IF c \in WordChars THEN "word" ELSE "punctuation"
WideClass(c) == IF c \in BlankChars THEN "blank" ELSE "word"
ClassAt(b, p, wide) == IF wide THEN WideClass(b.text[p + 1]) ELSE Class(b.text[p + 1])

\* The characters of one class around a position, inside its line.
RunEnd(b, p, wide) ==
  Greatest({q \in p..(ContentEnd(b, LineOf(b, p)) - 1) : \A k \in p..q : ClassAt(b, k, wide) = ClassAt(b, p, wide)})
RunStart(b, p, wide) ==
  Least({q \in b.starts[LineOf(b, p)]..p : \A k \in q..p : ClassAt(b, k, wide) = ClassAt(b, p, wide)})

\* The places a walk visits: each character, and the end of each line once.
Stops(b) == {p \in 0..(Len(b.text) - 1) : p <= ContentEnd(b, LineOf(b, p))}
IsBlank(b, p) == Class(b.text[p + 1]) = "blank"
IsEmptyLine(b, p) == b.lens[LineOf(b, p)] = 0
Words(b) == {p \in Stops(b) : ~IsBlank(b, p)}
WordsAndEmptyLines(b) == {p \in Stops(b) : ~IsBlank(b, p) \/ IsEmptyLine(b, p)}

NextWordStart(b, from) ==
  LET after == IF IsBlank(b, from) THEN from ELSE RunEnd(b, from, FALSE)
      found == {p \in WordsAndEmptyLines(b) : p > after}
  IN IF found = {} THEN Greatest(Stops(b)) ELSE Least(found)
NextWordEnd(b, from) ==
  LET found == {p \in Words(b) : p > from}
  IN IF found = {} THEN Greatest(Stops(b)) ELSE RunEnd(b, Least(found), FALSE)
PreviousWordStart(b, from) ==
  LET found == {p \in WordsAndEmptyLines(b) : p < from}
  IN IF found = {} THEN 0
     ELSE IF IsBlank(b, Greatest(found)) THEN Greatest(found)
     ELSE RunStart(b, Greatest(found), FALSE)

WalkTo(b, command, from, count) ==
  FoldLeft(LAMBDA p, i :
             CASE command = "MoveNextWordStart" -> NextWordStart(b, p)
               [] command = "MoveNextWordEnd" -> NextWordEnd(b, p)
               [] command = "MovePreviousWordStart" -> PreviousWordStart(b, p),
           from, Steps(count))

\* Behind an operator, a walk to another line ends where its last word's line ends.
OperatorWordStart(b, from, count) ==
  LET to == WalkTo(b, "MoveNextWordStart", from, count)
      passed == {p \in Words(b) : from < p /\ p < to}
  IN IF LineOf(b, to) = LineOf(b, from) \/ passed = {} THEN AtPosition(b, to, "Insert")
     ELSE Clamped(b, LineOf(b, Greatest(passed)), b.lens[LineOf(b, Greatest(passed))], "Insert")

NonBlanks(b, line) == {c \in 0..(b.lens[line] - 1) : ~IsBlank(b, b.starts[line] + c)}
FirstNonBlank(b, line) ==
  IF NonBlanks(b, line) = {} THEN Less(b.lens[line], 1) ELSE Least(NonBlanks(b, line))
LastNonBlank(b, line) == IF NonBlanks(b, line) = {} THEN 0 ELSE Greatest(NonBlanks(b, line))

-----------------------------------------------------------------------------
(* Brackets. *)

Count(b, c, from, to) == Cardinality({p \in from..to : b.text[p + 1] = c})
ScanForward(b, from) ==
  LET found == {p \in from..(Len(b.text) - 1) : Count(b, ")", from, p) > Count(b, "(", from, p)}
  IN IF found = {} THEN Nowhere ELSE Least(found)
ScanBackward(b, from) ==
  LET found == {p \in 0..from : Count(b, "(", p, from) > Count(b, ")", p, from)}
  IN IF found = {} THEN Nowhere ELSE Greatest(found)

MatchingBracket(b, from) ==
  LET found == {p \in from..(ContentEnd(b, LineOf(b, from)) - 1) : b.text[p + 1] \in {"(", ")"}}
  IN IF found = {} THEN Nowhere
     ELSE IF b.text[Least(found) + 1] = "(" THEN ScanForward(b, Least(found) + 1)
     ELSE ScanBackward(b, Least(found) - 1)
\* A jump without a partner ends the repetition; the first one misses.
MatchedBracket(b, from, count) ==
  LET to == FoldLeft(LAMBDA p, i : IF MatchingBracket(b, p) = Nowhere THEN p ELSE MatchingBracket(b, p),
                     from, Steps(count))
  IN IF MatchingBracket(b, from) = Nowhere THEN Nowhere ELSE to

-----------------------------------------------------------------------------
(* Search: matches inside one line, in the case of the query if it has any. *)

Lower(c) == CASE c = "A" -> "a" [] c = "B" -> "b" [] OTHER -> c
SameChar(query, c, d) == c = d \/ ((\A i \in DOMAIN query : Lower(query[i]) = query[i]) /\ Lower(c) = Lower(d))
Matches(b, query) ==
  {p \in Stops(b) : /\ p + Len(query) <= ContentEnd(b, LineOf(b, p))
                    /\ \A i \in DOMAIN query : SameChar(query, b.text[p + i], query[i])}
Found(b, query, from, forward) ==
  LET all == Matches(b, query)
      ahead == {p \in all : IF forward THEN p > from ELSE p < from}
      Nearest(S) == IF forward THEN Least(S) ELSE Greatest(S)
  IN IF all = {} THEN Nowhere ELSE IF ahead = {} THEN Nearest(all) ELSE Nearest(ahead)
SearchFrom(b, query, from, forward, count) ==
  FoldLeft(LAMBDA p, i : IF p = Nowhere THEN p ELSE Found(b, query, p, forward), from, Steps(count))

-----------------------------------------------------------------------------
(* The target of a motion. *)

WordMotions == {"MoveNextWordStart", "MovePreviousWordStart", "MoveNextWordEnd"}
Exclusive ==
  {"MoveLeft", "MoveRight", "MoveNextWordStart", "MovePreviousWordStart", "MoveFirstColumn",
   "MoveFirstNonBlank", "SearchNext", "SearchPrevious"}
Inclusive == {"MoveNextWordEnd", "MoveLastNonBlank", "MoveLineEnd", "MoveMatchingBracket"}
Linewise ==
  {"MoveDown", "MoveUp", "MoveFirstLine", "MoveLastLine", "MoveHalfPageDown", "MoveHalfPageUp",
   "MoveFullPageDown", "MoveFullPageUp"}
Motions == Exclusive \cup Inclusive \cup Linewise

ToLine(b, line, mode) == Clamped(b, line, FirstNonBlank(b, LineAt(b, line)), mode)
\* A vertical motion remembers the column it wants.
KeepingColumn(b, cursor, line, mode) ==
  LET last == LastColumn(mode, b.lens[LineAt(b, line)])
  IN ClampedWith(b, line,
                 IF cursor.preferred = EndOfLine THEN last ELSE Lesser(cursor.preferred, last),
                 cursor.preferred, mode)
Rows(w, command) ==
  CASE command \in {"MoveDown", "MoveUp"} -> 1
    [] command \in {"MoveHalfPageDown", "MoveHalfPageUp"} -> HalfPage(w)
    [] command \in {"MoveFullPageDown", "MoveFullPageUp"} -> FullPage(w)
OrMissed(b, p, mode) == IF p = Nowhere THEN NoCursor ELSE AtPosition(b, p, mode)

MotionTarget(b, w, mode, query, command, count) ==
  LET c == w.cursor
      at == PositionOf(b, c)
      n == Times(count)
  IN CASE command = "MoveLeft" -> Clamped(b, c.line, ColumnLeft(b, c.line, c.column, n), mode)
       [] command = "MoveRight" -> Clamped(b, c.line, ColumnRight(b, c.line, c.column, n), mode)
       [] command \in {"MoveDown", "MoveHalfPageDown", "MoveFullPageDown"} ->
            KeepingColumn(b, c, c.line + n * Rows(w, command), mode)
       [] command \in {"MoveUp", "MoveHalfPageUp", "MoveFullPageUp"} ->
            KeepingColumn(b, c, Less(c.line, n * Rows(w, command)), mode)
       [] command \in WordMotions -> AtPosition(b, WalkTo(b, command, at, n), mode)
       [] command = "MoveFirstColumn" -> Clamped(b, c.line, 0, mode)
       [] command = "MoveFirstNonBlank" -> Clamped(b, c.line, FirstNonBlank(b, c.line), mode)
       [] command = "MoveLastNonBlank" ->
            Clamped(b, c.line + n - 1, LastNonBlank(b, LineAt(b, c.line + n - 1)), mode)
       [] command = "MoveLineEnd" -> ClampedWith(b, c.line + n - 1, Len(b.text), EndOfLine, mode)
       [] command = "MoveFirstLine" -> ToLine(b, Less(count, 1), mode)
       [] command = "MoveLastLine" -> ToLine(b, IF count = 0 THEN LastLine(b) ELSE count - 1, mode)
       [] command = "MoveMatchingBracket" -> OrMissed(b, MatchedBracket(b, at, n), mode)
       [] command \in {"SearchNext", "SearchPrevious"} ->
            IF query = <<>> THEN NoCursor
            ELSE OrMissed(b, SearchFrom(b, query, at, command = "SearchNext", n), mode)

-----------------------------------------------------------------------------
(* Text objects. *)

Object(kind, around) == [kind |-> kind, around |-> around]
Objects ==
  [SelectInnerWord |-> Object("word", FALSE), SelectAroundWord |-> Object("word", TRUE),
   SelectInnerLongWord |-> Object("long", FALSE), SelectAroundLongWord |-> Object("long", TRUE),
   SelectInnerParen |-> Object("pair", FALSE), SelectAroundParen |-> Object("pair", TRUE),
   SelectInnerDoubleQuote |-> Object("quote", FALSE), SelectAroundDoubleQuote |-> Object("quote", TRUE)]

\* A word and, around it, the blanks behind it or else those before it.
AroundUnit(b, last, wide, state, unit) ==
  LET end == IF unit = 1 THEN state.end ELSE RunEnd(b, state.end + 1, wide)
      isBlank == IsBlank(b, end)
  IN IF unit > 1 /\ state.end = last THEN state
     ELSE IF end < last /\ IsBlank(b, end + 1) # isBlank
     THEN [end |-> RunEnd(b, end + 1, wide), took |-> ~isBlank]
     ELSE [end |-> end, took |-> FALSE]
WordRange(b, cursor, wide, around, count) ==
  LET first == b.starts[cursor.line]
      last == ContentEnd(b, cursor.line) - 1
      at == Lesser(PositionOf(b, cursor), last)
      start == RunStart(b, at, wide)
      inner == FoldLeft(LAMBDA end, i : IF end < last THEN RunEnd(b, end + 1, wide) ELSE end,
                        RunEnd(b, at, wide), Steps(count - 1))
      outer == FoldLeft(LAMBDA state, unit : AroundUnit(b, last, wide, state, unit),
                        [end |-> RunEnd(b, at, wide), took |-> FALSE], Steps(count))
  IN IF last < first THEN Span(first, first)
     ELSE IF ~around THEN Span(start, inner + 1)
     ELSE Span(IF ~outer.took /\ start > first /\ IsBlank(b, start - 1) THEN RunStart(b, start - 1, wide) ELSE start,
                outer.end + 1)

EnclosingPair(b, from) ==
  LET c == IF from < 0 THEN " " ELSE b.text[from + 1]
      open == IF c = "(" THEN from ELSE ScanBackward(b, IF c = ")" THEN from - 1 ELSE from)
      close == IF c = ")" THEN from ELSE ScanForward(b, IF c = "(" THEN from + 1 ELSE from)
  IN IF from < 0 \/ open = Nowhere \/ close = Nowhere THEN NoRange ELSE Span(open, close)
PairRange(b, cursor, around, count) ==
  LET pair == FoldLeft(LAMBDA inside, i : IF inside = NoRange THEN inside ELSE EnclosingPair(b, inside.start - 1),
                       EnclosingPair(b, PositionOf(b, cursor)), Steps(count - 1))
  IN IF pair = NoRange THEN NoRange
     ELSE IF around THEN Span(pair.start, pair.end + 1) ELSE Span(pair.start + 1, pair.end)

\* Quotes pair from the start of the line; the first pair that does not end
\* before the cursor counts.
QuoteRange(b, cursor, around, count) ==
  LET quotes == Ascending({p \in b.starts[cursor.line]..(ContentEnd(b, cursor.line) - 1) : b.text[p + 1] = "q"})
      pairs == {k \in 1..(Len(quotes) \div 2) : quotes[2 * k] >= PositionOf(b, cursor)}
      open == quotes[2 * Least(pairs) - 1]
      close == quotes[2 * Least(pairs)]
  IN IF count > 1 \/ pairs = {} THEN NoRange
     ELSE IF around THEN Span(open, close + 1) ELSE Span(open + 1, close)

ObjectRange(b, cursor, object, count) ==
  CASE object.kind \in {"word", "long"} -> WordRange(b, cursor, object.kind = "long", object.around, count)
    [] object.kind = "pair" -> PairRange(b, cursor, object.around, count)
    [] object.kind = "quote" -> QuoteRange(b, cursor, object.around, count)
=============================================================================
