------------------------------- MODULE RowList -------------------------------
(***************************************************************************)
(* The rules that every list of rows follows, without any state: which     *)
(* rows show, where a motion lands, and which lines a window shows         *)
(* (src/crates/kvim-ui/src/sidebar.rs and list.rs).                        *)
(*                                                                         *)
(* A row is [id, lines, depth, section, selectable, collapsed].  Rows and  *)
(* lines are counted from 1, a depth and a section from 0; 0 is no row.    *)
(***************************************************************************)
EXTENDS Naturals, Integers, Sequences, FiniteSets, FiniteSetsExt

Row(id, lines, depth, section, selectable, collapsed) ==
  [id |-> id, lines |-> lines, depth |-> depth, section |-> section,
   selectable |-> selectable, collapsed |-> collapsed]

None == 0
AtMost(a, b) == IF a < b THEN a ELSE b
AtLeast(a, b) == IF a > b THEN a ELSE b
Minus(a, b) == AtLeast(a - b, 0)      \* saturating_sub

-----------------------------------------------------------------------------
(* sidebar_visibility *)

\* Row "a" is a collapsed ancestor of row "i": "i" lies in its subtree and section.
Hides(rows, a, i) ==
  /\ rows[a].collapsed
  /\ \A k \in (a + 1)..i : rows[k].section = rows[a].section /\ rows[k].depth > rows[a].depth

FirstOfSection(rows, i) == i = 1 \/ rows[i - 1].section # rows[i].section

\* "closed" is the set of collapsed sections; a section never hides its first row.
Shows(rows, closed, i) ==
  /\ \A a \in 1..(i - 1) : ~Hides(rows, a, i)
  /\ rows[i].section \in closed => FirstOfSection(rows, i)
Shown(rows, closed) == {i \in DOMAIN rows : Shows(rows, closed, i)}

\* Mutant: a hidden row takes the selection.
SelectableAnywhere(rows, closed) == {i \in DOMAIN rows : rows[i].selectable}
Selectable(rows, closed) == {i \in Shown(rows, closed) : rows[i].selectable}

-----------------------------------------------------------------------------
(* Where a motion lands. *)

Forward == "forward"
Backward == "backward"

\* nearest_selectable: the first row in the travel direction, else the first one behind.
Nearest(rows, closed, from, travel) ==
  LET here == AtMost(from, Len(rows))
      ahead == {i \in Selectable(rows, closed) : i >= here}
      behind == {i \in Selectable(rows, closed) : i <= here}
      Ahead == IF ahead # {} THEN Min(ahead) ELSE None
      Behind == IF behind # {} THEN Max(behind) ELSE None
  IN IF travel = Forward THEN IF ahead # {} THEN Ahead ELSE Behind
     ELSE IF behind # {} THEN Behind ELSE Ahead

\* step_visible: as many shown rows as the list still has.
StepShown(rows, closed, from, step, travel) ==
  LET here == AtMost(from, Len(rows))
      Between(i) == {k \in Shown(rows, closed) : IF travel = Forward THEN here < k /\ k <= i
                                                                     ELSE i <= k /\ k < here}
      reach == {i \in Shown(rows, closed) : Between(i) # {} /\ Cardinality(Between(i)) <= step}
  IN IF reach = {} THEN here ELSE IF travel = Forward THEN Max(reach) ELSE Min(reach)

\* parent_row: the climb visits each shallower row and takes the first selectable one.
Climbed(rows, from) ==
  {i \in 1..(from - 1) : \A k \in (i + 1)..from : /\ rows[k].section = rows[i].section
                                                  /\ rows[k].depth > rows[i].depth}
Parent(rows, closed, from) ==
  LET parents == Climbed(rows, from) \cap Selectable(rows, closed)
  IN IF parents = {} THEN None ELSE Max(parents)

\* move_selection: the row that a motion selects, None when it selects none.
Landing(rows, closed, selected, motion) ==
  LET current == IF selected = None THEN 1 ELSE selected IN
  CASE rows = <<>> -> None
    [] motion.kind = "down" ->
         Nearest(rows, closed, StepShown(rows, closed, current, motion.n, Forward), Forward)
    [] motion.kind = "up" ->
         Nearest(rows, closed, StepShown(rows, closed, current, motion.n, Backward), Backward)
    [] motion.kind = "row" -> Nearest(rows, closed, motion.n, Forward)
    [] motion.kind = "last" -> Nearest(rows, closed, Len(rows), Backward)
    [] motion.kind = "parent" -> Parent(rows, closed, current)

\* index_of: a row that shows and takes the selection.
IndexOf(rows, closed, id) ==
  LET named == {i \in Selectable(rows, closed) : rows[i].id = id}
  IN IF named = {} THEN None ELSE Min(named)

\* recompute_visibility: the selection keeps its row, or falls to the nearest one.
Kept(rows, closed, selected, id) ==
  IF selected = None THEN None
  ELSE IF IndexOf(rows, closed, id) # None THEN IndexOf(rows, closed, id)
  ELSE IF rows = <<>> THEN None ELSE Nearest(rows, closed, selected, Forward)

-----------------------------------------------------------------------------
(* The window: list_lines, reconciled and place.  Lines are counted from 0. *)

LinesOf(rows, some) == MapThenSumSet(LAMBDA i : rows[i].lines, some)
Start(rows, closed, i) == LinesOf(rows, {k \in Shown(rows, closed) : k < i})
Total(rows, closed) == LinesOf(rows, Shown(rows, closed))

NoWindow(total) == [first |-> 0, total |-> total, parts |-> {}]

\* The part of a row that a window shows: lines it skips, lines it shows, row of the window.
Part(i, skipped, lines, top) == [row |-> i, skipped |-> skipped, lines |-> lines, top |-> top]
Parts(rows, closed, first, height) ==
  LET Placed(i) ==
        LET start == Start(rows, closed, i)
            skipped == Minus(first, start)
            top == Minus(start, first)
        IN Part(i, skipped, AtMost(rows[i].lines - skipped, height - top), top)
  IN {Placed(i) : i \in {k \in Shown(rows, closed) :
                            /\ Start(rows, closed, k) + rows[k].lines > first
                            /\ Start(rows, closed, k) < first + height}}

\* Mutant: the end of the selected row is not pulled back to its start.
FirstLineForEnd(start, end, height, margin, previous, total) ==
  LET kept == AtMost(margin, (height - 1) \div 2) IN
  AtMost(AtLeast(AtMost(previous, Minus(start, kept)), Minus(AtMost(end + kept, total - 1) + 1, height)),
         Minus(total, height))
\* The selected row and its margin pull the previous first line as little as they need.
FirstLine(start, end, height, margin, previous, total) ==
  LET kept == AtMost(margin, (height - 1) \div 2)
      low == Minus(start, kept)
      high == AtMost(end + kept, total - 1)
  IN AtMost(AtMost(AtLeast(AtMost(previous, low), Minus(high + 1, height)), Minus(total, height)), start)

\* ListWindow::reconciled
Reconciled(rows, closed, selected, height, margin, previous) ==
  LET total == Total(rows, closed) IN
  IF height = 0 \/ total = 0 THEN NoWindow(total)
  ELSE LET start == Start(rows, closed, selected)
           first == IF selected = None THEN AtMost(previous, Minus(total, height))
                    ELSE FirstLine(start, start + rows[selected].lines - 1, height, margin, previous, total)
       IN [first |-> first, total |-> total, parts |-> Parts(rows, closed, first, height)]

\* ListViewport::scroll
Scrolled(rows, closed, height, margin, previous, lines, down) ==
  Reconciled(rows, closed, None, height, margin,
             IF down THEN AtMost(previous + lines, Minus(Total(rows, closed), height)) ELSE Minus(previous, lines))
=============================================================================
