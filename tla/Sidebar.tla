------------------------------- MODULE Sidebar -------------------------------
(***************************************************************************)
(* A sidebar: rows of several lines, subtrees and sections that collapse,  *)
(* one selection, and a viewport that either follows the selection or      *)
(* stays where a wheel left it (src/crates/kvim-ui/src/sidebar.rs).        *)
(***************************************************************************)
EXTENDS RowList

CONSTANTS
  Lists,     \* the row lists that the host sets
  Closings,  \* the sets of collapsed sections that it sets
  HeightsOf, \* the heights of the region
  Margins,   \* the scroll margins
  Steps      \* the distances of a motion and of a wheel

VARIABLES
  rows, closed, selected, height, margin,
  owner,    \* ViewportOwner: "selection" or "scroll"
  window    \* the last answer of the viewport

sidebarVars == <<rows, closed, selected, height, margin, owner, window>>

-----------------------------------------------------------------------------
\* reconcile: a scrolled viewport stays.
Follow(newRows, newClosed, newSelected, newHeight, newMargin, newOwner) ==
  window' = IF newOwner = "selection"
            THEN Reconciled(newRows, newClosed, newSelected, newHeight, newMargin, window.first)
            ELSE window

SidebarInit ==
  /\ rows = <<>> /\ closed = {} /\ selected = None /\ margin = 0
  /\ height \in HeightsOf
  /\ owner = "selection" /\ window = NoWindow(0)

\* Mutant: a list that changed keeps the scrolled viewport.
OwnerKept(changed, was) == was
OwnerAfter(changed, was) == IF changed THEN "selection" ELSE was

SetRows(list) ==
  /\ rows' = list
  /\ selected' = Kept(list, closed, selected, IF selected = None THEN None ELSE rows[selected].id)
  /\ owner' = OwnerAfter(list # rows, owner)
  /\ Follow(list, closed, selected', height, margin, owner')
  /\ UNCHANGED <<closed, height, margin>>

SetSections(sections) ==
  /\ closed' = sections
  /\ selected' = Kept(rows, sections, selected, IF selected = None THEN None ELSE rows[selected].id)
  /\ owner' = OwnerAfter(sections # closed, owner)
  /\ Follow(rows, sections, selected', height, margin, owner')
  /\ UNCHANGED <<rows, height, margin>>

SetHeight(value) ==
  /\ height' = value /\ owner' = OwnerAfter(value # height, owner)
  /\ Follow(rows, closed, selected, value, margin, owner')
  /\ UNCHANGED <<rows, closed, selected, margin>>

SetMargin(value) ==
  /\ margin' = value /\ owner' = OwnerAfter(value # margin, owner)
  /\ Follow(rows, closed, selected, height, value, owner')
  /\ UNCHANGED <<rows, closed, selected, height>>

Scroll(lines, down) ==
  /\ window' = Scrolled(rows, closed, height, margin, window.first, lines, down)
  /\ owner' = "scroll"
  /\ UNCHANGED <<rows, closed, selected, height, margin>>

\* commit_selection: the same row keeps a scrolled viewport.
Commit(index) ==
  /\ selected' = index
  /\ owner' = IF index = selected THEN owner ELSE "selection"
  /\ Follow(rows, closed, index, height, margin, owner')
  /\ UNCHANGED <<rows, closed, height, margin>>

Move(motion) == LET landing == Landing(rows, closed, selected, motion) IN
  landing # None /\ Commit(landing)

SelectRow(id) == IndexOf(rows, closed, id) # None /\ Commit(IndexOf(rows, closed, id))

ClearSelection ==
  /\ selected' = None /\ owner' = "selection"
  /\ Follow(rows, closed, None, height, margin, "selection")
  /\ UNCHANGED <<rows, closed, height, margin>>

Motions == [kind : {"down", "up", "row"}, n : Steps] \cup [kind : {"last", "parent"}, n : {0}]

SidebarNext ==
  \/ \E list \in Lists : SetRows(list)
  \/ \E sections \in Closings : SetSections(sections)
  \/ \E value \in HeightsOf : SetHeight(value)
  \/ \E value \in Margins : SetMargin(value)
  \/ \E lines \in Steps, down \in BOOLEAN : Scroll(lines, down)
  \/ \E motion \in Motions : Move(motion)
  \/ \E list \in Lists : \E i \in DOMAIN list : SelectRow(list[i].id)
  \/ ClearSelection

-----------------------------------------------------------------------------
\* The selection is a row that shows and takes it.
SelectionShows == selected # None => selected \in Selectable(rows, closed)

\* The parts tile the window from its first row down, and leave rows only below the last line.
WindowIsWhole ==
  /\ height > 0 =>
       MapThenSumSet(LAMBDA part : part.lines, window.parts) = AtMost(height, window.total - window.first)
  /\ \A part \in window.parts :
       /\ part.row \in Shown(rows, closed)
       /\ part.lines >= 1 /\ part.skipped + part.lines <= rows[part.row].lines
       /\ part.top + part.lines <= height
       /\ \A other \in window.parts :
            other.row < part.row => /\ other.top + other.lines <= part.top
                                    /\ part.skipped = 0 /\ other.skipped + other.lines = rows[other.row].lines

\* The window of a list, and never of the list that it replaced.
WindowIsCurrent ==
  /\ window.total = Total(rows, closed)
  /\ window.first <= Minus(window.total, height)
  /\ window.parts = IF height = 0 THEN {} ELSE Parts(rows, closed, window.first, height)

\* A viewport that follows shows the first line of the selected row, and its
\* margin as far as the list and the height reach.
SelectionIsVisible ==
  (owner = "selection" /\ selected # None /\ height > 0) =>
     LET start == Start(rows, closed, selected)
         end == start + rows[selected].lines - 1
         kept == AtMost(margin, (height - 1) \div 2)
     IN /\ window.first <= start /\ start < window.first + height
        /\ rows[selected].lines + 2 * kept <= height =>
             /\ window.first <= Minus(start, kept)
             /\ window.first + height > AtMost(end + kept, window.total - 1)

\* No sequence of lists, collapses, heights, wheels and motions leaves a selection
\* on a hidden row, a window of an older list, a gap, or a hidden selection.
SidebarInvariant == SelectionShows /\ WindowIsWhole /\ WindowIsCurrent /\ SelectionIsVisible

SidebarSpec == SidebarInit /\ [][SidebarNext]_sidebarVars
=============================================================================
