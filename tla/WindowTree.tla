----------------------------- MODULE WindowTree -----------------------------
(***************************************************************************)
(* The windows of kvim-ui/src/window.rs and layout.rs, with the view that  *)
(* kvim-tui/src/window.rs keeps for each of them: a tree of splits, two    *)
(* sidebars, the focus, the host area and the layout that was last         *)
(* computed from them.                                                     *)
(*                                                                         *)
(* A node is a leaf or a split with the weight of its first child.  The    *)
(* surface of a leaf is left out: the tree only copies it.  A view is the  *)
(* size that its viewport was last given; scroll offsets and jumps are     *)
(* left out.  Every operation computes the layout again but FocusRegion,   *)
(* which keeps it, as in the code.                                         *)
(***************************************************************************)
EXTENDS Integers, Sequences, FiniteSets, SequencesExt

CONSTANTS
  MinExtents,     \* the smallest extent of a window along each orientation
  WeightTotal,    \* SPLIT_WEIGHT_TOTAL, above every extent
  WindowsMax,     \* WINDOWS_MAX
  DepthMax,       \* SPLIT_DEPTH_MAX
  IdMax,          \* the largest value of the identity counter
  SidebarMin, SidebarMax,  \* SIDEBAR_WIDTH_MIN_CELLS, SIDEBAR_WIDTH_MAX_CELLS
  HostAreas,      \* the host areas, as <<width, height>>
  SidebarWidths,  \* the widths a caller asks for
  ResizeSteps,    \* the cells of one resize
  Ratio,          \* the width-to-height threshold of the adaptive split
  Placement       \* the child that receives a new window, by orientation

VARIABLES root, focused, focus, sidebars, nextId, area, layout, views

treeVars == <<root, focused, focus, sidebars, nextId, area, layout, views>>

Orientations == {"vertical", "horizontal"}
Sides == {"left", "right"}
Directions == {"left", "down", "up", "right"}

\* The last row of a window that shows no line of its buffer (WINBAR_ROWS).
WinbarRows == 1

LeastOf(a, b) == IF a < b THEN a ELSE b
MostOf(a, b) == IF a > b THEN a ELSE b
Less(a, b) == MostOf(a - b, 0)

-----------------------------------------------------------------------------
(* Nodes. *)

LeafNode(id) == [leaf |-> id]
SplitNode(id, orientation, weight, first, second) ==
  [split |-> id, orientation |-> orientation, weight |-> weight, first |-> first, second |-> second]
IsLeaf(node) == "leaf" \in DOMAIN node

\* The windows of a subtree in layout order.
RECURSIVE WindowIds(_)
WindowIds(node) ==
  IF IsLeaf(node) THEN <<node.leaf>> ELSE WindowIds(node.first) \o WindowIds(node.second)

Holds(node, id) == id \in ToSet(WindowIds(node))

\* The splits from the root to a window, each with the child that holds it.
RECURSIVE LeafPath(_, _)
LeafPath(node, id) ==
  IF IsLeaf(node) THEN <<>>
  ELSE LET side == IF Holds(node.first, id) THEN "first" ELSE "second"
       IN <<[split |-> node.split, orientation |-> node.orientation, side |-> side]>> \o LeafPath(node[side], id)

RECURSIVE SplitLeaf(_, _, _, _, _, _)
SplitLeaf(node, target, id, orientation, new, newSide) ==
  IF IsLeaf(node)
  THEN IF node.leaf # target THEN node
       ELSE SplitNode(id, orientation, WeightTotal \div 2,
              IF newSide = "first" THEN LeafNode(new) ELSE node,
              IF newSide = "first" THEN node ELSE LeafNode(new))
  ELSE [node EXCEPT !.first = SplitLeaf(@, target, id, orientation, new, newSide),
                    !.second = SplitLeaf(@, target, id, orientation, new, newSide)]

\* The sibling takes the place of the parent; the root leaf stays.
RECURSIVE CloseLeaf(_, _)
CloseLeaf(node, target) ==
  IF IsLeaf(node) THEN node
  ELSE IF node.first = LeafNode(target) THEN node.second
  ELSE IF node.second = LeafNode(target) THEN node.first
  ELSE [node EXCEPT !.first = CloseLeaf(@, target), !.second = CloseLeaf(@, target)]

\* The sibling that survives a close, whose first window is focused.
RECURSIVE SiblingOf(_, _)
SiblingOf(node, target) ==
  IF node.first = LeafNode(target) THEN node.second
  ELSE IF node.second = LeafNode(target) THEN node.first
  ELSE SiblingOf(IF Holds(node.first, target) THEN node.first ELSE node.second, target)

RECURSIVE MinExtent(_, _)
MinExtent(node, orientation) ==
  IF IsLeaf(node) THEN MinExtents[orientation]
  ELSE LET first == MinExtent(node.first, orientation)
           second == MinExtent(node.second, orientation)
       IN IF node.orientation = orientation THEN first + second ELSE MostOf(first, second)

\* The cells of the first child: its share, but never less than a child needs.
\* Mutant: the share as it is.
FirstExtentOfShare(extent, weight, firstMin, secondMin) == (extent * weight) \div WeightTotal
FirstExtent(extent, weight, firstMin, secondMin) ==
  LET share == (extent * LeastOf(weight, WeightTotal)) \div WeightTotal
      low == LeastOf(firstMin, extent)
      high == MostOf(Less(extent, secondMin), low)
  IN MostOf(low, LeastOf(share, high))

\* The smallest weight whose share of the extent is the given cells.
\* Mutant: rounded down.
SplitWeightDown(head, extent) == IF extent = 0 THEN WeightTotal \div 2 ELSE (head * WeightTotal) \div extent
SplitWeight(head, extent) ==
  IF extent = 0 THEN WeightTotal \div 2
  ELSE LeastOf(WeightTotal, (head * WeightTotal + extent - 1) \div extent)

NoMove == [legal |-> FALSE]
Moved(node) == [legal |-> TRUE, node |-> node]

\* Where the first child of a split ends.
HeadOf(node, extent) ==
  FirstExtent(extent, node.weight, MinExtent(node.first, node.orientation), MinExtent(node.second, node.orientation))
Far(end) == IF end = "first" THEN "second" ELSE "first"

\* Both children moved, or nothing moves.
Joined(node, end, near, rest, weight) ==
  IF ~near.legal \/ ~rest.legal THEN NoMove
  ELSE Moved([node EXCEPT ![end] = near.node, ![Far(end)] = rest.node, !.weight = weight])

(***************************************************************************)
(* One end of a subtree moves: the pane at that end absorbs the cells, and *)
(* one at its minimum passes the rest to the next.                         *)
(***************************************************************************)
RECURSIVE MoveEdge(_, _, _, _, _)
MoveAlong(node, extent, end, delta, cells, absorbed) ==
  Joined(node, end,
         MoveEdge(node[end], node.orientation, cells[end], end, absorbed),
         MoveEdge(node[Far(end)], node.orientation, cells[Far(end)], end, delta - absorbed),
         SplitWeight(cells.first + (IF end = "first" THEN absorbed ELSE delta - absorbed), extent + delta))
MovePanes(node, extent, end, delta, cells) ==
  MoveAlong(node, extent, end, delta, cells,
            MostOf(cells[end] + delta, MinExtent(node[end], node.orientation)) - cells[end])
Halves(extent, head) == [first |-> head, second |-> extent - head]
MoveEdge(node, orientation, extent, end, delta) ==
  IF LeastOf(extent, extent + delta) < MinExtent(node, orientation) THEN NoMove
  ELSE IF IsLeaf(node) THEN Moved(node)
  ELSE IF node.orientation = orientation THEN MovePanes(node, extent, end, delta, Halves(extent, HeadOf(node, extent)))
  ELSE Joined(node, "first", MoveEdge(node.first, orientation, extent, end, delta),
              MoveEdge(node.second, orientation, extent, end, delta), node.weight)

\* One divider moves toward larger coordinates by delta cells.
MoveHere(node, extent, head, delta) ==
  IF extent < MinExtent(node, node.orientation) \/ head + delta \notin 0..extent THEN NoMove
  ELSE Joined(node, "first", MoveEdge(node.first, node.orientation, head, "second", delta),
              MoveEdge(node.second, node.orientation, extent - head, "first", -delta),
              SplitWeight(head + delta, extent))
Either(node, first, second) ==
  CASE first.legal -> Moved([node EXCEPT !.first = first.node])
    [] ~first.legal /\ second.legal -> Moved([node EXCEPT !.second = second.node])
    [] OTHER -> NoMove
RECURSIVE MoveDivider(_, _, _, _)
MoveDivider(node, id, extent, delta) ==
  IF IsLeaf(node) THEN NoMove
  ELSE IF node.split = id THEN MoveHere(node, extent, HeadOf(node, extent), delta)
  ELSE Either(node, MoveDivider(node.first, id, extent, delta), MoveDivider(node.second, id, extent, delta))

-----------------------------------------------------------------------------
(* The layout. *)

Rect(x, y, width, height) == [x |-> x, y |-> y, width |-> width, height |-> height]
EmptyRect(rect) == rect.width = 0 \/ rect.height = 0
Extent(orientation, rect) == IF orientation = "vertical" THEN rect.width ELSE rect.height
EndOf(rect) == [x |-> rect.x + rect.width, y |-> rect.y + rect.height]

NoSidebar == [id |-> 0, width |-> 0, visible |-> FALSE]
Region(id, kind, rect) == [id |-> id, kind |-> kind, area |-> rect]

\* A sidebar that leaves the windows less than one smallest width stays hidden.
Fits(sidebar, windows) ==
  sidebar.visible /\ sidebar.width > 0 /\ windows.width >= sidebar.width + MinExtents["vertical"]

Carved(side, sidebar, windows) ==
  IF ~Fits(sidebar, windows) THEN [windows |-> windows, region |-> <<>>]
  ELSE LET rest == windows.width - sidebar.width
       IN IF side = "left"
          THEN [windows |-> Rect(windows.x + sidebar.width, windows.y, rest, windows.height),
                region |-> <<Region(sidebar.id, "left", Rect(windows.x, windows.y, sidebar.width, windows.height))>>]
          ELSE [windows |-> Rect(windows.x, windows.y, rest, windows.height),
                region |-> <<Region(sidebar.id, "right",
                                    Rect(windows.x + rest, windows.y, sidebar.width, windows.height))>>]

EditorArea(bars, host) == Carved("right", bars.right, Carved("left", bars.left, host).windows).windows

Placed(regions, splits, borders, hidden) ==
  [regions |-> regions, splits |-> splits, borders |-> borders, hidden |-> hidden]
Both(a, b) ==
  Placed(a.regions \o b.regions, a.splits \cup b.splits, a.borders \cup b.borders, a.hidden + b.hidden)
Border(owner, orientation, rect) == [owner |-> owner, orientation |-> orientation, area |-> rect]

\* The rectangles of the children and the border between them.
FirstRect(orientation, rect, head) ==
  IF orientation = "vertical" THEN Rect(rect.x, rect.y, head, rect.height) ELSE Rect(rect.x, rect.y, rect.width, head)
SecondRect(orientation, rect, head) ==
  IF orientation = "vertical" THEN Rect(rect.x + head, rect.y, rect.width - head, rect.height)
  ELSE Rect(rect.x, rect.y + head, rect.width, rect.height - head)
BorderRect(orientation, rect, head) ==
  IF orientation = "vertical" THEN Rect(rect.x + head - 1, rect.y, 1, rect.height)
  ELSE Rect(rect.x, rect.y + head, rect.width, 1)

\* A rectangle too small for both subtrees keeps the one that holds the focus.
RECURSIVE LayoutNode(_, _, _)
LayoutBoth(node, rect, current, head) ==
  Both(Placed(<<>>, {[split |-> node.split, area |-> rect]},
              {Border([split |-> node.split], node.orientation, BorderRect(node.orientation, rect, head))}, 0),
       Both(LayoutNode(node.first, FirstRect(node.orientation, rect, head), current),
            LayoutNode(node.second, SecondRect(node.orientation, rect, head), current)))
LayoutOne(node, rect, current, kept) ==
  Both(LayoutNode(node[kept], rect, current), Placed(<<>>, {}, {}, Len(WindowIds(node[Far(kept)]))))
LayoutNode(node, rect, current) ==
  IF EmptyRect(rect) THEN Placed(<<>>, {}, {}, Len(WindowIds(node)))
  ELSE IF IsLeaf(node) THEN Placed(<<Region(node.leaf, "surface", rect)>>, {}, {}, 0)
  ELSE IF Extent(node.orientation, rect) < MinExtent(node, node.orientation)
  THEN LayoutOne(node, rect, current, IF Holds(node.second, current) THEN "second" ELSE "first")
  ELSE LayoutBoth(node, rect, current, HeadOf(node, Extent(node.orientation, rect)))

\* The borders of the sidebars: a right one that touches no pane has none.
SidebarBorders(regions) ==
  {Border([sidebar |-> r.kind], "vertical",
          Rect(IF r.kind = "left" THEN r.area.x + r.area.width - 1 ELSE r.area.x - 1, r.area.y, 1, r.area.height)) :
     r \in {r \in ToSet(regions) : r.kind = "left" \/ r.area.x > 0}}

Asked(bars) == Cardinality({s \in Sides : bars[s].visible})
Composed(left, right, inner, bars) ==
  [regions |-> left.region \o inner.regions \o right.region, splits |-> inner.splits,
   borders |-> inner.borders \cup SidebarBorders(left.region \o right.region),
   hidden |-> [windows |-> inner.hidden, sidebars |-> Asked(bars) - Len(left.region \o right.region)]]
LayoutBeside(tree, current, bars, left, right) ==
  Composed(left, right, LayoutNode(tree, right.windows, current), bars)
LayoutAfterLeft(tree, current, bars, left) ==
  LayoutBeside(tree, current, bars, left, Carved("right", bars.right, left.windows))
ComputeLayout(tree, current, bars, host) ==
  IF EmptyRect(host)
  THEN [regions |-> <<>>, splits |-> {}, borders |-> {},
        hidden |-> [windows |-> Len(WindowIds(tree)), sidebars |-> Asked(bars)]]
  ELSE LayoutAfterLeft(tree, current, bars, Carved("left", bars.left, host))

Shown(l, id) == \E r \in ToSet(l.regions) : r.id = id
RegionOf(l, id) == CHOOSE r \in ToSet(l.regions) : r.id = id
Surfaces(l) == {r \in ToSet(l.regions) : r.kind = "surface"}

Overlap(from, length, otherFrom, otherLength) ==
  Less(LeastOf(from + length, otherFrom + otherLength), MostOf(from, otherFrom))
Adjacent(origin, other, direction) ==
  CASE direction = "left" -> EndOf(other).x = origin.x
    [] direction = "right" -> other.x = EndOf(origin).x
    [] direction = "up" -> EndOf(other).y = origin.y
    [] direction = "down" -> other.y = EndOf(origin).y
Shared(origin, other, direction) ==
  IF direction \in Sides THEN Overlap(origin.y, origin.height, other.y, other.height)
  ELSE Overlap(origin.x, origin.width, other.x, other.width)

\* The regions that touch one side with the largest overlap, in layout order.
Neighbors(l, id, direction) ==
  LET origin == RegionOf(l, id).area
      touching == SelectSeq(l.regions, LAMBDA r : r.id # id /\ Adjacent(origin, r.area, direction)
                                                   /\ Shared(origin, r.area, direction) > 0)
  IN SelectSeq(touching, LAMBDA r : \A other \in ToSet(touching) :
                            Shared(origin, r.area, direction) >= Shared(origin, other.area, direction))
HasNeighbor(l, id, direction) == Shown(l, id) /\ Neighbors(l, id, direction) # <<>>
Neighbor(l, id, direction) == Head(Neighbors(l, id, direction))

-----------------------------------------------------------------------------
(* The operations. *)

FocusedRegion == IF focus = "window" THEN focused ELSE sidebars[focus].id

\* The views of the windows of a tree, resized to the rectangles of a layout.
Synced(old, tree, l) ==
  [id \in ToSet(WindowIds(tree)) |->
     LET shown == Shown(l, id)
         rect == RegionOf(l, id).area
     IN IF shown /\ rect.height > WinbarRows THEN <<rect.width, rect.height - WinbarRows>> ELSE old[id]]

\* A sidebar that is not shown loses the focus.
FocusAfter(l, bars) ==
  IF focus # "window" /\ ~Shown(l, bars[focus].id) THEN "window" ELSE focus

TreeInit ==
  /\ root = LeafNode(1) /\ focused = 1 /\ focus = "window" /\ nextId = 2
  /\ sidebars = [s \in Sides |-> NoSidebar]
  /\ \E host \in HostAreas : area = Rect(0, 0, host[1], host[2])
  /\ layout = ComputeLayout(root, 1, sidebars, area)
  /\ views = Synced([id \in {1} |-> <<1, 1>>], root, layout)

\* A change of the area or of a sidebar computes the layout again.
Recompute(bars, host) ==
  /\ sidebars' = bars /\ area' = host
  /\ layout' = ComputeLayout(root, focused, bars, host)
  /\ focus' = FocusAfter(layout', bars)
  /\ views' = Synced(views, root, layout')

SetArea(host) ==
  /\ Recompute(sidebars, Rect(0, 0, host[1], host[2]))
  /\ UNCHANGED <<root, focused, nextId>>

OpenSidebar(side, width) ==
  /\ nextId < IdMax
  /\ nextId' = nextId + 1
  /\ Recompute([sidebars EXCEPT ![side] =
       [id |-> nextId, width |-> MostOf(SidebarMin, LeastOf(width, SidebarMax)), visible |-> TRUE]], area)
  /\ UNCHANGED <<root, focused>>

SetSidebarVisible(side) ==
  /\ sidebars[side] # NoSidebar
  /\ Recompute([sidebars EXCEPT ![side].visible = ~@], area)
  /\ UNCHANGED <<root, focused, nextId>>

\* The layout stays as it was.
FocusRegion(region) ==
  /\ focus' = IF region.kind = "surface" THEN "window" ELSE region.kind
  /\ focused' = IF region.kind = "surface" THEN region.id ELSE focused
  /\ UNCHANGED <<root, sidebars, nextId, area, layout, views>>

FocusDirection(direction) ==
  /\ HasNeighbor(layout, FocusedRegion, direction)
  /\ FocusRegion(Neighbor(layout, FocusedRegion, direction))

\* The adaptive orientation: one window splits beside, then the ratio decides.
AdaptiveOrientation(inverse) ==
  LET rect == IF Shown(layout, focused) THEN RegionOf(layout, focused).area ELSE area
      wide == IsLeaf(root) \/ rect.width > rect.height * Ratio
  IN IF wide # inverse THEN "vertical" ELSE "horizontal"

\* The split is staged: it must show both subtrees and hide no other window.
SplitStaged(candidate, staged) ==
  /\ Shown(staged, nextId) /\ Shown(staged, focused)
  /\ Cardinality(Surfaces(staged)) = Cardinality(Surfaces(layout)) + 1
  /\ root' = candidate /\ focused' = nextId /\ focus' = "window"
  /\ nextId' = nextId + 1 /\ layout' = staged
  /\ views' = Synced([id \in DOMAIN views \cup {nextId} |-> IF id = nextId THEN views[focused] ELSE views[id]],
                     candidate, staged)
  /\ UNCHANGED <<sidebars, area>>
SplitTo(candidate) == SplitStaged(candidate, ComputeLayout(candidate, nextId, sidebars, area))
Split(orientation) ==
  /\ Len(WindowIds(root)) < WindowsMax
  /\ Len(LeafPath(root, focused)) < DepthMax
  /\ nextId < IdMax
  /\ SplitTo(SplitLeaf(root, focused, nextId, orientation, nextId, Placement[orientation]))

CloseWindow ==
  /\ focus = "window" /\ ~IsLeaf(root)
  /\ root' = CloseLeaf(root, focused)
  /\ focused' = Head(WindowIds(SiblingOf(root, focused)))
  /\ layout' = ComputeLayout(root', focused', sidebars, area)
  /\ views' = Synced(views, root', layout')
  /\ UNCHANGED <<focus, sidebars, nextId, area>>

CloseSidebar ==
  /\ focus # "window"
  /\ Recompute([sidebars EXCEPT ![focus].visible = FALSE], area)
  /\ UNCHANGED <<root, focused, nextId>>

\* A staged layout that shows other regions, as many, none below its minimum.
Accepts(staged) ==
  /\ staged.regions # layout.regions
  /\ Len(staged.regions) = Len(layout.regions)
  /\ \A r \in Surfaces(staged) :
       r.area.width >= MinExtents["vertical"] /\ r.area.height >= MinExtents["horizontal"]

\* The staged outcome of one divider.
StagedDivider(split, delta) ==
  LET parent == (CHOOSE s \in layout.splits : s.split = split).area
      orientation == (CHOOSE b \in layout.borders : b.owner = [split |-> split]).orientation
  IN MoveDivider(root, split, Extent(orientation, parent), delta)

\* The staged outcome of one sidebar width, which the windows beside it absorb.
SidebarTo(side, target) ==
  [sidebars EXCEPT ![side].width = MostOf(SidebarMin, LeastOf(MostOf(target, 0), SidebarMax))]
IfAccepted(moved, bars) ==
  IF ~moved.legal THEN NoMove
  ELSE IF Accepts(ComputeLayout(moved.node, focused, bars, area)) THEN moved ELSE NoMove
Absorbed(side, before, delta) ==
  IF delta = 0 THEN Moved(root)
  ELSE MoveEdge(root, "vertical", before, IF side = "left" THEN "first" ELSE "second", delta)
StagedBars(side, bars) ==
  IF bars = sidebars THEN NoMove
  ELSE IfAccepted(Absorbed(side, EditorArea(sidebars, area).width,
                           EditorArea(bars, area).width - EditorArea(sidebars, area).width), bars)
StagedSidebar(side, target) == StagedBars(side, SidebarTo(side, target))

CommitLayout(tree, bars, staged) ==
  /\ Accepts(staged)
  /\ root' = tree /\ sidebars' = bars /\ layout' = staged
  /\ views' = Synced(views, tree, staged)
  /\ UNCHANGED <<focused, focus, nextId, area>>
Commit(moved, bars) ==
  moved.legal /\ CommitLayout(moved.node, bars, ComputeLayout(moved.node, focused, bars, area))

ResizeSidebar(side, direction, step) ==
  LET target == sidebars[side].width + (IF direction = side THEN -step ELSE step)
  IN direction \in Sides /\ Commit(StagedSidebar(side, target), SidebarTo(side, target))

\* The far edge wins; without a neighbor there the near edge moves.
FarEdge(direction) == IF direction \in Sides THEN "right" ELSE "down"
NearEdge(direction) == IF direction \in Sides THEN "left" ELSE "up"
EdgeOf(direction) ==
  IF HasNeighbor(layout, focused, FarEdge(direction)) THEN FarEdge(direction) ELSE NearEdge(direction)

\* The innermost split along the axis that holds the window before the edge.
DividersAt(edge) ==
  LET side == IF edge \in {"right", "down"} THEN "first" ELSE "second"
      orientation == IF edge \in Sides THEN "vertical" ELSE "horizontal"
  IN SelectSeq(LeafPath(root, focused), LAMBDA step : step.orientation = orientation /\ step.side = side)

Step(direction, step) == IF direction \in {"right", "down"} THEN step ELSE -step

ResizeDivider(direction, edge, step) ==
  LET found == DividersAt(edge)
      split == Last(found).split
  IN /\ found # <<>>
     /\ \E s \in layout.splits : s.split = split
     /\ Commit(StagedDivider(split, Step(direction, step)), sidebars)

Resize(direction, step) ==
  LET edge == EdgeOf(direction)
      kind == Neighbor(layout, focused, edge).kind
  IN \/ focus # "window" /\ Shown(layout, FocusedRegion) /\ ResizeSidebar(focus, direction, step)
     \/ /\ focus = "window" /\ HasNeighbor(layout, focused, edge)
        /\ IF kind = "surface" THEN ResizeDivider(direction, edge, step) ELSE ResizeSidebar(kind, direction, step)

\* The search of largest_legal_delta over the cells that a staging accepts.
RECURSIVE LargestLegal(_, _, _, _)
LargestLegal(legal, low, high, found) ==
  LET middle == low + (high - low) \div 2
  IN IF low > high THEN found
     ELSE IF middle \in legal THEN LargestLegal(legal, middle + 1, high, middle)
     ELSE LargestLegal(legal, low, middle - 1, found)

Sign(delta) == IF delta < 0 THEN -1 ELSE 1
Cells(delta) == IF delta < 0 THEN -delta ELSE delta
SidebarTarget(side, delta) == sidebars[side].width + (IF side = "left" THEN delta ELSE -delta)
LegalCells(border, delta) ==
  {cells \in 1..Cells(delta) :
     IF "split" \in DOMAIN border.owner THEN StagedDivider(border.owner.split, Sign(delta) * cells).legal
     ELSE StagedSidebar(border.owner.sidebar, SidebarTarget(border.owner.sidebar, Sign(delta) * cells)).legal}
LegalDelta(border, delta) == Sign(delta) * LargestLegal(LegalCells(border, delta), 1, Cells(delta), 0)

DragBorder(owner, cells) ==
  IF "split" \in DOMAIN owner THEN Commit(StagedDivider(owner.split, cells), sidebars)
  ELSE Commit(StagedSidebar(owner.sidebar, SidebarTarget(owner.sidebar, cells)),
              SidebarTo(owner.sidebar, SidebarTarget(owner.sidebar, cells)))
ResizeBorder(border, delta) ==
  \E cells \in {LegalDelta(border, delta)} : cells # 0 /\ DragBorder(border.owner, cells)

TreeNext ==
  \/ \E host \in HostAreas : SetArea(host)
  \/ \E side \in Sides, width \in SidebarWidths : OpenSidebar(side, width)
  \/ \E side \in Sides : SetSidebarVisible(side)
  \/ \E region \in ToSet(layout.regions) : FocusRegion(region)
  \/ \E direction \in Directions : FocusDirection(direction)
  \/ \E orientation \in Orientations : Split(orientation)
  \/ \E inverse \in BOOLEAN : Split(AdaptiveOrientation(inverse))
  \/ CloseWindow
  \/ CloseSidebar
  \/ \E direction \in Directions, step \in ResizeSteps : Resize(direction, step)
  \/ \E border \in layout.borders, step \in ResizeSteps, sign \in {1, -1} : ResizeBorder(border, sign * step)

TreeSpec == TreeInit /\ [][TreeNext]_treeVars

-----------------------------------------------------------------------------
(* What the windows promise. *)

CellsOf(rect) == (rect.x .. (rect.x + rect.width - 1)) \X (rect.y .. (rect.y + rect.height - 1))

\* layout.rs: the visible regions cover the host area "without a gap and
\* without an overlap", and what they do not show is counted.
RegionsTile ==
  /\ UNION {CellsOf(r.area) : r \in ToSet(layout.regions)} = CellsOf(area)
  /\ \A r, s \in ToSet(layout.regions) : r.id = s.id \/ CellsOf(r.area) \cap CellsOf(s.area) = {}
  /\ Cardinality(Surfaces(layout)) + layout.hidden.windows = Len(WindowIds(root))
  /\ (Len(layout.regions) - Cardinality(Surfaces(layout))) + layout.hidden.sidebars
       = Cardinality({s \in Sides : sidebars[s].visible})

\* recompute: the focused window is shown in every area that is not empty.
FocusIsShown == Holds(root, focused) /\ (~EmptyRect(area) => Shown(layout, focused))

\* Windows that fit beside the shown sidebars are all shown and none is below
\* its minimum, whatever splits, closes and resizes came before.
WindowsFit ==
  LET windows == EditorArea(sidebars, area)
      fits == \A o \in Orientations : Extent(o, windows) >= MinExtent(root, o)
  IN fits => /\ layout.hidden.windows = 0
             /\ layout = ComputeLayout(root, focused, sidebars, area)
             /\ \A r \in Surfaces(layout), o \in Orientations : Extent(o, r.area) >= MinExtents[o]

\* largest_legal_delta: "A move that fits implies that every smaller move of
\* the same sign fits", so its search finds the largest one.  Not so for a
\* sidebar while the other one is hidden: see HiddenSidebarHasNoFocus.
LargestIsFound ==
  \A border \in layout.borders, step \in ResizeSteps, sign \in {1, -1} :
    LET legal == LegalCells(border, sign * step)
    IN (layout.hidden.sidebars = 0 /\ layout.hidden.windows = 0) =>
         Cells(LegalDelta(border, sign * step)) = Cardinality(legal) /\ legal = 1..Cardinality(legal)

\* A divider moves by exactly the cells that were found, inside the rectangle
\* of its split, although only a weight is stored.
PositionOf(border) == IF border.orientation = "vertical" THEN border.area.x ELSE border.area.y
DividerMovesByItsCells ==
  \A border \in {b \in layout.borders : "split" \in DOMAIN b.owner}, step \in ResizeSteps, sign \in {1, -1} :
    LET cells == LegalDelta(border, sign * step)
        split == border.owner.split
        parent == (CHOOSE s \in layout.splits : s.split = split).area
        next == ComputeLayout(StagedDivider(split, cells).node, focused, sidebars, area)
        moved == CHOOSE b \in next.borders : b.owner = border.owner
    IN (cells # 0 /\ layout.hidden.windows = 0) =>
         /\ PositionOf(moved) = PositionOf(border) + cells
         /\ \A r \in ToSet(layout.regions) :
              CellsOf(r.area) \cap CellsOf(parent) = {} => r \in ToSet(next.regions)

\* The divider that a resize moves is the edge of the focused window that its
\* neighbor shares.
ResizeMovesTheSharedEdge ==
  \A direction \in Directions :
    LET edge == EdgeOf(direction)
        rect == RegionOf(layout, focused).area
        border == CHOOSE b \in layout.borders : b.owner = [split |-> Last(DividersAt(edge)).split]
    IN (focus = "window" /\ HasNeighbor(layout, focused, edge) /\ Neighbor(layout, focused, edge).kind = "surface") =>
         /\ DividersAt(edge) # <<>>
         /\ \E s \in layout.splits : s.split = Last(DividersAt(edge)).split
         /\ PositionOf(border) = CASE edge = "right" -> EndOf(rect).x - 1 [] edge = "left" -> rect.x - 1
                                   [] edge = "down" -> EndOf(rect).y [] edge = "up" -> rect.y

\* Every window has a view, and a shown one the size of its text rows.
ViewsFollow ==
  /\ DOMAIN views = ToSet(WindowIds(root))
  /\ \A r \in Surfaces(layout) : r.area.height > WinbarRows => views[r.id] = <<r.area.width, r.area.height - WinbarRows>>

\* The windows: what is shown tiles the area, the focus is shown, windows that
\* fit are usable, a resize moves the edge it names by the cells it found.
TreeInvariant ==
  /\ RegionsTile
  /\ FocusIsShown
  /\ WindowsFit
  /\ LargestIsFound
  /\ DividerMovesByItsCells
  /\ ResizeMovesTheSharedEdge
  /\ ViewsFollow

-----------------------------------------------------------------------------
(* What the code says of itself and does not hold: the other sidebar, or     *)
(* another window, may be shown in the place of the one that is hidden.      *)

\* focus_region (window.rs:1095-1097): "so a hidden sidebar never holds the
\* focus".
HiddenSidebarHasNoFocus == focus # "window" => Shown(layout, sidebars[focus].id)

\* accepts (window.rs:1609): "A resize never hides a window or a sidebar".
ResizeHidesNothing ==
  [][\A direction \in Directions, step \in ResizeSteps :
       Resize(direction, step) => {r.id : r \in ToSet(layout.regions)} = {r.id : r \in ToSet(layout'.regions)}]_treeVars
=============================================================================
