-------------------------------- MODULE Review --------------------------------
(***************************************************************************)
(* The review of two captured halves of a worktree: the hunk cursor and    *)
(* the read marks of each half, the panel of changed files, the body that  *)
(* draws one file, and the relocation of every mark onto a later capture   *)
(* (src/crates/kvim-workspace/src/review.rs and diff.rs,                   *)
(* src/crates/kvim-tui/src/review.rs and changes.rs).                      *)
(*                                                                         *)
(* A capture is a sequence of files [path, group, hunks]; a hunk is the    *)
(* sequence of its lines, and a file without text publishes none.  The     *)
(* view, the panel width and the drawing are left out.                     *)
(***************************************************************************)
EXTENDS RowList, SequencesExt

CONSTANTS
  Captures,  \* for each section the captures that it may publish
  Heights,   \* the rows of the body
  Repeats    \* the counts before a motion

Sections == {"unstaged", "staged"}
NoHalf == [files |-> <<>>, cursor |-> <<>>, read |-> {}, captured |-> FALSE]

VARIABLES
  halves,    \* the ReviewState of each section
  section,   \* the active tab
  panel,     \* the index of the selected panel row, None for none
  body,      \* the rows that the body draws
  bodyPath,  \* the file that they belong to, "none" for none
  row,       \* the cursor row of the body, from 0
  firstRow,  \* its first visible row
  bodyHeight,
  focus      \* the region that owns the keys

reviewVars == <<halves, section, panel, body, bodyPath, row, firstRow, bodyHeight, focus>>

-----------------------------------------------------------------------------
(* ReviewState: the hunk cursor. *)

NoCursor == <<>>
Positions(files) == {<<f, h>> : f \in DOMAIN files, h \in 1..10} \cap
                    UNION {{<<f, h>> : h \in DOMAIN files[f].hunks} : f \in DOMAIN files}
Before(p, q) == p[1] < q[1] \/ (p[1] = q[1] /\ p[2] < q[2])
Earliest(set) == IF set = {} THEN NoCursor ELSE CHOOSE p \in set : \A q \in set : ~Before(q, p)
Latest(set) == IF set = {} THEN NoCursor ELSE CHOOSE p \in set : \A q \in set : ~Before(p, q)

\* first_cursor
FirstCursor(files) == Earliest(Positions(files))

FileAt(half) == half.files[half.cursor[1]]

\* next_hunk and previous_hunk: NoCursor at the border.
Further(half, forward, set) ==
  IF half.cursor = NoCursor THEN NoCursor
  ELSE IF forward THEN Earliest({p \in set : Before(half.cursor, p)})
                  ELSE Latest({p \in set : Before(p, half.cursor)})
NextHunk(half, forward) == Further(half, forward, Positions(half.files))

-----------------------------------------------------------------------------
(* Read marks and their relocation. *)

\* ReviewAnchor::select over "count" lines of one hunk, with its surrounding lines.
Anchor(files, f, h, first, count) ==
  LET lines == files[f].hunks[h] IN
  [path |-> files[f].path, hunk |-> h, first |-> first, lines |-> SubSeq(lines, first, first + count - 1),
   before |-> SubSeq(lines, 1, first - 1), after |-> SubSeq(lines, first + count, Len(lines))]

\* context_matches: as far as both contexts reach.
ContextMatches(recorded, found) ==
  /\ \A n \in 1..AtMost(Len(recorded.before), Len(found.before)) :
       recorded.before[Len(recorded.before) + 1 - n] = found.before[Len(found.before) + 1 - n]
  /\ \A n \in 1..AtMost(Len(recorded.after), Len(found.after)) : recorded.after[n] = found.after[n]

\* Every place of a capture that holds the lines of an anchor.
Places(anchor, files) ==
  LET count == Len(anchor.lines) IN
  {place \in UNION {{Anchor(files, p[1], p[2], n, count) : n \in 1..(Len(files[p[1]].hunks[p[2]]) + 1 - count)} :
                      p \in {q \in Positions(files) : files[q[1]].path = anchor.path}} :
     place.lines = anchor.lines /\ ContextMatches(anchor, place)}

\* relocate: no place is Missing and several are Ambiguous; both clear the mark.
Relocate(anchor, files) == IF Cardinality(Places(anchor, files)) = 1 THEN Places(anchor, files) ELSE {}

IsRead(half, path, h) == \E anchor \in half.read : anchor.path = path /\ anchor.hunk = h
Unread(half) == {p \in Positions(half.files) : ~IsRead(half, half.files[p[1]].path, p[2])}

\* walk_unread: a walk that finds none restores the cursor.
NextUnread(half, forward) == Further(half, forward, Unread(half))

\* mark_read: one anchor over the whole hunk.
Marked(half) ==
  LET p == half.cursor IN
  [half EXCEPT !.read = @ \cup {Anchor(half.files, p[1], p[2], 1, Len(half.files[p[1]].hunks[p[2]]))}]

\* Mutant: a reload keeps the marks where they were.
CapturedKeepingMarks(half, files) ==
  [files |-> files, cursor |-> FirstCursor(files), captured |-> TRUE, read |-> half.read]
\* ReviewState::new and reload.  No caller selects lines, so a reload relocates no
\* cursor and starts at the first hunk.
Captured(half, files) ==
  [files |-> files, cursor |-> FirstCursor(files), captured |-> TRUE,
   read |-> UNION {Relocate(anchor, files) : anchor \in half.read}]

-----------------------------------------------------------------------------
(* ReviewModel: tabs, panel and body. *)

\* refresh_sections: a half that publishes files holds a tab, the unstaged one first.
Tabs(hs) == {s \in Sections : hs[s].files # <<>>}
SectionAfter(hs, wanted) ==
  IF wanted \in Tabs(hs) \/ Tabs(hs) = {} THEN IF Tabs(hs) = {} THEN "unstaged" ELSE wanted
  ELSE CHOOSE s \in Tabs(hs) : s = "unstaged" \/ "unstaged" \notin Tabs(hs)

\* push_grouped: a directory row before the first file of its group takes no selection.
FileRow(s, file) == Row(<<s, "file", file.path>>, 1, 1, 0, TRUE, FALSE)
GroupRow(s, file) == Row(<<s, "group", file.group>>, 1, 0, 0, FALSE, FALSE)
PanelRows(hs, s) ==
  LET files == hs[s].files IN
  FlattenSeq([n \in DOMAIN files |->
    IF files[n].group = "none" \/ (n > 1 /\ files[n - 1].group = files[n].group)
    THEN <<FileRow(s, files[n])>> ELSE <<GroupRow(s, files[n]), FileRow(s, files[n])>>])

\* follow_cursor: the panel selects the file of the cursor.
PanelOfCursor(hs, s, selected) ==
  IF hs[s].cursor = NoCursor THEN selected
  ELSE IndexOf(PanelRows(hs, s), {}, <<s, "file", FileAt(hs[s]).path>>)

\* refresh_changes: the rows of the active section, then follow_cursor.
PanelAfter(hs, s, oldRows, selected) ==
  PanelOfCursor(hs, s, Kept(PanelRows(hs, s), {}, selected, IF selected = None THEN None ELSE oldRows[selected].id))

BodyRow(h, header, read) == [hunk |-> h, header |-> header, read |-> read]
BodyRows(half) ==
  IF half.cursor = NoCursor THEN <<>>
  ELSE LET file == FileAt(half) IN
       FlattenSeq([h \in DOMAIN file.hunks |->
         <<BodyRow(h, TRUE, IsRead(half, file.path, h))>> \o [n \in DOMAIN file.hunks[h] |-> BodyRow(h, FALSE, FALSE)]])

\* reconcile_viewport
Viewport(rows, at, first, height) ==
  IF rows = <<>> \/ height = 0 THEN 0
  ELSE AtMost(IF at < first THEN at ELSE IF at > Minus(first + height, 1) THEN Minus(at, height - 1) ELSE first,
              Minus(Len(rows), height))

HeaderRow(rows, h) == (CHOOSE n \in DOMAIN rows : rows[n].header /\ rows[n].hunk = h) - 1

\* rebuild_body: the body of the cursor's file, on the cursor's hunk.
RebuildBody(half) ==
  LET rows == BodyRows(half)
      at == IF rows = <<>> THEN 0 ELSE HeaderRow(rows, half.cursor[2])
  IN /\ body' = rows /\ row' = at /\ firstRow' = Viewport(rows, at, 0, bodyHeight)
     /\ bodyPath' = IF half.cursor = NoCursor THEN "none" ELSE FileAt(half).path

KeepBody == UNCHANGED <<body, bodyPath, row, firstRow>>

\* select_hunk, as follow_body_cursor calls it: the cursor takes the hunk of the body row.
CursorOfBody(half, at) ==
  LET h == body[at + 1].hunk
      named == {f \in DOMAIN half.files : half.files[f].path = bodyPath /\ h \in DOMAIN half.files[f].hunks}
  IN IF named = {} THEN half ELSE [half EXCEPT !.cursor = <<Min(named), h>>]

\* select_file and rebuild_body, as follow_selection calls them.
FollowSelection(hs, s, selected) ==
  LET files == hs[s].files
      id == PanelRows(hs, s)[selected].id
      named == {f \in DOMAIN files : files[f].path = id[3] /\ files[f].hunks # <<>>}
      half == IF named = {} THEN hs[s] ELSE [hs[s] EXCEPT !.cursor = <<Min(named), 1>>]
  IN IF selected = None THEN halves' = hs /\ KeepBody
     ELSE halves' = [hs EXCEPT ![s] = half] /\ RebuildBody(half)

-----------------------------------------------------------------------------
Half == halves[section]
Rows == PanelRows(halves, section)

ReviewInit ==
  /\ halves = [s \in Sections |-> NoHalf] /\ section = "unstaged" /\ panel = None
  /\ body = <<>> /\ bodyPath = "none" /\ row = 0 /\ firstRow = 0
  /\ bodyHeight \in Heights /\ focus = "diff"

\* ReviewModel::reload, and new for the first capture of the two.
Reload(s, files) ==
  LET hs == [halves EXCEPT ![s] = Captured(halves[s], files)]
      active == SectionAfter(hs, section)
  IN /\ halves' = hs /\ section' = active
     /\ panel' = PanelAfter(hs, active, Rows, panel)
     /\ RebuildBody(hs[active])
     /\ UNCHANGED <<bodyHeight, focus>>

SetBodyHeight(height) ==
  /\ bodyHeight' = height /\ firstRow' = Viewport(body, row, firstRow, height)
  /\ UNCHANGED <<halves, section, panel, body, bodyPath, row, focus>>

FocusRegion(region) == focus # region /\ focus' = region /\ UNCHANGED <<halves, section, panel, body, bodyPath, row, firstRow, bodyHeight>>

\* The target of a motion in the body, from 0.
BodyTarget(motion) ==
  CASE motion.kind = "down" -> AtMost(row + motion.n, Len(body) - 1)
    [] motion.kind = "up" -> Minus(row, motion.n)
    [] motion.kind = "row" -> AtMost(motion.n - 1, Len(body) - 1)
    [] motion.kind = "last" -> Len(body) - 1

\* The body cursor moves, and the hunk cursor with it.
PlaceRow(target) ==
  /\ row' = target /\ firstRow' = Viewport(body, target, firstRow, bodyHeight)
  /\ halves' = [halves EXCEPT ![section] = CursorOfBody(Half, target)]
  /\ UNCHANGED <<section, panel, body, bodyPath, bodyHeight, focus>>

\* move_body
MoveBody(motion) ==
  /\ focus = "diff" /\ body # <<>> /\ BodyTarget(motion) # row
  /\ PlaceRow(BodyTarget(motion))

\* move_panel: the body follows the selection.
MovePanel(motion) == LET landing == Landing(Rows, {}, panel, motion) IN
  /\ focus = "panel" /\ landing # None /\ landing # panel
  /\ panel' = landing /\ FollowSelection(halves, section, landing)
  /\ UNCHANGED <<section, bodyHeight, focus>>

\* walk_hunk: the headers of the body alone.
WalkHunk(forward) ==
  LET headers == {n \in 0..(Len(body) - 1) : body[n + 1].header /\ IF forward THEN n > row ELSE n < row} IN
  headers # {} /\ PlaceRow(IF forward THEN Min(headers) ELSE Max(headers))

\* step: the cursor and the panel move, and the body stays.
Step(cursor) ==
  LET hs == [halves EXCEPT ![section].cursor = cursor] IN
  /\ halves' = hs /\ panel' = PanelOfCursor(hs, section, panel)
  /\ UNCHANGED <<section, bodyHeight, focus>> /\ KeepBody

WalkUnread(forward) == NextUnread(Half, forward) # NoCursor /\ Step(NextUnread(Half, forward))

\* walk_file: the steps before the border stay.
FileSteps(forward) ==
  LET other == {p \in Positions(Half.files) : Half.files[p[1]].path # FileAt(Half).path}
      same == {p \in Positions(Half.files) : Half.files[p[1]].path = FileAt(Half).path}
  IN IF Further(Half, forward, other) # NoCursor THEN Further(Half, forward, other)
     ELSE IF ~forward THEN Earliest(same) ELSE Latest(same)
WalkFile(forward) == Half.cursor # NoCursor /\ FileSteps(forward) # Half.cursor /\ Step(FileSteps(forward))

\* walk_section
WalkSection ==
  LET other == CHOOSE s \in Sections : s # section
      selected == PanelAfter(halves, other, Rows, panel)
  IN /\ Tabs(halves) = Sections /\ section' = other /\ panel' = selected
     /\ FollowSelection(halves, other, selected)
     /\ UNCHANGED <<bodyHeight, focus>>

\* mark_body_read: the header of the body cursor's hunk.
BodyMarked ==
  IF body = <<>> THEN body
  ELSE [n \in DOMAIN body |-> IF body[n].header /\ body[n].hunk = body[row + 1].hunk
                              THEN [body[n] EXCEPT !.read = TRUE] ELSE body[n]]

MarkRead ==
  /\ Half.cursor # NoCursor /\ Half.cursor \in Unread(Half)
  /\ halves' = [halves EXCEPT ![section] = Marked(Half)]
  /\ panel' = PanelOfCursor(halves', section, panel)
  /\ body' = BodyMarked
  /\ UNCHANGED <<section, bodyPath, row, firstRow, bodyHeight, focus>>

ReviewMotions == [kind : {"down", "up", "row"}, n : Repeats] \cup {[kind |-> "last", n |-> 0]}

ReviewNext ==
  \/ \E s \in Sections : \E files \in Captures[s] : Reload(s, files)
  \/ \E height \in Heights : SetBodyHeight(height)
  \/ \E region \in {"diff", "panel"} : FocusRegion(region)
  \/ \E motion \in ReviewMotions : MoveBody(motion) \/ MovePanel(motion)
  \/ \E forward \in BOOLEAN : WalkHunk(forward) \/ WalkUnread(forward) \/ WalkFile(forward)
  \/ WalkSection \/ MarkRead

-----------------------------------------------------------------------------
\* Every cursor names a published hunk, and a half with hunks never loses its cursor.
CursorIsPublished ==
  \A s \in Sections : halves[s].cursor \in (IF Positions(halves[s].files) = {} THEN {NoCursor}
                                            ELSE Positions(halves[s].files))

\* Every mark names lines that its hunk publishes.
MarksArePublished ==
  \A s \in Sections : \A anchor \in halves[s].read : anchor \in Places(anchor, halves[s].files)

\* The reader is never on an empty section while the other one holds work, and
\* the panel selects a file of the section.
SectionHoldsWork ==
  /\ Tabs(halves) # {} => section \in Tabs(halves)
  /\ panel # None => Rows[panel].selectable
  /\ Half.cursor # NoCursor => panel # None

\* The body draws one whole file of the active half, and the viewport its cursor.
BodyIsWhole ==
  /\ body = <<>> <=> bodyPath = "none"
  /\ body # <<>> =>
       /\ \E f \in DOMAIN Half.files :
            /\ Half.files[f].path = bodyPath
            /\ [n \in DOMAIN body |-> body[n].hunk] =
                 [n \in DOMAIN body |-> BodyRows([Half EXCEPT !.cursor = <<f, 1>>])[n].hunk]
            /\ Len(body) = Len(BodyRows([Half EXCEPT !.cursor = <<f, 1>>]))
       /\ row < Len(body)
       /\ bodyHeight > 0 => firstRow <= row /\ row < firstRow + bodyHeight

\* No sequence of captures, motions, walks and marks leaves the review of a
\* worktree on a hunk, a mark, a section or a body row that no capture publishes.
ReviewInvariant == CursorIsPublished /\ MarksArePublished /\ SectionHoldsWork /\ BodyIsWhole

\* The body always shows the file that the panel names (docs/diff-view.md:221).
PanelNamesBody == panel # None /\ bodyPath # "none" => Rows[panel].id[3] = bodyPath

\* A hunk that reads as read was marked as a whole (docs/diff-view.md:47 and 59-61).
ReadHunksWereMarked ==
  \A s \in Sections : \A anchor \in halves[s].read :
    \E f \in DOMAIN halves[s].files : /\ halves[s].files[f].path = anchor.path
                                      /\ halves[s].files[f].hunks[anchor.hunk] = anchor.lines

\* A header shows the read mark of its hunk (docs/diff-view.md:45-48).
HeadersTellTheTruth == \A n \in DOMAIN body : body[n].header => body[n].read = IsRead(Half, bodyPath, body[n].hunk)

\* A capture that publishes the same files again keeps the cursor (docs/diff-view.md:168-169).
CursorSurvivesReload ==
  [][\A s \in Sections : Reload(s, halves[s].files) /\ halves[s].captured => halves'[s].cursor = halves[s].cursor]_reviewVars

ReviewSpec == ReviewInit /\ [][ReviewNext]_reviewVars
=============================================================================
