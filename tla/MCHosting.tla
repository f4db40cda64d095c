------------------------------ MODULE MCHosting -------------------------------
(***************************************************************************)
(* One model for the parts of a hosted editor and of its screen that share *)
(* no state: a behaviour is one of HostCommands, BindingComposition,       *)
(* KeyInput, ReviewCapture, DiagnosticsHub, Facade, DialogGeometry,        *)
(* WindowTree, Sidebar or FileTree, as "part" says.  The variables of the  *)
(* first six keep an initial value in the other parts.                     *)
(***************************************************************************)
EXTENDS HostCommands, HostInput, ReviewCapture, DiagnosticsHub, Facade, Integers, TLC

CONSTANTS
  PartsRun,                                            \* the parts that are run
  U16Max, PopupRowsMax, PopupColumnsMax, PanelColumnsMax, ChoiceRowsMax,   \* of DialogGeometry
  WeightTotal, WindowsMax, DepthMax, IdMax, SidebarMin, SidebarMax,
  SidebarWidths, ResizeSteps, Ratio,                   \* of WindowTree
  Closings, HeightsOf, Margins, Steps,                 \* of Sidebar
  DirNames, HiddenNames, PendingMax, EntriesMax, TreeDepthMax,
  SearchReadsMax, CommandsMax, DisturbancesMax         \* of FileTree

VARIABLES
  part,
  asked, geometry,
  root, focused, focus, sidebars, nextId, area, layout, views,
  rows, closed, selected, height, margin, owner, window,
  tree, op, treeHeld, treeDialog, disk, reported, disturbances, commands

\* A sequence of two keys, its second key alone, and bindings of two other scopes.
EditorManifest ==
  {[scope |-> b[1], keys |-> b[2], owner |-> "editor", command |-> b[3], copy |-> 1] :
     b \in {<<"normal", <<1, 2>>, "save">>, <<"normal", <<2>>, "down">>,
           <<"picker", <<1>>, "next">>, <<"review", <<1>>, "stage">>}}

\* A reserved escape and a group that shares its first key with the editor.
HostBindings == {[keys |-> <<"^e">>, command |-> "leave"], [keys |-> <<"g", "x">>, command |-> "host-group"]}

\* Two choices with a direct key; one choice; a cancel role without its choice.
DialogRequests ==
  {[choices |-> c, default |-> "a", cancel |-> k, direct |-> d, body |-> b] :
     <<c, k, d, b>> \in {<<<<"a", "b">>, "b", {"b"}, <<1, 2>>>>, <<<<"a">>, "a", {}, <<2, 3>>>>,
                        <<<<"a", "b">>, "c", {}, <<1, 1>>>>}}
\* The last area is empty.
DialogAreas == {<<1, 3>>, <<1, 2>>, <<2, 3>>, <<1, 0>>}

\* Narrow and wide characters, no body or two lines, an icon, one or two choices.
PlacedChoice(label, description, direct) ==
  [label |-> label, description |-> description, direct |-> direct]
PlacedDialogs ==
  [question : {<<1, 1, 1>>, <<2, 1, 2, 2, 1, 1, 2, 1, 2, 2>>},
   body : {<<>>, <<<<1, 1, 1, 1>>, <<2>>>>},
   choices : {<<PlacedChoice(<<1>>, <<>>, FALSE)>>,
              <<PlacedChoice(<<1>>, <<>>, TRUE), PlacedChoice(<<2>>, <<1, 1, 1>>, FALSE)>>},
   icon : {0, 2}, panel : BOOLEAN]
PlacedBodies == [x : {0, 3}, y : {0, 2}, width : 0..18, height : {0, 4, 6, 7, 8, 9, 10, 12}]

\* Two windows side by side fill the first area with no sidebar; the second is
\* low, the last has no column.
MinExtents == [vertical |-> 2, horizontal |-> 2]
HostAreas == {<<6, 4>>, <<4, 3>>, <<0, 2>>}
Placement == [vertical |-> "second", horizontal |-> "first"]

\* Rows of several lines in subtrees of two sections, a collapsed subtree, rows
\* that take no selection, a list that shares one row with the others, no row.
ListedRow(id, lines, depth, at, selectable, collapsed) ==
  [id |-> id, lines |-> lines, depth |-> depth, section |-> at,
   selectable |-> selectable, collapsed |-> collapsed]
RowLists ==
  {<<ListedRow("a", 1, 0, 0, TRUE, FALSE), ListedRow("b", 2, 1, 0, TRUE, FALSE), ListedRow("c", 1, 1, 0, FALSE, FALSE),
     ListedRow("d", 1, 0, 1, TRUE, FALSE), ListedRow("e", 3, 1, 1, TRUE, FALSE)>>,
   <<ListedRow("a", 1, 0, 0, TRUE, TRUE), ListedRow("b", 2, 1, 0, TRUE, FALSE), ListedRow("c", 1, 1, 0, FALSE, FALSE),
     ListedRow("d", 1, 0, 1, FALSE, FALSE), ListedRow("e", 3, 1, 1, TRUE, FALSE)>>,
   <<ListedRow("n", 1, 0, 0, FALSE, FALSE)>>,
   <<ListedRow("e", 4, 0, 0, TRUE, FALSE), ListedRow("f", 1, 1, 0, TRUE, TRUE), ListedRow("b", 1, 2, 0, TRUE, FALSE)>>,
   <<>>}

\* Directories, one of which a link repeats: a nested one, or two beside each
\* other, where a rename meets a taken name.
TreeNames == <<"d", "e", "l">>
TreeLinks == [l |-> <<"d">>]
Topmost == <<"d">>
Nested == <<"d", "e">>
TreeLayout == [name \in {".", "d", "e"} |-> CASE name = "." -> {"d", "e", "l"} [] name = "d" -> {"e"} [] OTHER -> {}]
TreeWorlds ==
  {(<<>> :> {"d", "l"}) @@ (Topmost :> {"e"}) @@ (Nested :> {}),
   (<<>> :> {"d", "e"}) @@ (Topmost :> {}) @@ (<<"e">> :> {})}
TreeQueries == {{}, {"e"}}

Boxes == INSTANCE DialogGeometry WITH
  Dialogs <- PlacedDialogs, Bodies <- PlacedBodies
Windows == INSTANCE WindowTree
Side == INSTANCE Sidebar WITH
  Lists <- RowLists
FileRows == INSTANCE FileTree WITH
  held <- treeHeld, dialog <- treeDialog, DepthMax <- TreeDepthMax, Names <- TreeNames, Links <- TreeLinks,
    Layout <- TreeLayout, Worlds <- TreeWorlds, Queries <- TreeQueries, Reveals <- {Nested}, Handled <- {Topmost}

ASSUME CompositionAssumption /\ KeyInputAssumption /\ ReviewCaptureAssumption /\ HubAssumption /\ FacadeAssumption

placementVars == <<asked, geometry>>
treeVars == <<root, focused, focus, sidebars, nextId, area, layout, views>>
sidebarVars == <<rows, closed, selected, height, margin, owner, window>>
fileTreeVars == <<tree, op, treeHeld, treeDialog, disk, reported, disturbances, commands>>
hostingVars == <<part, hostVars, compositionVars, keyVars, captureVars, vars, facadeVars, placementVars,
                 treeVars, sidebarVars, fileTreeVars>>

\* The variables of a part that does not run.
Off == "off"
NoBoxes == asked = Off /\ geometry = Off
NoWindows == root = Off /\ focused = Off /\ focus = Off /\ sidebars = Off /\ nextId = Off /\
             area = Off /\ layout = Off /\ views = Off
NoSide == rows = Off /\ closed = Off /\ selected = Off /\ height = Off /\ margin = Off /\
          owner = Off /\ window = Off
NoFileRows == tree = Off /\ op = Off /\ treeHeld = Off /\ treeDialog = Off /\ disk = Off /\
              reported = Off /\ disturbances = Off /\ commands = Off

HostingInit ==
  /\ part \in PartsRun
  /\ HostInit
  /\ CompositionInit
  /\ KeyInit /\ (part = "keys" \/ ~hosted)
  /\ CaptureInit
  /\ Init /\ (part = "hub" \/ \A s \in Servers : server[s].policy = CHOOSE policy \in Policies : TRUE)
  /\ FacadeInit /\ (part = "facade" \/ (bindingMode = "host" /\ inner.area = <<1, 3>>))
  /\ IF part = "geometry" THEN Boxes!GeometryInit ELSE NoBoxes
  /\ IF part = "windows" THEN Windows!TreeInit ELSE NoWindows
  /\ IF part = "sidebar" THEN Side!SidebarInit ELSE NoSide
  /\ IF part = "files" THEN FileRows!FileTreeInit ELSE NoFileRows

HostingNext ==
  \/ /\ part = "commands" /\ HostNext
     /\ UNCHANGED <<part, compositionVars, keyVars, captureVars, vars, facadeVars,
                    placementVars, treeVars, sidebarVars, fileTreeVars>>
  \/ /\ part = "bindings" /\ CompositionNext
     /\ UNCHANGED <<part, hostVars, keyVars, captureVars, vars, facadeVars,
                    placementVars, treeVars, sidebarVars, fileTreeVars>>
  \/ /\ part = "keys" /\ KeyNext
     /\ UNCHANGED <<part, hostVars, compositionVars, captureVars, vars, facadeVars,
                    placementVars, treeVars, sidebarVars, fileTreeVars>>
  \/ /\ part = "capture" /\ CaptureNext
     /\ UNCHANGED <<part, hostVars, compositionVars, keyVars, vars, facadeVars,
                    placementVars, treeVars, sidebarVars, fileTreeVars>>
  \/ /\ part = "hub" /\ Next
     /\ UNCHANGED <<part, hostVars, compositionVars, keyVars, captureVars, facadeVars,
                    placementVars, treeVars, sidebarVars, fileTreeVars>>
  \/ /\ part = "facade" /\ FacadeNext
     /\ UNCHANGED <<part, hostVars, compositionVars, keyVars, captureVars, vars,
                    placementVars, treeVars, sidebarVars, fileTreeVars>>
  \/ /\ part = "geometry" /\ Boxes!GeometryNext
     /\ UNCHANGED <<part, hostVars, compositionVars, keyVars, captureVars, vars,
                    facadeVars, treeVars, sidebarVars, fileTreeVars>>
  \/ /\ part = "windows" /\ Windows!TreeNext
     /\ UNCHANGED <<part, hostVars, compositionVars, keyVars, captureVars, vars,
                    facadeVars, placementVars, sidebarVars, fileTreeVars>>
  \/ /\ part = "sidebar" /\ Side!SidebarNext
     /\ UNCHANGED <<part, hostVars, compositionVars, keyVars, captureVars, vars,
                    facadeVars, placementVars, treeVars, fileTreeVars>>
  \/ /\ part = "files" /\ FileRows!FileTreeNext
     /\ UNCHANGED <<part, hostVars, compositionVars, keyVars, captureVars, vars,
                    facadeVars, placementVars, treeVars, sidebarVars>>

HostingSpec == HostingInit /\ [][HostingNext]_hostingVars

-----------------------------------------------------------------------------
\* The invariants of the parts of the screen; those of the first six are
\* checked as they stand.
LayoutInvariant ==
  /\ part = "geometry" => Boxes!GeometryIsSound
  /\ part = "windows" => Windows!TreeInvariant
  /\ part = "sidebar" => Side!SidebarInvariant
FileTreeInvariant == part = "files" => FileRows!FileTreeInvariant
HiddenSidebarHasNoFocus == part = "windows" => Windows!HiddenSidebarHasNoFocus
=============================================================================
