------------------------------ MODULE FileTree ------------------------------
(***************************************************************************)
(* The file tree: the lazy directory model of kvim-workspace/src/tree.rs,  *)
(* the sidebar of kvim-tui/src/tree.rs that runs one operation at a time   *)
(* for it, the held entry of kvim-workspace/src/clipboard.rs, and the      *)
(* questions, prompts and watcher bursts by which session.rs reaches them, *)
(* over a directory tree that other programs change.                       *)
(*                                                                         *)
(* A path is a sequence of names and <<>> is the root.  The search query   *)
(* is the set of the names that it matches.  Notice rows, Git marks, the   *)
(* scroll offset and the event of a mutation (FileLane) are left out, and  *)
(* the bound on the matches of one search is never reached.                *)
(***************************************************************************)
EXTENDS Integers, Sequences, FiniteSets, SequencesExt

CONSTANTS
  Names,        \* every name in display order: a directory before a file
  DirNames,     \* the names of directories and of links to directories
  Links,        \* the target path of each name that is a link
  HiddenNames,  \* the names that the hidden policy keeps out
  Layout,       \* the names that a directory may hold, by its own name
  Worlds,       \* what the directories may hold at first, by real path
  Queries,      \* the search queries
  Reveals,      \* the paths that the editor reveals
  Handled,      \* the entries that the user holds, deletes or renames
  PendingMax,   \* TREE_PENDING_READS_MAX
  EntriesMax,   \* TREE_ENTRIES_MAX
  DepthMax,     \* TREE_DEPTH_MAX
  SearchReadsMax,  \* TREE_SEARCH_READS_MAX
  CommandsMax,  \* how many commands the user gives
  DisturbancesMax  \* how many changes, failed reads and lost jobs there are

VARIABLES
  tree,       \* the tree model
  op,         \* the workspace operation that the sidebar waits for
  held,       \* the path that the file clipboard holds
  dialog,     \* the question or the prompt that waits for its answer
  disk,       \* the names of each directory that exists
  reported,   \* the directories whose change a watcher burst will name
  disturbances, commands

fileTreeVars == <<tree, op, held, dialog, disk, reported, disturbances, commands>>

Root == <<>>
Nowhere == <<"nowhere">>   \* None of a path
NoOperation == [kind |-> "none"]
NoDialog == [kind |-> "none"]

Parent(path) == Front(path)
Starts(path, prefix) == Len(prefix) <= Len(path) /\ SubSeq(path, 1, Len(prefix)) = prefix
Above(path) == {SubSeq(path, 1, n) : n \in 0..Len(path) - 1}
Rank(name) == CHOOSE i \in DOMAIN Names : Names[i] = name
\* The display order of rows: a directory before its entries.
Before(p, q) ==
  \/ Starts(q, p) /\ p # q
  \/ \E i \in 1..(IF Len(p) < Len(q) THEN Len(p) ELSE Len(q)) :
       Rank(p[i]) < Rank(q[i]) /\ \A j \in 1..i - 1 : p[j] = q[j]
FirstOf(paths) == CHOOSE p \in paths : \A q \in paths \ {p} : Before(p, q)
InOrder(paths) == SetToSortSeq(paths, Before)
IsDirectory(path) == Last(path) \in DirNames

-----------------------------------------------------------------------------
(* The tree model.  "forgotten" is a history variable: the directories that  *)
(* were shown or asked for when their read was dropped or their report       *)
(* ignored, and that were not read since.                                    *)

EmptyTree ==
  [directories |-> <<>>, expanded |-> Root :> "user", queue |-> <<Root>>, selected |-> Nowhere,
   reveal |-> Nowhere, hidden |-> "hide", search |-> [query |-> {}, read |-> {}], forgotten |-> {}]

Listed(identity, entries, cut) == [identity |-> identity, entries |-> entries, cut |-> cut]
Unreadable == Listed(Nowhere, {}, FALSE)

Loaded(t) == DOMAIN t.directories
Open(t) == DOMAIN t.expanded
Searching(t) == t.search.query # {}
Keeps(t, name) == t.hidden = "show" \/ name \notin HiddenNames
Accepts(path) == Len(path) < DepthMax
Wanted(t, path) == path \in Open(t) \cup t.search.read

\* A directory whose entries are rows.
ShowsEntries(t, directory) ==
  /\ directory \in Open(t) \cap Loaded(t)
  /\ \A i \in DOMAIN directory :
       LET above == SubSeq(directory, 1, i - 1)
       IN above \in Open(t) \cap Loaded(t) /\ directory[i] \in t.directories[above].entries
            /\ Keeps(t, directory[i])

\* The rows on which the selection may rest.
Rows(t) ==
  UNION {{Append(d, n) : n \in {n \in t.directories[d].entries : Keeps(t, n)}} :
           d \in {d \in Loaded(t) : ShowsEntries(t, d)}}

PushPending(t, path) ==
  CASE path \in ToSet(t.queue) -> t
    [] path \notin ToSet(t.queue) /\ Len(t.queue) >= PendingMax -> [t EXCEPT !.forgotten = @ \cup {path}]
    [] OTHER -> [t EXCEPT !.queue = Append(@, path)]

\* Every directory that holds a match opens, with those above it.
OpenMatched(t) ==
  LET holders == {d \in Loaded(t) : \E n \in t.directories[d].entries : Keeps(t, n) /\ n \in t.search.query}
      opened == {p \in holders \cup UNION {Above(h) : h \in holders} : p # Root /\ Accepts(p)}
  IN [t EXCEPT !.expanded = [p \in Open(t) \cup opened |-> IF p \in Open(t) THEN t.expanded[p] ELSE "search"]]

\* The closed directories of every listing are read for the search.
QueueSearchReads(t) ==
  LET wanted == {p \in UNION {{Append(d, n) : n \in t.directories[d].entries \cap DirNames} : d \in Loaded(t)} :
                   /\ Keeps(t, Last(p)) /\ Accepts(p)
                   /\ p \notin Loaded(t) \cup t.search.read \cup ToSet(t.queue)}
      room == {Cardinality(wanted), SearchReadsMax - Cardinality(t.search.read), PendingMax - Len(t.queue)}
      reads == SubSeq(InOrder(wanted), 1, CHOOSE n \in room : \A m \in room : n <= m)
  IN IF Searching(t) /\ Cardinality(t.search.read) < SearchReadsMax /\ Len(t.queue) < PendingMax
     THEN [t EXCEPT !.search.read = @ \cup ToSet(reads), !.queue = @ \o reads]
     ELSE t

\* The revealed path is selected once it is a row; a selection whose row is
\* gone falls to the closest row above it, else to the first row.
Reconcile(t) ==
  LET found == t.reveal \in Rows(t)
      wish == IF found THEN t.reveal ELSE t.selected
      above == Above(wish) \cap Rows(t)
      selected == CASE wish \in Rows(t) -> wish
                    [] wish \notin Rows(t) /\ above # {} -> CHOOSE p \in above : \A q \in above : Len(q) <= Len(p)
                    [] OTHER -> IF Rows(t) = {} THEN Nowhere ELSE FirstOf(Rows(t))
  IN [t EXCEPT !.selected = selected, !.reveal = IF found THEN Nowhere ELSE @]

Rebuild(t) == Reconcile(QueueSearchReads(OpenMatched(t)))

\* FileTree::expand
Expand(t, path) ==
  LET opened == [t EXCEPT !.expanded = (path :> "user") @@ @]
  IN IF ~Accepts(path) THEN t
     ELSE Rebuild(IF path \in Loaded(t) THEN opened ELSE PushPending(opened, path))

\* FileTree::collapse of a directory below the root
Collapse(t, path) ==
  LET stale == {p \in Open(t) : Starts(p, path)}
  IN Rebuild([t EXCEPT !.expanded = [p \in Open(t) \ stale |-> @[p]],
                       !.directories = [p \in Loaded(t) \ stale |-> @[p]],
                       !.forgotten = @ \ (stale \ t.search.read)])

\* Mutant: a directory whose listing is loaded is not read again.
RefreshMissing(t, path) ==
  IF path \in Open(t) \ Loaded(t) THEN PushPending(t, path) ELSE t

\* FileTree::refresh, which ignores a directory that is not open.
Refresh(t, path) ==
  IF path \in Open(t) THEN PushPending(t, path)
  ELSE [t EXCEPT !.forgotten = IF Wanted(t, path) THEN @ \cup {path} ELSE @]

RefreshEach(t, paths) == FoldLeft(Refresh, t, InOrder(paths))
RefreshAll(t) == RefreshEach(t, Open(t))

\* FileTree::reveal
RevealPath(t, path) ==
  Rebuild([FoldLeft(Expand, t, InOrder(Above(path) \ {Root})) EXCEPT !.reveal = path])

\* FileTree::start_search, end_search
StartSearch(t, query) == Rebuild([t EXCEPT !.search.query = query])
EndSearch(t) ==
  LET kept == {p \in Open(t) : t.expanded[p] = "user"}
  IN IF ~Searching(t) THEN t
     ELSE Rebuild([t EXCEPT !.search = [query |-> {}, read |-> {}],
                            !.expanded = [p \in kept |-> @[p]],
                            !.directories = [p \in Loaded(t) \cap kept |-> @[p]],
                            !.forgotten = @ \cap kept])

\* The first entries that still fit beside the other listings.
FitEntries(t, path, entries) ==
  LET others == FoldLeft(LAMBDA n, p : n + Cardinality(t.directories[p].entries), 0,
                         SetToSeq(Loaded(t) \ {path}))
      free == IF others < EntriesMax THEN EntriesMax - others ELSE 0
  IN {n \in entries : Cardinality({m \in entries : Rank(m) < Rank(n)}) < free}

\* FileTree::apply_listing: a second spelling of a loaded directory repeats no
\* entry, and what a new listing no longer names loses its state.
ApplyListing(t, path, identity, entries) ==
  LET stale == {p \in Open(t) \cup Loaded(t) :
                  Starts(p, path) /\ p # path /\ p[Len(path) + 1] \notin entries \cap DirNames}
      kept == [t EXCEPT !.expanded = [p \in Open(t) \ stale |-> @[p]],
                        !.directories = [p \in Loaded(t) \ stale |-> @[p]],
                        !.forgotten = @ \ (stale \ t.search.read)]
      fitting == FitEntries(kept, path, entries)
  IN CASE ~Wanted(t, path) -> t
       [] Wanted(t, path) /\ (\E p \in Loaded(t) \ {path} : t.directories[p].identity = identity) ->
            Rebuild([t EXCEPT !.directories = (path :> Unreadable) @@ @])
       [] OTHER ->
            Rebuild([kept EXCEPT !.directories = (path :> Listed(identity, fitting, fitting # entries)) @@ @])

\* FileTree::apply_read_failure
ApplyReadFailure(t, path) ==
  IF Wanted(t, path) THEN Rebuild([t EXCEPT !.directories = (path :> Unreadable) @@ @]) ELSE t

-----------------------------------------------------------------------------
(* The sidebar: one operation at a time.                                     *)

ReadOf(path) == [kind |-> "read", path |-> path, stage |-> "queued"]

\* pump: the first waiting read that is still wanted.
Waiting(t) == {i \in DOMAIN t.queue : Wanted(t, t.queue[i])}
Pumped(t, o) ==
  LET next == CHOOSE i \in Waiting(t) : \A j \in Waiting(t) : i <= j
  IN CASE o # NoOperation -> [tree |-> t, op |-> o]
       [] o = NoOperation /\ Waiting(t) = {} -> [tree |-> [t EXCEPT !.queue = <<>>], op |-> o]
       [] OTHER -> [tree |-> [t EXCEPT !.queue = SubSeq(@, next + 1, Len(@))], op |-> ReadOf(t.queue[next])]
Pump(t, o) == tree' = Pumped(t, o).tree /\ op' = Pumped(t, o).op

World == <<disk, reported, disturbances>>

FileTreeInit ==
  /\ tree = [EmptyTree EXCEPT !.queue = <<>>]
  /\ op = ReadOf(Root)
  /\ held = Nowhere /\ dialog = NoDialog
  /\ disk \in Worlds /\ reported = {} /\ disturbances = 0 /\ commands = 0

\* A command of the sidebar reaches it only while no dialog owns the keys.
Asked == commands < CommandsMax /\ commands' = commands + 1
Commanded == dialog = NoDialog /\ Asked /\ UNCHANGED <<held, dialog, World>>

ExpandSelected ==
  /\ Commanded
  /\ tree.selected # Nowhere /\ IsDirectory(tree.selected)
  /\ Pump(Expand(tree, tree.selected), op)

SelectParent(t) == IF Len(t.selected) > 1 THEN [t EXCEPT !.selected = Parent(@)] ELSE t
CollapseSelected ==
  /\ Commanded
  /\ tree.selected # Nowhere
  /\ IF tree.selected \in Open(tree) THEN Pump(Collapse(tree, tree.selected), op)
     ELSE tree' = SelectParent(tree) /\ op' = op

ToggleSelected ==
  /\ Commanded
  /\ tree.selected # Nowhere /\ IsDirectory(tree.selected)
  /\ Pump(IF tree.selected \in Open(tree) THEN Collapse(tree, tree.selected) ELSE Expand(tree, tree.selected), op)

\* Every row motion ends on some row.
MoveSelection ==
  /\ Commanded
  /\ \E row \in Rows(tree) : tree' = [tree EXCEPT !.selected = row]
  /\ op' = op

\* The next match wraps at the last one.
SelectMatch ==
  LET matches == {p \in Rows(tree) : Last(p) \in tree.search.query}
      later == {p \in matches : Before(tree.selected, p)}
  IN /\ Commanded
     /\ matches # {}
     /\ tree' = [tree EXCEPT !.selected = FirstOf(IF later = {} THEN matches ELSE later)]
     /\ op' = op

RevealFile ==
  /\ \E path \in Reveals : Pump(RevealPath(tree, path), op)
  /\ Commanded

RefreshCommand == Commanded /\ Pump(RefreshAll(tree), op)

\* toggle_hidden and the end of a search do not pump.
ToggleHidden ==
  /\ Commanded
  /\ tree' = Rebuild([tree EXCEPT !.hidden = IF @ = "hide" THEN "show" ELSE "hide"])
  /\ op' = op

\* An empty query ends the search; the sidebar pumps after either.
Search ==
  /\ Commanded
  /\ \E query \in Queries : Pump(IF query = {} THEN EndSearch(tree) ELSE StartSearch(tree, query), op)

\* Esc: the search and the held entry.
CancelSidebar ==
  /\ dialog = NoDialog /\ Asked
  /\ tree' = EndSearch(tree) /\ held' = Nowhere
  /\ UNCHANGED <<op, dialog, World>>

-----------------------------------------------------------------------------
(* Mutations.                                                                *)

DestinationDirectory(t) ==
  CASE t.selected = Nowhere -> Root
    [] t.selected # Nowhere /\ IsDirectory(t.selected) -> t.selected
    [] OTHER -> Parent(t.selected)

Removal(path) == [from |-> path, to |-> Nowhere]
Move(from, to) == [from |-> from, to |-> to]

\* start_mutation: refused while another operation runs.
StartMutation(change, approved) ==
  /\ op' = IF op = NoOperation
           THEN [kind |-> "mutation", change |-> change, approved |-> approved, stage |-> "queued"]
           ELSE op
  /\ UNCHANGED <<tree, World>>

HoldEntry ==
  /\ dialog = NoDialog /\ Asked /\ tree.selected \in Handled
  /\ held' = tree.selected
  /\ UNCHANGED <<tree, op, dialog, World>>

Paste ==
  /\ dialog = NoDialog /\ Asked /\ held # Nowhere
  /\ StartMutation(Move(held, Append(DestinationDirectory(tree), Last(held))), FALSE)
  /\ UNCHANGED <<held, dialog>>

AskDelete ==
  /\ dialog = NoDialog /\ Asked /\ tree.selected \in Handled
  /\ dialog' = [kind |-> "delete", path |-> tree.selected]
  /\ UNCHANGED <<tree, op, held, World>>

\* The rename prompt starts with the name of the selected entry.
OpenRename ==
  /\ dialog = NoDialog /\ Asked /\ tree.selected \in Handled
  /\ dialog' = [kind |-> "rename", path |-> tree.selected]
  /\ UNCHANGED <<tree, op, held, World>>

\* stage_delete looks again whether the tree shows the entry.
ConfirmDelete ==
  /\ dialog.kind = "delete"
  /\ IF dialog.path \in Rows(tree) THEN StartMutation(Removal(dialog.path), FALSE)
     ELSE UNCHANGED <<tree, op, World>>
  /\ dialog' = NoDialog /\ UNCHANGED <<held, commands>>

\* stage_rename takes the entry that is selected when the line is accepted.
AcceptRename ==
  /\ dialog.kind = "rename"
  /\ IF tree.selected = Nowhere THEN UNCHANGED <<tree, op, World>>
     ELSE \E name \in ToSet(Names) :
            /\ name \in DirNames <=> IsDirectory(tree.selected)
            /\ name \in DOMAIN Links <=> Last(tree.selected) \in DOMAIN Links
            /\ StartMutation(Move(tree.selected, Append(Parent(tree.selected), name)), FALSE)
  /\ dialog' = NoDialog /\ UNCHANGED <<held, commands>>

ConfirmOverwrite ==
  /\ dialog.kind = "overwrite"
  /\ StartMutation(dialog.change, TRUE)
  /\ dialog' = NoDialog /\ UNCHANGED <<held, commands>>

CancelDialog ==
  /\ dialog # NoDialog
  /\ dialog' = NoDialog
  /\ UNCHANGED <<tree, op, held, World, commands>>

-----------------------------------------------------------------------------
(* The worker and the other programs.                                        *)

Holdable(directory) == IF directory = Root THEN Layout["."] ELSE Layout[Last(directory)]
RealPath(path) == IF path # Root /\ path[1] \in DOMAIN Links THEN Links[path[1]] \o Tail(path) ELSE path
Exists(path) == path = Root \/ (RealPath(Parent(path)) \in DOMAIN disk /\ Last(path) \in disk[RealPath(Parent(path))])

Without(world, path) ==
  [d \in {d \in DOMAIN world : ~Starts(d, path)} |-> IF d = Parent(path) THEN world[d] \ {Last(path)} ELSE world[d]]
With(world, path) ==
  LET made == IF IsDirectory(path) /\ Last(path) \notin DOMAIN Links THEN {path} ELSE {}
  IN [d \in DOMAIN world \cup made |->
        CASE d = Parent(path) -> world[d] \cup {Last(path)}
          [] d \in made -> {}
          [] OTHER -> world[d]]

\* What becomes of the disk; the watcher will name each directory that changed.
Changed(world) ==
  /\ disk' = world
  /\ reported' = reported \cup {d \in DOMAIN world \cup DOMAIN disk :
       ~(d \in DOMAIN world /\ d \in DOMAIN disk /\ world[d] = disk[d])}

Disturbs == disturbances < DisturbancesMax /\ disturbances' = disturbances + 1

OtherProgram ==
  /\ Disturbs
  /\ \E d \in DOMAIN disk : \E n \in Holdable(d) :
       Changed(IF n \in disk[d] THEN Without(disk, Append(d, n)) ELSE With(disk, Append(d, n)))
  /\ UNCHANGED <<tree, op, held, dialog, commands>>

\* The listing is read at one moment; a lost directory is an error.
ReadDirectory ==
  /\ op.kind = "read" /\ op.stage = "queued"
  /\ \/ RealPath(op.path) \in DOMAIN disk
        /\ op' = [kind |-> "read", path |-> op.path, stage |-> "done", entries |-> disk[RealPath(op.path)]]
        /\ UNCHANGED disturbances
     \/ op' = [kind |-> "read", path |-> op.path, stage |-> "failed"]
        /\ IF RealPath(op.path) \in DOMAIN disk THEN Disturbs ELSE UNCHANGED disturbances
  /\ tree' = [tree EXCEPT !.forgotten = @ \ {op.path}]
  /\ UNCHANGED <<held, dialog, disk, reported, commands>>

ApplyDirectory ==
  /\ op.kind = "read" /\ op.stage # "queued"
  /\ IF op.stage = "done" THEN Pump(ApplyListing(tree, op.path, RealPath(op.path), op.entries), NoOperation)
     ELSE Pump(ApplyReadFailure(tree, op.path), NoOperation)
  /\ UNCHANGED <<held, dialog, World, commands>>

\* The worker takes the operation only while its names are what they were, and
\* a taken destination only with an approval.
MutationFits(change) ==
  /\ Exists(change.from)
  /\ change.to # Nowhere =>
       /\ RealPath(Parent(change.to)) \in DOMAIN disk
       /\ ~Starts(RealPath(Parent(change.to)), change.from) /\ ~Starts(change.from, change.to)
       /\ Last(change.to) \in Holdable(RealPath(Parent(change.to)))
Performed(change) ==
  LET from == RealPath(Parent(change.from)) \o <<Last(change.from)>>
      to == RealPath(Parent(change.to)) \o <<Last(change.to)>>
      left == Without(disk, from)
      moved == {to \o SubSeq(d, Len(from) + 1, Len(d)) : d \in {d \in DOMAIN disk : Starts(d, from)}}
      there == With(Without(left, to), to)
  IN IF change.to = Nowhere THEN left
     ELSE [d \in DOMAIN there \cup moved |->
             IF d \in moved THEN disk[from \o SubSeq(d, Len(to) + 1, Len(d))] ELSE there[d]]

\* The steps of one mutation, their failures and what is unwound are those of
\* Mutation; here it is done, or a step failed and left everything in its place.
RunMutation ==
  /\ op.kind = "mutation" /\ op.stage = "queued"
  /\ LET change == op.change
         taken == change.to # Nowhere /\ Exists(change.to)
     IN IF ~MutationFits(change) THEN op' = [op EXCEPT !.stage = "refused"] /\ UNCHANGED World
        ELSE IF taken /\ ~op.approved THEN op' = [op EXCEPT !.stage = "collision"] /\ UNCHANGED World
        ELSE \/ /\ Disturbs /\ Changed(Performed(change))
                /\ \E stage \in {"committed", "uncertain"} : op' = [op EXCEPT !.stage = stage]
             \/ /\ \E stage \in {"refused", "uncertain"} : op' = [op EXCEPT !.stage = stage]
                /\ UNCHANGED World
  /\ UNCHANGED <<tree, held, dialog, commands>>

\* publish_mutation: the directories it changed are read again and the new
\* entry is revealed; an uncertain outcome reads every open directory.
PublishMutation ==
  /\ op.kind = "mutation" /\ op.stage # "queued"
  /\ LET change == op.change
         changed == {Parent(change.from)} \cup (IF change.to = Nowhere THEN {} ELSE {Parent(change.to)})
         refreshed == RefreshEach(tree, changed)
     IN CASE op.stage = "committed" ->
               /\ Pump(IF change.to = Nowhere THEN refreshed ELSE RevealPath(refreshed, change.to), NoOperation)
               /\ held' = Nowhere /\ UNCHANGED dialog
          [] op.stage = "uncertain" ->
               \* abandon_request pumps, and refresh_all pumps again.
               /\ LET abandoned == Pumped(tree, NoOperation) IN Pump(RefreshAll(abandoned.tree), abandoned.op)
               /\ UNCHANGED <<held, dialog>>
          [] op.stage = "collision" ->
               /\ Pump(tree, NoOperation)
               /\ dialog' = IF dialog = NoDialog THEN [kind |-> "overwrite", change |-> change] ELSE dialog
               /\ UNCHANGED held
          [] OTHER -> Pump(tree, NoOperation) /\ UNCHANGED <<held, dialog>>
  /\ UNCHANGED <<World, commands>>

\* abandon_workspace_request: the job produced no result, and a read is not
\* repeated.
Abandon ==
  /\ op # NoOperation /\ op.stage = "queued" /\ Disturbs
  /\ Pump([tree EXCEPT !.forgotten = IF op.kind = "read" /\ Wanted(tree, op.path) THEN @ \cup {op.path} ELSE @], NoOperation)
  /\ UNCHANGED <<held, dialog, disk, reported, commands>>

\* A burst names the directories that changed, or it lost events.
WatchBurst ==
  /\ reported # {}
  /\ \/ Pump(RefreshEach(tree, reported), op)
     \/ Pump(RefreshAll([tree EXCEPT !.forgotten = @ \cup {d \in reported \ Open(tree) : Wanted(tree, d)}]), op)
  /\ reported' = {}
  /\ UNCHANGED <<held, dialog, disk, disturbances, commands>>

FileTreeNext ==
  \/ ExpandSelected \/ CollapseSelected \/ ToggleSelected \/ MoveSelection \/ SelectMatch
  \/ RevealFile \/ RefreshCommand \/ ToggleHidden \/ Search \/ CancelSidebar
  \/ HoldEntry \/ Paste \/ AskDelete \/ OpenRename \/ ConfirmDelete \/ AcceptRename
  \/ ConfirmOverwrite \/ CancelDialog
  \/ OtherProgram \/ ReadDirectory \/ ApplyDirectory \/ RunMutation \/ PublishMutation
  \/ Abandon \/ WatchBurst

FileTreeSpec == FileTreeInit /\ [][FileTreeNext]_fileTreeVars

-----------------------------------------------------------------------------
(* What the tree promises.                                                   *)

ReadRuns(path) == op.kind = "read" /\ op.path = path
Direct(path) == RealPath(path) = path
\* Its read is under way, and what it has read already is what the disk holds.
Owed(path) ==
  \/ path \in ToSet(tree.queue) \cup reported \cup tree.forgotten
  \/ ReadRuns(path) /\ (op.stage = "done" => path \in DOMAIN disk /\ op.entries = disk[path])
\* The names that the rows of a directory show of what it holds.
ShownOf(listing, world) ==
  IF listing.cut THEN {n \in world : \A m \in world : Rank(m) < Rank(n) => m \in listing.entries} \cap listing.entries
  ELSE world

\* "A drop therefore never leaves the tree stale" (docs/files.md): what an open
\* directory shows is what the disk holds, or its read is under way, whatever
\* was collapsed, expanded or renamed meanwhile.  Not so for a directory that
\* is spelled through a link, or whose read was dropped or report ignored.
ShownIsFreshOrOwed ==
  \A path \in {p \in Open(tree) \cap Loaded(tree) : Direct(p) /\ tree.directories[p] # Unreadable} :
    IF path \in DOMAIN disk
    THEN Owed(path) \/ tree.directories[path].entries = ShownOf(tree.directories[path], disk[path])
    ELSE \E above \in Above(path) \cup {path} : Owed(above) \/ (above \in Loaded(tree) /\ tree.directories[above] = Unreadable)

\* A directory that the user opened and that "waits for its listing"
\* (Expansion::Pending) has its read under way.
WaitingIsOwed ==
  \A path \in Open(tree) \ Loaded(tree) :
    \/ tree.expanded[path] = "search" \/ path \in tree.forgotten
    \/ path \in ToSet(tree.queue) \/ ReadRuns(path)

\* No listing is held that no row and no search can show, and together they
\* stay within their bound.
LoadedIsOwned ==
  /\ \A path \in Loaded(tree) : Wanted(tree, path)
  /\ FoldLeft(LAMBDA n, p : n + Cardinality(tree.directories[p].entries), 0, SetToSeq(Loaded(tree))) <= EntriesMax
  /\ \A path \in Open(tree) \cup Loaded(tree) : Accepts(path)

\* "The first loaded spelling of one resolved directory owns that subtree".
NoSubtreeTwice ==
  \A p, q \in {p \in Loaded(tree) : tree.directories[p] # Unreadable} :
    tree.directories[p].identity = tree.directories[q].identity => p = q

\* The selection is a row while there is one.
SelectionIsShown == IF Rows(tree) = {} THEN tree.selected = Nowhere ELSE tree.selected \in Rows(tree)

\* "The end of a search is one commit": it leaves no directory that it opened.
SearchLeavesNothing ==
  ~Searching(tree) => tree.search.read = {} /\ \A path \in Open(tree) : tree.expanded[path] = "user"

FileTreeInvariant ==
  /\ ShownIsFreshOrOwed /\ WaitingIsOwed /\ LoadedIsOwned /\ NoSubtreeTwice
  /\ SelectionIsShown /\ SearchLeavesNothing
  /\ Root \in Open(tree) /\ Len(tree.queue) <= PendingMax

-----------------------------------------------------------------------------
(* What the code or its documentation says and does not hold.                *)

\* "A drop therefore never leaves the tree stale" without the exceptions: a
\* full queue, a failed job, and a report for a directory that only the search
\* has read each leave one that nothing will read.
NothingIsForgotten == tree.forgotten \cap Open(tree) = {}

\* "The directory is open and waits for its listing" (Expansion::Pending), also
\* for a directory that a search opens above a match although its own listing
\* was dropped by a collapse.
SearchedIsOwed ==
  \A path \in Open(tree) \ Loaded(tree) :
    path \in tree.forgotten \cup ToSet(tree.queue) \/ ReadRuns(path)

\* start_search "queues the next read here as every other transition does"; a
\* change of the hidden policy during a search does not, so its reads wait.
NothingWaitsIdle == op = NoOperation => Waiting(tree) = {}

\* The prompt of a rename starts with the name of the entry that it renames.
RenameIsOfItsEntry == dialog.kind = "rename" => tree.selected = dialog.path
=============================================================================
