------------------------- MODULE WatchRegistration -------------------------
(***************************************************************************)
(* The placement of directory watches by kvim-runtime                      *)
(* (src/crates/kvim-runtime/src/watch.rs: Registration and                 *)
(* unregistered_directories) while other programs change the tree.         *)
(*                                                                         *)
(* A watch covers one directory and reports the entries that appear in it  *)
(* and leave it.  The coalescing task walks the directories that a burst   *)
(* names, collects those it does not know, adds a watch for each and       *)
(* records them.  The walk, the adds and the changes of the tree           *)
(* interleave.  A watch belongs to the directory it was placed on: it ends *)
(* with that directory, and a new directory of the same name has none.     *)
(*                                                                         *)
(* The loss of events is the subject of WatchStream; here a watched change *)
(* always reaches the task.  Ignored names, links, names that are not      *)
(* UTF-8 and the depth and scan bounds are left out.                       *)
(***************************************************************************)
EXTENDS Integers, FiniteSets

CONSTANTS
  Tree,          \* every directory path of the model, the root included
  Root,          \* the workspace root, which is never removed
  Parent,        \* the directory that holds each directory below the root
  Limit,         \* WATCH_DIRECTORIES_MAX
  TreeChanges    \* bound of the model: how often the tree changes

\* The parents form a tree: from every directory they lead to the root.
TreeAssumption ==
  /\ IsFiniteSet(Tree)
  /\ Root \in Tree
  /\ Parent \in [Tree \ {Root} -> Tree]
  /\ \A S \in (SUBSET (Tree \ {Root})) \ {{}} : \E d \in S : Parent[d] \notin S
  /\ Limit \in Nat \ {0}
  /\ TreeChanges \in Nat

VARIABLES
  treeChanges, \* changes made so far
  exists,      \* the directories of the tree now
  watched,     \* the directories with a live watch
  pending,     \* directories whose listing changed under a watch
  registered,  \* Registration.directories
  walker,      \* idle, reading, adding, ended
  named,       \* directories of the burst whose walk is still to start
  toRead,      \* the queue of the walk
  found,       \* the directories the walk collected, in this batch
  toAdd,       \* those of them whose watch call is still to come
  recorded,    \* those of them the batch will record
  gap,         \* whether a burst has reported incomplete coverage
  lapsed       \* history: directories that appeared where the walk cannot see
               \* them, see MakeDirectory

registrationVars == <<treeChanges, exists, watched, pending, registered, walker, named, toRead,
                      found, toAdd, recorded, gap, lapsed>>

tree == <<treeChanges, exists, watched, pending, lapsed>>

\* The first walk starts at the root.
RegistrationInit ==
  /\ treeChanges = 0
  /\ exists \in {S \in SUBSET Tree : Root \in S /\ \A d \in S \ {Root} : Parent[d] \in S}
  /\ watched = {}
  /\ pending = {}
  /\ registered = {}
  /\ walker = "reading"
  /\ named = {}
  /\ toRead = {Root}
  /\ found = {Root}
  /\ toAdd = {}
  /\ recorded = {}
  /\ gap = FALSE
  /\ lapsed = {}

-----------------------------------------------------------------------------
(* Other programs. *)

Known == registered \cup found

\* The walk has read d, or is past its reads, and the watch of d is to come.
InWindow(d) == d \in found /\ d \notin toRead /\ d \notin watched

Notify(d) == pending' = IF d \in watched THEN pending \cup {d} ELSE pending

\* The directory is lapsed when its name is known from an earlier directory,
\* when its parent has been read and has no watch yet, or when it is below an
\* unwatched lapsed directory.
MakeDirectory(d) ==
  /\ treeChanges < TreeChanges
  /\ d \notin exists
  /\ Parent[d] \in exists
  /\ treeChanges' = treeChanges + 1
  /\ exists' = exists \cup {d}
  /\ lapsed' = IF d \in Known \/ InWindow(Parent[d]) \/ Parent[d] \in lapsed \ watched
                 THEN lapsed \cup {d} ELSE lapsed \ {d}
  /\ Notify(Parent[d])
  /\ UNCHANGED <<watched, registered, walker, named, toRead, found, toAdd, recorded, gap>>

\* A removed directory takes its watch with it.
RemoveDirectory(d) ==
  /\ treeChanges < TreeChanges
  /\ d \in exists
  /\ \A c \in exists \ {Root} : Parent[c] # d
  /\ treeChanges' = treeChanges + 1
  /\ exists' = exists \ {d}
  /\ watched' = watched \ {d}
  /\ Notify(Parent[d])
  /\ UNCHANGED <<registered, walker, named, toRead, found, toAdd, recorded, gap, lapsed>>

-----------------------------------------------------------------------------
(* The coalescing task. *)

Room == Limit - Cardinality(Known)

\* Registration::extend takes the directories that the burst names.
StartBatch ==
  /\ walker = "idle"
  /\ pending # {}
  /\ named' = pending
  /\ pending' = {}
  /\ walker' = "reading"
  /\ UNCHANGED <<treeChanges, exists, watched, registered, toRead, found, toAdd,
                 recorded, gap, lapsed>>

\* Mutant: a directory that carries a watch is not read again.
StartWalkKnown(d) ==
  /\ toRead = {}
  /\ d \in named
  /\ named' = named \ {d}
  /\ toRead' = {d} \ registered
  /\ found' = found \cup ({d} \ registered)
  /\ UNCHANGED <<tree, registered, walker, toAdd, recorded, gap>>

\* The walk of one named directory always reads that directory, and reports it
\* when no watch covers it.  Without room the rest of the burst is left out.
StartWalk(d) ==
  /\ toRead = {}
  /\ d \in named
  /\ \/ /\ Room > 0
        /\ named' = named \ {d}
        /\ toRead' = {d}
        /\ found' = found \cup ({d} \ registered)
        /\ UNCHANGED gap
     \/ /\ Room <= 0
        /\ named' = {}
        /\ gap' = TRUE
        /\ UNCHANGED <<toRead, found>>
  /\ UNCHANGED <<tree, registered, walker, toAdd, recorded>>

Fresh(d) == {c \in exists \ {Root} : Parent[c] = d /\ c \notin Known}

\* Mutant: the walk reads the named directories and not the ones below them.
ReadDirectoryFlat(d) ==
  /\ d \in toRead
  /\ toRead' = toRead \ {d}
  /\ found' = found \cup Fresh(d)
  /\ UNCHANGED <<tree, registered, walker, named, toAdd, recorded, gap>>

\* Mutant: the directory bound is not looked at.
ReadDirectoryUnbounded(d) ==
  /\ d \in toRead
  /\ toRead' = (toRead \ {d}) \cup Fresh(d)
  /\ found' = found \cup Fresh(d)
  /\ UNCHANGED <<tree, registered, walker, named, toAdd, recorded, gap>>

\* One directory read of the walk.  It collects the entries that no walk has
\* collected before, and goes on below them; the bound ends the walk.
ReadDirectory(d) ==
  /\ d \in toRead
  /\ \/ /\ Cardinality(Fresh(d)) <= Room
        /\ toRead' = (toRead \ {d}) \cup Fresh(d)
        /\ found' = found \cup Fresh(d)
        /\ UNCHANGED gap
     \/ /\ Cardinality(Fresh(d)) > Room
        /\ \E kept \in SUBSET Fresh(d) :
             /\ Cardinality(kept) = Room
             /\ found' = found \cup kept
        /\ toRead' = {}
        /\ gap' = TRUE
  /\ UNCHANGED <<tree, registered, walker, named, toAdd, recorded>>

StartAdding ==
  /\ walker = "reading"
  /\ named = {}
  /\ toRead = {}
  /\ walker' = "adding"
  /\ toAdd' = found
  /\ UNCHANGED <<tree, registered, named, toRead, found, recorded, gap>>

\* Registration::add, one directory.  It gets its watch; or it is missing and
\* passed over; or it is refused, which is a gap, and which only a refusal of
\* the watch itself records; or it is the root, which must not be refused.
AddWatch(d) ==
  /\ walker = "adding"
  /\ d \in toAdd
  /\ toAdd' = toAdd \ {d}
  /\ \/ /\ d \in exists
        /\ watched' = watched \cup {d}
        /\ recorded' = recorded \cup {d}
        /\ UNCHANGED <<gap, walker>>
     \/ /\ d \notin exists
        /\ UNCHANGED <<watched, recorded, gap, walker>>
     \/ /\ d \in exists \ {Root}
        /\ gap' = TRUE
        /\ recorded' \in {recorded, recorded \cup {d}}
        /\ UNCHANGED <<watched, walker>>
     \/ /\ d = Root
        /\ walker' = "ended"
        /\ watched' = {}
        /\ UNCHANGED <<recorded, gap>>
  /\ UNCHANGED <<treeChanges, exists, pending, registered, named, toRead, found, lapsed>>

\* The batch is applied and recorded.  The platform can refuse it as a whole,
\* which ends the first registration and is a gap of a later one.
Commit ==
  /\ walker = "adding"
  /\ toAdd = {}
  /\ \/ /\ registered' = registered \cup recorded
        /\ walker' = "idle"
        /\ UNCHANGED <<watched, gap>>
     \/ /\ found # {}
        /\ registered # {}
        /\ walker' = "idle"
        /\ gap' = TRUE
        /\ UNCHANGED <<watched, registered>>
     \/ /\ registered = {}
        /\ walker' = "ended"
        /\ watched' = {}
        /\ UNCHANGED <<registered, gap>>
  /\ found' = {}
  /\ recorded' = {}
  /\ UNCHANGED <<treeChanges, exists, pending, named, toRead, toAdd, lapsed>>

WalkerStep ==
  \/ StartBatch
  \/ StartAdding
  \/ Commit
  \/ \E d \in Tree : StartWalk(d) \/ ReadDirectory(d) \/ AddWatch(d)

RegistrationNext ==
  \/ \E d \in Tree \ {Root} : MakeDirectory(d) \/ RemoveDirectory(d)
  \/ WalkerStep

RegistrationSpec == RegistrationInit /\ [][RegistrationNext]_registrationVars
FairRegistrationSpec == RegistrationSpec /\ WF_registrationVars(WalkerStep)

-----------------------------------------------------------------------------
(* Correctness. *)

RegistrationTypeOK ==
  /\ treeChanges \in 0 .. TreeChanges
  /\ Root \in exists /\ exists \subseteq Tree
  /\ watched \subseteq exists
  /\ pending \subseteq Tree
  /\ registered \subseteq Tree /\ Cardinality(registered) <= Limit
  /\ walker \in {"idle", "reading", "adding", "ended"}
  /\ named \subseteq Tree
  /\ toRead \subseteq Tree
  /\ found \subseteq Tree
  /\ toAdd \subseteq found
  /\ recorded \subseteq found
  /\ gap \in BOOLEAN
  /\ lapsed \subseteq Tree

\* "A directory that appears after the walk carries no watch of its own.  The
\* watcher closes that gap on the next burst" (docs/files.md): when the task
\* has nothing left to do and reported no gap, a directory without a live watch
\* is lapsed.  The walk, the bound and the order of the batch lose no other.
WatchedWhenIdle ==
  walker = "idle" /\ pending = {} /\ ~gap => exists \ watched \subseteq lapsed

\* What MCServices checks.
RegistrationInvariant == RegistrationTypeOK /\ WatchedWhenIdle

\* Every directory gets its watch in the end, unless it is lapsed, is removed
\* first, a burst reports a gap, or the stream ends.
BecomesWatched ==
  \A d \in Tree :
    (d \in exists) ~>
      (d \in watched \cup lapsed \/ d \notin exists \/ gap \/ walker = "ended")

-----------------------------------------------------------------------------
(* Sentences of the documentation that the code does not keep. *)

\* "A watch covers one directory alone ... The watcher closes that gap on the
\* next burst" (docs/files.md): at rest every directory has its watch.
EveryDirectoryWatched ==
  walker = "idle" /\ pending = {} /\ ~gap => watched = exists
=============================================================================
