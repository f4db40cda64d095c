------------------------------- MODULE Mutation -------------------------------
(***************************************************************************)
(* One workspace mutation: the staged create, copy, move and removal of    *)
(* several entries (src/crates/kvim-workspace/src/mutation.rs).            *)
(*                                                                         *)
(* Every entry owns two visible names, its origin and its destination, and *)
(* two hidden ones beside them, which only the mutation uses: the staged   *)
(* entry and the parked one.  What an entry holds is named for where it    *)
(* came from.  Each call of the filesystem is a step that may fail; other  *)
(* programs change the visible names, and the process may end, between any *)
(* two steps.  A name that lies inside another entry of the same mutation  *)
(* is left out, and so is the size of a directory.                         *)
(***************************************************************************)
EXTENDS Integers, FiniteSets

CONSTANTS
  N,             \* the entries of one mutation, at most MUTATION_PATHS_MAX
  OtherChanges   \* bound of the model: the changes that other programs make

\* What MCFiles assumes of the constants.
MutationAssumption == N \in Nat \ {0} /\ OtherChanges \in Nat

Items == 1 .. N
Modes == {"create", "copy", "move", "discard"}
Visible == {"origin", "dest"} \X Items
Names == Visible \cup {"staged", "parked"} \X Items

Nothing == <<"none", 0>>
Source(i) == <<"source", i>>
Old(i) == <<"old", i>>
EntryContents == {"source", "old", "created", "part"} \X Items
              \cup {"other"} \X (1 .. OtherChanges) \cup {Nothing}

VARIABLES
  mode,
  replaces,    \* the entries with an approved destination that is taken
  fs,          \* what every name holds
  point,       \* the step that comes next, and for which entry
  staged,      \* StagedTransfer::items: the entries 1 .. staged
  committed,   \* the entries 1 .. committed hold their destination
  uncertain,   \* MutationFailure::indeterminate
  failures,    \* the entries with a RecoveryFailure
  mutationOutcome,
  otherChanges,  \* the changes that other programs made
  touched,     \* history: the names that they changed
  gone         \* history: the contents that they removed or replaced

mutationVars == <<mode, replaces, fs, point, staged, committed, uncertain, failures,
                  mutationOutcome, otherChanges, touched, gone>>

At(at, item) == [at |-> at, item |-> item]

\* What the staging (MutationPlan::stage_with) found.
Before(name) ==
  LET i == name[2]
  IN  CASE name[1] = "origin" -> IF mode = "create" THEN Nothing ELSE Source(i)
        [] name[1] = "dest" -> IF i \in replaces THEN Old(i) ELSE Nothing
        [] OTHER -> Nothing

MutationInit ==
  /\ mode \in Modes
  /\ replaces \in (IF mode \in {"copy", "move"} THEN SUBSET Items ELSE {{}})
  /\ fs = [name \in Names |-> Before(name)]
  /\ point = At("stage", 1)
  /\ staged = 0 /\ committed = 0
  /\ uncertain = FALSE /\ failures = {} /\ mutationOutcome = "none"
  /\ otherChanges = 0 /\ touched = {} /\ gone = {}

-----------------------------------------------------------------------------
(* The filesystem. *)

Origin == <<"origin", point.item>>
Dest == <<"dest", point.item>>
Staged == <<"staged", point.item>>
Parked == <<"parked", point.item>>

\* A rename replaces what the new name held.
Renamed(from, to) == [fs EXCEPT ![to] = fs[from], ![from] = Nothing]
Removed(name) == [fs EXCEPT ![name] = Nothing]

-----------------------------------------------------------------------------
(* Staging. *)

\* The first failure starts the unwind, at the newest staged entry.
Unwind(item, result) ==
  /\ point' = At("undo", item)
  /\ uncertain' = result

\* What follows the staging of an entry.
AfterStage ==
  point' = IF point.item < N THEN At("stage", point.item + 1)
          ELSE CASE mode = "create" -> At("done", 0)
                 [] mode = "discard" -> At("clean", 1)
                 [] OTHER -> At("check", 1)

\* The names exist in the state that the staging approved, so the create makes
\* its entry, the copy fills the staged name, and the move and the removal
\* rename the origin to it.
StageEntry ==
  /\ point.at = "stage"
  /\ CASE mode = "create" -> fs[Dest] = Nothing /\ fs' = [fs EXCEPT ![Dest] = <<"created", point.item>>]
       [] mode = "copy" -> fs[Origin] # Nothing /\ fs' = [fs EXCEPT ![Staged] = fs[Origin]]
       [] OTHER -> fs[Origin] # Nothing /\ fs' = Renamed(Origin, Staged)
  /\ staged' = point.item
  /\ AfterStage
  /\ mutationOutcome' = IF point'.at = "done" THEN "Committed" ELSE mutationOutcome
  /\ UNCHANGED <<mode, replaces, committed, uncertain, failures, otherChanges, touched, gone>>

\* A copy that fails removes what it wrote, which can fail as well.
FailStage ==
  /\ point.at = "stage"
  /\ \/ fs' = fs /\ failures' = failures
     \/ /\ mode = "copy"
        /\ failures' = failures \cup {point.item}
        /\ \/ fs' = fs
           \/ fs' = [fs EXCEPT ![Staged] = <<"part", point.item>>]
  /\ Unwind(staged, failures' # {})
  /\ UNCHANGED <<mode, replaces, staged, committed, mutationOutcome, otherChanges, touched, gone>>

-----------------------------------------------------------------------------
(* The commit of a copy or a move. *)

\* StagedPath::revalidate compares whether the path exists, and its links.
Check ==
  /\ point.at = "check"
  /\ (fs[Dest] # Nothing) = (point.item \in replaces)
  /\ point' = At(IF point.item \in replaces THEN "park" ELSE "take", point.item)
  /\ UNCHANGED <<mode, replaces, fs, staged, committed, uncertain, failures, mutationOutcome,
                 otherChanges, touched, gone>>

\* Mutant: the approved entry is not parked, so the rename replaces it.
ParkNothing ==
  /\ point.at = "park"
  /\ point' = At("take", point.item)
  /\ UNCHANGED <<mode, replaces, fs, staged, committed, uncertain, failures, mutationOutcome,
                 otherChanges, touched, gone>>

\* park: a destination without an entry parks nothing.
Park ==
  /\ point.at = "park"
  /\ fs' = IF fs[Dest] = Nothing THEN fs ELSE Renamed(Dest, Parked)
  /\ point' = At("take", point.item)
  /\ UNCHANGED <<mode, replaces, staged, committed, uncertain, failures, mutationOutcome,
                 otherChanges, touched, gone>>

\* Mutant: the check of the entry after the last one.
TakePastEnd ==
  /\ point.at = "take"
  /\ fs' = Renamed(Staged, Dest)
  /\ committed' = point.item
  /\ point' = IF point.item <= N THEN At("check", point.item + 1) ELSE At("clean", 1)
  /\ UNCHANGED <<mode, replaces, staged, uncertain, failures, mutationOutcome,
                 otherChanges, touched, gone>>

Take ==
  /\ point.at = "take"
  /\ fs' = Renamed(Staged, Dest)
  /\ committed' = point.item
  /\ point' = IF point.item < N THEN At("check", point.item + 1) ELSE At("clean", 1)
  /\ UNCHANGED <<mode, replaces, staged, uncertain, failures, mutationOutcome,
                 otherChanges, touched, gone>>

\* Mutant: only what holds its destination is undone.
FailCommitShort ==
  /\ point.at \in {"check", "park", "take"}
  /\ Unwind(committed, TRUE)
  /\ UNCHANGED <<mode, replaces, fs, staged, committed, failures, mutationOutcome,
                 otherChanges, touched, gone>>

\* A failed step of the commit is uncertain, whatever the unwind restores.
FailCommit ==
  /\ point.at \in {"check", "park", "take"}
  /\ Unwind(N, TRUE)
  /\ UNCHANGED <<mode, replaces, fs, staged, committed, failures, mutationOutcome,
                 otherChanges, touched, gone>>

-----------------------------------------------------------------------------
(* The unwind and the cleanup. *)

\* How the step of an unwind gives the entry back.
Restored ==
  CASE mode = "create" -> Removed(Dest)
    [] mode = "discard" -> Renamed(Staged, Origin)
    [] mode = "copy" -> Removed(IF point.item <= committed THEN Dest ELSE Staged)
    [] mode = "move" -> Renamed(IF point.item <= committed THEN Dest ELSE Staged, Origin)

Lent ==
  CASE mode = "create" -> Dest
    [] mode = "discard" -> Staged
    [] OTHER -> IF point.item <= committed THEN Dest ELSE Staged

\* The step of an unwind that follows the entry itself.
AfterUndo == point' = IF fs[Parked] # Nothing THEN At("return", point.item)
                     ELSE At("undo", point.item - 1)

Undo ==
  /\ point.at = "undo" /\ point.item > 0
  /\ \/ fs[Lent] # Nothing /\ fs' = Restored /\ failures' = failures
     \/ fs' = fs /\ failures' = failures \cup {point.item}
  /\ AfterUndo
  /\ UNCHANGED <<mode, replaces, staged, committed, uncertain, mutationOutcome,
                 otherChanges, touched, gone>>

\* The parked entry takes its destination again, although the step before it
\* may have failed.
Return ==
  /\ point.at = "return"
  /\ \/ fs' = Renamed(Parked, Dest) /\ failures' = failures
     \/ fs' = fs /\ failures' = failures \cup {point.item}
  /\ point' = At("undo", point.item - 1)
  /\ UNCHANGED <<mode, replaces, staged, committed, uncertain, mutationOutcome,
                 otherChanges, touched, gone>>

\* Mutant: a failed restoration is left out of the outcome.
UnwoundSilent ==
  /\ point = At("undo", 0)
  /\ point' = At("done", 0)
  /\ mutationOutcome' = IF uncertain THEN "Indeterminate" ELSE "Unchanged"
  /\ UNCHANGED <<mode, replaces, fs, staged, committed, uncertain, failures,
                 otherChanges, touched, gone>>

\* MutationPlan::apply, of a failure.
Unwound ==
  /\ point = At("undo", 0)
  /\ point' = At("done", 0)
  /\ mutationOutcome' = IF uncertain \/ failures # {} THEN "Indeterminate" ELSE "Unchanged"
  /\ UNCHANGED <<mode, replaces, fs, staged, committed, uncertain, failures,
                 otherChanges, touched, gone>>

\* The parked entries of a transfer, the staged ones of a removal.
Clean ==
  /\ point.at = "clean"
  /\ LET rest == IF mode = "discard" THEN Staged ELSE Parked
     IN  IF fs[rest] = Nothing THEN UNCHANGED <<fs, failures>>
         ELSE \/ fs' = Removed(rest) /\ failures' = failures
              \/ fs' = fs /\ failures' = failures \cup {point.item}
  /\ point' = IF point.item < N THEN At("clean", point.item + 1) ELSE At("done", 0)
  /\ mutationOutcome' = IF point.item < N THEN mutationOutcome
                ELSE IF failures' = {} THEN "Committed" ELSE "Indeterminate"
  /\ UNCHANGED <<mode, replaces, staged, committed, uncertain, otherChanges, touched, gone>>

-----------------------------------------------------------------------------
(* The world. *)

Active == point.at \notin {"done", "crashed"}

\* Another program replaces, makes or removes a visible entry.
OtherProgram ==
  /\ Active
  /\ otherChanges < OtherChanges
  /\ otherChanges' = otherChanges + 1
  /\ \E name \in Visible, content \in {<<"other", otherChanges + 1>>, Nothing} :
       /\ fs[name] # content
       /\ fs' = [fs EXCEPT ![name] = content]
       /\ touched' = touched \cup {name}
       /\ gone' = gone \cup {fs[name]}
  /\ UNCHANGED <<mode, replaces, point, staged, committed, uncertain, failures, mutationOutcome>>

\* The process ends: nothing unwinds.
Crash ==
  /\ Active
  /\ point' = At("crashed", 0)
  /\ UNCHANGED <<mode, replaces, fs, staged, committed, uncertain, failures, mutationOutcome,
                 otherChanges, touched, gone>>

MutationNext ==
  \/ StageEntry \/ FailStage
  \/ Check \/ Park \/ Take \/ FailCommit
  \/ Undo \/ Return \/ Unwound \/ Clean
  \/ OtherProgram \/ Crash

MutationSpec == MutationInit /\ [][MutationNext]_mutationVars

-----------------------------------------------------------------------------
(* Correctness. *)

MutationTypeOK ==
  /\ mode \in Modes
  /\ replaces \in SUBSET Items
  /\ fs \in [Names -> EntryContents]
  /\ point \in [at : {"stage", "check", "park", "take", "return", "clean"}, item : Items]
              \cup [at : {"undo"}, item : 0 .. N] \cup [at : {"done", "crashed"}, item : {0}]
  /\ staged \in 0 .. N /\ committed \in 0 .. N
  /\ uncertain \in BOOLEAN
  /\ failures \in SUBSET Items
  /\ mutationOutcome \in {"none", "Unchanged", "Committed", "Indeterminate"}
  /\ otherChanges \in 0 .. OtherChanges
  /\ touched \in SUBSET Visible
  /\ gone \in SUBSET EntryContents

Held(content) == \E name \in Names : fs[name] = content

\* "An overwrite never destroys the destination before the replacement is
\* complete" (docs/files.md), and no step destroys a source: at every step, and
\* after a crash at any of them, whatever the user had and other programs did
\* not take away still lies under some name, until the commit of the whole
\* mutation, unless an entry that was not given back is replaced by the parked
\* one that is.
NothingDestroyed ==
  \A i \in Items :
    /\ mode # "create" /\ ~Held(Source(i)) /\ Source(i) \notin gone =>
         \/ mode = "discard" /\ staged = N
         \/ mode = "move" /\ i \in failures \cap replaces
    /\ i \in replaces /\ ~Held(Old(i)) /\ Old(i) \notin gone => committed = N

\* What the mutation asked for.
After(name) ==
  LET i == name[2]
  IN  CASE name[1] = "origin" -> IF mode \in {"create", "copy"} THEN Before(name) ELSE Nothing
        [] name[1] = "dest" -> CASE mode = "create" -> <<"created", i>>
                                 [] mode = "discard" -> Nothing
                                 [] OTHER -> Source(i)
        [] OTHER -> Nothing

\* The names of the entries that no other program changed.
Own == {name \in Names : touched \cap ({"origin", "dest"} \X {name[2]}) = {}}
AllBefore == \A name \in Own : fs[name] = Before(name)
AllAfter == \A name \in Own : fs[name] = After(name)

\* "A failure at any step undoes every staged step, so a paste of several paths
\* never leaves half a result" (docs/files.md): when every step of the unwind
\* and of the cleanup succeeded, the entries are all as before or all as asked.
AllOrNothing ==
  point.at = "done" /\ failures = {} => AllBefore \/ AllAfter

\* The outcome is true: Unchanged proves that nothing changed and nothing is
\* left behind, Committed that everything was done (docs/files.md).
MutationOutcomeIsTrue ==
  /\ mutationOutcome = "Unchanged" => AllBefore
  /\ mutationOutcome = "Committed" => AllAfter

MutationInvariant == MutationTypeOK /\ NothingDestroyed /\ AllOrNothing /\ MutationOutcomeIsTrue

-----------------------------------------------------------------------------
(* Sentences of the documentation that the code does not keep. *)

\* "One copy or move that either finishes completely or leaves no trace"
\* (StagedTransfer): no move destroys what it moves.
SourceSurvives ==
  mode = "move" => \A i \in Items : Held(Source(i)) \/ Source(i) \in gone

\* "An entry that another program replaced after the staging stops the mutation
\* instead of losing its content" (MutationPlan::apply): what other programs
\* wrote is destroyed by none but them.
ReplacedIsKept ==
  [][\A n \in 1 .. otherChanges :
       Held(<<"other", n>>) => Held(<<"other", n>>)' \/ <<"other", n>> \in gone']_mutationVars
=============================================================================
