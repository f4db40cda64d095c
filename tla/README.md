# A verification project for kvim

kvim is a terminal editor in Rust (`src/crates/*`, about 100,000 lines without tests). It
embeds into other programs, runs every slow operation off its event loop, and promises that
no unsaved text and no durable effect is ever lost silently. This directory holds TLA+ models
of the parts of kvim where that promise is hard to keep, TLC configurations that check them on
small instances, and proofs that hold for every instance.

Contents: [the system](#the-system), [plan](#plan), [modules](#modules), [runs](#runs),
[bounds](#bounds), [fairness](#fairness), [proofs](#proofs),
[disagreements with the documentation](#disagreements-with-the-documentation),
[what is not modelled](#what-is-not-modelled).

## The system

One thread, the *driver* (`kvim-tui/src/driver.rs`), owns the *session*
(`kvim-tui/src/session.rs`): buffers, windows, prompts and everything a key press changes. The
session never blocks. It puts requests into outboxes; the driver hands them to the bounded
*runtime* (`kvim-runtime`), and applies each completion back to the session after the
*publication gate* has checked that no newer request owns its slot. Facts a host must not miss
(a file was written, a mutation must be reconciled) go through the *event outbox*
(`kvim-tui/src/embed.rs`), where a slot is reserved before the effect begins. A host that embeds
the editor (`kvim-embed`) sends keys, prompts, decisions and captures through a facade, which
checks each against the generation that it was made for.

| Component | State | Operations | Hard behaviour | What makes it correct |
|---|---|---|---|---|
| `kvim-runtime` work | delivery slots, permits, tasks, threads, children | submit, cancel, deadline, shutdown, drain, receive | a stop races the start of a committing closure; a thread outlives its answer | one event for each accepted request; a committed effect is reported; limits and slots accounted; a drain leaves nothing |
| `kvim-runtime` watch | raw queue, drop counter, published bursts, registered directories | callback, coalesce, register, receive | two lossy queues and a counter beside them; the tree moves under the walk | every change is seen or its loss is reported; every directory is watched or a gap is reported |
| recovery lane (session, driver, workspace) | one lane state per buffer, one record per path | edit, save, reload, decide, close, quit, complete, drain | completions of old revisions, failures, reopened files, crash at any point | the record holds the newest unsaved text at rest; cleanup is not undone; shutdown ends |
| file lane (session, driver, outbox) | pending operation, save run, reservation, gate slots | save, format then save, save all, read, watch check, mutation, diff | failures and displaced results of other requests, host that takes no events | one operation at a time, every durable change is reported, a deferred check runs |
| `kvim-workspace` durable files | target, temporary file, parked entries | atomic save, mutation, recovery record, undo file | a crash or an error between two steps, an entry that appears meanwhile | the old file or the new file; `Unchanged` only when nothing changed |
| `kvim-workspace` tree, git, diff, review | listings, statuses, captures, marks | walk, refresh, capture, align, relocate | the worktree moves during a capture | a capture is of one moment; marks name what exists; the bounds hold |
| `kvim-lsp` | projects, sessions, budgets, documents, diagnostics | open, close, restart, handshake, publish | a server that dies at any point, deadlines, stale diagnostics | budgets are returned; restarts are bounded; no report of an old version |
| `kvim-language` | services, one question per document | synchronise, ask, answer | an answer meets a later revision | an answer is applied to the text it was computed from |
| `kvim-core` | text, undo and redo history | commit, undo, redo, save, restore | grouping, marks and bounds | undo returns the exact earlier text |
| `kvim-editor` | cursor, selection, registers, repeat, viewport | motions, operators, repeat | long sequences of legal commands | cursor and view stay in the text |
| `kvim-keymap`, `kvim-input` | pending keys, counts, registers, modes | key, timeout, step back, cancel | prefixes, several owners | a prefix can be continued and stepped back; what waits is ended on both sides |
| `kvim-ui` | window tree, lists, dialogs | split, close, resize, scroll | last window, zero sizes | focus names a leaf; the selected row is visible |
| `kvim-embed` | contexts, dialogs, prompts, decisions, captures | submit, drive, poll, decide | late decisions, host that stops polling | nothing is answered twice or for another context |
| `kvim-terminal`, `kvim` | raw mode, alternate screen, signals | enter, leave, suspend, resume | panic or signal in between | the terminal is restored once |
| `kvim-clipboard`, `kvim-fuzzy`, `kvim-path`, `kvim-syntax`, `kvim-settings` | little | one call each | a slow command | see `PROJECT.json` |

`PROJECT.json` lists every component with its sources and its status, and under `hazards` the
lines where the hard behaviour bites and the properties that would catch it.

## Plan

The order follows what a loss would cost the user. Done, with their modules: the runtime and
its abstract promise, the watcher, the recovery lane and the decisions about a record, the file
lane with the outbox, durable files and mutations, the language servers (projects, editor
services, changed-file diagnostics), key input and the composition of bindings, text and its
history, the modal editor, windows, lists, dialogs and tree, diff and review captures, the
facade with the host's commands.

Left, in this order:

1. One abstract save operation with the outcomes Unchanged, Committed and Indeterminate, which
   `DurableSave` and `Mutation` implement and the two lanes use; several paths in the recovery
   lane.
2. Picker, selector and the edited line of a prompt; the completion menu
   (`kvim-language/src/editor.rs`).
3. The wire of a language server: framing, position encoding, the process behind it.
4. The life cycle of the terminal and the clipboard; the rest of the session and of the
   worktree facade.

## Modules

Each module begins with what it models and what it leaves out; `map` in `PROJECT.json` names
the lines behind every definition. Each ends with the sentences of the documentation that do
not hold, if there are any.

Parts that share no state are checked together in a *sum*: `MCServices`, `MCFiles` and
`MCHosting` have a variable `part` that is chosen in the initial state and never changes, and a
behaviour of the sum is a behaviour of that part alone. The constant `PartsRun` names those that a
configuration runs. A sum extends the parts that theorems are about and instantiates the others.

### Runtime, RequestPromise (kvim-runtime/src/lib.rs)

`Runtime` keeps, for each request, the state of its task (`task`), of its closure or child
(`work`), its cancellation and deadline, and the events in the queue. `Optional` requests are
worker jobs submitted with `submit_worker`, `Committing` ones with `submit_committing_worker`,
`Commands` are processes. Submission is one atomic action per outcome, because
`accept_worker` runs on the caller: stopped, no delivery slot, no permit (which returns the
slot), accepted. The task of `run_worker_job` is split at its await points: start, poll of the
`select!`, the abort and second join of a committing job, send, and the final wait for its
thread. `biased` selects become the order of guards. A deadline may pass at any time. A
closure runs on its thread independently of its task. The permits of commands are one
semaphore for the whole process in the code (`process_permits`); the model is of a program
with one runtime. `MapMayPanic` admits a panic in the caller's map function.

`RequestPromise` is what a caller relies on: each request is refused or answered once, and a
committing one that had its effect is answered truthfully. `Runtime` implements it
(`KeepsPromise`), with the state of the promise computed from that of the task (`Status`,
`Answer`, `Effect`).

### WatchStream, WatchRegistration (kvim-runtime/src/watch.rs)

`WatchStream` is the path of an event: platform callback, `try_send` into a bounded queue, the
counter beside it, the coalescing window, `validate_events`, the directory bound of a burst,
`try_send` into the published queue, the carried fidelity, and a consumer that reads what a
burst names, or everything after `Dropped`. The history variable `unseen` records which
directories changed since the consumer read them. The callback's send and count are two steps,
because the task may swap the counter in between.

`WatchRegistration` is `Registration::extend` and `add`: one directory is read per step, other
programs make and remove directories in between, watches are added as a batch after the walk,
and names are recorded after the batch was applied. The history variable `lapsed` names the two
kinds of directory that the code cannot see: one made between the listing of its parent and the
watch placed there, and one that was removed and made again under a recorded name.

### RecoveryLane (kvim-tui session.rs and driver.rs, kvim-workspace)

One path and its record. A buffer identity (`Ids`) is new for each open; `lane` is
`RecoveryState` per identity, `job` the committing worker's job, `operation` the open, save or
reload under way, `candidate` the record that an open offers. `AfterEdit`, `Suppressed`,
`Disposed`, `Committed` and `Failed` are the transitions of the session's functions of similar
names. A text is a number that grows with each edit, so "newest" is comparable. A failed job
may or may not have replaced the record. `Crash` may happen anywhere; the process restarts with
file and record alone. `ReopenEarly` admits opening the path again before the lane of its last
identity is empty, `QuitMidSave` a confirmed quit during a save: both are legal, and each
breaks one property, so the passing run excludes it by name; a violation run shows the first.

### RecoveryDecision (kvim-tui session.rs, kvim-embed worktree.rs)

The answer of a host to a recovery candidate: it is offered, deferred, accepted or deleted while
the buffer is edited, reloaded, unloaded and opened again and the result of the decision is late.

### FileLane (kvim-tui session.rs, driver.rs, embed.rs; kvim-workspace)

`session` holds the pending file operation, the request waiting in the outbox, the run over
every buffer, the reload that is due, the waiting formatter and the reservation; `job` and
`tree` the work in the file and workspace slots of the gate with its outcome; a result that a
newer request displaced stays on its way (`displaced`) until it is dropped. Every entry point
that ends an operation is one operator (`Applied`, `Abandoned`, `FollowUp`), shared by the
actions that call it, as in the code. `unpublished` counts the durable changes that no fact
reports yet. Assertions are modelled as compiled out, as in a release build; what a debug
build would do there is the subject of `SaveFindsNoSlot`. `FailDiff` is the failure of a diff
capture, which the code hands to the file operation; the history variable `struck` remembers
that one of them met a running operation, and the properties that do not survive it say so
(`NoWriteIsLost` is the same property without the excuse). One such strike is admitted.

### DurableSave (kvim-workspace file.rs and recovery.rs)

`file` and `record` each are what a reader finds now and the set of what a loss of power may
leave (`disk`): a rename, write or removal adds to the set, a synchronisation reduces it to
what is there now. So crash and loss of power need no action: an invariant over `disk` speaks
of every start after one. The operations follow `save_inner` with `write_staged` (check,
temporary file, write and synchronise, check again, rename, read the identity) or the direct
branch (truncate, write, synchronise), `write_recovery_record_inner` and
`delete_recovery_record`, in the order in which the session asks for them. `racing` and `lost`
are histories: what another program wrote between the last check and the answer, and what a
save replaced unseen. The identity of a file is its size and time; it is taken to tell two
contents apart, which a filesystem with coarse times does not guarantee.

### Mutation (kvim-workspace/src/mutation.rs)

The work of one `MutationPlan`: `mode` is `PlannedWork`, `replaces` the entries whose taken
destination was approved. Each entry owns a visible origin and destination and two hidden
names, `staged` and `parked`; `fs` maps names to contents, which are named for where they came
from, so that "the moved entry" and "the entry that was overwritten" can be followed wherever
they lie. `step` is the program counter of `create`, `transfer` or `discard`; each call of the
filesystem (stage, revalidate, park, rename, restore, return, clean) is a step that may fail,
and the rollback runs step by step from the newest staged entry. `failures` are the
`RecoveryFailure`s. `Other` is another program at a visible name, `Crash` the end of the
process, after which nothing unwinds. Left out: the validation before the staging, a name
inside another entry of the same mutation, and the walk inside a copied tree, which is one
step that fails with or without a part left behind.

### DiffCapture, Review, ReviewCapture (kvim-workspace, kvim-tui, kvim-embed)

`DiffCapture` is one comparison: passes of Git commands over a repository with a tracked file
and an untracked name, which other programs change between any two commands and before the
contents of the untracked file are read, and the decision of each pass to publish, try again or
refuse. The history `still` remembers which of the last three passes saw no change: one such pass
is enough for what is published to be the repository of a moment (`QuietPassIsTrue`), while
`NoMixedCandidate`, the sentence of the documentation without that condition, does not hold. `Review` is what a capture does to the screen: the
hunk cursor and the read marks of two halves, the panel of changed files, the body, and their
relocation onto the next capture. `ReviewCapture` is the pair of captures as a host asks for
it: requests that replace each other on a bounded runtime, completions that the host holds and
applies late, and the bounded events that tell it how a request ended.

### LspProject, DiagnosticsHub, LanguageSync (kvim-lsp, kvim-language, kvim-tui)

`LspProject` is the manager's budget, the life of a project under several drivers, the
supervisor with its restarts, and the children with the attempts that end them. In `DiagnosticsHub`
concurrent calls of `changed_file` share one request slot, and one conversation per server fills
its own slot of the running job through starts, restarts, pulls, refreshes and late
publications; a job has the identity of the call that made it, and an answer is the set of
revisions its content describes. `LanguageSync` is one buffer and its servers: the editor's
outbox and queue, the session loop with its copy of the text, the wire in both directions, one
open question with its deadline, and restarts.

### KeyInput, BindingComposition, HostInput (kvim-keymap, kvim-input, kvim-tui, kvim-embed)

`KeyInput` takes one key through resolver, reducer and editing state of a small binding table:
pending sequence with its owner, counts, registers, operators, questions, contexts that are
published to the host and come back with a decision, step back and unsupported input.
The scope that owns a pending sequence is found again for every key, as `continue_prefix` and
docs/input-actions.md have it; the comment of `dispatch` has it otherwise, and
`SequenceKeepsItsOwner` states that. `BindingComposition` is the merged table of host and editor: projection into scopes, explicit
winners, and the checks of the registry. `HostInput` puts the two together; they share no variable.

### Facade, HostCommands (kvim-embed, kvim-tui)

`Facade` is the dialog of a hosted editor and the one generation that covers editor and dialog
together; `HostCommands` the command line and the sidebar search that a host draws, with their
sessions, walks and identities.

### WindowTree, RowList, Sidebar, DialogGeometry, FileTree (kvim-ui, kvim-tui, kvim-workspace)

`WindowTree` is the tree of weighted splits with two sidebars, the focus, and the layout as the
code computes it in cells. `RowList` holds the rules of a list of rows without state; `Sidebar`
and `FileTree` are built on it. `FileTree` adds the lazy directory model with its bounded queue
of reads, the search, the prompts and the watcher bursts over a worktree that changes; a mutation
is one step there that is done or leaves everything in its place, and `Mutation` has its steps.
`DialogGeometry` is the placement of a popup or a panel in an area.

### TextHistory, EditorText, EditorMotions, EditPlans, EditCommands, Editing (kvim-core, kvim-editor)

`TextHistory` is a buffer with transactions, its bounded undo and redo, the modified mark and
the undo file. The other five are layers of the modal editor: places in a text, where a command
moves, what it plans to change, the command as a function of one record, and the windows,
pointer, reload and formatter around it. A text is a sequence of a few characters that stand
for line feed, carriage return, blank, combining mark and letter. `EditorMotions` defines a
motion by what it looks for, not by the walk that finds it.

## Runs

Each property of a passing run has a seeded fault (`mutants` in `PROJECT.json`), which TLC
finds under the same configuration. Safety and liveness of a component are checked in one run,
under its fair specification where it has one.

| Run | Question | Distinct states |
|---|---|---|
| `MCRuntime` | slots, limits, drain, truth of the answer, refinement of `RequestPromise`; is every request answered, does a shutdown drain? | 170,798 |
| `MCServices` | is a change ever neither on its way nor counted as lost; is every directory watched at rest or for a named reason not; are budgets kept, and do processes end with their project? | 140,029 |
| `MCRecoveryLane` | is the newest text on record at rest and after a shutdown, is cleanup not undone, does an edit reach the disk, does shutdown end? | 98,721 |
| `MCFileLane` | one operation, reservations, every change reported; does a deferred check run, does a save end? | 452,564 |
| `MCFiles` | whole files, true outcomes, overwrites only in the last window; all-or-nothing mutations; recovery decisions over their own baseline; captures of one moment if a pass was quiet, a review of what exists; does undo return the exact text, within the bounds and over a restart; do cursor, window, operators, registers and repetition fit the text? | 1,074,585 |
| `MCLanguageSync` | is every copy current or owed, is each answer applied to its text, is a question released? | 274,197 |
| `MCHosting` | late results, shadowed bindings, pending keys, captures of a pair, slots of a diagnostics job; does a cancel reach the editor, is a job decided once? dialogs answered once and placed inside; the window tree tiles its area; the selected row shows; no listing is stale without a read that is owed | 1,641,006 |
| `MCRecoveryReopen`, `MCFileDiff`, `MCMixedDiff`, `MCSharedText`, `MCSequenceOwner` | sentences of the documentation, see [below](#disagreements-with-the-documentation) | violated |

Some properties of a sum join the invariants of two parts: `ComparisonInvariant` of `MCFiles` is that of `DiffCapture` and `Review`,
`InputInvariant` of `MCHosting` those of `KeyInput` and `BindingComposition`, and its `LayoutInvariant`
those of `DialogGeometry`, `WindowTree` and `Sidebar`. `MCMixedDiff` and `MCSharedText` are
configurations of the module `MCFiles`, `MCSequenceOwner` one of `MCHosting`.

## Bounds

Every number is a constant of a configuration; nothing is bounded elsewhere.

- `Runtime`: one request of each kind, one delivery slot and one permit of each kind, so that
  every refusal happens and every kind waits for every other. A request is submitted once;
  identity is never reused in the code either.
- `WatchStream`: `StreamChanges` bounds the filesystem, and the queue bounds are so small that
  each overflow happens within it. Two directories are needed for the bound of a burst.
- `WatchRegistration`: a root with two children, one of them with a child; four changes; the
  limit is one below the number of directories.
- `LspProject`: two drivers over one root, a budget of two processes, one server with one
  restart, a result queue of one, so that a driver can wait for a full queue while the other
  opens.
- `RecoveryLane`: `Edits` bounds the texts and so the clock; two identities are one close and
  reopen.
- `FileLane`: two buffers (a run has a first and a rest), two slots (a save and a mutation, or
  one of them and a queued event), `UnpublishedMax` changes without a fact.
- `DurableSave`: two edits give a text on disk, a text on record and a newer one; two changes
  of the file are one that is met by a check and one in the window after it.
- `Mutation`: two entries (one that is done and one that fails), two changes of other programs
  (one at an origin and one at a destination, or two at one name). Nothing in the code depends
  on the number of entries but the order of the loops.
- `RecoveryDecision`: two texts on disk, three loads, one edit between two of them, one event
  in the host's queue. `DiffCapture`: the code's three attempts, three changes where the index is compared with HEAD
  and two otherwise: one pass is quiet and the other two are not, or a retry follows. Four and
  three changes give 3.4 and 2 million states and the same result. `MCMixedDiff` has five changes of
  HEAD alone. `Review`: bodies of no and of two rows over captures
  with a file that loses, gains and keeps hunks.
- `LanguageSync`: one server, queues of one, one restart, two revisions, one question: every
  queue overflows and every message can be overtaken by a revision.
- `DiagnosticsHub`: two calls of two revisions, one server with any completion policy, one
  restart, two pulls. `HostCommands`: two sessions, three requests, two searches.
  `BindingComposition`: sequences of two over two keys, two host bindings. `KeyInput`: one
  key of each class that the code tells apart, two bindings of a host, counts to eleven, so that a
  second digit follows. `ReviewCapture`: two pairs of two
  captures of two steps, three slots, four events.
- `Facade`: two dialogs of two choices. `DialogGeometry`: every area of up to sixteen columns, and
  integers that end at 20 so that a sum may overflow. `WindowTree`: three windows to a depth of two, three areas of
  which one is empty. `Sidebar`: heights of 0, 1, 3 and 4 rows. `FileTree`: three names in three levels, two
  pending reads, three operations of the user and one disturbance.
- `TextHistory`: two entries and three bytes of history, two transactions. `Editing`: nine
  scenarios, each with the few keys that make its hazard, over texts of at most fourteen
  characters; `EditLayouts` chooses those with one window, with two windows over two buffers,
  or, in `MCSharedText` alone, two windows over one buffer.

Deadlock is not checked: every model may stop, when its bounded inputs are used up or the
program has ended.

## Fairness

Each fair specification states fairness of what really goes on by itself, and nothing of the
user, of other programs, of failures or of deadlines. `Runtime`: the tasks it polls, threads
that run, the receiver. `MCServices`: the watcher's callback, its task and its window, the
consumer, the walk; for a project, the steps of its drivers and supervisor, an attempt once it
is cancelled, and the exit of a child that was killed. `RecoveryLane` and `FileLane`: the driver
that dispatches and receives, the workers, a host that takes events, the shutdown loop.
`LanguageSync`: the dispatch weakly; the application of an event strongly, because the loop's
`select!` is unbiased and other sources disable it only for a moment; and strongly the work of a
session on its own queue and deadlines, which its server may delay but not flood for ever. The
other runs check no liveness. Where a closure or a child may run for ever, the property says so.

## Proofs

Eight modules hold proofs, 67 theorems in all; `theorems` in `PROJECT.json` lists most of them with
the property that each states. Each module proves type correctness, the safety invariant of its
component, and where there is one an action property, for every value of the constants that the
named assumption of the module admits. The argument has the same shape everywhere: an inductive
invariant, most often a conjunction of named parts; one lemma per action or group of actions and
per part; lemmas about the operators that many actions share; and theorems that read off the
properties. TLC checked each inductive invariant on the small instance first.

| Module | About | Obligations |
|---|---|---|
| `RuntimeProofs` | `Runtime` and its refinement of `RequestPromise` | 1312 |
| `WorkspaceProofs` | `DurableSave`, `RecoveryDecision`, `Mutation` | 2436 |
| `RecoveryLaneProofs` | `RecoveryLane` | 1668 |
| `FileLaneProofs` | `FileLane` | 1012 |
| `LanguageProofs` | `LanguageSync`, one server | 3321 |
| `ServicesProofs` | `WatchStream`, `WatchRegistration`, `LspProject` | 1868 |
| `HostingProofs` | `DiagnosticsHub`, `ReviewCapture`, `HostCommands`, `Facade` | 2618 |
| `InputProofs` | `BindingComposition`, `KeyInput` | 1980 |

**Runtime.** For every set of requests, queue size and limit: slots are accounted for, one event
for each request, commits are reported, work stays within limits, the drain is complete, no
obsolete value is delivered (`ObsoleteValuesStay`), and the refinement (`PromiseIsKept`). The kinds
of requests are finite and disjoint and the limits are positive (`RuntimeAssumption`).
`ResultSlotsAccounted` counts slots and says nothing of who holds one, so a step that sends an
event could not be shown to free exactly one; the strengthening states for each task state what
its work may be, whether its event was sent, and that free slots, held slots and queued events
add up. The counting rests on lemmas about the cardinality of a set that gains or loses one
member. For the refinement, `AnswersMean` ties answer and effect to the states of task and work;
then each step that changes `Status`, `Answer` or `Effect` is one step of the promise, and every
other step stutters.

**DurableSave.** For any number of edits and of changes by other programs: files are whole,
outcomes are true, only races are overwritten, promised text survives. None is inductive alone.
`Phases` says of each step what its temporary file is and whether it had an effect, which the
outcomes and the whole files need; `Seen` says what the rename may find, `Intent` that an operation
writes the newest text and that a deletion belongs to a saved one, and `Placed` where that text
lies at each step: with it, a deleted record is one that the file no longer needs.

**RecoveryDecision.** For any texts on disk and any bounds: an answer that the gate accepts finds the
text that the user was asked about, a candidate is heard, and an owed record stays until its
decision (`RecoveryCorrect`). The gate compares identities only, so `FreshIsBase` says that a
buffer at revision 0 holds the text it was loaded with, `OfferedFresh` that a candidate was
offered with such a buffer, and `OwedIsAlone` that no operation waits that would replace an owed
record.

**RecoveryLane.** For any number of opens and edits, with failures or without. `CompletionsMatch`
and `NewestRetained` need no assumption; `NewestKept` and `DrainKeeps` assume `~ReopenEarly`, and
`LaneCorrect` also `~QuitMidSave`, the two sequences that break the sentences below. `Aligned` ties
the state of each lane to its job and record, `RevisionsInOrder` orders submitted, completed and
current texts, `OneActive` says that without an early reopen one identity at a time has a lane,
`JobEffect` what a running job may have done to the record, `CleanedHolds` that a cleaned lane
stays clean, and `DrainedIsIdle` what a finished drain leaves.

**FileLane.** For any outbox and any buffers: `ReservationsHeld`, `OneOperationAtATime`,
`ChangesReported` and their conjunction `FileLaneCorrect`. `Kept` counts the reservation with its
owner, and `InStep` ties the session's pending operation to the job and the result under way.

**Mutation.** For any number of entries, failures and changes by other programs. An entry is
followed by position: `Flow` says which entries the program counter has passed, and for each entry
`ParkedInTime`, `SourceInPlace`, `SourceKept`, `OldInPlace`, `OldKept` and `InShape` say where the
moved and the overwritten content lie in each phase of staging, commit and unwind. From them
follow `SourcesSurvive`, `NoHalfResults`, `MutationOutcomesAreTrue` and `MutationCorrect`.

**Watcher.** `WatchStream` for any queue bounds: `Counted` relates the two counters to what was
lost, `BatchInTime` the batch to the window, and `AllAccounted` says of every unseen directory where its report
is. `WatchRegistration` for any tree and limit: `KnownFits`, `BatchInOrder` and `AllCovered`, by
which a directory without a watch is in the batch, still to be found by the walk, or lapsed. That a
walk which has ended leaves nothing to find uses that the tree has no cycle, as its assumption
states.

**LspProject.** For any projects, drivers, servers and budgets: `BudgetIsHeld` equates the budget
with what the open handles reserved, `ChildrenAreOwned` gives each live child the attempt that will
end it, `OneEach`, `RestartsLeft` and `Unopened` bound what an attempt may find.

**LanguageSync.** For one server (`ServerCount = 1`: with two, each sentence fails, see
[below](#disagreements-with-the-documentation)) and every size of the queues, every number of
restarts, revisions and questions: `SyncCorrect` and `AnswersCorrect`. That a copy is current or owed is
not inductive. `Linked` says that each change in the request queue starts from the text that the
synchronization before it left, the first one from the copy; `Arrives` that the last one leaves the
text which the outbox continues; `Opened` that an open stands behind every close. The three are
operators of a session and a queue, with one lemma each for a request that joins the queue and one that
leaves it, and `Owed` states them as long as no resync mark and no unheard restart stands for them.
`OutboxInOrder` lists the five shapes of the outbox: a change in it is the one of this iteration, and
a drift or a full queue replaces it by the mark before the passes are spent. For the answers,
`IsClient` says that the server holds the text of the copy, `Replies` that a reply in the wire
describes the revision its request was made for, if that is still the copy's, and `Identified` that
whatever travels under the newest identity asks the open question. `Awaited` names what will bring
the answer of an accepted question.

**DiagnosticsHub.** For any calls, servers, policies, restarts and pulls: an open slot has somebody
that will fill it, a report describes the text of its request (`OwnText`), and no job or slot is
decided twice (`EndedOnce`, an action property). `Begun`, `Awaited`, `ActiveBegun`, `Started` and
`Complete` relate a job to the calls that wait for it, `Serving` and `OpenSlotIsServed` a slot to its
conversation.

**ReviewCapture.** For any number of requests, steps, slots and events: the two halves on the
screen are of one request, a request that did not end has one place for each missing half, one
that ended is over, and the bounds hold (`CaptureCorrect`). `OnePlace` and `HasPlace` say it half
by half: a missing half of the active request waits or works, never both and never twice, and a
half that has its candidate does neither.

**HostCommands.** For any queries, sessions, requests and searches: files that a host takes answer
its newest request in the session that is open, and the tree searches exactly for the active
search. `WalkIsOwned` gives a walk that was asked for to the newest request of the open session,
and from its submission the slot of completions to it alone; so a result that the gate accepts is
the one of that request, in whatever order walks end. `SearchesWereBegun` makes the next identity
of a search a new one.

**Facade.** For any requests, areas and numbers of dialogs and generations: what a host holds and
still counts as current was made for the editor and the dialog of this moment, and an answer is
delivered for its own dialog (`FacadeCorrect`). `AddressedIsSeen` says that a held context is no newer than
the last one read, and of the same editor and dialog if it is as new: since a read that finds
either moved takes a new number, equal numbers mean equal contexts. `DialogIsSound` says that an
open dialog waits behind no answer, fits, and was drawn in no generation but this one.

**BindingComposition.** For any finite table of the editor, any contributions and any winners: an
accepted table is unambiguous, only losers of a named winner are missing, and the last two refusals
never happen. That the registry reads neighbours alone loses nothing (`NeighboursDecide`): of the
pairs in which one sequence starts another, one with the fewest sequences between them has none.

**KeyInput.** For any table of a host and any bounds: `KeyInputInvariant` and, as an action property,
`CancelReachesEditor`. `OperatorIsOpen` says that a waiting operator stands behind no question, no
line and no register, so the cancel that ends it reaches the editing state; `IsLinked` that reducer
and session agree on the question and the line (the published mode may lag, which `ContextIsTrue`
below is about); `HeldIsAllowed` and `PrefixIsInOrder` what a decision or a prefix that counts as
current may still rely on; `IsPending` that the keys of a prefix start a binding of its owner.
`InputCorrect` joins the two for the property of the run.

Only model-checked: liveness, because the prover has neither fairness nor ENABLED; and the
modules without a proof module: `DiffCapture`, `Review`, `DialogGeometry`, `WindowTree`,
`Sidebar`, `FileTree`, `TextHistory` and `Editing`. That of `DiffCapture` holds because the
fingerprint of a quiet pass fixes the candidate, which the model computes from the whole
repository; it is left to TLC. The others are built from recursive operators, folds and sums over trees, rows and
texts, and what they compute needs induction over data, which is out of the prover's reach. With
two servers the sentences of `LanguageSync` fail, as said above. The proofs
found errors of the model that TLC had not: an effect of `Runtime`, the verdict of a composition,
the scopes of `KeyInput` and a resize and the refusals of `Facade` were read by a CASE with overlapping guards, of which TLC takes the first
and the logic any one.

## Disagreements with the documentation

Five violation runs show the ones that lose text, publish what never was or end the program, and
one comment that contradicts the code it stands above; `findings` in `PROJECT.json` quotes the
sentence and the line.

- Closing and reopening a file leaves two lanes over one record, and the old deletion can remove
  the new text (`MCRecoveryReopen`).
- The failure of a diff capture abandons a running save, whose write is then unreported
  (`MCFileDiff`), and leaks or drops a reservation.
- An edit in one window leaves the cursor of another window over the same text behind its end,
  where the next reconciliation reads a line that is gone (`MCSharedText`).
- A HEAD that returns before each pass of a capture reads it, and is away again for the diff of
  that pass, gives three equal fingerprints and a candidate that names one commit and holds the
  lines of another (`MCMixedDiff`; docs/git.md:166, diff_capture.rs:16-18).
- The comment of `Resolver::dispatch` says that a sequence never changes its owner in the middle
  (resolver.rs:1114-1115). The code finds the owner again for every key, as docs/input-actions.md
  wants it, so where a host's group shares its first key with the editor the comment is wrong
  (`MCSequenceOwner`).

Further sentences are stated at the end of each module. None of them has a run here; each is
violated when its property is put into the configuration of the run of its module, with the
constant that the second column names. For an instantiated part of a sum it is put as `part = ... =>
Alias!Property`; `MCFiles` has `DeferKeepsTheRecord` and `ReadHunksWereMarked`, `MCHosting`
`UnboundAborts` and, in that form, `HiddenSidebarHasNoFocus`.

| Property | Under | What the code does |
|---|---|---|
| `Runtime`: `EveryRequestIsAnswered` | `MapMayPanic = TRUE` | a panicking map function of a process request loses its event (lib.rs:13) |
| `WatchStream`: `EveryChangeSeen` | as is | the loss of a displaced burst is reported by the next burst only (watch.rs:14-16) |
| `WatchStream`: `GapOnItsWay` | as is | the coverage of a displaced burst is never reported (watch.rs:1095-1096) |
| `WatchRegistration`: `EveryDirectoryWatched` | as is | a directory made between a listing and its watch is missed, and one that is removed and made again is taken for watched (docs/files.md:833-834) |
| `RecoveryLane`: `CleanedUp` | `QuitMidSave = TRUE` | a save that completes after a confirmed quit revives the discarded text (docs/files.md:463-465) |
| `RecoveryLane`: `DeferredIsKept` | as is | closing a clean buffer deletes a deferred record (docs/files.md:460) |
| `RecoveryLane`: `StaleIsRetained` | as is | an edit replaces a stale record (docs/files.md:460-462) |
| `RecoveryLane`: `OnlyNewerRetries` | as is | the assertion at session.rs:4358-4361 can fail when a save completes after its checkpoint failed |
| `RecoveryDecision`: `DeferKeepsTheRecord` | as is | an unload deletes the record of a deferred or stale candidate (docs/files.md:459-460); and no event slot is reserved before a deleting decision (docs/embedding.md:513) |
| `FileLane`: `SaveFindsNoSlot` | as is | a second save meets an assertion before the check that refuses it (session.rs:8184-8187) |
| `FileLane`: `WaitingSaveRuns` | as is | a formatter's answer can find the lane busy and drop the save (session.rs:7227, driver.rs:1437-1438) |
| `FileLane`: `FormattedIsSaved` | as is | after a switch it formats one buffer and saves another (session.rs:7227) |
| `FileLane`: `RunOwnsASave` | as is | an abandoned save leaves its run behind, and the next save goes on with it (session.rs:8243) |
| `Mutation`: `ReplacedIsKept` | as is | the check before a destructive step compares the path, whether it exists and its links; an entry that another program replaced passes it (mutation.rs:458-460) |
| `Mutation`: `SourceSurvives` | `N = 2`, `OtherChanges = 0` | a move over an existing destination whose unwind fails at one step loses the moved entry (mutation.rs:1298, docs/files.md:1072) |
| `DurableSave`: `OverwritesNothing` | as is | a change between the last check and the rename is replaced, and one before the identity is read is taken for the editor's own |
| `DurableSave`: `TextSurvivesPowerLoss` | as is | an atomic save does not synchronise its directory after the rename, a record does (docs/files.md:79) |
| `Review`: `PanelNamesBody` | as is | a motion of the cursor moves the panel to another file and leaves the body (docs/diff-view.md:221) |
| `Review`: `ReadHunksWereMarked` | as is | a relocation finds the lines of a mark inside a longer hunk and marks all of it (docs/diff-view.md:47, 59-61) |
| `Review`: `HeadersTellTheTruth` | as is | a mark is drawn at the header of another hunk of its file (docs/diff-view.md:45-48) |
| `Review`: `CursorSurvivesReload` | as is | a capture of the same files puts the cursor back on the first hunk (docs/diff-view.md:168-169) |
| `LspProject`: `CancelledProjectEnds` | as is | a driver that waits for room in its queue of results does not look at the token (project.rs:1041) |
| `DiagnosticsHub`: `AbandonedJobHoldsNothing` | `FairSpec` | a call behind a job whose deadline passed stays queued, because only the token ends the job (diagnostics.rs:812) |
| `DiagnosticsHub`: `WaitsUntilItsDeadline` | as is | a call that joined another call's job ends with the deadline of that call (diagnostics.rs:276) |
| `LanguageSync`: `QuestionIsAlwaysReleased` | as is | a session drops the requests of a document that closes, and the editor waits on (docs/language-services.md:1564) |
| `LanguageSync`: `QuestionIsAccountedFor` | `ServerCount = 2` | each server counts its requests, and an answer is stored by its number alone: that of the second server fills the slot of the first (docs/language-services.md:1564) |
| `LanguageSync`: `CopyIsCurrentOrOwed` | `ServerCount = 2` | the first server decides what a refusal means: when it has ended and the queue of the second is full, nothing opens the document again (docs/language-services.md:1114). With one server too, a late `publishDiagnostics` of a closed document can carry a version that fits the reopened one |
| `LanguageSync`: `AnswersDescribeTheirText` | `ServerCount = 2` | a hover that one server answered outlives an edit: only an answer releases an obsolete question, so the failure of the other server completes the merge and shows the old answer over the new text (session.rs:6162, 6336) |
| `KeyInput`: `UnboundAborts` | as is | an unbound key ends the operator in the reducer and not in the editor, where the next motion deletes text (session.rs:3859, docs/input-actions.md:518) |
| `KeyInput`: `CancelEndsIdle` | as is | the first cancel of a command line only closes its candidates, against the assertion at worktree.rs:3881 |
| `KeyInput`: `ContextIsTrue` | as is | a file that opens in Insert mode leaves the published context behind; and a step back leaves the phase of a text object (docs/input-actions.md:577) |
| `HostCommands`: `WalkMeetsItsLine` | as is | a walk can answer after its line was closed and opened again, against the assertion at session.rs:5051; and a refused or failed walk leaves its request unanswered |
| `Facade`: `PlacementNamesOneChoice` | `ChoicesMax = 4` and four choices, two of one identity | `Dialog::new` demands one place of the default and of cancel alone; a pointer over the repeated choice finds two, against the expectation of `drive_pointer` |
| `WindowTree`: `HiddenSidebarHasNoFocus` | as is | a sidebar that the area hides keeps the focus (window.rs:1096-1097) |
| `WindowTree`: `ResizeHidesNothing` | as is | a resize of one sidebar in an area too small for both hides it and shows the other (window.rs:1609) |
| `FileTree`: `NothingIsForgotten` | as is | a read that a full queue or a failed job drops is never repeated (docs/files.md:859-862) |
| `FileTree`: `SearchedIsOwed` | a match two directories deep | a search read that ends after a collapse opens the collapsed directory above it, whose listing was dropped |
| `FileTree`: `NothingWaitsIdle` | `HiddenNames = {"l"}` | a change of the hidden policy during a search queues reads that nothing starts |
| `FileTree`: `RenameIsOfItsEntry` | as is | a refresh can move the selection under an open rename prompt, whose answer then renames the new selection (session.rs:4640, 6989) |
| `TextHistory`: `SaveKeepsTheBytes` | a file of mixed line endings | its first line ends with `\r\n` and another with `\n`: a save rewrites every line (docs/text-model.md:141-145, 162) |

Some sentences of the editor have no property, because the module models the command and not
the sentence. The anchor of a window that lost the focus stays in `WindowState` while the
text changes, and a drag that goes on after a reload or a format reads a line behind the end. A
pending block insert goes stale when another event ends it or changes the text. In Visual mode
`d`, `D` and `C`, and `d$`, on an empty line remove its terminator (`\n` alone of `\r\n`) and can leave a text
without a final one (docs/text-model.md:145, 168-170; docs/input-actions.md:1164). An inclusive
range can cut a cluster (docs/text-model.md:131-134), and `w` and `e` stay on a line that begins
with a combining mark. `dd` in a window one line behind the end writes a line.

## What is not modelled

Painting, themes, grammars, parsers and settings transform data and carry no protocol. The
contents of files, paths and messages are abstracted to what the properties tell apart. The
worktree confinement of `kvim-path` is an assumption. Components marked `not_modelled` in
`PROJECT.json`, the terminal and the clipboard among them, are in the plan or explained there;
a component marked `partly` names in its note what is left out.
