------------------------------- MODULE FileLane -------------------------------
(***************************************************************************)
(* The file requests of one editor and the mandatory facts they publish:   *)
(* the session that runs one file operation at a time and reserves an      *)
(* outbox slot before each durable change (src/crates/kvim-tui/src/        *)
(* session.rs), the event queue (embed.rs, EditorOutbox), the dispatch to  *)
(* the worker service and the routing of its results (driver.rs).          *)
(*                                                                         *)
(* A file request is a save of one buffer or a read (an open, a reload, or *)
(* the check of every buffer after a workspace change).  The tree mutation *)
(* is the other operation that holds a slot, and a diff capture is the     *)
(* process whose failure driver.rs routes to the file request.  Texts,     *)
(* paths, messages and what follows a save are left out; a directory read  *)
(* of the tree is one more reason why a mutation has to wait.              *)
(***************************************************************************)
EXTENDS Integers, FiniteSets, FiniteSetsExt

CONSTANTS
  Slots,     \* EDITOR_EVENTS_MAX
  Buffers,   \* the buffers that hold a file name
  MayFail,   \* whether a request can be refused or expire before it starts
  UnpublishedMax  \* bound of the model: unreported changes are counted up to it,
                  \* at least the two that a save and a mutation can leave

ASSUME FileAssumption ==
  /\ Slots \in Nat \ {0}
  /\ Buffers \subseteq Nat /\ IsFiniteSet(Buffers) /\ Buffers # {}
  /\ MayFail \in BOOLEAN
  /\ UnpublishedMax \in Nat /\ UnpublishedMax > 1

VARIABLES
  session,     \* the file state of the editor session and its outbox
  active,      \* the active buffer
  formatting,  \* the buffer whose save waits for its formatter, or None
  job,         \* the newest file request on the worker service
  displaced,   \* an older one, which the publication gate refuses
  tree,        \* the tree mutation
  phase,       \* running, draining (shutdown), closed
  unpublished, \* history: durable changes minus published facts
  struck       \* history: a failed capture abandoned a running file request

vars == <<session, active, formatting, job, displaced, tree, phase,
          unpublished, struck>>

None == [kind |-> "none"]
Read == [kind |-> "read"]
Save(b) == [kind |-> "save", buffer |-> b]
Requests == {Read} \cup {Save(b) : b \in Buffers}
Run(left) == [kind |-> "run", left |-> left]

Init ==
  /\ session = [pending |-> None, outbox |-> None, slot |-> FALSE, mutation |-> FALSE,
                run |-> None, due |-> FALSE, reserved |-> 0, queued |-> 0]
  /\ active \in Buffers
  /\ formatting = None
  /\ job = None
  /\ displaced = None
  /\ tree = "idle"
  /\ phase = "running"
  /\ unpublished = 0
  /\ struck = FALSE

-----------------------------------------------------------------------------
(* The outbox and the request state, as functions of the session s. *)

\* EditorOutbox::free.
Free(s) == Slots - s.queued - s.reserved

\* EditorOutbox::release, of the write slot.
Release(s) == IF s.slot THEN [s EXCEPT !.slot = FALSE, !.reserved = @ - 1] ELSE s

\* EditorOutbox::commit, of the write slot: publish_write and
\* publish_save_reconciliation publish nothing without one.
Publish(s) ==
  IF s.slot THEN [s EXCEPT !.slot = FALSE, !.reserved = @ - 1, !.queued = @ + 1] ELSE s

\* queue_file_request.
Queue(s, request) == [s EXCEPT !.pending = request, !.outbox = request]

\* Mutant: the slot is taken whether or not one is free.
BeginSaveAlways(s, b) ==
  IF s.pending # None THEN s
  ELSE [Queue(s, Save(b)) EXCEPT !.slot = TRUE, !.reserved = @ + 1]

\* start_buffer_save: refused while a file operation runs or no slot is free.
BeginSave(s, b) ==
  IF s.pending # None \/ Free(s) = 0 THEN s
  ELSE [Queue(s, Save(b)) EXCEPT !.slot = TRUE, !.reserved = @ + 1]

\* The run of save_all_buffers exists only if its save was accepted.
BeginRun(s, b, left) ==
  LET next == BeginSave([s EXCEPT !.run = None], b)
  IN  IF next.pending = None THEN next ELSE [next EXCEPT !.run = Run(left)]

\* Mutant: the buffer that was written stays in the run.
AdvanceForever(s) ==
  IF s.run = None \/ s.run.left = {} THEN [s EXCEPT !.run = None]
  ELSE BeginRun(s, Min(s.run.left), s.run.left)

\* advance_save_all: the next buffer of a run of saves.
Advance(s) ==
  IF s.run = None \/ s.run.left = {} THEN [s EXCEPT !.run = None]
  ELSE BeginRun(s, Min(s.run.left), s.run.left \ {Min(s.run.left)})

\* start_watch_reload: the check follows the operation that already runs.
Check(s) ==
  IF s.pending # None THEN [s EXCEPT !.due = TRUE] ELSE [Queue(s, Read) EXCEPT !.due = FALSE]

\* Mutant: a check that had to wait is not taken up again.
FollowUpNever(s) == s

FollowUp(s) == IF s.due THEN Check(s) ELSE s

\* Mutant: the slot of a request without a result is never released.
AbandonedLeak(s) == FollowUp([s EXCEPT !.pending = None, !.outbox = None, !.slot = FALSE])

\* Mutant: the session goes on waiting for the abandoned request.
AbandonedWaits(s) == FollowUp([Release(s) EXCEPT !.outbox = None])

\* abandon_file_request.
Abandoned(s) == FollowUp([Release(s) EXCEPT !.pending = None, !.outbox = None])

\* Mutant: an uncertain save publishes no fact.
AppliedUncertainSilent(s, outcome) ==
  LET free == [s EXCEPT !.pending = None]
  IN  FollowUp(CASE outcome = "done" -> free
                 [] outcome = "written" -> Advance(Publish(free))
                 [] outcome = "unchanged" -> [Release(free) EXCEPT !.run = None]
                 [] outcome = "uncertain" -> [Release(free) EXCEPT !.run = None, !.due = TRUE])

\* apply_file_result: publish_file_result, publish_save, then the check that
\* waits.  An uncertain save asks for a check itself.
Applied(s, outcome) ==
  LET free == [s EXCEPT !.pending = None]
  IN  FollowUp(CASE outcome = "done" -> free
                 [] outcome = "written" -> Advance(Publish(free))
                 [] outcome = "unchanged" -> [Release(free) EXCEPT !.run = None]
                 [] outcome = "uncertain" -> [Publish(free) EXCEPT !.run = None, !.due = TRUE])

\* The facts that a step of the session published.
Facts(old, new) == new.queued - old.queued

-----------------------------------------------------------------------------
(* Commands and workspace events. *)

\* An open or a reload: start_file_request.
StartRead ==
  /\ phase = "running"
  /\ session.pending = None
  /\ session' = Queue(session, Read)
  /\ UNCHANGED <<active, formatting, job, displaced, tree, phase, unpublished, struck>>

\* save_active, when its checks pass: the buffer formats first, or is saved.
StartSave ==
  /\ phase = "running"
  /\ Free(session) > 0
  /\ formatting = None
  /\ \/ /\ formatting' = [kind |-> "format", buffer |-> active]
        /\ UNCHANGED session
     \/ /\ session.pending = None
        /\ session' = BeginSave(session, active)
        /\ UNCHANGED formatting
  /\ UNCHANGED <<active, job, displaced, tree, phase, unpublished, struck>>

\* apply_format_result, or complete_query, or release_query: the save that
\* waited runs, of the buffer that is active now.
AnswerFormat ==
  /\ phase = "running"
  /\ formatting # None
  /\ formatting' = None
  /\ session' = BeginSave(session, active)
  /\ UNCHANGED <<active, job, displaced, tree, phase, unpublished, struck>>

\* save_all_buffers, over the buffers that are modified.
SaveAll ==
  /\ phase = "running"
  /\ session.pending = None
  /\ \E modified \in (SUBSET Buffers) \ {{}} :
       LET next == BeginSave(session, Min(modified))
       IN  session' = IF next.pending = None THEN session
                      ELSE [next EXCEPT !.run = Run(modified \ {Min(modified)})]
  /\ UNCHANGED <<active, formatting, job, displaced, tree, phase, unpublished, struck>>

\* A burst of workspace changes.
WatchBurst ==
  /\ phase = "running"
  /\ session' = Check(session)
  /\ session' # session
  /\ UNCHANGED <<active, formatting, job, displaced, tree, phase, unpublished, struck>>

Switch ==
  /\ phase = "running"
  /\ active' \in Buffers \ {active}
  /\ UNCHANGED <<session, formatting, job, displaced, tree, phase, unpublished, struck>>

\* The host reads one event.
TakeEvent ==
  /\ session.queued > 0
  /\ session' = [session EXCEPT !.queued = @ - 1]
  /\ UNCHANGED <<active, formatting, job, displaced, tree, phase, unpublished, struck>>

-----------------------------------------------------------------------------
(* The file request on the worker service. *)

\* submit_file_work: the gate displaces an older request before the service
\* accepts or refuses the new one.  The model keeps one displaced request.
Submit ==
  /\ phase = "running"
  /\ session.outbox # None
  /\ displaced = None
  /\ displaced' = job
  /\ \/ /\ job' = [kind |-> "job", request |-> session.outbox, at |-> "accepted"]
        /\ session' = [session EXCEPT !.outbox = None]
     \/ /\ MayFail
        /\ job' = None
        /\ session' = Abandoned([session EXCEPT !.outbox = None])
  /\ UNCHANGED <<active, formatting, tree, phase, unpublished, struck>>

\* What a job that is not answered yet ends with.  A save commits by starting;
\* before that it can expire, or the shutdown or a newer request cancels it.
Outcomes(request, cancelled) ==
  (IF request = Read THEN {"done"} ELSE {"written", "unchanged", "uncertain"})
    \cup (IF MayFail \/ cancelled THEN {"failed"} ELSE {})

Effect(at) == IF at \in {"written", "uncertain"} THEN 1 ELSE 0

After(at) == Min({unpublished + Effect(at), UnpublishedMax})

RunFile ==
  /\ job.kind = "job"
  /\ job.at = "accepted"
  /\ \E at \in Outcomes(job.request, phase = "draining") :
       /\ job' = [job EXCEPT !.at = at]
       /\ unpublished' = After(at)
  /\ UNCHANGED <<session, active, formatting, displaced, tree, phase, struck>>

RunDisplaced ==
  /\ displaced.kind = "job"
  /\ displaced.at = "accepted"
  /\ \E at \in Outcomes(displaced.request, TRUE) :
       /\ displaced' = [displaced EXCEPT !.at = at]
       /\ unpublished' = After(at)
  /\ UNCHANGED <<session, active, formatting, job, tree, phase, struck>>

\* complete: the gate accepts the newest request.
CompleteFile ==
  /\ phase # "closed"
  /\ job.kind = "job"
  /\ job.at # "accepted"
  /\ job' = None
  /\ session' = IF job.at = "failed" THEN Abandoned(session) ELSE Applied(session, job.at)
  /\ unpublished' = unpublished - Facts(session, session')
  /\ UNCHANGED <<active, formatting, displaced, tree, phase, struck>>

DropDisplaced ==
  /\ phase # "closed"
  /\ displaced.kind = "job"
  /\ displaced.at # "accepted"
  /\ displaced' = None
  /\ UNCHANGED <<session, active, formatting, job, tree, phase, unpublished, struck>>

-----------------------------------------------------------------------------
(* The tree mutation, and a diff capture that fails. *)

\* queue_tree_mutation_result.
StartMutation ==
  /\ phase = "running"
  /\ ~session.mutation
  /\ tree = "idle"
  /\ Free(session) > 0
  /\ session' = [session EXCEPT !.mutation = TRUE, !.reserved = @ + 1]
  /\ tree' = "queued"
  /\ UNCHANGED <<active, formatting, job, displaced, phase, unpublished, struck>>

ReleaseMutation(s) == [s EXCEPT !.mutation = FALSE, !.reserved = @ - 1]
PublishMutation(s) == [s EXCEPT !.mutation = FALSE, !.reserved = @ - 1, !.queued = @ + 1]

\* submit_workspace_work; abandon_workspace_request asks for no check.
SubmitMutation ==
  /\ phase = "running"
  /\ tree = "queued"
  /\ \/ tree' = "accepted" /\ UNCHANGED session
     \/ MayFail /\ tree' = "idle" /\ session' = ReleaseMutation(session)
  /\ UNCHANGED <<active, formatting, job, displaced, phase, unpublished, struck>>

RunMutation ==
  /\ tree = "accepted"
  /\ tree' \in {"written", "unchanged", "uncertain"}
               \cup (IF MayFail \/ phase = "draining" THEN {"failed"} ELSE {})
  /\ unpublished' = After(tree')
  /\ UNCHANGED <<session, active, formatting, job, displaced, phase, struck>>

\* apply_workspace_result and publish_mutation, or abandon_workspace_request.
CompleteMutation ==
  /\ phase # "closed"
  /\ tree \in {"written", "unchanged", "uncertain", "failed"}
  /\ tree' = "idle"
  /\ session' =
       CASE tree = "failed" -> ReleaseMutation(session)
         [] tree = "unchanged" -> FollowUp(ReleaseMutation(session))
         [] tree = "written" -> FollowUp(PublishMutation(session))
         [] tree = "uncertain" -> FollowUp([PublishMutation(session) EXCEPT !.due = TRUE])
  /\ unpublished' = unpublished - Facts(session, session')
  /\ UNCHANGED <<active, formatting, job, displaced, phase, struck>>

\* complete: a captured diff reaches the review alone; a capture that fails,
\* expires or is cancelled by the shutdown matches no arm of its own and abandons
\* the file request.  A capture may run at any time; the bound of the model is
\* the first that strikes a request.
FailDiff ==
  /\ phase # "closed"
  /\ ~struck
  /\ session' = Abandoned(session)
  /\ struck' = (struck \/ session.pending # None)
  /\ UNCHANGED <<active, formatting, job, displaced, tree, phase, unpublished>>

-----------------------------------------------------------------------------
(* Shutdown. *)

Shutdown ==
  /\ phase = "running"
  /\ phase' = "draining"
  /\ UNCHANGED <<session, active, formatting, job, displaced, tree, unpublished, struck>>

\* The tracked tasks have ended and their results are drained.
Close ==
  /\ phase = "draining"
  /\ job = None /\ displaced = None /\ tree \in {"idle", "queued"}
  /\ phase' = "closed"
  /\ UNCHANGED <<session, active, formatting, job, displaced, tree, unpublished, struck>>

Next ==
  \/ StartRead \/ StartSave \/ AnswerFormat \/ SaveAll \/ WatchBurst \/ Switch \/ TakeEvent
  \/ Submit \/ RunFile \/ RunDisplaced \/ CompleteFile \/ DropDisplaced
  \/ StartMutation \/ SubmitMutation \/ RunMutation \/ CompleteMutation
  \/ FailDiff
  \/ Shutdown \/ Close

Spec == Init /\ [][Next]_vars

\* The driver dispatches and applies results, the workers work.
FairSpec ==
  /\ Spec
  /\ WF_vars(Submit) /\ WF_vars(RunFile) /\ WF_vars(CompleteFile)
  /\ WF_vars(RunDisplaced) /\ WF_vars(DropDisplaced)

-----------------------------------------------------------------------------
(* Correctness. *)

States == {"accepted", "done", "written", "unchanged", "uncertain", "failed"}
Jobs == {None} \cup [kind : {"job"}, request : Requests, at : States]

TypeOK ==
  /\ session \in [pending : Requests \cup {None}, outbox : Requests \cup {None},
                  slot : BOOLEAN, mutation : BOOLEAN,
                  run : {None} \cup [kind : {"run"}, left : SUBSET Buffers],
                  due : BOOLEAN, reserved : 0 .. Slots, queued : 0 .. Slots]
  /\ session.reserved + session.queued <= Slots
  /\ active \in Buffers
  /\ formatting \in {None} \cup [kind : {"format"}, buffer : Buffers]
  /\ job \in Jobs /\ displaced \in Jobs
  /\ tree \in {"idle", "queued"} \cup States
  /\ phase \in {"running", "draining", "closed"}
  /\ unpublished \in 0 .. UnpublishedMax
  /\ struck \in BOOLEAN

One(condition) == IF condition THEN 1 ELSE 0

\* Every reservation is held by the running save or the running mutation, so no
\* sequence of refused, failed, abandoned and completed operations leaks one;
\* unless a failed capture struck a request: the next save may then take its
\* slot while an older result is on its way, and the save after it drops one.
ReservationsAreHeld ==
  ~struck => session.reserved = One(session.slot) + One(session.mutation)

\* The durable changes whose result is still under way.
UnderWay ==
  Cardinality({k \in {"file", "displaced", "tree"} :
    CASE k = "file" -> job # None /\ Effect(job.at) = 1
      [] k = "displaced" -> displaced # None /\ Effect(displaced.at) = 1
      [] k = "tree" -> Effect(tree) = 1})

\* "A completed write can never lose that fact" (start_buffer_save): whatever
\* fails, saturates or shuts down, the changes that no fact reports yet are
\* exactly those whose result is still under way, so each publishes once;
\* unless a failed capture struck the request.
EveryChangeIsReported == ~struck => unpublished = UnderWay

\* "The editor runs one file operation at a time": the operation that the
\* session waits for is the one in the outbox or on the service, so no command
\* is refused because of a request that nobody runs, and no request runs that
\* the session no longer waits for; unless a failed capture struck it.
OneFileOperation ==
  ~struck =>
    /\ displaced = None
    /\ session.pending # None => \/ session.outbox = session.pending /\ job = None
                                 \/ session.outbox = None /\ job # None /\
                                    job.request = session.pending
    /\ session.pending = None => session.outbox = None /\ job = None
    /\ session.slot <=> session.pending.kind = "save"

\* One operation at a time, no reservation without it, and a fact for each change.
FileInvariant == TypeOK /\ ReservationsAreHeld /\ EveryChangeIsReported /\ OneFileOperation

\* "The check follows the operation that already runs" (start_watch_reload).
CheckFollows == session.due ~> (~session.due \/ phase # "running")

\* A save, and a run of saves, comes to an end.
SaveEnds ==
  session.pending.kind = "save" ~> (session.pending.kind # "save" \/ phase # "running")

-----------------------------------------------------------------------------
(* Sentences of the documentation that the code does not keep. *)

\* "A completed write can never lose that fact" (start_buffer_save), whatever
\* else fails meanwhile.
NoWriteIsLost == unpublished = UnderWay

\* "The run exists only while its save runs" (save_all_buffers), so no later
\* save of one buffer goes on writing the others.
RunOwnsASave == session.run # None => session.pending.kind = "save"

\* "The editor runs one file operation at a time" (the assertion at the start of
\* start_buffer_save): no save command reaches it while a write holds its slot.
SaveFindsNoSlot ==
  phase = "running" /\ Free(session) > 0 /\ formatting = None => ~session.slot

\* "The save that waited for the formatter follows every path"
\* (apply_format_result).
WaitingSaveRuns ==
  [][formatting # None /\ formatting' = None => session'.pending.kind = "save"]_vars

\* The save that waited for the formatter writes the buffer that it formatted.
FormattedIsSaved ==
  [][formatting # None /\ formatting' = None /\ session.pending = None
       /\ session'.pending.kind = "save"
     => session'.pending.buffer = formatting.buffer]_vars
=============================================================================
