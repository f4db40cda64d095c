---------------------------- MODULE RecoveryLane ----------------------------
(***************************************************************************)
(* Unsaved-edit recovery of one file: the checkpoint lifecycle of a buffer *)
(* (src/crates/kvim-tui/src/session.rs, RecoveryState), the committing     *)
(* worker lane that runs the checkpoints (driver.rs), the record on disk   *)
(* (kvim-workspace, recovery.rs), the decision about a record found at an  *)
(* open, and the saves, closes, drains and crashes around them.            *)
(*                                                                         *)
(* A text is a number: the number of the change that made it.  Buffer      *)
(* identities grow during one run of the editor, so a file that is closed  *)
(* and opened again has a new identity, while the record stays the same    *)
(* file.  Each buffer has its own publication slot and at most one         *)
(* submitted checkpoint; checkpoints of different buffers run on different *)
(* workers in any order.  The lane holds more workers and result slots     *)
(* than the model has buffers, so no submission is refused here.  Size     *)
(* limits, invalid records, renames and a missing file are left out.       *)
(***************************************************************************)
EXTENDS Integers, FiniteSets

CONSTANTS
  MaxId,        \* bound of the model: opens in one run of the editor
  Edits,        \* bound of the model: changes of text and revision
  ReopenEarly,  \* whether the file can be opened again while the checkpoints
                \* of its closed buffer are still under way
  QuitMidSave,  \* whether the user can give up a text while a save runs
  MayFail       \* whether a durable operation can fail

Ids == 1 .. MaxId
Texts == 0 .. Edits

ASSUME LaneAssumption ==
  /\ {MaxId, Edits} \subseteq Nat \ {0}
  /\ {ReopenEarly, QuitMidSave, MayFail} \subseteq BOOLEAN

VARIABLES
  clock,      \* the number of the last change of text or revision
  file,       \* the text of the file
  record,     \* the recovery record on disk
  phase,      \* running, draining (shutdown), drained
  lastId,     \* the last buffer identity
  buffer,     \* the loaded buffer of the file
  candidate,  \* PendingRecovery of the buffer
  operation,  \* the running file operation: an open, a save or a reload
  lane,       \* RecoveryState of each buffer identity
  job,        \* the accepted checkpoint of each buffer identity
  cleaned,    \* history: a deletion of the record was promised and nothing
              \* was edited since
  discarded,  \* history: the user gave up the text of the buffer
  kept        \* history: a record the user was told is retained

volatile == <<lastId, buffer, candidate, operation, lane, job>>
history == <<cleaned, discarded, kept>>
vars == <<clock, file, record, phase, volatile, history>>

None == [at |-> "none"]
Record == [at : {"record"}, base : Texts, text : Texts]
Write(b) == [at |-> "write", base |-> b.base, text |-> b.text, rev |-> b.rev]
Delete(base, rev) == [at |-> "delete", base |-> base, text |-> 0, rev |-> rev]
Operation == [at : {"write", "delete"}, base : Texts, text : Texts, rev : Texts]

\* FileBuffer::is_modified: inval is an invalidated history baseline, mark is
\* the text at the save mark of the history.
Modified(b) == b.at = "open" /\ (b.inval \/ b.text # b.mark)

Closed == [at |-> "none", id |-> 0]
Idle == [i \in Ids |-> None]

Init ==
  /\ clock = 0
  /\ file = 0
  /\ record = None
  /\ phase = "running"
  /\ lastId = 0
  /\ buffer = Closed
  /\ candidate = None
  /\ operation = None
  /\ lane = Idle
  /\ job = Idle
  /\ cleaned = FALSE
  /\ discarded = FALSE
  /\ kept = None

-----------------------------------------------------------------------------
(* The checkpoint lifecycle of one buffer. *)

Queued(op) == [at |-> "queued", op |-> op]
Submitted(op, next) == [at |-> "submitted", op |-> op, next |-> next]
Paused(op) == [at |-> "paused", op |-> op]

\* queue_recovery_checkpoint: only a modified buffer has one, and a submitted
\* checkpoint stays ahead of it.
AfterEdit(state, b) ==
  CASE ~Modified(b) -> state
    [] Modified(b) /\ state.at = "submitted" -> Submitted(state.op, Write(b))
    [] OTHER -> Queued(Write(b))

\* Mutant: a submitted write has no cleanup after it.
SuppressedIgnored(state, b) ==
  CASE state.at = "none" -> Queued(Delete(b.base, b.rev))
    [] state.at = "submitted" -> state
    [] OTHER -> Queued([state.op EXCEPT !.at = "delete"])

\* suppress_recovery_checkpoint: the cleanup follows a submitted write.
Suppressed(state, b) ==
  CASE state.at = "none" -> Queued(Delete(b.base, b.rev))
    [] state.at = "submitted" ->
         Submitted(state.op, Delete(state.op.base, state.op.rev))
    [] OTHER -> Queued([state.op EXCEPT !.at = "delete"])

\* queue_recovery_delete, for an explicit discard of candidate c.
Disposed(state, c) ==
  IF state.at = "submitted" THEN Submitted(state.op, Delete(c.base, c.rev))
                            ELSE Queued(Delete(c.base, c.rev))

\* Mutant: what followed a committed checkpoint is forgotten.
CommittedForgets(state) == None

\* Mutant: a checkpoint without a successor is queued all the same.
CommittedQueues(state) == Queued(state.next)

\* apply_recovery_checkpoint, committed: the successor is next.
Committed(state) == IF state.next = None THEN None ELSE Queued(state.next)

\* Mutant: a failed attempt is tried again without a newer edit.
FailedRetries(state) == Queued(IF state.next = None THEN state.op ELSE state.next)

\* Mutant: the failed attempt is retained and its successor is not.
FailedKeepsOld(state) == Paused(state.op)

\* retain_failed_recovery: a failed attempt waits for a newer edit, a cleanup
\* that was to follow it does not.
Failed(state) ==
  CASE state.next = None -> Paused(state.op)
    [] state.next.at = "write" -> Paused(state.next)
    [] OTHER -> Queued(state.next)

SetLane(state) == lane' = [lane EXCEPT ![buffer.id] = state]

-----------------------------------------------------------------------------
(* Opening the file. *)

\* start_file_request: the editor runs one file operation at a time.
Start(op) ==
  /\ phase = "running"
  /\ operation = None
  /\ operation' = op
  /\ UNCHANGED <<clock, file, record, phase, lastId, buffer, candidate, lane, job,
                 history>>

\* OpenRequest::run reads the text and the record on a worker.
StartOpen ==
  /\ buffer = Closed
  /\ lastId < MaxId
  /\ ReopenEarly \/ \A i \in Ids : lane[i].at \in {"none", "paused"}
  /\ Start([at |-> "open", file |-> file, record |-> record])

\* publish_open and publish_recovery_candidate.
PublishOpen ==
  /\ phase = "running"
  /\ operation.at = "open"
  /\ LET found == operation.record
         stale == found # None /\ found.base # operation.file
     IN  /\ candidate' = IF found = None THEN None
                         ELSE [at |-> "candidate", base |-> found.base, stale |-> stale,
                               text |-> found.text, rev |-> clock]
         /\ kept' = IF stale THEN [found EXCEPT !.at = "stale"] ELSE None
  /\ lastId' = lastId + 1
  /\ buffer' = [at |-> "open", id |-> lastId + 1, text |-> operation.file,
                base |-> operation.file, mark |-> operation.file, inval |-> FALSE,
                rev |-> clock]
  /\ operation' = None
  /\ discarded' = FALSE
  /\ UNCHANGED <<clock, file, record, phase, lane, job, cleaned>>

\* decide_recovery: the complete address must still match, so a candidate of
\* an older revision or baseline can no longer be decided.
Decidable ==
  /\ phase = "running"
  /\ candidate # None
  /\ buffer.rev = candidate.rev

Restore ==
  /\ Decidable
  /\ ~candidate.stale
  /\ clock < Edits
  /\ clock' = clock + 1
  /\ LET b == [buffer EXCEPT !.text = candidate.text, !.rev = clock + 1]
     IN  buffer' = b /\ SetLane(AfterEdit(lane[b.id], b))
  /\ candidate' = None
  /\ cleaned' = FALSE
  /\ UNCHANGED <<file, record, phase, lastId, operation, job, discarded, kept>>

Discard ==
  /\ Decidable
  /\ SetLane(Disposed(lane[buffer.id], candidate))
  /\ candidate' = None
  /\ cleaned' = TRUE
  /\ kept' = None
  /\ UNCHANGED <<clock, file, record, phase, lastId, buffer, operation, job, discarded>>

Defer ==
  /\ Decidable
  /\ kept' = [at |-> "deferred", base |-> candidate.base, text |-> candidate.text]
  /\ candidate' = None
  /\ UNCHANGED <<clock, file, record, phase, lastId, buffer, operation, lane, job,
                 cleaned, discarded>>

-----------------------------------------------------------------------------
(* Editing, saving and reloading. *)

\* A change of the active buffer: a new text, or an undo back to the save mark.
Edit ==
  /\ phase = "running"
  /\ buffer # Closed
  /\ clock < Edits
  /\ clock' = clock + 1
  /\ \E text \in {clock + 1, buffer.mark} :
       LET b == [buffer EXCEPT !.text = text, !.rev = clock + 1]
       IN  /\ text # buffer.text
           /\ buffer' = b
           /\ SetLane(AfterEdit(lane[b.id], b))
  /\ cleaned' = FALSE
  /\ kept' = IF kept.at = "deferred" THEN None ELSE kept
  /\ UNCHANGED <<file, record, phase, lastId, candidate, operation, job, discarded>>

StartSave ==
  /\ buffer # Closed
  /\ Start([at |-> "save", id |-> buffer.id, base |-> buffer.base,
            text |-> buffer.text, rev |-> buffer.rev])

\* The worker replaces the file, or reports a conflict or a failure; a save that
\* has not committed when the driver shuts down is cancelled.
WriteFile ==
  /\ operation.at = "save"
  /\ \/ /\ file = operation.base
        /\ file' = operation.text
        /\ operation' = [operation EXCEPT !.at = "saved"]
     \/ /\ file # operation.base \/ MayFail \/ phase = "draining"
        /\ operation' = None
        /\ UNCHANGED file
  /\ UNCHANGED <<clock, record, phase, lastId, buffer, candidate, lane, job, history>>

\* publish_save: a current save cleans up, a stale one checkpoints again.
PublishSave ==
  /\ phase # "drained"
  /\ operation.at = "saved"
  /\ LET saved == [buffer EXCEPT !.base = operation.text]
         current == buffer.rev = operation.rev
         b == IF current THEN [saved EXCEPT !.mark = saved.text, !.inval = FALSE]
                         ELSE [saved EXCEPT !.inval = TRUE]
     IN  IF buffer.id # operation.id
           THEN UNCHANGED <<buffer, candidate, lane, cleaned, kept>>
           ELSE /\ buffer' = b
                /\ IF current
                     THEN /\ SetLane(Suppressed(lane[b.id], b))
                          /\ candidate' = None
                          /\ cleaned' = TRUE
                          /\ kept' = None
                     ELSE /\ SetLane(AfterEdit(lane[b.id], b))
                          /\ UNCHANGED <<candidate, cleaned, kept>>
  /\ operation' = None
  /\ UNCHANGED <<clock, file, record, phase, lastId, job, discarded>>

\* reload_active reads the file again, over unsaved changes only after the user
\* gave them up; start_watch_reload follows a changed file.
StartReload ==
  /\ buffer # Closed
  /\ \E discard \in BOOLEAN :
       /\ ~discard => ~Modified(buffer) /\ file # buffer.base
       /\ Start([at |-> "reload", id |-> buffer.id, file |-> file, rev |-> buffer.rev,
                 discard |-> discard])

\* accepts_reload and publish_reloaded_text: a buffer that changed while the
\* file was read keeps its text; a discarding reload cleans up.
PublishReload ==
  /\ phase = "running"
  /\ operation.at = "reload"
  /\ \/ /\ ~(buffer.id = operation.id /\ buffer.rev = operation.rev)
        /\ UNCHANGED <<clock, buffer, candidate, lane, cleaned, kept>>
     \/ /\ buffer.id = operation.id
        /\ buffer.rev = operation.rev
        /\ clock < Edits
        /\ clock' = clock + 1
        /\ LET b == [buffer EXCEPT !.text = operation.file, !.base = operation.file,
                                   !.mark = operation.file, !.inval = FALSE,
                                   !.rev = clock + 1]
           IN  /\ buffer' = b
               /\ IF operation.discard
                    THEN /\ SetLane(Suppressed(lane[b.id], b))
                         /\ candidate' = None
                         /\ cleaned' = TRUE
                         /\ kept' = None
                    ELSE UNCHANGED <<candidate, lane, cleaned, kept>>
  /\ operation' = None
  /\ UNCHANGED <<file, record, phase, lastId, job, discarded>>

\* Another program replaces the file.
ChangeFile ==
  /\ clock < Edits
  /\ clock' = clock + 1
  /\ file' = clock + 1
  /\ UNCHANGED <<record, phase, volatile, history>>

-----------------------------------------------------------------------------
(* Closing, shutdown and crashes. *)

\* remove_active_buffer: only an unmodified buffer is unloaded, and its
\* cleanup deletes the record of its target.
CloseBuffer ==
  /\ phase = "running"
  /\ buffer # Closed
  /\ ~Modified(buffer)
  /\ SetLane(Suppressed(lane[buffer.id], buffer))
  /\ candidate' = None
  /\ buffer' = Closed
  /\ UNCHANGED <<clock, file, record, phase, lastId, operation, job, history>>

\* The last window closes: with unsaved changes only after the user gave them
\* up, which cleans up first.  The driver then shuts down.
Quit ==
  /\ phase = "running"
  /\ QuitMidSave \/ operation.at \notin {"save", "saved"} \/ ~Modified(buffer)
  /\ IF Modified(buffer)
       THEN /\ SetLane(Suppressed(lane[buffer.id], buffer))
            /\ candidate' = None
            /\ discarded' = TRUE
            /\ cleaned' = TRUE
            /\ kept' = None
       ELSE UNCHANGED <<candidate, lane, history>>
  /\ phase' = "draining"
  /\ UNCHANGED <<clock, file, record, lastId, buffer, operation, job>>

\* A host shuts the driver down without asking about the buffers.
HostShutdown ==
  /\ phase = "running"
  /\ phase' = "draining"
  /\ UNCHANGED <<clock, file, record, volatile, history>>

\* Mutant: the drain waits for submitted checkpoints only.
EndDrainEarly ==
  /\ phase = "draining"
  /\ operation.at \notin {"save", "saved"}
  /\ \A i \in Ids : lane[i].at # "submitted"
  /\ phase' = "drained"
  /\ UNCHANGED <<clock, file, record, volatile, history>>

\* drive_recovery_until_idle ends once nothing is queued or submitted, after
\* the ordinary work, so after a save that committed has been published.
EndDrain ==
  /\ phase = "draining"
  /\ operation.at \notin {"save", "saved"}
  /\ \A i \in Ids : lane[i].at \in {"none", "paused"}
  /\ phase' = "drained"
  /\ UNCHANGED <<clock, file, record, volatile, history>>

Restart ==
  /\ phase' = "running"
  /\ lastId' = 0
  /\ buffer' = Closed
  /\ candidate' = None
  /\ operation' = None
  /\ lane' = Idle
  /\ job' = Idle
  /\ cleaned' = FALSE
  /\ discarded' = FALSE
  /\ UNCHANGED <<clock, file, record, kept>>

Crash == phase # "drained" /\ Restart
Exit == phase = "drained" /\ Restart

-----------------------------------------------------------------------------
(* The lane. *)

\* submit_recovery_work: the first queued buffer, in identity order.
Submit ==
  /\ phase # "drained"
  /\ phase = "draining" => operation.at \notin {"save", "saved"}
  /\ \E i \in Ids :
       /\ lane[i].at = "queued"
       /\ \A k \in Ids : k < i => lane[k].at # "queued"
       /\ lane' = [lane EXCEPT ![i] = Submitted(lane[i].op, None)]
       /\ job' = [job EXCEPT ![i] = [at |-> "accepted", op |-> lane[i].op]]
  /\ UNCHANGED <<clock, file, record, phase, lastId, buffer, candidate, operation,
                 history>>

\* The durable operation on a worker.  A failure proves nothing about the
\* record; a withdrawn job (its deadline passed in the queue) changed nothing.
RunJob(i) ==
  LET op == job[i].op
      after == IF op.at = "delete" THEN None
               ELSE [at |-> "record", base |-> op.base, text |-> op.text]
  IN  /\ job[i].at = "accepted"
      /\ \/ /\ record' = after
            /\ job' = [job EXCEPT ![i].at = "committed"]
         \/ /\ MayFail
            /\ record' \in {record, after}
            /\ job' = [job EXCEPT ![i].at = "failed"]
      /\ UNCHANGED <<clock, file, phase, lastId, buffer, candidate, operation, lane,
                     history>>

\* complete_recovery.
Complete(i) ==
  /\ phase # "drained"
  /\ job[i].at \in {"committed", "failed"}
  /\ lane' = [lane EXCEPT ![i] = IF job[i].at = "committed" THEN Committed(lane[i])
                                                           ELSE Failed(lane[i])]
  /\ job' = [job EXCEPT ![i] = None]
  /\ UNCHANGED <<clock, file, record, phase, lastId, buffer, candidate, operation,
                 history>>

LaneStep == Submit \/ \E i \in Ids : RunJob(i) \/ Complete(i)
SaveStep == WriteFile \/ PublishSave

Next ==
  \/ StartOpen \/ PublishOpen
  \/ Restore \/ Discard \/ Defer
  \/ Edit \/ ChangeFile \/ StartSave \/ StartReload \/ PublishReload
  \/ CloseBuffer \/ Quit \/ HostShutdown \/ EndDrain
  \/ Crash \/ Exit
  \/ LaneStep \/ SaveStep

Spec == Init /\ [][Next]_vars

\* The driver dispatches and receives, the workers work, the shutdown goes on.
FairSpec ==
  /\ Spec
  /\ WF_vars(Submit)
  /\ \A i \in Ids : WF_vars(RunJob(i)) /\ WF_vars(Complete(i))
  /\ WF_vars(SaveStep)
  /\ WF_vars(EndDrain)
-----------------------------------------------------------------------------
(* Correctness. *)

TypeOK ==
  /\ clock \in Texts /\ file \in Texts
  /\ record \in Record \cup {None}
  /\ phase \in {"running", "draining", "drained"}
  /\ lastId \in 0 .. MaxId
  /\ buffer \in {Closed} \cup [at : {"open"}, id : Ids, text : Texts, base : Texts,
                               mark : Texts, inval : BOOLEAN, rev : Texts]
  /\ candidate \in {None} \cup [at : {"candidate"}, base : Texts, stale : BOOLEAN,
                                text : Texts, rev : Texts]
  /\ operation \in {None} \cup [at : {"open"}, file : Texts, record : Record \cup {None}]
       \cup [at : {"save", "saved"}, id : Ids, base : Texts, text : Texts, rev : Texts]
       \cup [at : {"reload"}, id : Ids, file : Texts, rev : Texts, discard : BOOLEAN]
  /\ \A i \in Ids :
       /\ lane[i] \in {None} \cup [at : {"queued", "paused"}, op : Operation]
            \cup [at : {"submitted"}, op : Operation, next : Operation \cup {None}]
       /\ job[i] \in {None} \cup [at : {"accepted", "committed", "failed"}, op : Operation]
  /\ kept \in {None} \cup [at : {"stale", "deferred"}, base : Texts, text : Texts]

\* A completion always meets the checkpoint that it completes: the mismatch
\* branches of apply_recovery_checkpoint and fail_recovery_checkpoint, which
\* would leave a buffer submitted for ever, are never taken.
CompletionMeetsItsCheckpoint ==
  \A i \in Ids : /\ job[i] # None <=> lane[i].at = "submitted"
                 /\ job[i] # None => job[i].op = lane[i].op

Holds(b) == record = [at |-> "record", base |-> b.base, text |-> b.text]

\* "Recovery preserves the newest unsaved text of a dirty file-backed buffer
\* after kvim ... stops unexpectedly" (docs/files.md): once the lane has nothing
\* left to do for a modified buffer, the record holds its newest text over its
\* newest baseline, so a crash from here on loses nothing.
NewestTextKept ==
  Modified(buffer) /\ ~discarded /\ lane[buffer.id] = None => Holds(buffer)

\* "Shutdown ... drains accepted committing checkpoint writes and their ordered
\* cleanup successors": after the drain of a shutdown that nobody confirmed to
\* lose text, the newest text is on disk, or its failure was reported.
DrainKeepsNewest ==
  phase = "drained" /\ Modified(buffer) /\ ~discarded =>
    Holds(buffer) \/ lane[buffer.id].at = "paused"

\* Only a failed deletion, which is reported, leaves a record behind: with
\* failures, what is still on disk at rest is a record that a paused deletion
\* names, so nothing else revived it.
LeftoverIsPaused ==
  cleaned /\ record # None /\ (\A i \in Ids : lane[i].at \in {"none", "paused"}) =>
    \E i \in Ids : lane[i].at = "paused" /\ lane[i].op.at = "delete"

\* "Saturation, timeout, or failure retains the newest recoverable state": what
\* a buffer waits to write next is its newest text, never an older one.
NewestIsRetained ==
  Modified(buffer) /\ ~discarded =>
    LET state == lane[buffer.id]
        latest == IF state.at = "submitted" /\ state.next # None THEN state.next
                                                                 ELSE state.op
    IN  state # None => latest = Write(buffer)

\* What a lane and its jobs keep in step: each completion meets its checkpoint,
\* the newest text waits and is never lost, at rest and after the drain of a
\* shutdown, and only a reported failure leaves a record behind.
LaneInvariant ==
  /\ TypeOK /\ CompletionMeetsItsCheckpoint /\ LeftoverIsPaused /\ NewestIsRetained
  /\ NewestTextKept /\ DrainKeepsNewest

\* An edit reaches the disk although the user goes on with other things, unless
\* a newer revision replaces it, the text is saved or given up, or the failure
\* of its checkpoint is reported.
Unsaved(n) == Modified(buffer) /\ ~discarded /\ buffer.rev = n
Settled == Holds(buffer) \/ lane[buffer.id].at = "paused"
EditReachesDisk == \A n \in Texts : Unsaved(n) ~> (~Unsaved(n) \/ Settled)

\* A shutdown ends: neither a failure nor a successor keeps the drain busy.
DrainEnds == (phase = "draining") ~> (phase # "draining")

-----------------------------------------------------------------------------
(* Sentences of the documentation that the code does not keep. *)

\* "A successful current save deletes its current recovery record", and so do
\* a confirmed discard, reload and quit: no write that was under way outlives
\* the deletion, whatever completes first and whether or not the file was
\* closed and opened again since.
CleanedUp ==
  cleaned /\ (\A i \in Ids : lane[i] = None) => record = None

\* "Defer keeps disk text and the record, so a later open asks again"
\* (docs/files.md).
DeferredIsKept ==
  kept.at = "deferred" => record = [kept EXCEPT !.at = "record"]

\* "A missing or changed disk baseline is stale.  Kvim warns, retains that
\* record, never merges it, and requires explicit later disposal"
\* (docs/files.md).
StaleIsRetained ==
  kept.at = "stale" => record = [kept EXCEPT !.at = "record"]

\* "only a newer accepted edit retries one paused checkpoint" (the assertion
\* of queue_recovery_checkpoint).
OnlyNewerRetries ==
  [][\A i \in Ids :
       lane[i].at = "paused" /\ lane'[i].at = "queued" /\ lane'[i].op.at = "write"
         => lane[i].op.rev < lane'[i].op.rev]_vars
=============================================================================
