---------------------------- MODULE RecoveryDecision ----------------------------
(***************************************************************************)
(* What becomes of the text that a crash left in a recovery record: the    *)
(* candidate that an open offers, the events that name it, the answer of   *)
(* the host, and the record on disk                                        *)
(* (src/crates/kvim-tui/src/session.rs, recovery; src/crates/kvim-tui/src/ *)
(* embed.rs, events; kvim-workspace/src/request.rs and recovery.rs).       *)
(*                                                                         *)
(* There is one file.  A text is its name, which is also its hash.  The    *)
(* lane that brings an operation to the disk is RecoveryLane; here the     *)
(* newest operation waits in "queued" and lands later.  A save that a      *)
(* newer edit makes stale is left out.                                     *)
(***************************************************************************)
EXTENDS Naturals, Sequences, FiniteSets

CONSTANTS
  DiskTexts,     \* texts that other programs write
  EventsMax,     \* BUFFERS_MAX as the bound of the queue of candidates
  LoadsMax,      \* bound of the model: loads of the file
  EditsMax       \* bound of the model: edits

RecoveryAssumption == EventsMax \in Nat \ {0}

VARIABLES
  disk,           \* the text of the file
  recoveryRecord, \* the recovery record on disk
  queued,         \* the operation on the record that waits
  buffer,         \* the loaded buffer
  opening,        \* what an open read and has not published
  pending,        \* recovery.pending of that buffer
  events,         \* the candidates in EventQueue.recovery
  held,           \* the identities that the host took
  loads,          \* history: loads so far
  edits,          \* history: edits so far
  promise,        \* history: the recovered text that is still to be kept
  owed            \* history: the same, when an unload also gives it up

recoveryVars == <<disk, recoveryRecord, queued, buffer, opening, pending, events, held, loads, edits, promise, owed>>

-----------------------------------------------------------------------------
\* A text is a number: that of a crash, those of edits, those of DiskTexts.
LostText == 0
EditText(n) == 10 + n

Absent == [at |-> "none"]
Record(text, base, rev) == [at |-> "record", text |-> text, base |-> base, rev |-> rev]
Deletion == [at |-> "delete"]

\* FileBuffer: the revision restarts at each load and reload.
Loaded(id, text) == [at |-> "loaded", id |-> id, text |-> text, base |-> text, rev |-> 0, modified |-> FALSE]

\* RecoveryIdentity and PendingRecovery; "offered" is the text that the user saw.
Identity(b, r) == [id |-> b.id, base |-> b.base, rev |-> b.rev, recoveryBase |-> r.base, recoveryRev |-> r.rev]
Pending(b, r, current, unsent) ==
  [at |-> "pending", identity |-> Identity(b, r), record |-> r, current |-> current,
   unsent |-> unsent, offered |-> b.text]

\* queue_recovery_checkpoint, and suppress_recovery_checkpoint with
\* recovery_cleanup: whatever waits is replaced by the newest operation.
Checkpoint(b) == Record(b.text, b.base, b.rev)
Suppressed == Deletion

\* Mutant: the baseline of the file is not part of the gate.
AcceptsAnyBaseline(identity) ==
  /\ pending # Absent /\ identity.id = pending.identity.id /\ identity = pending.identity
  /\ buffer # Absent /\ buffer.id = identity.id /\ buffer.rev = identity.rev
\* The gate of decide_recovery.
Accepts(identity) ==
  /\ pending # Absent /\ identity.id = pending.identity.id /\ identity = pending.identity
  /\ buffer # Absent /\ buffer.id = identity.id /\ buffer.rev = identity.rev /\ buffer.base = identity.base

\* What a candidate leaves to be kept: its record, when the disk still holds it.
KeptNow(r) == IF recoveryRecord = r /\ queued = Absent THEN r ELSE Absent

\* note_recovery refuses a candidate when the queue is full.
Noted(queue, p) == IF Len(queue) < EventsMax THEN Append(queue, p.identity) ELSE queue
Sent(queue, p) == [p EXCEPT !.unsent = Len(queue) >= EventsMax]

\* publish_pending_recovery_events
PublishPending(queue, p) == IF p # Absent /\ p.unsent THEN <<Noted(queue, p), Sent(queue, p)>> ELSE <<queue, p>>

-----------------------------------------------------------------------------
RecoveryInit ==
  /\ disk \in DiskTexts /\ queued = Absent /\ buffer = Absent /\ opening = Absent /\ pending = Absent
  /\ \E base \in DiskTexts : recoveryRecord \in {Absent, Record(LostText, base, 1)}
  /\ events = <<>> /\ held = {} /\ loads = 0 /\ edits = 0 /\ promise = Absent /\ owed = Absent

\* The worker of an open reads the file and then its record.
ReadFile ==
  /\ buffer = Absent /\ opening = Absent /\ loads < LoadsMax
  /\ opening' = [at |-> "read", text |-> disk, record |-> recoveryRecord]
  /\ UNCHANGED <<disk, recoveryRecord, queued, buffer, pending, events, held, loads, edits, promise, owed>>

\* publish_open and publish_recovery_candidate
PublishOpen ==
  /\ opening # Absent /\ opening' = Absent /\ loads' = loads + 1
  /\ buffer' = Loaded(loads', opening.text)
  /\ IF opening.record = Absent THEN UNCHANGED <<pending, events, promise, owed>>
     ELSE LET current == opening.record.base = opening.text
              p == Pending(buffer', opening.record, current, FALSE)
              kept == IF current THEN Absent ELSE KeptNow(opening.record)
          IN /\ events' = Noted(events, p) /\ pending' = Sent(events, p)
             /\ promise' = kept /\ owed' = kept
  /\ UNCHANGED <<disk, recoveryRecord, queued, held, edits>>

\* An accepted edit, which queues a checkpoint.
EditBuffer ==
  /\ buffer # Absent /\ edits < EditsMax /\ edits' = edits + 1
  /\ buffer' = [buffer EXCEPT !.text = EditText(edits'), !.rev = @ + 1, !.modified = TRUE]
  /\ queued' = Checkpoint(buffer') /\ promise' = Absent /\ owed' = Absent
  /\ UNCHANGED <<disk, recoveryRecord, opening, pending, events, held, loads>>

\* A save of this text, which is current when it is applied.
Save ==
  /\ buffer # Absent /\ disk' = buffer.text
  /\ buffer' = [buffer EXCEPT !.base = buffer.text, !.modified = FALSE]
  /\ pending' = Absent /\ queued' = Suppressed /\ promise' = Absent /\ owed' = Absent
  /\ UNCHANGED <<recoveryRecord, opening, events, held, loads, edits>>

\* publish_reloaded_text for a buffer without unsaved text, and for a discard.
Reload(discard) ==
  /\ buffer # Absent /\ (discard \/ ~buffer.modified) /\ (discard \/ disk # buffer.base)
  /\ buffer' = Loaded(buffer.id, disk)
  /\ IF discard THEN pending' = Absent /\ queued' = Suppressed /\ promise' = Absent /\ owed' = Absent
     ELSE UNCHANGED <<pending, queued, promise, owed>>
  /\ UNCHANGED <<disk, recoveryRecord, opening, events, held, loads, edits>>

\* remove_active_buffer
Unload ==
  /\ buffer # Absent /\ ~buffer.modified
  /\ buffer' = Absent /\ pending' = Absent /\ queued' = Suppressed /\ owed' = Absent
  /\ UNCHANGED <<disk, recoveryRecord, opening, events, held, loads, edits, promise>>

\* take_event
TakeCandidate ==
  LET before == PublishPending(events, pending)
      rest == IF before[1] = <<>> THEN <<>> ELSE Tail(before[1])
      after == PublishPending(rest, before[2])
  IN /\ (events # <<>> \/ (pending # Absent /\ pending.unsent))
     /\ held' = held \cup {Head(before[1])}
     /\ events' = after[1] /\ pending' = after[2]
     /\ UNCHANGED <<disk, recoveryRecord, queued, buffer, opening, loads, edits, promise, owed>>

\* restore_recovery is one edit that brings the recovered text.
Restore(identity) ==
  /\ Accepts(identity) /\ pending.current /\ pending' = Absent
  /\ buffer' = [buffer EXCEPT !.text = pending.record.text, !.rev = @ + 1, !.modified = TRUE]
  /\ queued' = Checkpoint(buffer') /\ promise' = Absent /\ owed' = Absent
  /\ UNCHANGED <<disk, recoveryRecord, opening, events, held, loads, edits>>

\* queue_recovery_delete
Discard(identity) ==
  /\ Accepts(identity) /\ pending' = Absent /\ queued' = Deletion /\ promise' = Absent /\ owed' = Absent
  /\ UNCHANGED <<disk, recoveryRecord, buffer, opening, events, held, loads, edits>>

Defer(identity) ==
  /\ Accepts(identity) /\ pending' = Absent
  /\ promise' = KeptNow(pending.record) /\ owed' = KeptNow(pending.record)
  /\ UNCHANGED <<disk, recoveryRecord, queued, buffer, opening, events, held, loads, edits>>

\* The operation reaches the disk (RecoveryLane).
Land ==
  /\ queued # Absent /\ queued' = Absent
  /\ recoveryRecord' = IF queued = Deletion THEN Absent ELSE queued
  /\ UNCHANGED <<disk, buffer, opening, pending, events, held, loads, edits, promise, owed>>

\* Another program writes the file.
Write(text) ==
  /\ disk # text /\ disk' = text
  /\ UNCHANGED <<recoveryRecord, queued, buffer, opening, pending, events, held, loads, edits, promise, owed>>

\* The editor ends without a save and starts again.
CrashAndRestart ==
  /\ loads > 0 /\ buffer' = Absent /\ opening' = Absent /\ pending' = Absent /\ queued' = Absent
  /\ events' = <<>> /\ held' = {}
  /\ UNCHANGED <<disk, recoveryRecord, loads, edits, promise, owed>>

RecoveryNext ==
  \/ ReadFile \/ PublishOpen \/ EditBuffer \/ Save \/ Unload \/ TakeCandidate \/ Land \/ CrashAndRestart
  \/ \E discard \in BOOLEAN : Reload(discard)
  \/ \E identity \in held : Restore(identity) \/ Discard(identity) \/ Defer(identity)
  \/ \E text \in DiskTexts : Write(text)

RecoverySpec == RecoveryInit /\ [][RecoveryNext]_recoveryVars

-----------------------------------------------------------------------------
(* Properties. *)

\* An answer that the gate accepts finds the text that the user was asked
\* about and the record that was offered with it, although a reload restarts
\* the revisions and another program may write the old text again.
DecisionMeetsItsText ==
  \A identity \in held : Accepts(identity) =>
    buffer.text = pending.offered /\ (pending.current => pending.record.base = buffer.text)

\* A candidate that no event named waits only while the queue is full.
CandidateIsHeard == pending # Absent /\ pending.unsent => Len(events) = EventsMax

\* The record of a deferred or stale candidate stays on disk until the user
\* edits, saves, reloads with a discard, unloads or discards.
OwedRecordStays == owed # Absent => recoveryRecord = owed

RecoveryInvariant == DecisionMeetsItsText /\ CandidateIsHeard /\ OwedRecordStays

\* "Defer keeps disk text and the record, so a later open asks again."  Of the
\* steps above docs/files.md names all but the unload as ends of the record.
DeferKeepsTheRecord == promise # Absent => recoveryRecord = promise
=============================================================================
