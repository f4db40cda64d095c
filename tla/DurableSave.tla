------------------------------ MODULE DurableSave ------------------------------
(***************************************************************************)
(* The steps by which one buffer reaches the disk: the save of its file,   *)
(* staged or direct (src/crates/kvim-workspace/src/file.rs), and the       *)
(* replacement and deletion of its recovery record (recovery.rs), in the   *)
(* order in which the session asks for them.                               *)
(*                                                                         *)
(* A file is what a reader finds under its name now, and the set of what a *)
(* loss of power may leave there.  A rename, a write and a removal add to  *)
(* that set, a synchronisation of the file or of its directory reduces it. *)
(* Contents are named for who wrote them, so the identity of a file (its   *)
(* size and modification time) is taken to tell two contents apart, and a  *)
(* synchronised new file is taken to keep its name.                        *)
(***************************************************************************)
EXTENDS Integers

CONSTANTS
  Edits,    \* bound of the model: the texts of the buffer
  Changes   \* bound of the model: the changes that other programs make

ASSUME SaveAssumption == Edits \in Nat /\ Changes \in Nat

None == <<"none", 0>>
Part == <<"part", 0>>
Mine(n) == <<"mine", n>>
Other(n) == <<"other", n>>
Contents == {None, Part} \cup {"mine"} \X (0 .. Edits) \cup {"other"} \X (1 .. Changes)

VARIABLES
  atomic,     \* the atomic save setting
  text,       \* the newest text of the buffer
  saved,      \* the text of the newest committed save, or a loaded one
  known,      \* the identity of the file that the buffer holds
  file,       \* the target: [now, disk]
  record,     \* the recovery record: [now, disk]
  temporary,  \* the temporary file of the operation: none, part or whole
  linked,     \* direct save: the open file still is the target
  step,       \* the operation and its next step
  writes,     \* the text that the operation writes
  effect,     \* history: the operation changed its target
  outcome,    \* how the last operation ended
  safe,       \* history: the newest text that a committed outcome promised
  changes,    \* the changes that other programs made
  racing,     \* history: what they wrote between the last check and the answer
  lost        \* history: what they wrote and a save replaced unseen

vars == <<atomic, text, saved, known, file, record, temporary, linked, step, writes,
          effect, outcome, safe, changes, racing, lost>>

Idle == <<"idle", "idle">>

Init ==
  /\ atomic \in BOOLEAN
  /\ text = 0 /\ saved = 0 /\ writes = 0 /\ safe = 0
  /\ known = Mine(0) /\ file = [now |-> Mine(0), disk |-> {Mine(0)}]
  /\ record = [now |-> None, disk |-> {None}]
  /\ temporary = "none" /\ linked = FALSE
  /\ step = Idle /\ effect = FALSE /\ outcome = "none"
  /\ changes = 0 /\ racing = {} /\ lost = {}

-----------------------------------------------------------------------------
(* Files. *)

\* The name holds content now; a loss of power may bring back what it held.
Put(f, content) == [now |-> content, disk |-> f.disk \cup {content}]
Synced(f) == [f EXCEPT !.disk = {f.now}]

\* What a save replaces without the editor having seen it.
Unseen(content) == IF content[1] = "other" /\ content # known THEN {content} ELSE {}

End(result) == step' = Idle /\ outcome' = result

\* A save that failed removes its temporary file, if it made one.
Abandon == step' = <<"save", "remove">> /\ outcome' = outcome

Session == <<atomic, text, saved, known, safe>>
World == <<changes, racing>>

-----------------------------------------------------------------------------
(* The session asks for one operation after the other. *)

Edit ==
  /\ step = Idle
  /\ text < Edits
  /\ text' = text + 1
  /\ UNCHANGED <<atomic, saved, known, safe, file, record, temporary, linked, step, writes,
                 effect, outcome, World, lost>>

\* A reload of an unmodified buffer.
Load ==
  /\ step = Idle
  /\ text = saved
  /\ file.now \notin {None, Part, known}
  /\ known' = file.now
  /\ UNCHANGED <<atomic, text, saved, safe, file, record, temporary, linked, step, writes,
                 effect, outcome, World, lost>>

Begin(op, at) ==
  /\ step = Idle
  /\ step' = <<op, at>>
  /\ writes' = text
  /\ effect' = FALSE /\ linked' = FALSE /\ temporary' = "none" /\ outcome' = "none"
  /\ UNCHANGED <<Session, file, record, World, lost>>

\* queue_recovery_checkpoint, of a modified buffer.
BeginRecord == text # saved /\ record.now # Mine(text) /\ Begin("record", "create")

BeginSave == text # saved /\ Begin("save", "check")

\* suppress_recovery_checkpoint, after a save of the newest text.
BeginDelete == text = saved /\ Begin("delete", "delete")

-----------------------------------------------------------------------------
(* save_inner and write_staged. *)

\* require_expected_identity: a removed file has no content to lose.
Expected == file.now = known \/ file.now = None

\* Mutant: the check before the rename is left out.
RecheckNothing ==
  /\ step = <<"save", "recheck">>
  /\ step' = <<"save", IF atomic THEN "rename" ELSE "open">>
  /\ UNCHANGED <<Session, file, record, temporary, linked, writes, effect, outcome, World, lost>>

CheckIdentity ==
  /\ step = <<"save", "check">>
  /\ IF Expected
     THEN step' = <<"save", IF atomic THEN "create" ELSE "recheck">> /\ UNCHANGED outcome
     ELSE End("Unchanged")
  /\ UNCHANGED <<Session, file, record, temporary, linked, writes, effect, World, lost>>

\* create_temporary, of a save or of a record.
CreateTemporary ==
  /\ step[2] = "create"
  /\ temporary' = "part"
  /\ step' = <<step[1], "write">>
  /\ UNCHANGED <<Session, file, record, linked, writes, effect, outcome, World, lost>>

\* Mutant: the temporary file is not synchronised.
WriteUnsynced ==
  /\ step[2] = "write"
  /\ step' = <<step[1], IF step[1] = "save" THEN "recheck" ELSE "rename">>
  /\ UNCHANGED <<Session, file, record, temporary, linked, writes, effect, outcome, World, lost>>

\* write_temporary writes and synchronises.
WriteTemporary ==
  /\ step[2] = "write"
  /\ temporary' = "whole"
  /\ step' = <<step[1], IF step[1] = "save" THEN "recheck" ELSE "rename">>
  /\ UNCHANGED <<Session, file, record, linked, writes, effect, outcome, World, lost>>

Recheck ==
  /\ step = <<"save", "recheck">>
  /\ IF Expected
     THEN step' = <<"save", IF atomic THEN "rename" ELSE "open">> /\ UNCHANGED outcome
     ELSE IF atomic THEN Abandon ELSE End("Unchanged")
  /\ UNCHANGED <<Session, file, record, temporary, linked, writes, effect, World, lost>>

\* The rename of a whole file shows its text; of one that was not synchronised,
\* a loss of power may leave a part.
Replace(f) == [now |-> Mine(writes),
               disk |-> f.disk \cup {Mine(writes)} \cup (IF temporary = "part" THEN {Part} ELSE {})]

Rename ==
  /\ step[2] = "rename"
  /\ effect' = TRUE
  /\ temporary' = "none"
  /\ IF step[1] = "save"
     THEN /\ file' = Replace(file) /\ UNCHANGED record
          /\ lost' = lost \cup Unseen(file.now)
          /\ step' = <<"save", "read">>
     ELSE /\ record' = Replace(record) /\ UNCHANGED file
          /\ UNCHANGED lost
          /\ step' = <<"record", "sync">>
  /\ UNCHANGED <<Session, linked, writes, outcome, World>>

\* The direct save truncates the target, writes it and synchronises it.  After
\* another program replaced the target it writes a file that has no name.
Truncate ==
  /\ step = <<"save", "open">>
  /\ linked' = TRUE /\ effect' = TRUE
  /\ file' = Put(file, Part)
  /\ lost' = lost \cup Unseen(file.now)
  /\ step' = <<"save", "put">>
  /\ UNCHANGED <<Session, record, temporary, writes, outcome, World>>

WriteDirect ==
  /\ step = <<"save", "put">>
  /\ file' = IF linked THEN Put(file, Mine(writes)) ELSE file
  /\ step' = <<"save", "sync">>
  /\ UNCHANGED <<Session, record, temporary, linked, writes, effect, outcome, World, lost>>

SyncDirect ==
  /\ step = <<"save", "sync">>
  /\ file' = IF linked THEN Synced(file) ELSE file
  /\ step' = <<"save", "read">>
  /\ UNCHANGED <<Session, record, temporary, linked, writes, effect, outcome, World, lost>>

\* The metadata of the new file becomes the identity that the buffer holds:
\* publish_save, apply_save.
ReadIdentity ==
  /\ step = <<"save", "read">>
  /\ IF file.now = None
     THEN End("Indeterminate") /\ UNCHANGED <<known, saved, safe>>
     ELSE End("Committed") /\ known' = file.now /\ saved' = writes /\ safe' = writes
  /\ UNCHANGED <<atomic, text, file, record, temporary, linked, writes, effect, World, lost>>

\* Mutant: a save that failed after its rename reports no change.
FailSaveUnchanged ==
  /\ step[1] = "save" /\ step[2] # "remove"
  /\ IF step[2] \in {"write", "rename"} THEN Abandon ELSE End("Unchanged")
  /\ UNCHANGED <<Session, file, record, temporary, linked, writes, effect, World, lost>>

\* A call of the filesystem fails.
FailSave ==
  /\ step[1] = "save" /\ step[2] # "remove"
  /\ IF step[2] \in {"write", "rename"} \/ (step[2] = "recheck" /\ atomic) THEN Abandon
     ELSE End(IF step[2] \in {"check", "create", "recheck", "open"} THEN "Unchanged"
              ELSE "Indeterminate")
  /\ UNCHANGED <<Session, file, record, temporary, linked, writes, effect, World, lost>>

\* remove_temporary.
RemoveTemporary ==
  /\ step = <<"save", "remove">>
  /\ \/ temporary' = "none" /\ End("Unchanged")
     \/ UNCHANGED temporary /\ End("Indeterminate")
  /\ UNCHANGED <<Session, file, record, linked, writes, effect, World, lost>>

-----------------------------------------------------------------------------
(* write_recovery_record and delete_recovery_record. *)

\* Mutant: the directory is not synchronised.
SyncNothing ==
  /\ step[2] = "sync" /\ step[1] # "save"
  /\ End("Committed")
  /\ safe' = IF step[1] = "record" THEN writes ELSE safe
  /\ UNCHANGED <<atomic, text, saved, known, file, record, temporary, linked, writes,
                 effect, World, lost>>

\* Mutant: a record goes on with the metadata that a save reads.
SyncTwice ==
  /\ step[2] = "sync" /\ step[1] # "save"
  /\ record' = Synced(record)
  /\ step' = <<step[1], "read">>
  /\ UNCHANGED <<Session, file, temporary, linked, writes, effect, outcome, World, lost>>

\* sync_directory, after the rename or the removal of a record.
SyncDirectory ==
  /\ step[2] = "sync" /\ step[1] # "save"
  /\ record' = Synced(record)
  /\ End("Committed")
  /\ safe' = IF step[1] = "record" THEN writes ELSE safe
  /\ UNCHANGED <<atomic, text, saved, known, file, temporary, linked, writes,
                 effect, World, lost>>

\* A failure removes the temporary file if it can.
FailRecord ==
  /\ step[1] = "record"
  /\ temporary' \in {temporary, "none"}
  /\ End("Indeterminate")
  /\ UNCHANGED <<Session, file, record, linked, writes, effect, World, lost>>

\* A record that is already gone is deleted; its directory is not synchronised.
Delete ==
  /\ step = <<"delete", "delete">>
  /\ IF record.now = None
     THEN End("Committed") /\ UNCHANGED <<record, effect>>
     ELSE /\ record' = Put(record, None)
          /\ effect' = TRUE
          /\ step' = <<"delete", "sync">>
          /\ UNCHANGED outcome
  /\ UNCHANGED <<Session, file, temporary, linked, writes, World, lost>>

FailDelete ==
  /\ step[1] = "delete"
  /\ End(IF step[2] = "delete" THEN "Unchanged" ELSE "Indeterminate")
  /\ UNCHANGED <<Session, file, record, temporary, linked, writes, effect, World, lost>>

-----------------------------------------------------------------------------
(* Another program replaces or removes the target. *)

Window == step[1] = "save" /\ step[2] \in {"rename", "open", "put", "sync", "read"}

ChangeFile ==
  /\ changes < Changes
  /\ changes' = changes + 1
  /\ \E content \in {Other(changes + 1), None} :
       /\ file' = Put(file, content)
       /\ racing' = IF Window THEN racing \cup {content} ELSE racing
  /\ linked' = FALSE
  /\ UNCHANGED <<Session, record, temporary, step, writes, effect, outcome, lost>>

Next ==
  \/ Edit \/ Load \/ BeginRecord \/ BeginSave \/ BeginDelete
  \/ CheckIdentity \/ CreateTemporary \/ WriteTemporary \/ Recheck \/ Rename
  \/ Truncate \/ WriteDirect \/ SyncDirect \/ ReadIdentity \/ FailSave \/ RemoveTemporary
  \/ SyncDirectory \/ FailRecord \/ Delete \/ FailDelete
  \/ ChangeFile

Spec == Init /\ [][Next]_vars

-----------------------------------------------------------------------------
(* Correctness. *)

Steps ==
  {Idle} \cup {"save"} \X {"check", "create", "write", "recheck", "rename", "open", "put",
                           "sync", "read", "remove"}
    \cup {"record"} \X {"create", "write", "rename", "sync"} \cup {"delete"} \X {"delete", "sync"}

TypeOK ==
  /\ atomic \in BOOLEAN /\ linked \in BOOLEAN /\ effect \in BOOLEAN
  /\ text \in 0 .. Edits /\ saved \in 0 .. text /\ writes \in 0 .. text /\ safe \in 0 .. text
  /\ known \in Contents
  /\ file \in [now : Contents, disk : SUBSET Contents]
  /\ record \in [now : Contents, disk : SUBSET Contents]
  /\ temporary \in {"none", "part", "whole"}
  /\ step \in Steps
  /\ outcome \in {"none", "Unchanged", "Committed", "Indeterminate"}
  /\ changes \in 0 .. Changes
  /\ racing \in SUBSET Contents /\ lost \in SUBSET Contents

\* "The rename replaces the file in one step, so a reader never observes a
\* partial file" (docs/files.md): neither a reader, nor a start after the
\* process or the power failed at any step, finds a part of a file that was
\* saved atomically, or of a record.
WholeFile ==
  /\ Part \notin record.disk
  /\ atomic => Part \notin file.disk

\* Unchanged proves that no target changed and that nothing is left behind,
\* Committed that the text reached its name, or that the record to delete was
\* already gone.
OutcomeIsTrue ==
  /\ outcome = "Unchanged" => ~effect /\ temporary = "none"
  /\ outcome = "Committed" => (effect \/ record.now = None) /\ temporary = "none"

\* "A file that another program changed must not be overwritten"
\* (require_expected_identity): a save replaces nothing that the editor has not
\* seen, except what was written between its last check of the identity and its
\* answer.
OverwritesOnlyRaces == lost \subseteq racing

Keeps(content) == \/ content[1] = "other"
                  \/ content[1] = "mine" /\ content[2] >= safe

\* "Recovery preserves the newest unsaved text of a dirty buffer after kvim, the
\* terminal, or the operating system stops unexpectedly" (docs/files.md): what
\* the last committed save or record promised is in the file or in the record,
\* whatever fails next, unless another program took the file or a direct save
\* truncated it and has not synchronised it.  The rename of an atomic save is
\* taken to be on disk.
Survives(files) ==
  changes = 0 /\ Part \notin file.disk =>
    \A f \in files, r \in record.disk : Keeps(f) \/ Keeps(r)

TextSurvives == Survives(IF atomic THEN {file.now} ELSE file.disk)

-----------------------------------------------------------------------------
(* Sentences of the documentation that the code does not keep. *)

\* "A file that another program changed must not be overwritten", between the
\* last check and the answer of a save as well.
OverwritesNothing == lost = {}

\* "Committed: the operation proved its durable target state" (docs/files.md): a
\* loss of power does not take back the text of a committed atomic save.
TextSurvivesPowerLoss == Survives(file.disk)
=============================================================================
