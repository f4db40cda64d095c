------------------------- MODULE RecoveryLaneProofs -------------------------
(***************************************************************************)
(* Proofs about RecoveryLane for any number of opens and changes, with     *)
(* failures or without.                                                    *)
(***************************************************************************)
EXTENDS RecoveryLane, TLAPS

-----------------------------------------------------------------------------
(* Types. *)

Buffers ==
  {Closed} \cup [at : {"open"}, id : Ids, text : Texts, base : Texts, mark : Texts,
                 inval : BOOLEAN, rev : Texts]
Open == Buffers \ {Closed}
Candidates ==
  {None} \cup [at : {"candidate"}, base : Texts, stale : BOOLEAN, text : Texts, rev : Texts]
Operations ==
  {None} \cup [at : {"open"}, file : Texts, record : Record \cup {None}]
    \cup [at : {"save", "saved"}, id : Ids, base : Texts, text : Texts, rev : Texts]
    \cup [at : {"reload"}, id : Ids, file : Texts, rev : Texts, discard : BOOLEAN]
LaneStates ==
  {None} \cup [at : {"queued", "paused"}, op : Operation]
    \cup [at : {"submitted"}, op : Operation, next : Operation \cup {None}]
JobStates == {None} \cup [at : {"accepted", "committed", "failed"}, op : Operation]
Notes == {None} \cup [at : {"stale", "deferred"}, base : Texts, text : Texts]

Types ==
  /\ clock \in Texts
  /\ file \in Texts
  /\ record \in Record \cup {None}
  /\ phase \in {"running", "draining", "drained"}
  /\ lastId \in 0 .. MaxId
  /\ buffer \in Buffers
  /\ candidate \in Candidates
  /\ operation \in Operations
  /\ lane \in [Ids -> LaneStates]
  /\ job \in [Ids -> JobStates]
  /\ cleaned \in BOOLEAN
  /\ discarded \in BOOLEAN
  /\ kept \in Notes

LEMMA TypesAreTypeOK == Types => TypeOK
BY DEF Types, TypeOK, Buffers, Candidates, Operations, LaneStates, JobStates, Notes

LEMMA ZeroIsText == 0 \in Texts
BY LaneAssumption DEF Texts

LEMMA NextText == clock \in Texts /\ clock < Edits => clock + 1 \in Texts
BY LaneAssumption DEF Texts

LEMMA OpenFacts ==
  /\ \A b \in Open : /\ b.at = "open" /\ b.id \in Ids /\ b.text \in Texts /\ b.base \in Texts
                     /\ b.mark \in Texts /\ b.inval \in BOOLEAN /\ b.rev \in Texts
  /\ Closed.at = "none" /\ Closed.id = 0 /\ 0 \notin Ids
BY DEF Open, Buffers, Closed, Ids

\* A change of an open buffer leaves it open under its identity.
LEMMA OpenStays ==
  ASSUME NEW b \in Open, NEW x \in Texts, NEW y \in Texts
  PROVE  /\ [b EXCEPT !.text = x, !.rev = y] \in Open
         /\ [b EXCEPT !.base = x] \in Open
         /\ [b EXCEPT !.text = x, !.base = x, !.mark = x, !.inval = FALSE, !.rev = y] \in Open
         /\ \A inval \in BOOLEAN : [b EXCEPT !.inval = inval] \in Open
         /\ [b EXCEPT !.mark = x, !.inval = FALSE] \in Open
BY DEF Open, Buffers, Closed

LEMMA OpenKeepsId ==
  ASSUME NEW b \in Open, NEW x, NEW y
  PROVE  /\ [b EXCEPT !.text = x, !.rev = y].id = b.id
         /\ [b EXCEPT !.text = x, !.base = x, !.mark = x, !.inval = FALSE, !.rev = y].id = b.id
BY DEF Open, Buffers, Closed

LEMMA OperationFacts ==
  /\ \A b \in Open : Write(b) \in Operation
  /\ \A base, rev \in Texts : Delete(base, rev) \in Operation
  /\ \A op \in Operation : /\ [op EXCEPT !.at = "delete"] \in Operation
                           /\ op.base \in Texts /\ op.rev \in Texts /\ op.text \in Texts
                           /\ op.at \in {"write", "delete"}
  /\ None \notin Operation
BY ZeroIsText, OpenFacts DEF Operation, Write, Delete, None

LEMMA LaneStateFacts ==
  /\ \A op \in Operation : Queued(op) \in LaneStates /\ Paused(op) \in LaneStates
  /\ \A op \in Operation, next \in Operation \cup {None} : Submitted(op, next) \in LaneStates
  /\ \A state \in LaneStates \ {None} : state.op \in Operation
  /\ \A state \in LaneStates : state.at = "submitted" => state.next \in Operation \cup {None}
  /\ \A state \in LaneStates : state.at \in {"none", "queued", "paused", "submitted"}
  /\ \A state \in LaneStates : state.at = "none" <=> state = None
BY DEF LaneStates, Queued, Paused, Submitted, None

LEMMA AfterEditType ==
  ASSUME NEW state \in LaneStates, NEW b \in Open
  PROVE  AfterEdit(state, b) \in LaneStates
BY OperationFacts, LaneStateFacts, Zenon DEF AfterEdit

LEMMA SuppressedType ==
  ASSUME NEW state \in LaneStates, NEW b \in Open
  PROVE  Suppressed(state, b) \in LaneStates
<1>1. b.base \in Texts /\ b.rev \in Texts
  BY OpenFacts
<1>2. state # None => state.op.base \in Texts /\ state.op.rev \in Texts
  BY LaneStateFacts, OperationFacts
<1> QED
  BY <1>1, <1>2, OperationFacts, LaneStateFacts DEF Suppressed, None

LEMMA DisposedType ==
  ASSUME NEW state \in LaneStates, NEW c \in Candidates \ {None}
  PROVE  Disposed(state, c) \in LaneStates
<1>1. c.base \in Texts /\ c.rev \in Texts
  BY DEF Candidates
<1> QED
  BY <1>1, OperationFacts, LaneStateFacts DEF Disposed, None

LEMMA CompletedType ==
  ASSUME NEW state \in LaneStates, state.at = "submitted"
  PROVE  Committed(state) \in LaneStates /\ Failed(state) \in LaneStates
<1>1. state.op \in Operation /\ state.next \in Operation \cup {None}
  BY LaneStateFacts DEF None
<1> QED
  BY <1>1, LaneStateFacts DEF Committed, Failed, LaneStates

\* What a step does to a lane keeps its type.
LEMMA SetLaneType ==
  ASSUME Types, NEW state \in LaneStates, SetLane(state), buffer \in Open
  PROVE  lane' \in [Ids -> LaneStates]
BY DEF SetLane, Types

LEMMA TypesInit == Init => Types
<1> SUFFICES ASSUME Init PROVE Types
  OBVIOUS
<1>1. 0 \in 0 .. MaxId
  BY LaneAssumption
<1> QED
  BY <1>1, ZeroIsText DEF Init, Types, Buffers, Candidates, Operations, LaneStates, JobStates, Notes, Idle

LEMMA CandidateFacts ==
  \A c \in Candidates \ {None} : /\ c.base \in Texts /\ c.text \in Texts /\ c.rev \in Texts
                                 /\ c.stale \in BOOLEAN
BY DEF Candidates

LEMMA FileOperationFacts ==
  \A o \in Operations :
    /\ o.at \in {"none", "open", "save", "saved", "reload"}
    /\ o.at = "open" => o.file \in Texts /\ o.record \in Record \cup {None}
    /\ o.at \in {"save", "saved"} =>
         /\ o.id \in Ids /\ o.base \in Texts /\ o.text \in Texts /\ o.rev \in Texts
         /\ [o EXCEPT !.at = "saved"] \in Operations
         /\ [o EXCEPT !.at = "saved"].id = o.id /\ [o EXCEPT !.at = "saved"].rev = o.rev
    /\ o.at = "reload" =>
         o.id \in Ids /\ o.file \in Texts /\ o.rev \in Texts /\ o.discard \in BOOLEAN
BY DEF Operations, None

LEMMA JobFacts ==
  /\ \A op \in Operation : [at |-> "accepted", op |-> op] \in JobStates
  /\ \A j \in JobStates : /\ j.at \in {"none", "accepted", "committed", "failed"}
                          /\ j.at = "none" <=> j = None
                          /\ j # None => j.op \in Operation
                          /\ j # None => [j EXCEPT !.at = "committed"] \in JobStates
                          /\ j # None => [j EXCEPT !.at = "failed"] \in JobStates
  /\ None \in JobStates /\ None \in LaneStates
BY DEF JobStates, LaneStates, None

-----------------------------------------------------------------------------
(* The inductive invariant. *)

Active(state) == state.at \in {"queued", "submitted"}

\* What a lane does last, as far as it knows.
Latest(state) ==
  IF state.at = "submitted" /\ state.next # None THEN state.next ELSE state.op

\* An open finds the file closed, and an identity left for its buffer; a record
\* to decide about belongs to a loaded buffer.
Aligned ==
  /\ operation.at = "open" => lastId < MaxId /\ buffer = Closed
  /\ candidate # None => buffer # Closed

\* The revisions of the buffer, of the record to decide about and of a save grow
\* in this order; a record can be decided about only while the text of the file
\* is unmodified.
RevisionsInOrder ==
  /\ buffer # Closed => buffer.rev <= clock
  /\ candidate # None =>
       candidate.rev <= buffer.rev /\ (candidate.rev = buffer.rev => ~Modified(buffer))
  /\ operation.at \in {"save", "saved"} /\ operation.id = buffer.id =>
       operation.rev <= buffer.rev /\ (candidate # None => candidate.rev <= operation.rev)

\* Only the lane of the last identity is active, and none while a file is read.
OneActive ==
  /\ \A i \in Ids : Active(lane[i]) => i = lastId /\ operation.at # "open"
  /\ buffer # Closed => buffer.id = lastId

\* The record is what the last checkpoint that committed left.
JobEffect ==
  \A i \in Ids : job[i].at = "committed" =>
    record = IF job[i].op.at = "delete" THEN None
             ELSE [at |-> "record", base |-> job[i].op.base, text |-> job[i].op.text]

\* After a promised deletion a running save has the text of the buffer, the lane
\* deletes last, and once it is done only a failed deletion left a record.
CleanedHolds ==
  cleaned =>
    /\ operation.at \in {"save", "saved"} /\ operation.id = buffer.id =>
         operation.rev = buffer.rev
    /\ \A i \in Ids : Active(lane[i]) => Latest(lane[i]).at = "delete"
    /\ \/ record = None
       \/ \E i \in Ids : \/ Active(lane[i])
                         \/ lane[i].at = "paused" /\ lane[i].op.at = "delete"

DrainedIsIdle == phase = "drained" => \A i \in Ids : ~Active(lane[i])

LEMMA TypesStep ==
  Types /\ CompletionMeetsItsCheckpoint /\ Aligned /\ [Next]_vars => Types'
<1> SUFFICES ASSUME Types, CompletionMeetsItsCheckpoint, Aligned, [Next]_vars
             PROVE Types'
  OBVIOUS
<1> USE DEF Types
<1>0. /\ buffer # Closed => buffer \in Open
      /\ \A i \in Ids : lane[i] \in LaneStates /\ job[i] \in JobStates
  BY DEF Open
<1>1. CASE StartOpen
  <2>1. operation' \in Operations
    BY <1>1 DEF StartOpen, Start, Operations
  <2> QED
    BY <1>1, <2>1 DEF StartOpen, Start, history
<1>2. CASE PublishOpen
  <2>1. /\ operation.file \in Texts /\ operation.record \in Record \cup {None}
        /\ lastId + 1 \in Ids /\ lastId + 1 \in 0 .. MaxId
    <3>1. operation.file \in Texts /\ operation.record \in Record \cup {None}
      BY <1>2, FileOperationFacts DEF PublishOpen
    <3>2. lastId < MaxId
      BY <1>2 DEF PublishOpen, Aligned
    <3> QED
      BY <3>1, <3>2, LaneAssumption DEF Ids
  <2>2. buffer' \in Buffers
    BY <1>2, <2>1 DEF PublishOpen, Buffers
  <2>3. candidate' \in Candidates
    BY <1>2, <2>1 DEF PublishOpen, Candidates, Record
  <2>4. kept' \in Notes
    BY <1>2, <2>1 DEF PublishOpen, Notes, Record
  <2>5. operation' \in Operations
    BY <1>2 DEF PublishOpen, Operations
  <2> QED
    BY <1>2, <2>1, <2>2, <2>3, <2>4, <2>5 DEF PublishOpen
<1>3. CASE Restore
  <2>1. candidate.text \in Texts /\ buffer \in Open /\ clock + 1 \in Texts
    BY <1>3, <1>0, CandidateFacts, NextText DEF Restore, Decidable, Aligned
  <2>2. [buffer EXCEPT !.text = candidate.text, !.rev = clock + 1] \in Open
    BY <2>1, OpenStays
  <2>3. lane' \in [Ids -> LaneStates]
    BY <1>3, <2>1, <2>2, <1>0, AfterEditType, OpenFacts DEF Restore, SetLane
  <2>4. buffer' \in Buffers /\ candidate' \in Candidates
    BY <1>3, <2>2 DEF Restore, Open, Candidates
  <2> QED
    BY <1>3, <2>1, <2>3, <2>4 DEF Restore
<1>4. CASE Discard
  <2>1. buffer \in Open /\ candidate \in Candidates \ {None}
    BY <1>4, <1>0 DEF Discard, Decidable, Aligned
  <2>2. lane' \in [Ids -> LaneStates]
    BY <1>4, <2>1, <1>0, DisposedType, OpenFacts DEF Discard, SetLane
  <2>3. candidate' \in Candidates /\ kept' \in Notes
    BY <1>4 DEF Discard, Candidates, Notes
  <2> QED
    BY <1>4, <2>2, <2>3 DEF Discard
<1>5. CASE Defer
  <2>1. candidate \in Candidates \ {None}
    BY <1>5 DEF Defer, Decidable
  <2>2. candidate' \in Candidates /\ kept' \in Notes
    BY <1>5, <2>1, CandidateFacts DEF Defer, Candidates, Notes
  <2> QED
    BY <1>5, <2>2 DEF Defer
<1>6. CASE Edit
  <2>1. buffer \in Open /\ clock + 1 \in Texts /\ buffer.mark \in Texts
    BY <1>6, <1>0, OpenFacts, NextText DEF Edit
  <2>2. PICK text \in {clock + 1, buffer.mark} :
          /\ buffer' = [buffer EXCEPT !.text = text, !.rev = clock + 1]
          /\ SetLane(AfterEdit(lane[buffer'.id], buffer'))
    BY <1>6 DEF Edit
  <2>3. buffer' \in Open /\ buffer'.id = buffer.id
    <3>1. text \in Texts
      BY <2>1, <2>2
    <3>2. [buffer EXCEPT !.text = text, !.rev = clock + 1] \in Open
      BY <2>1, <3>1, OpenStays
    <3>3. [buffer EXCEPT !.text = text, !.rev = clock + 1].id = buffer.id
      BY <2>1, OpenKeepsId
    <3> QED
      BY <2>2, <3>2, <3>3
  <2>4. lane' \in [Ids -> LaneStates]
    BY <2>2, <2>3, <1>0, AfterEditType, OpenFacts DEF SetLane
  <2>5. kept' \in Notes
    BY <1>6 DEF Edit, Notes
  <2> QED
    BY <1>6, <2>1, <2>3, <2>4, <2>5 DEF Edit, Open
<1>7. CASE ChangeFile
  BY <1>7, NextText DEF ChangeFile, volatile, history
<1>8. CASE StartSave
  <2>1. buffer \in Open
    BY <1>8, <1>0 DEF StartSave
  <2>2. operation' \in Operations
    BY <1>8, <2>1, OpenFacts DEF StartSave, Start, Operations
  <2> QED
    BY <1>8, <2>2 DEF StartSave, Start, history
<1>9. CASE StartReload
  <2>1. buffer \in Open
    BY <1>9, <1>0 DEF StartReload
  <2>2. operation' \in Operations
    BY <1>9, <2>1, OpenFacts DEF StartReload, Start, Operations
  <2> QED
    BY <1>9, <2>2 DEF StartReload, Start, history
<1>10. CASE PublishReload
  <2>1. operation' \in Operations
    BY <1>10 DEF PublishReload, Operations
  <2>2. CASE UNCHANGED <<clock, buffer, candidate, lane, cleaned, kept>>
    BY <1>10, <2>1, <2>2 DEF PublishReload
  <2>3. CASE ~UNCHANGED <<clock, buffer, candidate, lane, cleaned, kept>>
    <3>1. /\ buffer.id = operation.id /\ clock < Edits /\ clock' = clock + 1
          /\ operation.file \in Texts /\ operation.id \in Ids
          /\ buffer' = [buffer EXCEPT !.text = operation.file, !.base = operation.file,
                                      !.mark = operation.file, !.inval = FALSE,
                                      !.rev = clock + 1]
          /\ IF operation.discard
               THEN /\ SetLane(Suppressed(lane[buffer'.id], buffer'))
                    /\ candidate' = None
                    /\ cleaned' = TRUE
                    /\ kept' = None
               ELSE UNCHANGED <<candidate, lane, cleaned, kept>>
      BY <1>10, <2>3, FileOperationFacts DEF PublishReload
    <3>2. buffer \in Open /\ clock + 1 \in Texts
      BY <3>1, <1>0, OpenFacts, NextText
    <3>3. buffer' \in Open /\ buffer'.id = buffer.id
      <4> DEFINE b == [buffer EXCEPT !.text = operation.file, !.base = operation.file,
                                     !.mark = operation.file, !.inval = FALSE,
                                     !.rev = clock + 1]
      <4>1. b \in Open
        BY <3>1, <3>2, OpenStays
      <4>2. b.id = buffer.id
        BY <3>2, OpenKeepsId
      <4> QED
        BY <3>1, <4>1, <4>2
    <3>4. lane' \in [Ids -> LaneStates]
      BY <3>1, <3>3, <1>0, SuppressedType, OpenFacts DEF SetLane
    <3>5. candidate' \in Candidates /\ kept' \in Notes /\ cleaned' \in BOOLEAN
      BY <3>1 DEF Candidates, Notes
    <3> QED
      BY <1>10, <2>1, <3>1, <3>2, <3>3, <3>4, <3>5 DEF PublishReload, Open
  <2> QED
    BY <2>2, <2>3
<1>11. CASE CloseBuffer
  <2>1. lane' \in [Ids -> LaneStates]
    BY <1>11, <1>0, SuppressedType, OpenFacts DEF CloseBuffer, SetLane
  <2>2. buffer' \in Buffers /\ candidate' \in Candidates
    BY <1>11 DEF CloseBuffer, Buffers, Candidates
  <2> QED
    BY <1>11, <2>1, <2>2 DEF CloseBuffer, history
<1>12. CASE Quit
  <2>1. Modified(buffer) => buffer \in Open
    BY <1>0, OpenFacts DEF Modified
  <2>2. lane' \in [Ids -> LaneStates]
    BY <1>12, <2>1, <1>0, SuppressedType, OpenFacts DEF Quit, SetLane
  <2>3. candidate' \in Candidates /\ kept' \in Notes
    BY <1>12 DEF Quit, Candidates, Notes, history
  <2> QED
    BY <1>12, <2>2, <2>3 DEF Quit, history
<1>13. CASE HostShutdown
  BY <1>13 DEF HostShutdown, volatile, history
<1>14. CASE EndDrain
  BY <1>14 DEF EndDrain, volatile, history
<1>15. CASE Crash \/ Exit
  <2>1. lane' \in [Ids -> LaneStates] /\ job' \in [Ids -> JobStates]
    BY <1>15, JobFacts DEF Crash, Exit, Restart, Idle
  <2>2. buffer' \in Buffers /\ candidate' \in Candidates /\ operation' \in Operations
    BY <1>15 DEF Crash, Exit, Restart, Buffers, Candidates, Operations
  <2> QED
    <3>1. 0 \in 0 .. MaxId
      BY LaneAssumption
    <3> QED
      BY <1>15, <2>1, <2>2, <3>1 DEF Crash, Exit, Restart
<1>16. CASE Submit
  <2>1. PICK i \in Ids : /\ lane[i].at = "queued"
                         /\ lane' = [lane EXCEPT ![i] = Submitted(lane[i].op, None)]
                         /\ job' = [job EXCEPT ![i] = [at |-> "accepted", op |-> lane[i].op]]
    BY <1>16 DEF Submit
  <2>2. lane[i].op \in Operation
    BY <2>1, <1>0, LaneStateFacts DEF None
  <2>3. lane' \in [Ids -> LaneStates] /\ job' \in [Ids -> JobStates]
    BY <2>1, <2>2, LaneStateFacts, JobFacts
  <2> QED
    BY <1>16, <2>3 DEF Submit, history
<1>17. ASSUME NEW i \in Ids, RunJob(i) PROVE Types'
  <2>1. job[i] # None /\ job[i].op \in Operation
    BY <1>17, <1>0, JobFacts DEF RunJob, None
  <2>2. job' \in [Ids -> JobStates]
    BY <1>17, <2>1, <1>0, JobFacts DEF RunJob
  <2>3. record' \in Record \cup {None}
    <3>1. [at |-> "record", base |-> job[i].op.base, text |-> job[i].op.text] \in Record
      BY <2>1, OperationFacts DEF Record
    <3> QED
      BY <1>17, <3>1 DEF RunJob
  <2> QED
    BY <1>17, <2>2, <2>3 DEF RunJob, history
<1>18. ASSUME NEW i \in Ids, Complete(i) PROVE Types'
  <2>1. lane[i].at = "submitted"
    BY <1>18, <1>0, JobFacts DEF Complete, CompletionMeetsItsCheckpoint, None
  <2>2. lane' \in [Ids -> LaneStates] /\ job' \in [Ids -> JobStates]
    BY <1>18, <2>1, <1>0, CompletedType, JobFacts DEF Complete
  <2> QED
    BY <1>18, <2>2 DEF Complete, history
<1>19. CASE WriteFile
  <2>1. operation' \in Operations /\ file' \in Texts
    BY <1>19, FileOperationFacts DEF WriteFile, Operations
  <2> QED
    BY <1>19, <2>1 DEF WriteFile, history
<1>20. CASE PublishSave
  <2>1. operation' \in Operations
    BY <1>20 DEF PublishSave, Operations
  <2>2. CASE buffer.id # operation.id
    BY <1>20, <2>1, <2>2 DEF PublishSave
  <2>3. CASE buffer.id = operation.id
    <3>1. operation.text \in Texts /\ buffer \in Open
      BY <1>20, <2>3, <1>0, OpenFacts, FileOperationFacts DEF PublishSave
    <3> DEFINE saved == [buffer EXCEPT !.base = operation.text]
    <3>2. saved \in Open /\ saved.text \in Texts
      BY <3>1, OpenStays, OpenFacts
    <3>3. /\ [saved EXCEPT !.mark = saved.text, !.inval = FALSE] \in Open
          /\ [saved EXCEPT !.inval = TRUE] \in Open
      BY <3>2, OpenStays
    <3>4. /\ buffer' \in Open
          /\ \/ SetLane(Suppressed(lane[buffer'.id], buffer'))
             \/ SetLane(AfterEdit(lane[buffer'.id], buffer'))
      BY <1>20, <2>3, <3>3 DEF PublishSave
    <3>5. lane' \in [Ids -> LaneStates]
      BY <3>4, <1>0, SuppressedType, AfterEditType, OpenFacts DEF SetLane
    <3>6. candidate' \in Candidates /\ kept' \in Notes /\ cleaned' \in BOOLEAN
      BY <1>20, <2>3 DEF PublishSave, Candidates, Notes
    <3> QED
      BY <1>20, <2>1, <3>4, <3>5, <3>6 DEF PublishSave, Open
  <2> QED
    BY <2>2, <2>3
<1>21. CASE UNCHANGED vars
  BY <1>21 DEF vars, volatile, history
<1> QED
  BY <1>1, <1>2, <1>3, <1>4, <1>5, <1>6, <1>7, <1>8, <1>9, <1>10, <1>11, <1>12, <1>13, <1>14,
     <1>15, <1>16, <1>17, <1>18, <1>19, <1>20, <1>21 DEF Next, LaneStep, SaveStep

-----------------------------------------------------------------------------
(* What the steps do to a lane. *)

\* A submitted checkpoint stays the submitted checkpoint.
KeepsSubmission(old, new) ==
  /\ new.at = "submitted" <=> old.at = "submitted"
  /\ old.at = "submitted" => new.op = old.op

LEMMA AfterEditFacts ==
  ASSUME NEW state \in LaneStates, NEW b \in Open
  PROVE  /\ KeepsSubmission(state, AfterEdit(state, b))
         /\ Modified(b) => /\ Active(AfterEdit(state, b))
                           /\ Latest(AfterEdit(state, b)) = Write(b)
         /\ ~Modified(b) => AfterEdit(state, b) = state
<1>1. Write(b) # None
  BY OperationFacts
<1>2. CASE ~Modified(b)
  BY <1>2 DEF AfterEdit, KeepsSubmission
<1>3. CASE Modified(b) /\ state.at = "submitted"
  <2>1. AfterEdit(state, b) = Submitted(state.op, Write(b))
    BY <1>3, Zenon DEF AfterEdit
  <2> QED
    BY <1>1, <1>3, <2>1 DEF KeepsSubmission, Active, Latest, Submitted
<1>4. CASE Modified(b) /\ state.at # "submitted"
  <2>1. AfterEdit(state, b) = Queued(Write(b))
    BY <1>4, Zenon DEF AfterEdit
  <2> QED
    BY <1>4, <2>1 DEF KeepsSubmission, Active, Latest, Queued
<1> QED
  BY <1>2, <1>3, <1>4

\* A lane that deletes the record last.
DeletesLast(state) == Active(state) /\ Latest(state).at = "delete"

LEMMA SuppressedFacts ==
  ASSUME NEW state \in LaneStates, NEW b \in Open
  PROVE  KeepsSubmission(state, Suppressed(state, b)) /\ DeletesLast(Suppressed(state, b))
<1>1. b.base \in Texts /\ b.rev \in Texts
  BY OpenFacts
<1>2. CASE state.at = "none"
  <2>1. Suppressed(state, b) = Queued(Delete(b.base, b.rev))
    BY <1>2, Zenon DEF Suppressed
  <2> QED
    BY <1>2, <2>1 DEF KeepsSubmission, DeletesLast, Active, Latest, Queued, Delete
<1>3. CASE state.at = "submitted"
  <2>1. Suppressed(state, b) = Submitted(state.op, Delete(state.op.base, state.op.rev))
    BY <1>3 DEF Suppressed
  <2>2. Delete(state.op.base, state.op.rev) # None
    BY DEF Delete, None
  <2> QED
    BY <1>3, <2>1, <2>2 DEF KeepsSubmission, DeletesLast, Active, Latest, Submitted, Delete
<1>4. CASE state.at \notin {"none", "submitted"}
  <2> DEFINE op == [state.op EXCEPT !.at = "delete"]
  <2>1. Suppressed(state, b) = Queued(op)
    BY <1>4, Zenon DEF Suppressed
  <2>2. state.op \in Operation
    BY <1>4, LaneStateFacts DEF None
  <2>3. op.at = "delete"
    BY <2>2 DEF Operation
  <2> HIDE DEF op
  <2> QED
    BY <1>4, <2>1, <2>3 DEF KeepsSubmission, DeletesLast, Active, Latest, Queued
<1> QED
  BY <1>2, <1>3, <1>4

LEMMA DisposedFacts ==
  ASSUME NEW state \in LaneStates, NEW c
  PROVE  KeepsSubmission(state, Disposed(state, c)) /\ DeletesLast(Disposed(state, c))
<1>1. Delete(c.base, c.rev) # None /\ Delete(c.base, c.rev).at = "delete"
  BY DEF Delete, None
<1> QED
  BY <1>1 DEF Disposed, KeepsSubmission, DeletesLast, Active, Latest, Submitted, Queued

\* A completion ends the submission and leaves what was to be done last.
LEMMA CompletedFacts ==
  ASSUME NEW state \in LaneStates, state.at = "submitted"
  PROVE  /\ state.next = None => Committed(state) = None /\ Latest(state) = state.op
         /\ state.next # None => /\ Active(Committed(state))
                                 /\ Latest(Committed(state)) = Latest(state)
         /\ Failed(state) # None /\ Failed(state).at \in {"queued", "paused"}
         /\ Latest(Failed(state)) = Latest(state)
         /\ Committed(state).at # "submitted"
<1>1. state.op \in Operation /\ state.next \in Operation \cup {None}
  BY LaneStateFacts DEF None
<1>2. /\ state.next = None => Committed(state) = None /\ Latest(state) = state.op
      /\ state.next # None => Committed(state) = Queued(state.next) /\ Latest(state) = state.next
  BY DEF Committed, Latest
<1>3. /\ state.next = None => Failed(state) = Paused(state.op)
      /\ state.next # None /\ state.next.at = "write" => Failed(state) = Paused(state.next)
      /\ state.next # None /\ state.next.at # "write" => Failed(state) = Queued(state.next)
  <2>1. None.at # "write"
    BY DEF None
  <2> QED
    BY <2>1, Zenon DEF Failed
<1>4. \A op : /\ Queued(op) # None /\ Paused(op) # None
              /\ Queued(op).at = "queued" /\ Paused(op).at = "paused" /\ None.at = "none"
              /\ Active(Queued(op)) /\ Latest(Queued(op)) = op /\ Latest(Paused(op)) = op
  BY DEF Queued, Paused, None, Active, Latest
<1>5. None.at # "submitted"
  BY DEF None
<1> QED
  BY <1>2, <1>3, <1>4, <1>5

-----------------------------------------------------------------------------
(* The kinds of a step: what it does to the lanes, the buffer and the record. *)

\* A step that leaves all of them alone.
Elsewhere ==
  UNCHANGED <<lane, job, record, buffer, discarded, cleaned, lastId>>

\* The buffer becomes what the disk holds.
ReadAgain ==
  /\ UNCHANGED <<lane, job, record, cleaned>>
  /\ ~Modified(buffer')
  /\ buffer' \in Open

\* A change of the open buffer is to be recorded.
Rewritten ==
  /\ buffer \in Open /\ buffer' \in Open /\ buffer'.id = buffer.id
  /\ lane' = [lane EXCEPT ![buffer.id] = AfterEdit(lane[buffer.id], buffer')]
  /\ UNCHANGED <<job, record, discarded, lastId>>
  /\ cleaned' => /\ cleaned /\ operation.at = "saved" /\ operation.id = buffer.id
                 /\ operation.rev # buffer.rev

\* The record of the open buffer is to be deleted.
Forgotten ==
  /\ buffer \in Open
  /\ \E new \in LaneStates :
       /\ lane' = [lane EXCEPT ![buffer.id] = new]
       /\ KeepsSubmission(lane[buffer.id], new)
       /\ DeletesLast(new)
  /\ UNCHANGED <<job, record, lastId>>
  /\ ~Modified(buffer') \/ discarded'
  /\ buffer' = Closed \/ buffer'.id = buffer.id

LEMMA StepKinds ==
  Types /\ Types' /\ Aligned /\ RevisionsInOrder /\ Next =>
    \/ Elsewhere
    \/ ReadAgain /\ PublishOpen
    \/ ReadAgain /\ UNCHANGED <<discarded, lastId>> /\ buffer'.id = buffer.id
    \/ Rewritten /\ phase # "drained"
    \/ Forgotten /\ phase # "drained"
    \/ Submit
    \/ \E i \in Ids : RunJob(i) \/ Complete(i)
    \/ Restart
<1> SUFFICES ASSUME Types, Types', Aligned, RevisionsInOrder, Next
             PROVE  \/ Elsewhere
                    \/ ReadAgain /\ PublishOpen
                    \/ ReadAgain /\ UNCHANGED <<discarded, lastId>> /\ buffer'.id = buffer.id
                    \/ Rewritten /\ phase # "drained"
                    \/ Forgotten /\ phase # "drained"
                    \/ Submit
                    \/ \E i \in Ids : RunJob(i) \/ Complete(i)
                    \/ Restart
  OBVIOUS
<1>0. /\ buffer # Closed => buffer \in Open
      /\ buffer' # Closed => buffer' \in Open
      /\ \A i \in Ids : lane[i] \in LaneStates
  BY DEF Open, Types
<1>1. CASE StartOpen \/ StartSave \/ StartReload
  BY <1>1 DEF StartOpen, StartSave, StartReload, Start, history, Elsewhere
<1>2. CASE PublishOpen
  <2>1. ~Modified(buffer') /\ buffer' # Closed
    BY <1>2 DEF PublishOpen, Modified, Closed
  <2> QED
    BY <1>0, <1>2, <2>1 DEF PublishOpen, ReadAgain
<1>3. CASE Restore
  <2>1. buffer \in Open
    BY <1>0, <1>3 DEF Restore, Decidable, Aligned
  <2>2. /\ buffer' = [buffer EXCEPT !.text = candidate.text, !.rev = clock + 1]
        /\ SetLane(AfterEdit(lane[buffer'.id], buffer'))
    BY <1>3 DEF Restore
  <2>3. buffer'.id = buffer.id
    BY <2>1, <2>2, OpenKeepsId
  <2>4. buffer' # Closed
    BY <2>1, <2>3, OpenFacts
  <2> QED
    BY <1>0, <1>3, <2>1, <2>2, <2>3, <2>4 DEF Restore, Rewritten, SetLane, Decidable
<1>4. CASE Discard
  <2>1. buffer \in Open
    BY <1>0, <1>4 DEF Discard, Decidable, Aligned
  <2>2. ~Modified(buffer)
    BY <1>4 DEF Discard, Decidable, RevisionsInOrder
  <2>3. lane[buffer.id] \in LaneStates /\ candidate \in Candidates \ {None}
    BY <1>0, <1>4, <2>1, OpenFacts DEF Discard, Decidable, Types
  <2> QED
    BY <1>4, <2>1, <2>2, <2>3, DisposedFacts, DisposedType
       DEF Discard, Forgotten, SetLane, Decidable
<1>5. CASE Defer
  BY <1>5 DEF Defer, Elsewhere
<1>6. CASE Edit
  <2>1. buffer \in Open
    BY <1>0, <1>6 DEF Edit
  <2>2. PICK text \in {clock + 1, buffer.mark} :
          /\ buffer' = [buffer EXCEPT !.text = text, !.rev = clock + 1]
          /\ SetLane(AfterEdit(lane[buffer'.id], buffer'))
    BY <1>6 DEF Edit
  <2>3. buffer'.id = buffer.id
    BY <2>1, <2>2, OpenKeepsId
  <2>4. buffer' # Closed
    BY <2>1, <2>3, OpenFacts
  <2> QED
    BY <1>0, <1>6, <2>1, <2>2, <2>3, <2>4 DEF Edit, Rewritten, SetLane
<1>7. CASE ChangeFile \/ HostShutdown \/ EndDrain
  BY <1>7 DEF ChangeFile, HostShutdown, EndDrain, volatile, history, Elsewhere
<1>8. CASE PublishReload
  <2>1. CASE UNCHANGED <<clock, buffer, candidate, lane, cleaned, kept>>
    BY <1>8, <2>1 DEF PublishReload, Elsewhere
  <2>2. CASE ~UNCHANGED <<clock, buffer, candidate, lane, cleaned, kept>>
    <3>1. /\ buffer.id = operation.id
          /\ operation.file \in Texts /\ operation.id \in Ids
          /\ buffer' = [buffer EXCEPT !.text = operation.file, !.base = operation.file,
                                      !.mark = operation.file, !.inval = FALSE,
                                      !.rev = clock + 1]
          /\ IF operation.discard
               THEN /\ SetLane(Suppressed(lane[buffer'.id], buffer'))
                    /\ candidate' = None
                    /\ cleaned' = TRUE
                    /\ kept' = None
               ELSE UNCHANGED <<candidate, lane, cleaned, kept>>
      BY <1>8, <2>2, FileOperationFacts DEF PublishReload, Types
    <3>2. buffer \in Open
      BY <1>0, <3>1, OpenFacts
    <3>3. buffer'.id = buffer.id
      BY <3>1, <3>2, OpenKeepsId
    <3>4. buffer' \in Open
      BY <1>0, <3>2, <3>3, OpenFacts
    <3>5. ~Modified(buffer')
      BY <3>1, <3>2 DEF Modified, Open, Buffers, Closed
    <3>6. CASE operation.discard
      BY <1>0, <1>8, <3>1, <3>2, <3>3, <3>4, <3>5, <3>6, SuppressedFacts, SuppressedType, OpenFacts
         DEF PublishReload, Forgotten, SetLane
    <3>7. CASE ~operation.discard
      BY <1>8, <3>1, <3>3, <3>4, <3>5, <3>7 DEF PublishReload, ReadAgain
    <3> QED
      BY <3>6, <3>7
  <2> QED
    BY <2>1, <2>2
<1>9. CASE CloseBuffer
  <2>1. ~Modified(buffer')
    BY <1>9 DEF CloseBuffer, Closed, Modified
  <2> QED
    BY <1>0, <1>9, <2>1, SuppressedFacts, SuppressedType, OpenFacts
       DEF CloseBuffer, Forgotten, SetLane
<1>10. CASE Quit
  <2>1. CASE Modified(buffer)
    <3>1. buffer \in Open
      BY <1>0, <2>1 DEF Modified, Closed
    <3> QED
      BY <1>0, <1>10, <2>1, <3>1, SuppressedFacts, SuppressedType, OpenFacts
         DEF Quit, Forgotten, SetLane
  <2>2. CASE ~Modified(buffer)
    BY <1>10, <2>2 DEF Quit, Elsewhere, history
  <2> QED
    BY <2>1, <2>2
<1>11. CASE Crash \/ Exit
  BY <1>11 DEF Crash, Exit
<1>12. CASE LaneStep
  BY <1>12 DEF LaneStep
<1>13. CASE WriteFile
  BY <1>13 DEF WriteFile, history, Elsewhere
<1>14. CASE PublishSave
  <2>1. CASE buffer.id # operation.id
    BY <1>14, <2>1 DEF PublishSave, Elsewhere
  <2>2. CASE buffer.id = operation.id
    <3>1. buffer \in Open /\ operation.text \in Texts
      BY <1>0, <1>14, <2>2, OpenFacts, FileOperationFacts DEF PublishSave, Types
    <3> DEFINE saved == [buffer EXCEPT !.base = operation.text]
    <3>2. saved \in Open
      BY <3>1, OpenStays
    <3>3. CASE buffer.rev = operation.rev
      <4> DEFINE b == [saved EXCEPT !.mark = saved.text, !.inval = FALSE]
      <4>1. buffer' = b /\ SetLane(Suppressed(lane[b.id], b)) /\ phase # "drained"
            /\ UNCHANGED <<job, record, lastId>>
        BY <1>14, <2>2, <3>3 DEF PublishSave
      <4>2. ~Modified(b) /\ b.id = buffer.id
        BY <3>1, <3>2 DEF Modified, Open, Buffers, Closed
      <4> HIDE DEF b
      <4>3. b \in Open
        BY <1>0, <4>1, <4>2, <3>1, OpenFacts
      <4>4. lane[buffer.id] \in LaneStates
        BY <1>0, <3>1, OpenFacts
      <4> QED
        BY <3>1, <4>1, <4>2, <4>3, <4>4, SuppressedFacts, SuppressedType
           DEF Forgotten, SetLane
    <3>4. CASE buffer.rev # operation.rev
      <4> DEFINE b == [saved EXCEPT !.inval = TRUE]
      <4>1. buffer' = b /\ SetLane(AfterEdit(lane[b.id], b)) /\ phase # "drained"
            /\ UNCHANGED <<job, record, discarded, lastId, cleaned>>
            /\ operation.at = "saved"
        BY <1>14, <2>2, <3>4 DEF PublishSave
      <4>2. b.id = buffer.id
        BY <3>1, <3>2 DEF Open, Buffers, Closed
      <4> HIDE DEF b
      <4>3. b \in Open
        BY <1>0, <4>1, <4>2, <3>1, OpenFacts
      <4> QED
        BY <2>2, <3>1, <3>4, <4>1, <4>2, <4>3 DEF Rewritten, SetLane
    <3> QED
      BY <3>3, <3>4
  <2> QED
    BY <2>1, <2>2
<1> QED
  BY <1>1, <1>2, <1>3, <1>4, <1>5, <1>6, <1>7, <1>8, <1>9, <1>10, <1>11, <1>12, <1>13, <1>14
     DEF Next, SaveStep

-----------------------------------------------------------------------------
(* The parts of the invariant, one lemma each. *)

LEMMA AlignedStep == Types /\ Aligned /\ [Next]_vars => Aligned'
<1> SUFFICES ASSUME Types, Aligned, [Next]_vars PROVE Aligned'
  OBVIOUS
<1> USE DEF Aligned
<1>0. /\ None.at # "open"
      /\ operation.at = "saved" => operation.at # "open"
      /\ buffer # Closed => buffer \in Open
  BY DEF None, Types, Open
<1>1. CASE StartOpen \/ StartSave \/ StartReload
  BY <1>1 DEF StartOpen, StartSave, StartReload, Start
<1>2. CASE PublishOpen
  BY <1>0, <1>2 DEF PublishOpen, Closed
<1>3. CASE Restore \/ Discard \/ Defer
  <2>1. candidate' = None /\ operation' = operation /\ lastId' = lastId
    BY <1>3 DEF Restore, Discard, Defer
  <2>2. operation.at # "open"
    BY <1>3 DEF Restore, Discard, Defer, Decidable
  <2> QED
    BY <2>1, <2>2
<1>4. CASE Edit
  <2>1. buffer \in Open
    BY <1>0, <1>4 DEF Edit
  <2>2. \E text : buffer' = [buffer EXCEPT !.text = text, !.rev = clock + 1]
    BY <1>4 DEF Edit
  <2>3. buffer'.id = buffer.id
    BY <2>1, <2>2, OpenKeepsId
  <2> QED
    BY <1>4, <2>1, <2>3, OpenFacts DEF Edit
<1>5. CASE ChangeFile \/ HostShutdown \/ EndDrain
  BY <1>5 DEF ChangeFile, HostShutdown, EndDrain, volatile
<1>6. CASE PublishReload
  <2>1. CASE buffer.id = operation.id
    <3>1. buffer \in Open
      BY <1>0, <1>6, <2>1, FileOperationFacts, OpenFacts DEF PublishReload, Types
    <3>2. buffer' = buffer \/ \E x : buffer' = [buffer EXCEPT !.text = x, !.base = x, !.mark = x,
                                                  !.inval = FALSE, !.rev = clock + 1]
      BY <1>6 DEF PublishReload
    <3>3. buffer'.id = buffer.id
      <4>1. CASE buffer' # buffer
        <5>1. PICK x : buffer' = [buffer EXCEPT !.text = x, !.base = x, !.mark = x,
                                                !.inval = FALSE, !.rev = clock + 1]
          BY <3>2, <4>1
        <5> QED
          BY <3>1, <5>1, OpenKeepsId
      <4> QED
        BY <4>1
    <3>4. buffer' # Closed
      BY <3>1, <3>3, OpenFacts
    <3> QED
      BY <1>0, <1>6, <3>4 DEF PublishReload
  <2>2. CASE buffer.id # operation.id
    BY <1>0, <1>6, <2>2 DEF PublishReload
  <2> QED
    BY <2>1, <2>2
<1>7. CASE CloseBuffer
  BY <1>7 DEF CloseBuffer
<1>8. CASE Quit
  BY <1>8 DEF Quit
<1>9. CASE Crash \/ Exit
  BY <1>0, <1>9 DEF Crash, Exit, Restart
<1>10. CASE LaneStep
  BY <1>10 DEF LaneStep, Submit, RunJob, Complete
<1>11. CASE WriteFile
  <2>1. operation'.at # "open"
    BY <1>0, <1>11 DEF WriteFile, Types, Operations, None
  <2> QED
    BY <1>11, <2>1 DEF WriteFile
<1>12. CASE PublishSave
  <2>1. CASE buffer.id = operation.id
    <3>1. buffer \in Open
      BY <1>0, <1>12, <2>1, FileOperationFacts, OpenFacts DEF PublishSave, Types
    <3>2. buffer'.id = buffer.id
      BY <1>12, <2>1, <3>1 DEF PublishSave, Open, Buffers, Closed
    <3>3. buffer' # Closed
      BY <3>1, <3>2, OpenFacts
    <3> QED
      BY <1>0, <1>12, <3>3 DEF PublishSave
  <2>2. CASE buffer.id # operation.id
    BY <1>0, <1>12, <2>2 DEF PublishSave
  <2> QED
    BY <2>1, <2>2
<1>13. CASE UNCHANGED vars
  BY <1>13 DEF vars, volatile
<1> QED
  BY <1>1, <1>2, <1>3, <1>4, <1>5, <1>6, <1>7, <1>8, <1>9, <1>10, <1>11, <1>12, <1>13
     DEF Next, SaveStep

LEMMA MeetsStep ==
  Types /\ Types' /\ Aligned /\ RevisionsInOrder /\ CompletionMeetsItsCheckpoint /\ [Next]_vars
    => CompletionMeetsItsCheckpoint'
<1> SUFFICES ASSUME Types, Types', Aligned, RevisionsInOrder, CompletionMeetsItsCheckpoint,
                    [Next]_vars, NEW i \in Ids
             PROVE  /\ job'[i] # None <=> lane'[i].at = "submitted"
                    /\ job'[i] # None => job'[i].op = lane'[i].op
  BY DEF CompletionMeetsItsCheckpoint
<1>0. /\ job[i] # None <=> lane[i].at = "submitted"
      /\ job[i] # None => job[i].op = lane[i].op
      /\ \A k \in Ids : lane[k] \in LaneStates /\ job[k] \in JobStates
      /\ lane \in [Ids -> LaneStates] /\ job \in [Ids -> JobStates]
  BY DEF CompletionMeetsItsCheckpoint, Types
<1>1. CASE UNCHANGED <<lane, job>>
  BY <1>0, <1>1
<1>2. CASE Rewritten
  <2>1. lane[buffer.id] \in LaneStates
    BY <1>0, <1>2, OpenFacts DEF Rewritten
  <2>2. KeepsSubmission(lane[buffer.id], AfterEdit(lane[buffer.id], buffer'))
    BY <1>2, <2>1, AfterEditFacts DEF Rewritten
  <2> QED
    BY <1>0, <1>2, <2>2 DEF Rewritten, KeepsSubmission
<1>3. CASE Forgotten
  BY <1>0, <1>3 DEF Forgotten, KeepsSubmission
<1>4. CASE Submit
  <2>1. PICK k \in Ids : /\ lane[k].at = "queued"
                         /\ lane' = [lane EXCEPT ![k] = Submitted(lane[k].op, None)]
                         /\ job' = [job EXCEPT ![k] = [at |-> "accepted", op |-> lane[k].op]]
    BY <1>4 DEF Submit
  <2>2. [at |-> "accepted", op |-> lane[k].op] # None
    BY DEF None
  <2> QED
    BY <1>0, <2>1, <2>2 DEF Submitted
<1>5. ASSUME NEW k \in Ids, RunJob(k)
      PROVE  /\ job'[i] # None <=> lane'[i].at = "submitted"
             /\ job'[i] # None => job'[i].op = lane'[i].op
  <2>1. job[k].at = "accepted" /\ lane' = lane /\ job[k] # None /\ job[k] \in JobStates
    BY <1>0, <1>5 DEF RunJob, None
  <2>2. job'[k] # None /\ job'[k].op = job[k].op
    BY <1>0, <1>5, <2>1 DEF RunJob, JobStates, None
  <2>3. k # i => job'[i] = job[i]
    BY <1>0, <1>5 DEF RunJob
  <2> QED
    BY <1>0, <2>1, <2>2, <2>3
<1>6. ASSUME NEW k \in Ids, Complete(k)
      PROVE  /\ job'[i] # None <=> lane'[i].at = "submitted"
             /\ job'[i] # None => job'[i].op = lane'[i].op
  <2>1. lane[k].at = "submitted"
    BY <1>0, <1>6 DEF Complete, CompletionMeetsItsCheckpoint, None
  <2>2. Committed(lane[k]).at # "submitted" /\ Failed(lane[k]).at # "submitted"
    BY <1>0, <2>1, CompletedFacts
  <2> QED
    BY <1>0, <1>6, <2>2 DEF Complete
<1>7. CASE Restart
  BY <1>7 DEF Restart, Idle, None
<1> QED
  BY <1>1, <1>2, <1>3, <1>4, <1>5, <1>6, <1>7, StepKinds
     DEF Elsewhere, ReadAgain, vars, volatile

\* What waits last in the lane of a modified buffer is the text of that buffer.
LEMMA RetainedStep ==
  /\ Types /\ Types' /\ Aligned /\ RevisionsInOrder /\ CompletionMeetsItsCheckpoint
  /\ NewestIsRetained /\ [Next]_vars
  => NewestIsRetained'
<1> SUFFICES ASSUME Types, Types', Aligned, RevisionsInOrder, CompletionMeetsItsCheckpoint,
                    NewestIsRetained, [Next]_vars, Modified(buffer'), ~discarded',
                    lane'[buffer'.id] # None
             PROVE  Latest(lane'[buffer'.id]) = Write(buffer')
  BY DEF NewestIsRetained, Latest, Modified
<1>0. /\ lane \in [Ids -> LaneStates] /\ \A i \in Ids : lane[i] \in LaneStates
      /\ buffer' \in Open /\ buffer'.id \in Ids
      /\ (buffer # Closed => buffer \in Open)
      /\ ~ Modified(Closed)
  BY OpenFacts DEF Types, Open, Modified, Closed
<1>1. Modified(buffer) /\ ~discarded /\ lane[buffer.id] # None =>
        Latest(lane[buffer.id]) = Write(buffer)
  BY DEF NewestIsRetained, Latest
<1>2. CASE UNCHANGED <<buffer, discarded, lane>>
  BY <1>1, <1>2
<1>3. CASE Rewritten
  <2>1. lane[buffer.id] \in LaneStates /\ buffer.id \in Ids
    BY <1>0, <1>3, OpenFacts DEF Rewritten
  <2>2. Latest(AfterEdit(lane[buffer.id], buffer')) = Write(buffer')
    BY <1>0, <2>1, AfterEditFacts
  <2> QED
    BY <1>0, <1>3, <2>1, <2>2 DEF Rewritten
<1>4. CASE Submit
  <2>1. PICK k \in Ids : /\ lane[k].at = "queued"
                         /\ lane' = [lane EXCEPT ![k] = Submitted(lane[k].op, None)]
                         /\ UNCHANGED <<buffer, discarded>>
    BY <1>4 DEF Submit, history
  <2>2. lane[k] # None /\ Latest(lane[k]) = lane[k].op
        /\ Latest(Submitted(lane[k].op, None)) = lane[k].op
    BY <2>1 DEF None, Latest, Submitted
  <2> QED
    BY <1>0, <1>1, <2>1, <2>2
<1>5. ASSUME NEW k \in Ids, RunJob(k) PROVE Latest(lane'[buffer'.id]) = Write(buffer')
  BY <1>1, <1>5 DEF RunJob, history
<1>6. ASSUME NEW k \in Ids, Complete(k) PROVE Latest(lane'[buffer'.id]) = Write(buffer')
  <2>1. lane[k].at = "submitted" /\ lane[k] # None
    BY <1>6, LaneStateFacts DEF Complete, CompletionMeetsItsCheckpoint, None
  <2>2. UNCHANGED <<buffer, discarded>>
    BY <1>6 DEF Complete, history
  <2>3. \/ lane' = [lane EXCEPT ![k] = Committed(lane[k])]
        \/ lane' = [lane EXCEPT ![k] = Failed(lane[k])]
    BY <1>6 DEF Complete
  <2>4. CASE k # buffer.id
    BY <1>0, <1>1, <2>2, <2>3, <2>4
  <2>5. CASE k = buffer.id
    <3>1. Latest(lane'[k]) = Latest(lane[k])
      BY <1>0, <2>1, <2>2, <2>3, <2>5, CompletedFacts
    <3> QED
      BY <1>1, <2>1, <2>2, <2>5, <3>1
  <2> QED
    BY <2>4, <2>5
<1> QED
  BY <1>0, <1>2, <1>3, <1>4, <1>5, <1>6, StepKinds
     DEF Elsewhere, ReadAgain, Forgotten, Restart, vars, volatile, history

\* The revisions of the buffer, of the record and of a running save.
LEMMA OrderStep ==
  Types /\ Types' /\ Aligned /\ RevisionsInOrder /\ [Next]_vars => RevisionsInOrder'
<1> SUFFICES ASSUME Types, Types', Aligned, RevisionsInOrder, [Next]_vars
             PROVE RevisionsInOrder'
  OBVIOUS
<1>0. /\ clock \in Int /\ \A n \in Texts : n \in Int
      /\ (buffer # Closed => buffer \in Open /\ buffer.rev \in Int /\ buffer.rev <= clock)
      /\ (candidate # None => candidate.rev \in Int)
      /\ (operation.at \in {"save", "saved"} => operation.rev \in Int /\ operation.id \in Ids)
      /\ Closed.id \notin Ids
  <2>1. \A n \in Texts : n \in Int
    BY LaneAssumption DEF Texts
  <2>2. clock \in Texts /\ candidate \in Candidates /\ operation \in Operations
    BY DEF Types
  <2>3. buffer # Closed => buffer \in Open /\ buffer.rev \in Texts /\ buffer.rev <= clock
    BY OpenFacts DEF Types, Open, RevisionsInOrder
  <2>4. candidate # None => candidate.rev \in Texts
    BY <2>2, CandidateFacts
  <2>5. operation.at \in {"save", "saved"} => operation.rev \in Texts /\ operation.id \in Ids
    BY <2>2, FileOperationFacts
  <2> QED
    BY <2>1, <2>2, <2>3, <2>4, <2>5, OpenFacts
<1>1. CASE UNCHANGED <<clock, buffer, candidate, operation>>
  BY <1>1 DEF RevisionsInOrder, Modified
<1>2. CASE StartOpen \/ StartReload
  BY <1>2 DEF StartOpen, StartReload, Start, RevisionsInOrder, Modified
<1>3. CASE StartSave
  <2>1. buffer \in Open /\ operation' = [at |-> "save", id |-> buffer.id, base |-> buffer.base,
                                         text |-> buffer.text, rev |-> buffer.rev]
        /\ UNCHANGED <<clock, buffer, candidate>>
    BY <1>0, <1>3 DEF StartSave, Start
  <2>2. operation'.rev = buffer.rev /\ buffer # Closed
    BY <2>1 DEF Open
  <2>3. candidate # None => candidate.rev <= buffer.rev
    BY DEF RevisionsInOrder
  <2>4. Modified(buffer') <=> Modified(buffer)
    BY <2>1
  <2> QED
    BY <1>0, <2>1, <2>2, <2>3, <2>4 DEF RevisionsInOrder
<1>4. CASE PublishOpen
  <2>1. /\ buffer'.rev = clock /\ clock' = clock /\ operation' = None /\ ~Modified(buffer')
        /\ candidate' # None => candidate'.rev = clock
    BY <1>4 DEF PublishOpen, Modified
  <2>2. None.at \notin {"save", "saved"}
    BY DEF None
  <2> QED
    BY <1>0, <2>1, <2>2 DEF RevisionsInOrder
<1>5. CASE Restore \/ Edit
  <2>1. buffer \in Open
    BY <1>0, <1>5 DEF Restore, Decidable, Edit, Aligned
  <2>2. \E x : buffer' = [buffer EXCEPT !.text = x, !.rev = clock + 1]
    BY <1>5 DEF Restore, Edit
  <2>3. buffer'.id = buffer.id /\ buffer'.rev = clock + 1
    BY <2>1, <2>2 DEF Open, Buffers, Closed
  <2>4. /\ clock' = clock + 1 /\ operation' = operation
        /\ candidate' = None \/ candidate' = candidate
    BY <1>5 DEF Restore, Edit
  <2>5. buffer # Closed
    BY <2>1 DEF Open
  <2> QED
    BY <1>0, <2>3, <2>4, <2>5 DEF RevisionsInOrder
<1>6. CASE Discard \/ Defer \/ Quit
  <2>1. /\ UNCHANGED <<clock, buffer, operation>>
        /\ candidate' = None \/ candidate' = candidate
    BY <1>6 DEF Discard, Defer, Quit
  <2> QED
    BY <2>1 DEF RevisionsInOrder, Modified
<1>7. CASE ChangeFile
  <2>1. UNCHANGED <<buffer, candidate, operation>> /\ clock' = clock + 1
    BY <1>7 DEF ChangeFile, volatile
  <2> QED
    BY <1>0, <2>1 DEF RevisionsInOrder, Modified
<1>8. CASE PublishReload
  <2>1. operation' = None /\ None.at \notin {"save", "saved"}
    BY <1>8 DEF PublishReload, None
  <2>2. CASE UNCHANGED <<clock, buffer, candidate>>
    BY <2>1, <2>2 DEF RevisionsInOrder, Modified
  <2>3. CASE ~UNCHANGED <<clock, buffer, candidate>>
    <3>1. /\ buffer.id = operation.id /\ clock' = clock + 1 /\ operation.id \in Ids
          /\ buffer' = [buffer EXCEPT !.text = operation.file, !.base = operation.file,
                                      !.mark = operation.file, !.inval = FALSE,
                                      !.rev = clock + 1]
          /\ candidate' = None \/ candidate' = candidate
      BY <1>8, <2>3, FileOperationFacts DEF PublishReload, Types
    <3>2. buffer \in Open /\ buffer # Closed
      BY <1>0, <3>1
    <3>3. buffer'.rev = clock + 1 /\ ~Modified(buffer')
      BY <3>1, <3>2 DEF Open, Buffers, Closed, Modified
    <3> QED
      BY <1>0, <2>1, <3>1, <3>2, <3>3 DEF RevisionsInOrder
  <2> QED
    BY <2>2, <2>3
<1>9. CASE CloseBuffer
  <2>1. buffer' = Closed /\ candidate' = None /\ operation' = operation
    BY <1>9 DEF CloseBuffer
  <2> QED
    BY <1>0, <2>1 DEF RevisionsInOrder
<1>10. CASE Restart
  BY <1>10 DEF Restart, RevisionsInOrder, None
<1>11. CASE WriteFile
  <2>1. /\ UNCHANGED <<clock, buffer, candidate>> /\ operation.at = "save"
        /\ operation' = None \/ operation' = [operation EXCEPT !.at = "saved"]
    BY <1>11 DEF WriteFile
  <2>2. operation \in Operations
    BY DEF Types
  <2>3. operation' # None => operation'.id = operation.id /\ operation'.rev = operation.rev
    <3>1. operation.at \in {"save", "saved"}
      BY <2>1
    <3>2. /\ [operation EXCEPT !.at = "saved"].id = operation.id
          /\ [operation EXCEPT !.at = "saved"].rev = operation.rev
      BY <2>2, <3>1, FileOperationFacts
    <3> QED
      BY <2>1, <3>2
  <2>4. None.at \notin {"save", "saved"}
    BY DEF None
  <2> QED
    BY <2>1, <2>3, <2>4 DEF RevisionsInOrder, Modified
<1>12. CASE PublishSave
  <2>1. operation' = None /\ clock' = clock /\ None.at \notin {"save", "saved"}
    BY <1>12 DEF PublishSave, None
  <2>2. CASE buffer.id # operation.id
    BY <1>12, <2>1, <2>2 DEF PublishSave, RevisionsInOrder, Modified
  <2>3. CASE buffer.id = operation.id
    <3>1. buffer \in Open /\ buffer # Closed /\ operation.at = "saved"
      BY <1>0, <1>12, <2>3 DEF PublishSave
    <3>2. buffer'.rev = buffer.rev
      BY <1>12, <2>3, <3>1 DEF PublishSave, Open, Buffers, Closed
    <3>3. CASE buffer.rev = operation.rev
      BY <1>0, <1>12, <2>1, <2>3, <3>1, <3>2, <3>3 DEF PublishSave, RevisionsInOrder
    <3>4. CASE buffer.rev # operation.rev
      <4>1. candidate' = candidate
        BY <1>12, <2>3, <3>4 DEF PublishSave
      <4> QED
        BY <1>0, <2>1, <2>3, <3>1, <3>2, <3>4, <4>1 DEF RevisionsInOrder
    <3> QED
      BY <3>3, <3>4
  <2> QED
    BY <2>2, <2>3
<1> QED
  BY <1>1, <1>2, <1>3, <1>4, <1>5, <1>6, <1>7, <1>8, <1>9, <1>10, <1>11, <1>12
     DEF Next, SaveStep, LaneStep, Submit, RunJob, Complete, Crash, Exit, HostShutdown,
         EndDrain, vars, volatile

-----------------------------------------------------------------------------
(* The parts that need a file to be opened again only when the checkpoints of *)
(* its closed buffer are done.                                                *)

LEMMA OneActiveStep ==
  ASSUME ~ReopenEarly
  PROVE  /\ Types /\ Types' /\ Aligned /\ RevisionsInOrder /\ CompletionMeetsItsCheckpoint
         /\ OneActive /\ [Next]_vars
         => OneActive'
<1> SUFFICES ASSUME Types, Types', Aligned, RevisionsInOrder, CompletionMeetsItsCheckpoint,
                    OneActive, [Next]_vars
             PROVE OneActive'
  OBVIOUS
<1>0. /\ lane \in [Ids -> LaneStates] /\ \A i \in Ids : lane[i] \in LaneStates
      /\ ~Active(None)
      /\ \A i \in Ids : Active(lane[i]) => i = lastId /\ operation.at # "open"
      /\ buffer # Closed => buffer.id = lastId
  BY DEF Types, OneActive, Active, None
<1>1. CASE StartOpen
  <2>1. \A i \in Ids : ~Active(lane[i])
    BY <1>1 DEF StartOpen, Active
  <2> QED
    BY <1>0, <1>1, <2>1 DEF StartOpen, Start, OneActive
<1>2. CASE PublishOpen
  <2>1. \A i \in Ids : ~Active(lane[i])
    BY <1>0, <1>2 DEF PublishOpen
  <2>2. lane' = lane /\ buffer'.id = lastId' /\ operation'.at # "open"
    BY <1>2 DEF PublishOpen, None
  <2> QED
    BY <2>1, <2>2 DEF OneActive
<1>3. ASSUME ~StartOpen, ~PublishOpen, ~Restart PROVE OneActive'
  <2>1. operation'.at = "open" => operation.at = "open"
    <3>1. StartSave \/ StartReload => operation'.at # "open"
      BY DEF StartSave, StartReload, Start
    <3>2. operation'.at = "open" /\ operation' # operation => StartSave \/ StartReload
      <4>1. None.at # "open"
        BY DEF None
      <4>2. WriteFile => operation'.at # "open"
        BY <4>1 DEF WriteFile, Types, Operations, None
      <4> QED
        BY <1>3, <4>1, <4>2 DEF Next, Restore, Discard, Defer, Edit, ChangeFile, PublishReload,
           CloseBuffer, Quit, HostShutdown, EndDrain, Crash, Exit, LaneStep, Submit, RunJob,
           Complete, SaveStep, PublishSave, vars, volatile, history
    <3> QED
      BY <3>1, <3>2
  <2>2. operation.at = "open" => buffer = Closed
    BY DEF Aligned
  <2>3. CASE UNCHANGED <<lane, buffer, lastId>>
    BY <1>0, <2>1, <2>3 DEF OneActive
  <2>4. CASE ReadAgain /\ UNCHANGED <<discarded, lastId>> /\ buffer'.id = buffer.id
    <3>1. buffer # Closed
      BY <2>4, OpenFacts DEF ReadAgain
    <3> QED
      BY <1>0, <2>1, <2>4, <3>1 DEF OneActive, ReadAgain
  <2>5. CASE Rewritten \/ Forgotten
    <3>1. buffer \in Open /\ lastId' = lastId /\ buffer.id \in Ids /\ buffer.id = lastId
      BY <1>0, <2>5, OpenFacts DEF Rewritten, Forgotten, Open
    <3>2. \A i \in Ids : i # buffer.id => lane'[i] = lane[i]
      BY <1>0, <2>5, <3>1 DEF Rewritten, Forgotten
    <3>3. buffer' = Closed \/ buffer'.id = buffer.id
      BY <2>5 DEF Rewritten, Forgotten
    <3>4. operation'.at # "open"
      BY <2>1, <2>2, <3>1 DEF Open
    <3> QED
      BY <1>0, <3>1, <3>2, <3>3, <3>4 DEF OneActive
  <2>6. CASE Submit
    <3>1. PICK k \in Ids : /\ lane[k].at = "queued"
                           /\ lane' = [lane EXCEPT ![k] = Submitted(lane[k].op, None)]
                           /\ UNCHANGED <<buffer, lastId>>
      BY <2>6 DEF Submit
    <3>2. Active(lane[k])
      BY <3>1 DEF Active
    <3> QED
      BY <1>0, <2>1, <3>1, <3>2 DEF OneActive
  <2>7. ASSUME NEW k \in Ids, RunJob(k) PROVE OneActive'
    BY <1>0, <2>1, <2>7 DEF RunJob, OneActive
  <2>8. ASSUME NEW k \in Ids, Complete(k) PROVE OneActive'
    <3>1. lane[k].at = "submitted"
      BY <2>8 DEF Complete, CompletionMeetsItsCheckpoint, None
    <3>2. \A i \in Ids : i # k => lane'[i] = lane[i]
      BY <1>0, <2>8 DEF Complete
    <3> QED
      BY <1>0, <2>1, <2>8, <3>1, <3>2 DEF Complete, OneActive, Active
  <2> QED
    BY <1>3, <2>3, <2>4, <2>5, <2>6, <2>7, <2>8, StepKinds
       DEF Elsewhere, vars, volatile
<1>4. CASE Restart
  BY <1>0, <1>4 DEF Restart, Idle, OneActive
<1> QED
  BY <1>1, <1>2, <1>3, <1>4

\* A job that runs or ran belongs to the one active lane.
LEMMA OneJob ==
  ASSUME Types, CompletionMeetsItsCheckpoint, OneActive, NEW i \in Ids, job[i].at # "none"
  PROVE  i = lastId /\ Active(lane[i]) /\ lane[i] # None
BY JobFacts DEF Types, CompletionMeetsItsCheckpoint, OneActive, Active, None

LEMMA EffectStep ==
  /\ Types /\ Types' /\ Aligned /\ RevisionsInOrder /\ CompletionMeetsItsCheckpoint
  /\ OneActive /\ JobEffect /\ [Next]_vars
  => JobEffect'
<1> SUFFICES ASSUME Types, Types', Aligned, RevisionsInOrder, CompletionMeetsItsCheckpoint,
                    OneActive, JobEffect, [Next]_vars
             PROVE JobEffect'
  OBVIOUS
<1>0. job \in [Ids -> JobStates]
  BY DEF Types
<1>1. CASE UNCHANGED <<job, record>>
  BY <1>1 DEF JobEffect
<1>2. CASE Submit
  BY <1>0, <1>2 DEF Submit, JobEffect
<1>3. ASSUME NEW k \in Ids, RunJob(k) PROVE JobEffect'
  <2>1. job[k].at = "accepted"
    BY <1>3 DEF RunJob
  <2>2. \A i \in Ids : i # k => job'[i].at = "none"
    <3>1. \A i \in Ids : i # k => job[i].at = "none"
      BY <2>1, OneJob
    <3> QED
      BY <1>0, <1>3, <3>1 DEF RunJob
  <2>3. job[k] \in JobStates /\ job[k] # None
    BY <1>0, <2>1 DEF None
  <2>4. CASE job' = [job EXCEPT ![k].at = "committed"]
    <3>1. job'[k].op = job[k].op
      BY <1>0, <2>3, <2>4 DEF JobStates, None
    <3>2. record' = IF job[k].op.at = "delete" THEN None
                    ELSE [at |-> "record", base |-> job[k].op.base, text |-> job[k].op.text]
      <4>1. job'[k].at = "committed"
        BY <1>0, <2>3, <2>4 DEF JobStates, None
      <4>2. job' # [job EXCEPT ![k].at = "failed"]
        BY <1>0, <2>3, <4>1 DEF JobStates, None
      <4> QED
        BY <1>3, <4>2 DEF RunJob
    <3> QED
      BY <2>2, <3>1, <3>2 DEF JobEffect
  <2>5. CASE job' = [job EXCEPT ![k].at = "failed"]
    <3>1. job'[k].at = "failed"
      BY <1>0, <2>3, <2>5 DEF JobStates, None
    <3> QED
      BY <2>2, <3>1 DEF JobEffect
  <2> QED
    BY <1>3, <2>4, <2>5 DEF RunJob
<1>4. ASSUME NEW k \in Ids, Complete(k) PROVE JobEffect'
  <2>1. record' = record /\ job' = [job EXCEPT ![k] = None] /\ None.at # "committed"
    BY <1>4 DEF Complete, None
  <2> QED
    BY <1>0, <2>1 DEF JobEffect
<1>5. CASE Restart
  BY <1>5 DEF Restart, Idle, JobEffect, None
<1> QED
  BY <1>1, <1>2, <1>3, <1>4, <1>5, StepKinds
     DEF Elsewhere, ReadAgain, Rewritten, Forgotten, vars, volatile

\* The lane of a modified buffer is done only when the record holds its text.
LEMMA KeptStep ==
  /\ Types /\ Types' /\ Aligned /\ RevisionsInOrder /\ CompletionMeetsItsCheckpoint
  /\ OneActive /\ JobEffect /\ NewestIsRetained /\ NewestTextKept /\ [Next]_vars
  => NewestTextKept'
<1> SUFFICES ASSUME Types, Types', Aligned, RevisionsInOrder, CompletionMeetsItsCheckpoint,
                    OneActive, JobEffect, NewestIsRetained, NewestTextKept, [Next]_vars,
                    Modified(buffer'), ~discarded', lane'[buffer'.id] = None
             PROVE  Holds(buffer)'
  BY DEF NewestTextKept
<1>0. /\ lane \in [Ids -> LaneStates] /\ \A i \in Ids : lane[i] \in LaneStates
      /\ buffer' \in Open /\ buffer'.id \in Ids
      /\ ~Active(None) /\ ~Modified(Closed)
  BY OpenFacts DEF Types, Open, Modified, Closed, Active, None
<1>1. CASE UNCHANGED <<buffer, discarded, lane, record>>
  BY <1>1 DEF NewestTextKept, Holds
<1>2. CASE Rewritten
  <2>1. lane[buffer.id] \in LaneStates /\ buffer.id \in Ids
    BY <1>0, <1>2, OpenFacts DEF Rewritten
  <2>2. Active(AfterEdit(lane[buffer.id], buffer'))
    BY <1>0, <2>1, AfterEditFacts
  <2>3. lane'[buffer'.id] = AfterEdit(lane[buffer.id], buffer')
    BY <1>0, <1>2, <2>1 DEF Rewritten
  <2> QED
    BY <1>0, <2>2, <2>3
<1>3. CASE Submit
  <2>1. PICK k \in Ids : /\ lane[k].at = "queued"
                         /\ lane' = [lane EXCEPT ![k] = Submitted(lane[k].op, None)]
                         /\ UNCHANGED <<buffer, discarded, record>>
    BY <1>3 DEF Submit, history
  <2>2. Submitted(lane[k].op, None) # None
    BY DEF None, Submitted
  <2>3. lane[buffer.id] = None
    BY <1>0, <2>1, <2>2
  <2> QED
    BY <2>1, <2>3 DEF NewestTextKept, Holds
<1>4. ASSUME NEW k \in Ids, RunJob(k) PROVE Holds(buffer)'
  <2>1. lane' = lane /\ UNCHANGED <<buffer, discarded, lastId>> /\ job[k].at = "accepted"
    BY <1>4 DEF RunJob, history
  <2>2. k = lastId /\ lane[k] # None
    BY <2>1, OneJob
  <2>3. buffer.id = lastId
    BY <1>0, <2>1 DEF OneActive
  <2> QED
    BY <2>1, <2>2, <2>3
<1>5. ASSUME NEW k \in Ids, Complete(k) PROVE Holds(buffer)'
  <2>1. lane[k].at = "submitted" /\ job[k].op = lane[k].op
    BY <1>5 DEF Complete, CompletionMeetsItsCheckpoint, None
  <2>2. UNCHANGED <<buffer, discarded, record>>
    BY <1>5 DEF Complete, history
  <2>3. CASE k # buffer.id
    <3>1. lane'[buffer.id] = lane[buffer.id]
      BY <1>0, <1>5, <2>2, <2>3 DEF Complete
    <3> QED
      BY <2>2, <3>1 DEF NewestTextKept, Holds
  <2>4. CASE k = buffer.id
    <3>1. lane'[k] = IF job[k].at = "committed" THEN Committed(lane[k]) ELSE Failed(lane[k])
      BY <1>0, <1>5 DEF Complete
    <3>2. job[k].at = "committed" /\ lane[k].next = None
      BY <1>0, <2>1, <2>2, <2>4, <3>1, CompletedFacts
    <3>3. lane[k].op = Write(buffer)
      BY <2>1, <2>2, <2>4, <3>2 DEF NewestIsRetained, None
    <3>4. record = [at |-> "record", base |-> buffer.base, text |-> buffer.text]
      BY <2>1, <3>2, <3>3 DEF JobEffect, Write
    <3> QED
      BY <2>2, <3>4 DEF Holds
  <2> QED
    BY <2>3, <2>4
<1> QED
  BY <1>0, <1>1, <1>2, <1>3, <1>4, <1>5, StepKinds
     DEF Elsewhere, ReadAgain, Forgotten, Restart, vars, volatile, history

LEMMA DrainedStep ==
  /\ Types /\ Types' /\ Aligned /\ RevisionsInOrder /\ DrainedIsIdle /\ [Next]_vars
  => DrainedIsIdle'
<1> SUFFICES ASSUME Types, Types', Aligned, RevisionsInOrder, DrainedIsIdle, [Next]_vars,
                    phase' = "drained"
             PROVE \A i \in Ids : ~Active(lane'[i])
  BY DEF DrainedIsIdle
<1>1. CASE EndDrain
  BY <1>1 DEF EndDrain, volatile, Active
<1>2. ASSUME ~EndDrain PROVE phase = "drained"
  BY <1>2 DEF Next, StartOpen, StartSave, StartReload, Start, PublishOpen, Restore, Discard,
     Defer, Edit, ChangeFile, PublishReload, CloseBuffer, Quit, HostShutdown, Crash, Exit,
     Restart, LaneStep, Submit, RunJob, Complete, SaveStep, WriteFile, PublishSave, vars,
     volatile, history
<1>3. CASE UNCHANGED lane
  BY <1>1, <1>2, <1>3 DEF DrainedIsIdle
<1>4. ASSUME NEW k \in Ids, RunJob(k) PROVE UNCHANGED lane
  BY <1>4 DEF RunJob
<1>5. ASSUME NEW k \in Ids, Complete(k) PROVE phase # "drained"
  BY <1>5 DEF Complete
<1> QED
  BY <1>1, <1>2, <1>3, <1>4, <1>5, StepKinds
     DEF Elsewhere, ReadAgain, Submit, Restart, vars, volatile


\* The deletion that was promised is the last thing the lane does.
LEMMA CleanedStep ==
  ASSUME ~QuitMidSave
  PROVE  /\ Types /\ Types' /\ Aligned /\ RevisionsInOrder /\ CompletionMeetsItsCheckpoint
         /\ OneActive /\ JobEffect /\ CleanedHolds /\ [Next]_vars
         => CleanedHolds'
<1> SUFFICES ASSUME Types, Types', Aligned, RevisionsInOrder, CompletionMeetsItsCheckpoint,
                    OneActive, JobEffect, CleanedHolds, [Next]_vars, cleaned'
             PROVE  CleanedHolds'
  BY DEF CleanedHolds
<1> DEFINE
      SaveIsCurrent == operation.at \in {"save", "saved"} /\ operation.id = buffer.id =>
                         operation.rev = buffer.rev
      LanesDelete == \A i \in Ids : Active(lane[i]) => Latest(lane[i]).at = "delete"
      NothingRevived == \/ record = None
                        \/ \E i \in Ids : \/ Active(lane[i])
                                          \/ lane[i].at = "paused" /\ lane[i].op.at = "delete"
<1>0. /\ lane \in [Ids -> LaneStates] /\ \A i \in Ids : lane[i] \in LaneStates
      /\ ~Active(None) /\ None.at \notin {"save", "saved"}
      /\ (buffer # Closed => buffer \in Open)
      /\ (operation.at \in {"save", "saved"} => operation.id \in Ids /\ operation.rev \in Int)
      /\ cleaned => SaveIsCurrent /\ LanesDelete /\ NothingRevived
  <2>1. operation.at \in {"save", "saved"} => operation.id \in Ids /\ operation.rev \in Texts
    BY FileOperationFacts DEF Types
  <2> QED
    BY <2>1, LaneAssumption DEF Types, Open, Active, None, Texts, CleanedHolds
<1>1. SaveIsCurrent'
  <2>1. CASE UNCHANGED <<operation, buffer, cleaned>>
    BY <1>0, <2>1
  <2>2. CASE operation'.at \notin {"save", "saved"}
    BY <2>2
  <2>3. CASE Discard
    <3>1. /\ UNCHANGED <<operation, buffer>> /\ candidate # None
          /\ candidate.rev = buffer.rev /\ buffer # Closed
      BY <2>3 DEF Discard, Decidable, Aligned
    <3>2. ASSUME operation.at \in {"save", "saved"}, operation.id = buffer.id
          PROVE  operation.rev = buffer.rev
      <4>1. operation.rev <= buffer.rev /\ candidate.rev <= operation.rev
        BY <3>1, <3>2 DEF RevisionsInOrder
      <4>2. buffer.rev \in Int
        BY <1>0, <3>1, OpenFacts, LaneAssumption DEF Texts
      <4> QED
        BY <1>0, <3>1, <3>2, <4>1, <4>2
    <3> QED
      BY <3>1, <3>2
  <2>4. CASE Quit
    <3>1. CASE Modified(buffer)
      BY <2>2, <2>4, <3>1 DEF Quit
    <3>2. CASE ~Modified(buffer)
      BY <2>1, <2>4, <3>2 DEF Quit, history
    <3> QED
      BY <3>1, <3>2
  <2>5. CASE StartSave
    BY <2>5 DEF StartSave, Start
  <2>6. CASE CloseBuffer
    <3>1. buffer'.id \notin Ids /\ operation' = operation
      BY <2>6, OpenFacts DEF CloseBuffer
    <3> QED
      BY <1>0, <3>1
  <2>7. CASE WriteFile
    <3>1. operation' = None \/ operation' = [operation EXCEPT !.at = "saved"]
      BY <2>7 DEF WriteFile
    <3>2. operation.at = "save" /\ UNCHANGED <<buffer, cleaned>>
      BY <2>7 DEF WriteFile, history
    <3>3. /\ [operation EXCEPT !.at = "saved"].id = operation.id
          /\ [operation EXCEPT !.at = "saved"].rev = operation.rev
      BY <3>2, FileOperationFacts DEF Types
    <3> DEFINE o == [operation EXCEPT !.at = "saved"]
    <3>4. CASE operation' = o
      <4>1. o.id = operation.id /\ o.rev = operation.rev
        BY <3>3
      <4> HIDE DEF o
      <4> QED
        BY <1>0, <3>2, <3>4, <4>1
    <3> QED
      BY <1>0, <2>2, <3>1, <3>4
  <2>8. StartOpen \/ StartReload \/ PublishOpen \/ PublishReload \/ PublishSave
          => operation'.at \notin {"save", "saved"}
    <3>1. StartOpen \/ StartReload => operation'.at \notin {"save", "saved"}
      BY DEF StartOpen, StartReload, Start
    <3>2. PublishOpen \/ PublishReload \/ PublishSave => operation' = None
      BY DEF PublishOpen, PublishReload, PublishSave
    <3> QED
      BY <1>0, <3>1, <3>2
  <2>9. Restore \/ Edit \/ Restart => ~cleaned'
    BY DEF Restore, Edit, Restart
  <2>10. Defer \/ ChangeFile \/ HostShutdown \/ EndDrain \/ LaneStep \/ UNCHANGED vars
           => UNCHANGED <<operation, buffer, cleaned>>
    BY DEF Defer, ChangeFile, HostShutdown, EndDrain, LaneStep, Submit, RunJob, Complete, vars,
       volatile, history
  <2> QED
    BY <2>1, <2>2, <2>3, <2>4, <2>5, <2>6, <2>7, <2>8, <2>9, <2>10
       DEF Next, SaveStep, Crash, Exit
<1>2. LanesDelete' /\ NothingRevived'
  <2>1. CASE UNCHANGED <<lane, record, cleaned>>
    BY <1>0, <2>1
  <2>2. CASE Rewritten
    <3>1. /\ cleaned /\ operation.at = "saved" /\ operation.id = buffer.id
          /\ operation.rev # buffer.rev
      BY <2>2 DEF Rewritten
    <3> QED
      BY <1>0, <3>1
  <2>3. CASE Forgotten
    <3>1. PICK new \in LaneStates : /\ lane' = [lane EXCEPT ![buffer.id] = new]
                                    /\ DeletesLast(new)
      BY <2>3 DEF Forgotten
    <3>2. buffer \in Open /\ buffer.id \in Ids /\ buffer.id = lastId
      BY <2>3, OpenFacts DEF Forgotten, OneActive, Open
    <3>3. lane'[buffer.id] = new /\ \A i \in Ids : i # buffer.id => lane'[i] = lane[i]
      BY <1>0, <3>1, <3>2
    <3>4. \A i \in Ids : i # buffer.id => ~Active(lane'[i])
      BY <3>2, <3>3 DEF OneActive
    <3> QED
      BY <3>1, <3>2, <3>3, <3>4 DEF DeletesLast
  <2>4. CASE Submit
    <3>1. PICK k \in Ids : /\ lane[k].at = "queued"
                           /\ lane' = [lane EXCEPT ![k] = Submitted(lane[k].op, None)]
                           /\ UNCHANGED <<record, cleaned>>
      BY <2>4 DEF Submit, history
    <3>2. /\ Active(lane[k]) /\ Latest(lane[k]) = lane[k].op
          /\ Active(Submitted(lane[k].op, None))
          /\ Latest(Submitted(lane[k].op, None)) = lane[k].op
      BY <3>1 DEF Active, Latest, Submitted, None
    <3>3. /\ lane'[k] = Submitted(lane[k].op, None)
          /\ \A i \in Ids : i # k => lane'[i] = lane[i]
      BY <1>0, <3>1
    <3> QED
      BY <1>0, <3>1, <3>2, <3>3
  <2>5. ASSUME NEW k \in Ids, RunJob(k) PROVE LanesDelete' /\ NothingRevived'
    <3>1. Active(lane[k]) /\ UNCHANGED <<lane, cleaned>>
      BY <2>5, OneJob DEF RunJob, history
    <3> QED
      BY <1>0, <3>1
  <2>6. ASSUME NEW k \in Ids, Complete(k) PROVE LanesDelete' /\ NothingRevived'
    <3>1. lane[k].at = "submitted" /\ job[k].op = lane[k].op /\ Active(lane[k])
      BY <2>6 DEF Complete, CompletionMeetsItsCheckpoint, None, Active
    <3>2. UNCHANGED <<record, cleaned>>
      BY <2>6 DEF Complete, history
    <3>3. Latest(lane[k]).at = "delete"
      BY <1>0, <3>1, <3>2
    <3>4. /\ lane'[k] = IF job[k].at = "committed" THEN Committed(lane[k]) ELSE Failed(lane[k])
          /\ \A i \in Ids : i # k => lane'[i] = lane[i]
      BY <1>0, <2>6 DEF Complete
    <3>5. \A i \in Ids : i # k => ~Active(lane'[i])
      BY <3>1, <3>4 DEF OneActive
    <3>6. CASE job[k].at = "committed" /\ lane[k].next = None
      <4>1. lane'[k] = None /\ lane[k].op.at = "delete"
        BY <1>0, <3>1, <3>3, <3>4, <3>6, CompletedFacts
      <4>2. record = None
        BY <3>1, <3>6, <4>1 DEF JobEffect
      <4> QED
        BY <1>0, <3>2, <3>5, <4>1, <4>2
    <3>7. CASE job[k].at = "committed" /\ lane[k].next # None
      <4>1. Active(lane'[k]) /\ Latest(lane'[k]).at = "delete"
        BY <1>0, <3>1, <3>3, <3>4, <3>7, CompletedFacts
      <4> QED
        BY <3>5, <4>1
    <3>8. CASE job[k].at # "committed"
      <4>1. lane'[k].at \in {"queued", "paused"} /\ Latest(lane'[k]).at = "delete"
        BY <1>0, <3>1, <3>3, <3>4, <3>8, CompletedFacts
      <4>2. Active(lane'[k]) \/ (lane'[k].at = "paused" /\ lane'[k].op.at = "delete")
        BY <4>1 DEF Active, Latest
      <4> QED
        BY <3>5, <4>1, <4>2
    <3> QED
      BY <3>6, <3>7, <3>8
  <2>7. CASE Restart
    BY <2>7 DEF Restart
  <2> QED
    BY <2>1, <2>2, <2>3, <2>4, <2>5, <2>6, <2>7, StepKinds
       DEF Elsewhere, ReadAgain, vars, volatile, history
<1> QED
  BY <1>1, <1>2 DEF CleanedHolds

-----------------------------------------------------------------------------
(* The theorems. *)

\* What holds however the file is opened again and the editor quits.
Sound ==
  /\ Types /\ CompletionMeetsItsCheckpoint /\ Aligned /\ RevisionsInOrder
  /\ NewestIsRetained

\* What holds when the checkpoints of a closed buffer are done before its file
\* is opened again.
Serial == Sound /\ OneActive /\ JobEffect /\ NewestTextKept /\ DrainedIsIdle

LEMMA SoundAlways == Spec => []Sound
<1>1. Init => Sound
  <2>1. Init => Types
    BY TypesInit
  <2>2. Init => NewestIsRetained
    BY DEF Init, NewestIsRetained, Modified, Closed
  <2> QED
    BY <2>1, <2>2 DEF Init, Sound, CompletionMeetsItsCheckpoint, Aligned, RevisionsInOrder, Idle,
       None
<1>2. Sound /\ [Next]_vars => Sound'
  BY TypesStep, MeetsStep, AlignedStep, OrderStep, RetainedStep DEF Sound
<1> QED
  BY <1>1, <1>2, PTL DEF Spec

\* A lane, its jobs, the buffer and the record have their types: a lane has one
\* checkpoint active and one waiting at most (session.rs, RecoveryState).
THEOREM TypeCorrect == Spec => []TypeOK
<1>1. Sound => TypeOK
  BY TypesAreTypeOK DEF Sound
<1> QED
  BY <1>1, SoundAlways, PTL

\* No completion of the recovery job meets another checkpoint than its own, so
\* the assertions of complete_recovery and fail_recovery hold (session.rs).
THEOREM CompletionsMatch == Spec => []CompletionMeetsItsCheckpoint
<1>1. Sound => CompletionMeetsItsCheckpoint
  BY DEF Sound
<1> QED
  BY <1>1, SoundAlways, PTL

\* What a modified buffer waits to write last is its newest text, through every
\* edit, failed checkpoint, save and reload.
THEOREM NewestRetained == Spec => []NewestIsRetained
<1>1. Sound => NewestIsRetained
  BY DEF Sound
<1> QED
  BY <1>1, SoundAlways, PTL

LEMMA SerialAlways ==
  ASSUME ~ReopenEarly
  PROVE  Spec => []Serial
<1>1. Init => OneActive /\ JobEffect /\ NewestTextKept /\ DrainedIsIdle
  BY DEF Init, OneActive, JobEffect, NewestTextKept, DrainedIsIdle, Idle, None, Active, Modified,
     Closed
<1>2. Sound /\ Sound' /\ OneActive /\ JobEffect /\ NewestTextKept /\ DrainedIsIdle /\ [Next]_vars
        => OneActive' /\ JobEffect' /\ NewestTextKept' /\ DrainedIsIdle'
  BY OneActiveStep, EffectStep, KeptStep, DrainedStep DEF Sound
<1> QED
  BY <1>1, <1>2, SoundAlways, PTL DEF Spec, Serial

\* When its lane is at rest, the record holds the newest text of a modified
\* buffer, if no old identity of the file can still write under its name.
THEOREM NewestKept ==
  ASSUME ~ReopenEarly
  PROVE  Spec => []NewestTextKept
<1>1. Serial => NewestTextKept
  BY DEF Serial
<1> QED
  BY <1>1, SerialAlways, PTL

\* The drain of a shutdown (driver.rs) leaves the newest text on record or has
\* told that it could not, under the same assumption.
THEOREM DrainKeeps ==
  ASSUME ~ReopenEarly
  PROVE  Spec => []DrainKeepsNewest
<1>1. Serial => DrainKeepsNewest
  <2> SUFFICES ASSUME Serial, phase = "drained", Modified(buffer), ~discarded
               PROVE  Holds(buffer) \/ lane[buffer.id].at = "paused"
    BY DEF DrainKeepsNewest
  <2>1. buffer.id \in Ids /\ lane[buffer.id] \in LaneStates
    BY OpenFacts DEF Serial, Sound, Types, Open, Modified, Closed
  <2>2. ~Active(lane[buffer.id])
    BY <2>1 DEF Serial, DrainedIsIdle
  <2>3. lane[buffer.id] = None \/ lane[buffer.id].at = "paused"
    BY <2>1, <2>2, LaneStateFacts DEF Active
  <2> QED
    BY <2>3 DEF Serial, NewestTextKept
<1> QED
  BY <1>1, SerialAlways, PTL

\* The invariant of the run: with the checkpoints of a closed buffer done before
\* its file is opened again, and no text given up while its save runs.
THEOREM LaneCorrect ==
  ASSUME ~ReopenEarly, ~QuitMidSave
  PROVE  Spec => []LaneInvariant
<1>1. Init => CleanedHolds
  BY DEF Init, CleanedHolds
<1>2. Serial /\ Serial' /\ CleanedHolds /\ [Next]_vars => CleanedHolds'
  BY CleanedStep DEF Serial, Sound
<1>3. Spec => []CleanedHolds
  BY <1>1, <1>2, SerialAlways, PTL DEF Spec
<1>4. CleanedHolds => LeftoverIsPaused
  BY DEF CleanedHolds, LeftoverIsPaused, Active
<1>5. Serial => TypeOK /\ CompletionMeetsItsCheckpoint /\ NewestIsRetained /\ NewestTextKept
  BY TypesAreTypeOK DEF Serial, Sound
<1>6. TypeOK /\ CompletionMeetsItsCheckpoint /\ LeftoverIsPaused /\ NewestIsRetained
        /\ NewestTextKept /\ DrainKeepsNewest => LaneInvariant
  BY DEF LaneInvariant
<1> QED
  BY <1>3, <1>4, <1>5, <1>6, SerialAlways, DrainKeeps, PTL
=============================================================================
