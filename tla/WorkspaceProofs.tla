---------------------------- MODULE WorkspaceProofs ----------------------------
(***************************************************************************)
(* Proofs about what reaches the disk and what is read back: DurableSave,  *)
(* for any number of edits and of changes that other programs make,        *)
(* RecoveryDecision, for any number of loads and edits, any texts on disk  *)
(* and any bound of the events, and Mutation, for any number of entries    *)
(* and of changes that other programs make.                                *)
(***************************************************************************)
EXTENDS DurableSave, RecoveryDecision, Mutation, TLAPS

-----------------------------------------------------------------------------
(* The inductive invariant of DurableSave. *)

\* What is known before each step: the temporary file, the effect, and which
\* of the two kinds of save takes the step.
Phases ==
  /\ step # Idle => outcome = "none"
  /\ step[2] \in {"check", "create", "open", "delete"} => temporary = "none" /\ ~effect
  /\ step[2] = "write" => temporary = "part" /\ ~effect
  /\ step[2] = "rename" => temporary = "whole" /\ ~effect
  /\ step[2] = "recheck" => ~effect /\ temporary = (IF atomic THEN "whole" ELSE "none")
  /\ step[2] \in {"put", "sync", "read"} => effect /\ temporary = "none"
  /\ step[2] = "remove" => ~effect
  /\ step[1] = "save" /\ step[2] \in {"create", "write", "rename", "remove"} => atomic
  /\ step[1] = "save" /\ step[2] \in {"open", "put", "sync"} => ~atomic

\* What a synchronisation leaves is whole as well.
NowIsWhole ==
  /\ record.now # Part
  /\ atomic => file.now # Part

\* What the rename or the truncation is about to replace.
Seen ==
  step[1] = "save" /\ step[2] \in {"rename", "open"} => file.now \in {known, None} \cup racing

\* An operation on the newest text ends before the text changes.
Intent ==
  /\ step[1] \in {"save", "record"} => text # saved /\ writes = text
  /\ step[1] = "delete" => text = saved

Files == IF atomic THEN {file.now} ELSE file.disk

\* Where the text of the operation is, unless another program changed the file.
Placed ==
  /\ step = <<"record", "sync">> => record.now = Mine(writes)
  /\ step = <<"delete", "sync">> => record.now = None
  /\ changes = 0 =>
       /\ step = <<"save", "put">> => linked
       /\ step = <<"save", "sync">> => linked /\ file.now = Mine(writes)
       /\ step = <<"save", "read">> => \A f \in Files : f = Mine(writes)
       /\ step = <<"save", "read">> => file.now = Mine(writes)
       /\ text = saved /\ Part \notin file.disk => \A f \in Files : f = Mine(text)

Inv ==
  /\ TypeOK
  /\ Phases
  /\ NowIsWhole /\ WholeFile
  /\ OutcomeIsTrue
  /\ Seen /\ OverwritesOnlyRaces
  /\ Intent /\ Placed
  /\ TextSurvives

-----------------------------------------------------------------------------
(* The types. *)

LEMMA ContentsFacts ==
  /\ None \in Contents /\ Part \in Contents
  /\ \A n \in 0 .. Edits : Mine(n) \in Contents
  /\ \A n \in 1 .. Changes : Other(n) \in Contents
BY DEF Contents, None, Part, Mine, Other

File == [now : Contents, disk : SUBSET Contents]

LEMMA PutType ==
  ASSUME NEW f \in File, NEW content \in Contents
  PROVE  Put(f, content) \in File
BY DEF Put, File

LEMMA TypeInit == Init => TypeOK
<1> SUFFICES ASSUME Init PROVE TypeOK
  OBVIOUS
<1>1. 0 \in 0 .. Edits /\ 0 \in 0 .. Changes /\ 0 \in 0 .. text
  BY SaveAssumption DEF Init
<1>2. Mine(0) \in Contents /\ None \in Contents
  BY <1>1, ContentsFacts
<1>3. Idle \in Steps
  BY DEF Steps
<1> QED
  BY <1>1, <1>2, <1>3 DEF Init, TypeOK

LEMMA TypeStep == Inv /\ Next => TypeOK'
<1> SUFFICES ASSUME TypeOK, Phases, Intent, Next PROVE TypeOK'
  BY DEF Inv
<1> USE SaveAssumption, ContentsFacts DEF TypeOK
<1>1. CASE Edit
  BY <1>1 DEF Edit, World
<1>2. CASE Load
  BY <1>2 DEF Load, World
<1>3. CASE BeginRecord \/ BeginSave \/ BeginDelete
  <2>1. PICK op \in {"record", "save", "delete"}, at \in {"create", "check", "delete"} :
          /\ Begin(op, at)
          /\ <<op, at>> \in Steps
    BY <1>3 DEF BeginRecord, BeginSave, BeginDelete, Steps
  <2>2. step' \in Steps /\ writes' \in 0 .. text'
    BY <2>1 DEF Begin, Session
  <2>3. UNCHANGED <<Session, file, record, World, lost>>
    BY <2>1 DEF Begin
  <2>4. temporary' = "none" /\ outcome' = "none" /\ effect' = FALSE /\ linked' = FALSE
    BY <2>1 DEF Begin
  <2> QED
    BY <2>2, <2>3, <2>4 DEF Session, World
<1>4. CASE CheckIdentity
  BY <1>4 DEF CheckIdentity, End, Idle, Steps, Session, World
<1>5. CASE CreateTemporary
  BY <1>5 DEF CreateTemporary, Idle, Steps, Session, World
<1>6. CASE WriteTemporary
  BY <1>6 DEF WriteTemporary, Idle, Steps, Session, World
<1>7. CASE Recheck
  BY <1>7 DEF Recheck, Abandon, End, Idle, Steps, Session, World
<1>8. CASE Rename
  BY <1>8 DEF Rename, Replace, Unseen, Idle, Steps, Session, World
<1>9. CASE Truncate
  BY <1>9 DEF Truncate, Put, Unseen, Idle, Steps, Session, World
<1>10. CASE WriteDirect
  BY <1>10 DEF WriteDirect, Put, Idle, Steps, Session, World
<1>11. CASE SyncDirect
  BY <1>11 DEF SyncDirect, Synced, Idle, Steps, Session, World
<1>12. CASE ReadIdentity
  BY <1>12 DEF ReadIdentity, End, Idle, Steps, World
<1>13. CASE FailSave
  BY <1>13 DEF FailSave, Abandon, End, Idle, Steps, Session, World
<1>14. CASE RemoveTemporary
  BY <1>14 DEF RemoveTemporary, End, Idle, Steps, Session, World
<1>15. CASE SyncDirectory
  BY <1>15 DEF SyncDirectory, Synced, End, Idle, Steps, World
<1>16. CASE FailRecord
  BY <1>16 DEF FailRecord, End, Idle, Steps, Session, World
<1>17. CASE Delete
  <2>1. step' \in Steps /\ outcome' \in {"none", "Unchanged", "Committed", "Indeterminate"}
    BY <1>17 DEF Delete, End, Idle, Steps
  <2>2. record' \in File
    BY <1>17, PutType DEF Delete, File
  <2> QED
    BY <1>17, <2>1, <2>2 DEF Delete, File, Session, World
<1>18. CASE FailDelete
  BY <1>18 DEF FailDelete, End, Idle, Steps, Session, World
<1>19. CASE ChangeFile
  <2>1. changes' = changes + 1 /\ changes' \in 1 .. Changes
    BY <1>19 DEF ChangeFile
  <2>2. PICK content \in {Other(changes + 1), None} :
          /\ file' = Put(file, content)
          /\ racing' = IF Window THEN racing \cup {content} ELSE racing
    BY <1>19 DEF ChangeFile
  <2>3. content \in Contents
    BY <2>1, <2>2
  <2>4. file' \in File
    BY <2>2, <2>3, PutType DEF File
  <2>5. racing' \in SUBSET Contents
    BY <2>2, <2>3
  <2> QED
    <3>1. linked' = FALSE /\ UNCHANGED <<Session, record, temporary, step, writes, effect, outcome, lost>>
      BY <1>19 DEF ChangeFile
    <3>2. changes' \in 0 .. Changes
      BY <2>1
    <3> QED
      BY <2>4, <2>5, <3>1, <3>2 DEF File, Session
<1> QED
  BY <1>1, <1>2, <1>3, <1>4, <1>5, <1>6, <1>7, <1>8, <1>9, <1>10, <1>11, <1>12, <1>13,
     <1>14, <1>15, <1>16, <1>17, <1>18, <1>19 DEF Next

-----------------------------------------------------------------------------
(* Each step keeps each part of the invariant. *)

\* The phases follow one another.
LEMMA PhasesStep == Inv /\ Next => Phases'
<1> SUFFICES ASSUME TypeOK, Phases, Next PROVE Phases'
  BY DEF Inv
<1> USE DEF TypeOK, Phases
<1>1. CASE Edit \/ Load
  BY <1>1 DEF Edit, Load, Idle, Steps, Session, World
<1>2. CASE BeginRecord \/ BeginSave \/ BeginDelete
  BY <1>2 DEF BeginRecord, BeginSave, BeginDelete, Begin, Idle, Steps, Session, World
<1>3. CASE CheckIdentity \/ Recheck
  BY <1>3 DEF CheckIdentity, Recheck, Expected, Abandon, End, Idle, Steps, Session,
     World
<1>4. CASE CreateTemporary \/ WriteTemporary
  BY <1>4 DEF CreateTemporary, WriteTemporary, Idle, Steps, Session, World
<1>5. CASE Rename
  BY <1>5 DEF Rename, Replace, Unseen, Idle, Steps, Session, World
<1>6. CASE Truncate
  BY <1>6 DEF Truncate, Put, Unseen, Idle, Steps, Session, World
<1>7. CASE WriteDirect \/ SyncDirect
  BY <1>7 DEF WriteDirect, SyncDirect, Put, Synced, Idle, Steps, Session, World
<1>8. CASE ReadIdentity \/ FailSave \/ RemoveTemporary
  BY <1>8 DEF ReadIdentity, FailSave, RemoveTemporary, Abandon, End, Idle, Steps,
     Session, World
<1>9. CASE SyncDirectory \/ FailRecord
  BY <1>9 DEF SyncDirectory, FailRecord, Synced, End, Idle, Steps, Session, World
<1>10. CASE Delete \/ FailDelete
  BY <1>10 DEF Delete, FailDelete, Put, End, Idle, Steps, Session, World
<1>11. CASE ChangeFile
  BY <1>11 DEF ChangeFile, Put, Window, Idle, Steps, Session, World
<1> QED
  BY <1>1, <1>2, <1>3, <1>4, <1>5, <1>6, <1>7, <1>8, <1>9, <1>10, <1>11 DEF Next

\* Only a whole temporary file is renamed, and only a direct save writes in place.
LEMMA WholeStep == Inv /\ Next => NowIsWhole' /\ WholeFile'
<1> SUFFICES ASSUME TypeOK, Phases, NowIsWhole, WholeFile, Next PROVE NowIsWhole' /\ WholeFile'
  BY DEF Inv
<1> USE DEF TypeOK, Phases, NowIsWhole, WholeFile, Part, Mine, None, Other
<1>1. CASE Edit \/ Load
  BY <1>1 DEF Edit, Load, Idle, Steps, Session, World
<1>2. CASE BeginRecord \/ BeginSave \/ BeginDelete
  BY <1>2 DEF BeginRecord, BeginSave, BeginDelete, Begin, Idle, Steps, Session, World
<1>3. CASE CheckIdentity \/ Recheck
  BY <1>3 DEF CheckIdentity, Recheck, Expected, Abandon, End, Idle, Steps, Session,
     World
<1>4. CASE CreateTemporary \/ WriteTemporary
  BY <1>4 DEF CreateTemporary, WriteTemporary, Idle, Steps, Session, World
<1>5. CASE Rename
  BY <1>5 DEF Rename, Replace, Unseen, Idle, Steps, Session, World
<1>6. CASE Truncate
  BY <1>6 DEF Truncate, Put, Unseen, Idle, Steps, Session, World
<1>7. CASE WriteDirect \/ SyncDirect
  BY <1>7 DEF WriteDirect, SyncDirect, Put, Synced, Idle, Steps, Session, World
<1>8. CASE ReadIdentity \/ FailSave \/ RemoveTemporary
  BY <1>8 DEF ReadIdentity, FailSave, RemoveTemporary, Abandon, End, Idle, Steps,
     Session, World
<1>9. CASE SyncDirectory \/ FailRecord
  BY <1>9 DEF SyncDirectory, FailRecord, Synced, End, Idle, Steps, Session, World
<1>10. CASE Delete \/ FailDelete
  BY <1>10 DEF Delete, FailDelete, Put, End, Idle, Steps, Session, World
<1>11. CASE ChangeFile
  BY <1>11 DEF ChangeFile, Put, Window, Idle, Steps, Session, World
<1> QED
  BY <1>1, <1>2, <1>3, <1>4, <1>5, <1>6, <1>7, <1>8, <1>9, <1>10, <1>11 DEF Next

\* An outcome is given in a phase that justifies it.
LEMMA OutcomeStep == Inv /\ Next => OutcomeIsTrue'
<1> SUFFICES ASSUME TypeOK, Phases, OutcomeIsTrue, Next PROVE OutcomeIsTrue'
  BY DEF Inv
<1> USE DEF TypeOK, Phases, OutcomeIsTrue
<1>1. CASE Edit \/ Load
  BY <1>1 DEF Edit, Load, Idle, Steps, Session, World
<1>2. CASE BeginRecord \/ BeginSave \/ BeginDelete
  BY <1>2 DEF BeginRecord, BeginSave, BeginDelete, Begin, Idle, Steps, Session, World
<1>3. CASE CheckIdentity \/ Recheck
  BY <1>3 DEF CheckIdentity, Recheck, Expected, Abandon, End, Idle, Steps, Session,
     World
<1>4. CASE CreateTemporary \/ WriteTemporary
  BY <1>4 DEF CreateTemporary, WriteTemporary, Idle, Steps, Session, World
<1>5. CASE Rename
  BY <1>5 DEF Rename, Replace, Unseen, Idle, Steps, Session, World
<1>6. CASE Truncate
  BY <1>6 DEF Truncate, Put, Unseen, Idle, Steps, Session, World
<1>7. CASE WriteDirect \/ SyncDirect
  BY <1>7 DEF WriteDirect, SyncDirect, Put, Synced, Idle, Steps, Session, World
<1>8. CASE ReadIdentity \/ FailSave \/ RemoveTemporary
  BY <1>8 DEF ReadIdentity, FailSave, RemoveTemporary, Abandon, End, Idle, Steps,
     Session, World
<1>9. CASE SyncDirectory \/ FailRecord
  BY <1>9 DEF SyncDirectory, FailRecord, Synced, End, Idle, Steps, Session, World
<1>10. CASE Delete \/ FailDelete
  BY <1>10 DEF Delete, FailDelete, Put, End, Idle, Steps, Session, World
<1>11. CASE ChangeFile
  BY <1>11 DEF ChangeFile, Put, Window, Idle, Steps, Session, World
<1> QED
  BY <1>1, <1>2, <1>3, <1>4, <1>5, <1>6, <1>7, <1>8, <1>9, <1>10, <1>11 DEF Next

\* After the last check only other programs bring a content nobody has seen.
LEMMA SeenStep == Inv /\ Next => Seen' /\ OverwritesOnlyRaces'
<1> SUFFICES ASSUME TypeOK, Seen, OverwritesOnlyRaces, Next PROVE Seen' /\ OverwritesOnlyRaces'
  BY DEF Inv
<1> USE DEF TypeOK, Seen, OverwritesOnlyRaces, None
<1>1. CASE Edit \/ Load
  BY <1>1 DEF Edit, Load, Idle, Steps, Session, World
<1>2. CASE BeginRecord \/ BeginSave \/ BeginDelete
  BY <1>2 DEF BeginRecord, BeginSave, BeginDelete, Begin, Idle, Steps, Session, World
<1>3. CASE CheckIdentity \/ Recheck
  BY <1>3 DEF CheckIdentity, Recheck, Expected, Abandon, End, Idle, Steps, Session,
     World
<1>4. CASE CreateTemporary \/ WriteTemporary
  BY <1>4 DEF CreateTemporary, WriteTemporary, Idle, Steps, Session, World
<1>5. CASE Rename
  BY <1>5 DEF Rename, Replace, Unseen, Idle, Steps, Session, World
<1>6. CASE Truncate
  BY <1>6 DEF Truncate, Put, Unseen, Idle, Steps, Session, World
<1>7. CASE WriteDirect \/ SyncDirect
  BY <1>7 DEF WriteDirect, SyncDirect, Put, Synced, Idle, Steps, Session, World
<1>8. CASE ReadIdentity \/ FailSave \/ RemoveTemporary
  BY <1>8 DEF ReadIdentity, FailSave, RemoveTemporary, Abandon, End, Idle, Steps,
     Session, World
<1>9. CASE SyncDirectory \/ FailRecord
  BY <1>9 DEF SyncDirectory, FailRecord, Synced, End, Idle, Steps, Session, World
<1>10. CASE Delete \/ FailDelete
  BY <1>10 DEF Delete, FailDelete, Put, End, Idle, Steps, Session, World
<1>11. CASE ChangeFile
  BY <1>11 DEF ChangeFile, Put, Window, Idle, Steps, Session, World
<1> QED
  BY <1>1, <1>2, <1>3, <1>4, <1>5, <1>6, <1>7, <1>8, <1>9, <1>10, <1>11 DEF Next

\* An operation writes the newest text, and deletes the record of a saved one.
LEMMA IntentStep == Inv /\ Next => Intent'
<1> SUFFICES ASSUME TypeOK, Intent, Next PROVE Intent'
  BY DEF Inv
<1> USE DEF TypeOK, Intent
<1>1. CASE Edit \/ Load
  BY <1>1 DEF Edit, Load, Idle, Steps, Session, World
<1>2. CASE BeginRecord \/ BeginSave \/ BeginDelete
  BY <1>2 DEF BeginRecord, BeginSave, BeginDelete, Begin, Idle, Steps, Session, World
<1>3. CASE CheckIdentity \/ Recheck
  BY <1>3 DEF CheckIdentity, Recheck, Expected, Abandon, End, Idle, Steps, Session,
     World
<1>4. CASE CreateTemporary \/ WriteTemporary
  BY <1>4 DEF CreateTemporary, WriteTemporary, Idle, Steps, Session, World
<1>5. CASE Rename
  BY <1>5 DEF Rename, Replace, Unseen, Idle, Steps, Session, World
<1>6. CASE Truncate
  BY <1>6 DEF Truncate, Put, Unseen, Idle, Steps, Session, World
<1>7. CASE WriteDirect \/ SyncDirect
  BY <1>7 DEF WriteDirect, SyncDirect, Put, Synced, Idle, Steps, Session, World
<1>8. CASE ReadIdentity \/ FailSave \/ RemoveTemporary
  BY <1>8 DEF ReadIdentity, FailSave, RemoveTemporary, Abandon, End, Idle, Steps,
     Session, World
<1>9. CASE SyncDirectory \/ FailRecord
  BY <1>9 DEF SyncDirectory, FailRecord, Synced, End, Idle, Steps, Session, World
<1>10. CASE Delete \/ FailDelete
  BY <1>10 DEF Delete, FailDelete, Put, End, Idle, Steps, Session, World
<1>11. CASE ChangeFile
  BY <1>11 DEF ChangeFile, Put, Window, Idle, Steps, Session, World
<1> QED
  BY <1>1, <1>2, <1>3, <1>4, <1>5, <1>6, <1>7, <1>8, <1>9, <1>10, <1>11 DEF Next

\* The text of an operation is where its steps have put it.
LEMMA PlacedStep == Inv /\ Next => Placed'
<1> SUFFICES ASSUME TypeOK, Phases, NowIsWhole, WholeFile, Intent, Placed, Next PROVE Placed'
  BY DEF Inv
<1> USE DEF TypeOK, Phases, Intent, Placed, Files
<1>1. CASE Edit \/ Load
  BY <1>1 DEF Edit, Load, Idle, Steps, Session, World
<1>2. CASE BeginRecord \/ BeginSave \/ BeginDelete
  BY <1>2 DEF BeginRecord, BeginSave, BeginDelete, Begin, Idle, Steps, Session, World
<1>3. CASE CheckIdentity \/ Recheck
  BY <1>3 DEF CheckIdentity, Recheck, Expected, Abandon, End, Idle, Steps, Session,
     World
<1>4. CASE CreateTemporary \/ WriteTemporary
  BY <1>4 DEF CreateTemporary, WriteTemporary, Idle, Steps, Session, World
<1>5. CASE Rename
  BY <1>5 DEF Rename, Replace, Unseen, Idle, Steps, Session, World
<1>6. CASE Truncate
  BY <1>6 DEF Truncate, Put, Unseen, Idle, Steps, Session, World
<1>7. CASE WriteDirect \/ SyncDirect
  BY <1>7 DEF WriteDirect, SyncDirect, Put, Synced, Idle, Steps, Session, World
<1>8. CASE ReadIdentity \/ FailSave \/ RemoveTemporary
  BY <1>8 DEF ReadIdentity, FailSave, RemoveTemporary, Abandon, End, Idle, Steps,
     Session, World
<1>9. CASE SyncDirectory \/ FailRecord
  BY <1>9 DEF SyncDirectory, FailRecord, Synced, End, Idle, Steps, Session, World
<1>10. CASE Delete \/ FailDelete
  BY <1>10 DEF Delete, FailDelete, Put, End, Idle, Steps, Session, World
<1>11. CASE ChangeFile
  BY <1>11 DEF ChangeFile, Put, Window, Idle, Steps, Session, World
<1> QED
  BY <1>1, <1>2, <1>3, <1>4, <1>5, <1>6, <1>7, <1>8, <1>9, <1>10, <1>11 DEF Next

\* The file or the record keeps what was promised last.
LEMMA SurvivesStep == Inv /\ Next => TextSurvives'
<1> SUFFICES ASSUME TypeOK, Phases, NowIsWhole, WholeFile, Intent, Placed, TextSurvives, Next PROVE TextSurvives'
  BY DEF Inv
<1> USE DEF TypeOK, Phases, Intent, Placed, Files, TextSurvives, Survives, Keeps, Mine, None, Other
<1>1. CASE Edit \/ Load
  BY <1>1 DEF Edit, Load, Idle, Steps, Session, World
<1>2. CASE BeginRecord \/ BeginSave \/ BeginDelete
  BY <1>2 DEF BeginRecord, BeginSave, BeginDelete, Begin, Idle, Steps, Session, World
<1>3. CASE CheckIdentity \/ Recheck
  BY <1>3 DEF CheckIdentity, Recheck, Expected, Abandon, End, Idle, Steps, Session,
     World
<1>4. CASE CreateTemporary \/ WriteTemporary
  BY <1>4 DEF CreateTemporary, WriteTemporary, Idle, Steps, Session, World
<1>5. CASE Rename
  BY <1>5 DEF Rename, Replace, Unseen, Idle, Steps, Session, World
<1>6. CASE Truncate
  BY <1>6 DEF Truncate, Put, Unseen, Idle, Steps, Session, World
<1>7. CASE WriteDirect \/ SyncDirect
  BY <1>7 DEF WriteDirect, SyncDirect, Put, Synced, Idle, Steps, Session, World
<1>8. CASE ReadIdentity \/ FailSave \/ RemoveTemporary
  BY <1>8 DEF ReadIdentity, FailSave, RemoveTemporary, Abandon, End, Idle, Steps,
     Session, World
<1>9. CASE SyncDirectory \/ FailRecord
  BY <1>9 DEF SyncDirectory, FailRecord, Synced, End, Idle, Steps, Session, World
<1>10. CASE Delete \/ FailDelete
  BY <1>10 DEF Delete, FailDelete, Put, End, Idle, Steps, Session, World
<1>11. CASE ChangeFile
  BY <1>11 DEF ChangeFile, Put, Window, Idle, Steps, Session, World
<1> QED
  BY <1>1, <1>2, <1>3, <1>4, <1>5, <1>6, <1>7, <1>8, <1>9, <1>10, <1>11 DEF Next

-----------------------------------------------------------------------------
(* The theorems about DurableSave. *)

LEMMA InvInit == Init => Inv
<1> SUFFICES ASSUME Init PROVE Inv
  OBVIOUS
<1>1. TypeOK
  BY TypeInit
<1>2. Phases /\ Seen /\ Intent /\ OutcomeIsTrue /\ OverwritesOnlyRaces
  BY DEF Init, Idle, Phases, Seen, Intent, OutcomeIsTrue, OverwritesOnlyRaces
<1>3. NowIsWhole /\ WholeFile
  BY DEF Init, NowIsWhole, WholeFile, Mine, None, Part
<1>4. Placed /\ TextSurvives
  BY DEF Init, Idle, Placed, Files, TextSurvives, Survives, Keeps, Mine, None, Part
<1> QED
  BY <1>1, <1>2, <1>3, <1>4 DEF Inv

LEMMA InvStep == Inv /\ [Next]_vars => Inv'
<1> SUFFICES ASSUME Inv, [Next]_vars PROVE Inv'
  OBVIOUS
<1>1. CASE Next
  BY <1>1, TypeStep, PhasesStep, WholeStep, OutcomeStep, SeenStep, IntentStep, PlacedStep,
     SurvivesStep DEF Inv
<1>2. CASE UNCHANGED vars
  BY <1>2 DEF vars, Inv, TypeOK, Phases, NowIsWhole, WholeFile, OutcomeIsTrue, Seen,
     OverwritesOnlyRaces, Intent, Placed, Files, TextSurvives, Survives, Keeps
<1> QED
  BY <1>1, <1>2

\* The invariant holds for any number of edits and of changes by other programs.
THEOREM Invariance == Spec => []Inv
BY InvInit, InvStep, PTL DEF Spec

\* Every variable keeps its type.
THEOREM TypeCorrect == Spec => []TypeOK
<1>1. Inv => TypeOK
  BY DEF Inv
<1> QED
  BY <1>1, Invariance, PTL

\* No reader and no start after a failure finds a part of a file that was saved
\* atomically, or of a recovery record (write_staged, write_recovery_record_inner).
THEOREM FilesAreWhole == Spec => []WholeFile
<1>1. Inv => WholeFile
  BY DEF Inv
<1> QED
  BY <1>1, Invariance, PTL

\* Unchanged and Committed are never reported of a save, a record or a deletion
\* that did something else (DurableOutcome).
THEOREM OutcomesAreTrue == Spec => []OutcomeIsTrue
<1>1. Inv => OutcomeIsTrue
  BY DEF Inv
<1> QED
  BY <1>1, Invariance, PTL

\* A save replaces nothing that the editor has not seen, except what another
\* program wrote after the last check (require_expected_identity).
THEOREM OnlyRacesAreOverwritten == Spec => []OverwritesOnlyRaces
<1>1. Inv => OverwritesOnlyRaces
  BY DEF Inv
<1> QED
  BY <1>1, Invariance, PTL

\* The text that the last committed operation promised is in the file or in the
\* record, whatever step fails (docs/files.md).
THEOREM PromisedTextSurvives == Spec => []TextSurvives
<1>1. Inv => TextSurvives
  BY DEF Inv
<1> QED
  BY <1>1, Invariance, PTL

-----------------------------------------------------------------------------
(* The inductive invariant of RecoveryDecision. *)

\* The values of the variables.
Texts == DiskTexts \cup Nat
Records == [at : {"record"}, text : Texts, base : Texts, rev : Nat]
Buffers == [at : {"loaded"}, id : Nat, text : Texts, base : Texts, rev : Nat, modified : BOOLEAN]
Identities == [id : Nat, base : Texts, rev : Nat, recoveryBase : Texts, recoveryRev : Nat]
Candidates ==
  [at : {"pending"}, identity : Identities, record : Records, current : BOOLEAN, unsent : BOOLEAN, offered : Texts]
Openings == [at : {"read"}, text : Texts, record : Records \cup {Absent}]

RecoveryTypeOK ==
  /\ disk \in Texts /\ recoveryRecord \in Records \cup {Absent}
  /\ queued \in Records \cup {Absent, Deletion}
  /\ buffer \in Buffers \cup {Absent} /\ opening \in Openings \cup {Absent}
  /\ pending \in Candidates \cup {Absent}
  /\ events \in Seq(Identities) /\ Len(events) <= EventsMax
  /\ held \subseteq Identities /\ loads \in Nat /\ edits \in Nat
  /\ promise \in Records \cup {Absent} /\ owed \in Records \cup {Absent}

\* A buffer at revision 0 holds the text that it was loaded with.
FreshIsBase == buffer # Absent /\ buffer.rev = 0 => buffer.text = buffer.base

\* A candidate was offered with a fresh buffer, and is current when its record
\* is of the text of that buffer.
OfferedFresh ==
  pending # Absent =>
    /\ pending.identity.rev = 0 /\ pending.identity.base = pending.offered
    /\ pending.current => pending.record.base = pending.offered

\* No operation waits that would replace a record that is owed.
OwedIsAlone == owed # Absent => queued = Absent /\ recoveryRecord = owed

\* The invariant that every step preserves.
RecoveryInv == RecoveryTypeOK /\ FreshIsBase /\ OfferedFresh /\ CandidateIsHeard /\ OwedIsAlone

-----------------------------------------------------------------------------
(* The lemmas of its parts, and one for each step. *)

\* The kinds of value are told apart.
LEMMA RecordsDiffer ==
  /\ \A x \in Records : x # Absent /\ x # Deletion
  /\ \A x \in Buffers : x # Absent
  /\ \A x \in Candidates : x # Absent
  /\ \A x \in Openings : x # Absent
BY DEF Records, Buffers, Candidates, Openings, Absent, Deletion

\* The editor starts with a record that a crash may have left.
LEMMA RecoveryStarts ==
  ASSUME RecoveryAssumption, RecoveryInit
  PROVE  RecoveryInv
<1> USE DEF RecoveryInit, RecoveryAssumption
<1>1. RecoveryTypeOK
  <2>1. recoveryRecord \in Records \cup {Absent} BY DEF Record, Records, LostText, Texts
  <2> QED BY <2>1 DEF RecoveryTypeOK, Texts
<1>2. FreshIsBase /\ OfferedFresh /\ CandidateIsHeard /\ OwedIsAlone
  BY DEF FreshIsBase, OfferedFresh, CandidateIsHeard, OwedIsAlone
<1> QED BY <1>1, <1>2 DEF RecoveryInv

\* A candidate that is noted leaves the queue in its bound, and waits when the
\* queue is full.
LEMMA NotedFits ==
  ASSUME RecoveryAssumption, NEW queue \in Seq(Identities), Len(queue) <= EventsMax, NEW p \in Candidates
  PROVE  /\ Noted(queue, p) \in Seq(Identities) /\ Len(Noted(queue, p)) <= EventsMax
         /\ Sent(queue, p) \in Candidates
         /\ Sent(queue, p).unsent => Len(Noted(queue, p)) = EventsMax
         /\ Sent(queue, p).identity = p.identity /\ Sent(queue, p).offered = p.offered
         /\ Sent(queue, p).current = p.current /\ Sent(queue, p).record = p.record
<1>1. p.identity \in Identities /\ EventsMax \in Nat /\ Len(queue) \in Nat BY DEF Candidates, RecoveryAssumption
<1>2. /\ Sent(queue, p) \in Candidates /\ (Sent(queue, p).unsent => Len(queue) >= EventsMax)
      /\ Sent(queue, p).identity = p.identity /\ Sent(queue, p).offered = p.offered
      /\ Sent(queue, p).current = p.current /\ Sent(queue, p).record = p.record
  <2>1. \A full \in BOOLEAN : LET q == [p EXCEPT !.unsent = full]
          IN q \in Candidates /\ q.unsent = full /\ q.identity = p.identity /\ q.offered = p.offered
             /\ q.current = p.current /\ q.record = p.record
    BY DEF Candidates
  <2>2. (Len(queue) >= EventsMax) \in BOOLEAN OBVIOUS
  <2> QED BY <2>1, <2>2 DEF Sent
<1>3. CASE Len(queue) < EventsMax
  <2>1. Noted(queue, p) = Append(queue, p.identity) BY <1>3 DEF Noted
  <2>2. Noted(queue, p) \in Seq(Identities) /\ Len(Noted(queue, p)) = Len(queue) + 1 BY <1>1, <2>1
  <2>3. ~(Len(queue) >= EventsMax) /\ Len(queue) + 1 <= EventsMax BY <1>1, <1>3
  <2> QED BY <1>2, <2>2, <2>3
<1>4. CASE Len(queue) = EventsMax
  <2>1. Noted(queue, p) = queue BY <1>1, <1>4 DEF Noted
  <2> QED BY <1>1, <1>2, <1>4, <2>1
<1> QED BY <1>1, <1>3, <1>4

\* An open offers its record with the buffer that it loaded.
LEMMA PublishStep ==
  ASSUME RecoveryAssumption, RecoveryInv, PublishOpen
  PROVE  RecoveryInv'
<1> USE DEF RecoveryInv, PublishOpen
<1>1. opening \in Openings /\ opening.text \in Texts /\ opening.record \in Records \cup {Absent}
  BY DEF RecoveryTypeOK, Openings
<1>2. buffer' = Loaded(loads', opening.text) /\ loads' \in Nat BY DEF RecoveryTypeOK
<1>3. buffer' \in Buffers /\ FreshIsBase' BY <1>1, <1>2 DEF Loaded, Buffers, FreshIsBase
<1>4. CASE opening.record = Absent
  <2>1. UNCHANGED <<pending, events, promise, owed, queued, recoveryRecord>> BY <1>4
  <2>2. RecoveryTypeOK' BY <1>2, <1>3, <2>1 DEF RecoveryTypeOK
  <2>3. OfferedFresh' /\ CandidateIsHeard' /\ OwedIsAlone'
    BY <2>1 DEF OfferedFresh, CandidateIsHeard, OwedIsAlone
  <2> QED BY <1>3, <2>2, <2>3
<1>5. CASE opening.record # Absent
  <2> DEFINE current == opening.record.base = opening.text
             p == Pending(buffer', opening.record, current, FALSE)
             kept == IF current THEN Absent ELSE KeptNow(opening.record)
  <2>1. /\ events' = Noted(events, p) /\ pending' = Sent(events, p) /\ owed' = kept /\ promise' = kept
        /\ UNCHANGED <<queued, recoveryRecord>>
    BY <1>5
  <2>2. opening.record \in Records BY <1>1, <1>5
  <2>3. /\ p \in Candidates /\ p.identity.rev = 0 /\ p.identity.base = p.offered
        /\ p.offered = opening.text /\ p.record = opening.record /\ p.current = (p.record.base = p.offered)
    BY <1>1, <1>2, <1>3, <2>2 DEF Pending, Identity, Candidates, Identities, Loaded, Buffers, Records
  <2>4. kept \in Records \cup {Absent} /\ (kept # Absent => recoveryRecord = kept /\ queued = Absent)
    BY <2>2 DEF KeptNow
  <2> HIDE DEF p, kept
  <2>5. events \in Seq(Identities) /\ Len(events) <= EventsMax BY DEF RecoveryTypeOK
  <2>6. /\ events' \in Seq(Identities) /\ Len(events') <= EventsMax /\ pending' \in Candidates
        /\ pending'.unsent => Len(events') = EventsMax
        /\ pending'.identity = p.identity /\ pending'.offered = p.offered
        /\ pending'.current = p.current /\ pending'.record = p.record
    BY <2>1, <2>3, <2>5, NotedFits
  <2>7. RecoveryTypeOK' BY <1>2, <1>3, <2>1, <2>4, <2>6 DEF RecoveryTypeOK
  <2>8. OfferedFresh' BY <2>3, <2>6 DEF OfferedFresh
  <2>9. CandidateIsHeard' /\ OwedIsAlone' BY <2>1, <2>4, <2>6 DEF CandidateIsHeard, OwedIsAlone
  <2> QED BY <1>3, <2>7, <2>8, <2>9
<1> QED BY <1>4, <1>5

\* An edit leaves revision 0.
LEMMA EditedBuffer ==
  ASSUME NEW b \in Buffers, NEW t \in Texts
  PROVE  [b EXCEPT !.text = t, !.rev = @ + 1, !.modified = TRUE] \in Buffers
         /\ [b EXCEPT !.text = t, !.rev = @ + 1, !.modified = TRUE].rev # 0
<1>1. b.rev + 1 \in Nat /\ b.rev + 1 # 0 BY DEF Buffers
<1>2. \A n \in Nat : [b EXCEPT !.text = t, !.rev = n, !.modified = TRUE] \in Buffers
        /\ [b EXCEPT !.text = t, !.rev = n, !.modified = TRUE].rev = n
  BY DEF Buffers
<1> QED BY <1>1, <1>2

\* A new edit is no longer at the base, and owes nothing.
LEMMA EditStep ==
  ASSUME RecoveryAssumption, RecoveryInv, EditBuffer
  PROVE  RecoveryInv'
<1> USE DEF RecoveryInv, EditBuffer
<1>1. buffer \in Buffers /\ edits' \in Nat BY DEF RecoveryTypeOK
<1>2. buffer' \in Buffers /\ buffer'.rev # 0
  <2>1. EditText(edits') \in Texts BY <1>1 DEF EditText, Texts
  <2> QED BY <1>1, <2>1, EditedBuffer
<1>3. queued' \in Records BY <1>2 DEF Checkpoint, Record, Records, Buffers
<1>4. RecoveryTypeOK' BY <1>1, <1>2, <1>3 DEF RecoveryTypeOK
<1>5. FreshIsBase' /\ OfferedFresh' /\ CandidateIsHeard' /\ OwedIsAlone'
  BY <1>2 DEF FreshIsBase, OfferedFresh, CandidateIsHeard, OwedIsAlone
<1> QED BY <1>4, <1>5

\* A restored buffer is an edited one.
LEMMA RestoreStep ==
  ASSUME RecoveryAssumption, RecoveryInv, NEW identity \in held, Restore(identity)
  PROVE  RecoveryInv'
<1> USE DEF RecoveryInv, Restore
<1>1. buffer \in Buffers /\ pending \in Candidates BY DEF RecoveryTypeOK, Accepts
<1>2. pending.record.text \in Texts BY <1>1 DEF Candidates, Records
<1>3. buffer' \in Buffers /\ buffer'.rev # 0 BY <1>1, <1>2, EditedBuffer
<1>4. queued' \in Records BY <1>3 DEF Checkpoint, Record, Records, Buffers
<1>5. RecoveryTypeOK' BY <1>3, <1>4 DEF RecoveryTypeOK
<1>6. FreshIsBase' /\ OfferedFresh' /\ CandidateIsHeard' /\ OwedIsAlone'
  BY <1>3 DEF FreshIsBase, OfferedFresh, CandidateIsHeard, OwedIsAlone
<1> QED BY <1>5, <1>6

\* A save makes the text the base.
LEMMA SaveStep ==
  ASSUME RecoveryAssumption, RecoveryInv, Save
  PROVE  RecoveryInv'
<1> USE DEF RecoveryInv, Save
<1>1. buffer \in Buffers BY DEF RecoveryTypeOK
<1>2. buffer' \in Buffers /\ disk' \in Texts /\ buffer'.text = buffer'.base BY <1>1 DEF Buffers
<1>3. RecoveryTypeOK' BY <1>2 DEF RecoveryTypeOK, Suppressed
<1>4. FreshIsBase' /\ OfferedFresh' /\ CandidateIsHeard' /\ OwedIsAlone'
  BY <1>2 DEF FreshIsBase, OfferedFresh, CandidateIsHeard, OwedIsAlone
<1> QED BY <1>3, <1>4

\* A reload starts a new revision 0, with the candidate only when nothing was discarded.
LEMMA ReloadStep ==
  ASSUME RecoveryAssumption, RecoveryInv, NEW discard \in BOOLEAN, Reload(discard)
  PROVE  RecoveryInv'
<1> USE DEF RecoveryInv, Reload
<1>1. buffer \in Buffers /\ disk \in Texts BY DEF RecoveryTypeOK
<1>2. buffer' \in Buffers /\ buffer'.text = buffer'.base BY <1>1 DEF Loaded, Buffers
<1>3. FreshIsBase' BY <1>2 DEF FreshIsBase
<1>4. CASE discard
  <2>1. pending' = Absent /\ queued' = Deletion /\ promise' = Absent /\ owed' = Absent BY <1>4 DEF Suppressed
  <2>2. RecoveryTypeOK' BY <1>2, <2>1 DEF RecoveryTypeOK
  <2>3. OfferedFresh' /\ CandidateIsHeard' /\ OwedIsAlone' BY <2>1 DEF OfferedFresh, CandidateIsHeard, OwedIsAlone
  <2> QED BY <1>3, <2>2, <2>3
<1>5. CASE ~discard
  <2>1. UNCHANGED <<pending, queued, promise, owed>> BY <1>5
  <2>2. RecoveryTypeOK' BY <1>2, <2>1 DEF RecoveryTypeOK
  <2>3. OfferedFresh' /\ CandidateIsHeard' /\ OwedIsAlone' BY <2>1 DEF OfferedFresh, CandidateIsHeard, OwedIsAlone
  <2> QED BY <1>3, <2>2, <2>3
<1> QED BY <1>4, <1>5

\* The queue is full while a candidate waits, so the first take makes room for it.
LEMMA TakeStep ==
  ASSUME RecoveryAssumption, RecoveryInv, TakeCandidate
  PROVE  RecoveryInv'
<1> USE DEF RecoveryInv, RecoveryAssumption
<1>1. EventsMax \in Nat \ {0} /\ events \in Seq(Identities) /\ Len(events) \in Nat /\ Len(events) <= EventsMax
  BY DEF RecoveryTypeOK
<1>2. PublishPending(events, pending) = <<events, pending>>
  <2>1. CASE pending # Absent /\ pending.unsent
    <3>1. pending \in Candidates BY <2>1 DEF RecoveryTypeOK
    <3>2. Len(events) = EventsMax BY <2>1 DEF CandidateIsHeard
    <3>3. Sent(events, pending) = pending
      <4>1. pending.unsent = TRUE /\ (Len(events) >= EventsMax) = TRUE BY <1>1, <2>1, <3>1, <3>2 DEF Candidates
      <4> QED BY <3>1, <4>1 DEF Sent, Candidates
    <3>4. Noted(events, pending) = events BY <1>1, <3>2 DEF Noted
    <3> QED BY <2>1, <3>3, <3>4 DEF PublishPending
  <2>2. CASE ~(pending # Absent /\ pending.unsent) BY <2>2 DEF PublishPending
  <2> QED BY <2>1, <2>2
<1>3. events # <<>>
  <2>1. events = <<>> => Len(events) = 0 OBVIOUS
  <2> QED BY <1>1, <2>1 DEF TakeCandidate, CandidateIsHeard
<1>4. /\ held' = held \cup {Head(events)}
      /\ events' = PublishPending(Tail(events), pending)[1] /\ pending' = PublishPending(Tail(events), pending)[2]
      /\ UNCHANGED <<disk, recoveryRecord, queued, buffer, opening, loads, edits, promise, owed>>
  BY <1>2, <1>3 DEF TakeCandidate
<1>5. Head(events) \in Identities /\ Tail(events) \in Seq(Identities) /\ Len(Tail(events)) = Len(events) - 1
  BY <1>1, <1>3
<1>6. CASE pending # Absent /\ pending.unsent
  <2>1. pending \in Candidates BY <1>6 DEF RecoveryTypeOK
  <2>2. events' = Noted(Tail(events), pending) /\ pending' = Sent(Tail(events), pending)
    BY <1>4, <1>6 DEF PublishPending
  <2>3. /\ events' \in Seq(Identities) /\ Len(events') <= EventsMax /\ pending' \in Candidates
        /\ pending'.unsent => Len(events') = EventsMax
        /\ pending'.identity = pending.identity /\ pending'.offered = pending.offered
        /\ pending'.current = pending.current /\ pending'.record = pending.record
    <3>1. Len(Tail(events)) <= EventsMax BY <1>1, <1>5
    <3> QED BY <1>5, <2>1, <2>2, <3>1, NotedFits
  <2>4. RecoveryTypeOK' BY <1>4, <1>5, <2>3 DEF RecoveryTypeOK
  <2>5. FreshIsBase' /\ OfferedFresh' /\ CandidateIsHeard' /\ OwedIsAlone'
    BY <1>4, <1>6, <2>3 DEF FreshIsBase, OfferedFresh, CandidateIsHeard, OwedIsAlone
  <2> QED BY <2>4, <2>5
<1>7. CASE ~(pending # Absent /\ pending.unsent)
  <2>1. events' = Tail(events) /\ pending' = pending BY <1>4, <1>7 DEF PublishPending
  <2>2. RecoveryTypeOK' BY <1>1, <1>4, <1>5, <2>1 DEF RecoveryTypeOK
  <2>3. FreshIsBase' /\ OfferedFresh' /\ CandidateIsHeard' /\ OwedIsAlone'
    BY <1>4, <1>7, <2>1 DEF FreshIsBase, OfferedFresh, CandidateIsHeard, OwedIsAlone
  <2> QED BY <2>2, <2>3
<1> QED BY <1>6, <1>7

\* An answer takes the candidate away; a deferred record is owed when nothing waits.
LEMMA AnswerStep ==
  ASSUME RecoveryAssumption, RecoveryInv, NEW identity \in held, Discard(identity) \/ Defer(identity)
  PROVE  RecoveryInv'
<1> USE DEF RecoveryInv
<1>1. pending' = Absent /\ UNCHANGED <<disk, recoveryRecord, buffer, opening, events, held, loads, edits>>
  BY DEF Discard, Defer
<1>2. /\ queued' \in Records \cup {Absent, Deletion} /\ promise' \in Records \cup {Absent} /\ owed' \in Records \cup {Absent}
      /\ OwedIsAlone'
  <2>1. CASE Discard(identity) BY <2>1 DEF Discard, OwedIsAlone
  <2>2. CASE Defer(identity)
    <3>1. pending.record \in Records BY <2>2 DEF Defer, Accepts, RecoveryTypeOK, Candidates
    <3> QED BY <2>2, <3>1 DEF Defer, KeptNow, OwedIsAlone, RecoveryTypeOK
  <2> QED BY <2>1, <2>2
<1>3. RecoveryTypeOK' BY <1>1, <1>2 DEF RecoveryTypeOK
<1>4. FreshIsBase' /\ OfferedFresh' /\ CandidateIsHeard' BY <1>1 DEF FreshIsBase, OfferedFresh, CandidateIsHeard
<1> QED BY <1>2, <1>3, <1>4

\* The steps that leave the candidate alone or take it away.
LEMMA OtherSteps ==
  ASSUME RecoveryAssumption, RecoveryInv,
         ReadFile \/ Unload \/ Land \/ CrashAndRestart \/ (\E t \in DiskTexts : Write(t))
  PROVE  RecoveryInv'
<1> USE DEF RecoveryInv
<1>1. CASE ReadFile
  <2>1. opening' \in Openings BY <1>1 DEF ReadFile, Openings, RecoveryTypeOK
  <2>2. RecoveryTypeOK' BY <1>1, <2>1 DEF ReadFile, RecoveryTypeOK
  <2> QED BY <1>1, <2>2 DEF ReadFile, FreshIsBase, OfferedFresh, CandidateIsHeard, OwedIsAlone
<1>2. CASE Unload
  <2>1. RecoveryTypeOK' BY <1>2 DEF Unload, RecoveryTypeOK, Suppressed
  <2> QED BY <1>2, <2>1 DEF Unload, FreshIsBase, OfferedFresh, CandidateIsHeard, OwedIsAlone
<1>3. CASE Land
  <2>1. recoveryRecord' \in Records \cup {Absent} BY <1>3 DEF Land, RecoveryTypeOK
  <2>2. RecoveryTypeOK' BY <1>3, <2>1 DEF Land, RecoveryTypeOK
  <2> QED BY <1>3, <2>2 DEF Land, FreshIsBase, OfferedFresh, CandidateIsHeard, OwedIsAlone
<1>4. CASE CrashAndRestart
  <2>1. events' \in Seq(Identities) /\ Len(events') = 0 BY <1>4 DEF CrashAndRestart
  <2>2. RecoveryTypeOK' BY <1>4, <2>1 DEF CrashAndRestart, RecoveryTypeOK, RecoveryAssumption
  <2> QED BY <1>4, <2>2 DEF CrashAndRestart, FreshIsBase, OfferedFresh, CandidateIsHeard, OwedIsAlone
<1>5. CASE \E t \in DiskTexts : Write(t)
  <2>1. RecoveryTypeOK' BY <1>5 DEF Write, RecoveryTypeOK, Texts
  <2> QED BY <1>5, <2>1 DEF Write, FreshIsBase, OfferedFresh, CandidateIsHeard, OwedIsAlone
<1> QED BY <1>1, <1>2, <1>3, <1>4, <1>5

\* The steps together.
LEMMA RecoverySteps ==
  ASSUME RecoveryAssumption, RecoveryInv, [RecoveryNext]_recoveryVars
  PROVE  RecoveryInv'
<1>1. CASE PublishOpen BY <1>1, PublishStep
<1>2. CASE EditBuffer BY <1>2, EditStep
<1>3. CASE Save BY <1>3, SaveStep
<1>4. CASE TakeCandidate BY <1>4, TakeStep
<1>5. CASE ReadFile \/ Unload \/ Land \/ CrashAndRestart \/ (\E t \in DiskTexts : Write(t)) BY <1>5, OtherSteps
<1>6. CASE \E discard \in BOOLEAN : Reload(discard) BY <1>6, ReloadStep
<1>7. ASSUME NEW identity \in held, Restore(identity) \/ Discard(identity) \/ Defer(identity) PROVE RecoveryInv'
  BY <1>7, RestoreStep, AnswerStep
<1>8. CASE UNCHANGED recoveryVars
  BY <1>8 DEF recoveryVars, RecoveryInv, RecoveryTypeOK, FreshIsBase, OfferedFresh, CandidateIsHeard, OwedIsAlone
<1> QED BY <1>1, <1>2, <1>3, <1>4, <1>5, <1>6, <1>7, <1>8 DEF RecoveryNext

\* The gate compares the revision and the baseline, so the buffer still holds the text
\* of the offer.
LEMMA DecisionsMeet == RecoveryInv => RecoveryInvariant
<1> SUFFICES ASSUME RecoveryInv, NEW identity \in held, Accepts(identity)
             PROVE  buffer.text = pending.offered /\ (pending.current => pending.record.base = buffer.text)
  BY DEF RecoveryInvariant, DecisionMeetsItsText, OwedRecordStays, RecoveryInv, OwedIsAlone
<1> QED BY DEF RecoveryInv, Accepts, FreshIsBase, OfferedFresh

\* The inductive invariant holds of every behaviour.
THEOREM RecoveryInvariance == ASSUME RecoveryAssumption PROVE RecoverySpec => []RecoveryInv
<1>1. RecoveryInit => RecoveryInv BY RecoveryStarts
<1>2. RecoveryInv /\ [RecoveryNext]_recoveryVars => RecoveryInv' BY RecoverySteps
<1> QED BY <1>1, <1>2, PTL DEF RecoverySpec

\* An answer that the gate of decide_recovery accepts finds the text and the
\* record that the user was asked about; a candidate waits only while the queue of
\* events is full; and the record of a deferred or stale candidate stays until the
\* user gives it up (session.rs, decide_recovery and publish_recovery_candidate).
THEOREM RecoveryCorrect == ASSUME RecoveryAssumption PROVE RecoverySpec => []RecoveryInvariant
<1>1. RecoveryInv => RecoveryInvariant BY DecisionsMeet
<1> QED BY <1>1, RecoveryInvariance, PTL

-----------------------------------------------------------------------------
(* The inductive invariant of Mutation. *)

Roles == {"origin", "dest", "staged", "parked"}

\* What lies under the four names of an entry.
O(i) == fs[<<"origin", i>>]
D(i) == fs[<<"dest", i>>]
S(i) == fs[<<"staged", i>>]
P(i) == fs[<<"parked", i>>]

Transfer == mode \in {"copy", "move"}
Committing == point.at \in {"check", "park", "take"}
Undoing == point.at \in {"undo", "return"}

\* The entries that the unwind still has to give back.
Remains(i) ==
  /\ point.at = "undo" => i <= point.item
  /\ point.at = "return" => i < point.item

\* Which counters belong to which phase, and which modes reach it.
Flow ==
  /\ replaces # {} => Transfer
  /\ mode \in {"create", "discard"} => committed = 0
  /\ mutationOutcome # "none" => point.at = "done"
  /\ point.at = "stage" => staged = point.item - 1 /\ committed = 0 /\ failures = {} /\ ~uncertain
  /\ Committing =>
       Transfer /\ staged = N /\ committed = point.item - 1 /\ failures = {} /\ ~uncertain
  /\ point.at = "park" => point.item \in replaces
  /\ point.at = "clean" =>
       /\ mode # "create" /\ staged = N /\ (Transfer => committed = N)
       /\ \A i \in failures : i < point.item
  /\ Undoing =>
       /\ committed < N /\ point.item <= staged
       /\ committed > 0 => staged = N
       /\ \A i \in failures : IF point.at = "undo" THEN i > point.item ELSE i >= point.item
  /\ point.at = "return" => point.item \in replaces

\* Only an approved destination is parked, and only by its own commit.
ParkedInTime(i) ==
  /\ i \notin replaces => P(i) = Nothing
  /\ point.at \in {"stage", "check", "park"} /\ (point.at = "stage" \/ i >= point.item)
       => P(i) = Nothing
  /\ point.at = "take" /\ i > point.item => P(i) = Nothing

\* Where the source of a move or a removal is, if other programs left it: the
\* next step replaces nothing that is the source.
SourceInPlace(i) ==
  Active /\ mode \in {"move", "discard"} =>
    IF i <= staged /\ Remains(i)
      THEN /\ O(i) # Source(i) /\ P(i) # Source(i)
           /\ IF i <= committed THEN S(i) # Source(i) ELSE D(i) # Source(i)
      ELSE i \notin failures => D(i) # Source(i) /\ S(i) # Source(i) /\ P(i) # Source(i)

SourceKept(i) ==
  mode # "create" =>
    \/ Source(i) \in gone
    \/ O(i) = Source(i)
    \/ mode # "copy" /\ (D(i) = Source(i) \/ S(i) = Source(i) \/ P(i) = Source(i))
    \/ mode = "discard" /\ staged = N
    \/ mode = "move" /\ i \in failures \cap replaces

\* The approved entry lies at its destination or parked, and no step of the
\* commit or the unwind replaces it.
OldInPlace(i) ==
  /\ O(i) # Old(i) /\ S(i) # Old(i)
  /\ Active /\ Remains(i) /\ i <= committed => D(i) # Old(i)
  /\ point = At("take", i) => D(i) # Old(i)
  /\ Active /\ P(i) # Nothing => D(i) # Old(i)
  /\ point = At("return", i) => P(i) # Nothing

OldKept(i) ==
  i \in replaces => D(i) = Old(i) \/ P(i) = Old(i) \/ Old(i) \in gone \/ committed = N

\* The shapes of an entry that other programs left alone.
OldOrNone(i) == IF i \in replaces THEN Old(i) ELSE Nothing
Left(i) == IF mode = "copy" THEN Source(i) ELSE Nothing

IsBefore(i) ==
  /\ O(i) = (IF mode = "create" THEN Nothing ELSE Source(i)) /\ D(i) = OldOrNone(i)
  /\ S(i) = Nothing /\ P(i) = Nothing

IsStaged(i) ==
  /\ O(i) = Left(i) /\ P(i) = Nothing
  /\ IF mode = "create" THEN D(i) = <<"created", i>> /\ S(i) = Nothing
                        ELSE D(i) = OldOrNone(i) /\ S(i) = Source(i)

IsParked(i) == O(i) = Left(i) /\ D(i) = Nothing /\ S(i) = Source(i) /\ P(i) = OldOrNone(i)

IsTaken(i) == O(i) = Left(i) /\ D(i) = Source(i) /\ S(i) = Nothing /\ P(i) = OldOrNone(i)

IsAfter(i) ==
  /\ O(i) = Left(i) /\ S(i) = Nothing /\ P(i) = Nothing
  /\ D(i) = CASE mode = "create" -> <<"created", i>> [] mode = "discard" -> Nothing
              [] OTHER -> Source(i)

IsReturning(i) ==
  /\ O(i) = Source(i) /\ D(i) = Nothing /\ S(i) = Nothing /\ P(i) = Old(i)

Alone(i) == <<"origin", i>> \notin touched /\ <<"dest", i>> \notin touched

\* What the phase says of such an entry.
InShape(i) ==
  /\ point.at = "stage" => IF i < point.item THEN IsStaged(i) ELSE IsBefore(i)
  /\ Committing =>
       IF i < point.item THEN IsTaken(i)
       ELSE IF i = point.item /\ point.at = "take" THEN IsParked(i) ELSE IsStaged(i)
  /\ point.at = "clean" /\ i < point.item => i \in failures \/ IsAfter(i)
  /\ point.at = "clean" /\ i >= point.item => IF Transfer THEN IsTaken(i) ELSE IsStaged(i)
  /\ Undoing /\ Remains(i) =>
       IF i <= committed THEN IsTaken(i)
       ELSE IsStaged(i) \/ (Transfer /\ i = committed + 1 /\ IsParked(i))
  /\ Undoing /\ i > point.item => i \in failures \/ IsBefore(i)
  /\ point = At("return", i) => i \in failures \/ IsReturning(i)
  /\ point.at = "done" /\ (failures = {} \/ mutationOutcome # "Indeterminate") =>
       /\ mutationOutcome \in {"Unchanged", "Indeterminate"} => IsBefore(i)
       /\ mutationOutcome = "Committed" => IsAfter(i)
       /\ mutationOutcome # "none"

Entry(i) ==
  /\ ParkedInTime(i)
  /\ SourceInPlace(i) /\ SourceKept(i)
  /\ OldInPlace(i) /\ OldKept(i)
  /\ Alone(i) => InShape(i)

EntriesInv == MutationTypeOK /\ Flow /\ \A i \in Items : Entry(i)

-----------------------------------------------------------------------------
(* Contents and names of the entries. *)

LEMMA Distinct ==
  ASSUME NEW i \in Items
  PROVE  /\ Source(i) # Nothing /\ Old(i) # Nothing /\ Source(i) # Old(i)
         /\ <<"created", i>> # Nothing /\ <<"created", i>> # Source(i) /\ <<"created", i>> # Old(i)
         /\ \A j : <<"part", j>> # Source(i) /\ <<"part", j>> # Old(i)
         /\ \A n : <<"other", n>> # Source(i) /\ <<"other", n>> # Old(i)
BY DEF Source, Old, Nothing

LEMMA EntryContentsFacts ==
  /\ Nothing \in EntryContents
  /\ \A i \in Items : /\ Source(i) \in EntryContents /\ Old(i) \in EntryContents
                      /\ <<"created", i>> \in EntryContents /\ <<"part", i>> \in EntryContents
  /\ \A n \in 1 .. OtherChanges : <<"other", n>> \in EntryContents
BY DEF EntryContents, Nothing, Source, Old

LEMMA NamesFacts ==
  /\ Visible \subseteq Names
  /\ \A i \in Items, role \in Roles : <<role, i>> \in Names
  /\ \A i \in Items : <<"origin", i>> \in Visible /\ <<"dest", i>> \in Visible
  /\ \A name \in Names : \E role \in Roles, i \in Items : name = <<role, i>>
  /\ \A name \in Visible : \E role \in {"origin", "dest"}, i \in Items : name = <<role, i>>
BY DEF Names, Visible, Roles

\* An entry that a step leaves alone, and a step that touches one entry.
Same(i) == O(i)' = O(i) /\ D(i)' = D(i) /\ S(i)' = S(i) /\ P(i)' = P(i)
OnlyEntry(k) == \A i \in Items : i # k => Same(i)

\* What the two kinds of step do to the names.
LEMMA PutCells ==
  ASSUME fs \in [Names -> EntryContents], NEW at \in Roles, NEW k \in Items, NEW content \in EntryContents,
         fs' = [fs EXCEPT ![<<at, k>>] = content]
  PROVE  /\ fs' \in [Names -> EntryContents]
         /\ fs'[<<at, k>>] = content
         /\ \A role \in Roles : role # at => fs'[<<role, k>>] = fs[<<role, k>>]
         /\ OnlyEntry(k)
<1>1. <<at, k>> \in Names
  BY NamesFacts
<1>2. fs' \in [Names -> EntryContents] /\ fs'[<<at, k>>] = content
  BY <1>1
<1>3. ASSUME NEW role \in Roles, NEW i \in Items, role # at \/ i # k
      PROVE  fs'[<<role, i>>] = fs[<<role, i>>]
  <2>1. <<role, i>> \in Names /\ <<role, i>> # <<at, k>>
    BY <1>3, NamesFacts
  <2> QED BY <2>1
<1> QED BY <1>2, <1>3 DEF OnlyEntry, Same, Roles, O, D, S, P

LEMMA RemoveCells ==
  ASSUME fs \in [Names -> EntryContents], NEW at \in Roles, NEW k \in Items,
         fs' = Removed(<<at, k>>)
  PROVE  /\ fs' \in [Names -> EntryContents]
         /\ fs'[<<at, k>>] = Nothing
         /\ \A role \in Roles : role # at => fs'[<<role, k>>] = fs[<<role, k>>]
         /\ OnlyEntry(k)
<1>1. Nothing \in EntryContents /\ fs' = [fs EXCEPT ![<<at, k>>] = Nothing]
  BY EntryContentsFacts DEF Removed
<1> QED BY <1>1, PutCells

LEMMA MoveCells ==
  ASSUME fs \in [Names -> EntryContents], NEW from \in Roles, NEW to \in Roles, from # to,
         NEW k \in Items, fs' = Renamed(<<from, k>>, <<to, k>>)
  PROVE  /\ fs' \in [Names -> EntryContents]
         /\ fs'[<<to, k>>] = fs[<<from, k>>] /\ fs'[<<from, k>>] = Nothing
         /\ \A role \in Roles : role \notin {from, to} => fs'[<<role, k>>] = fs[<<role, k>>]
         /\ OnlyEntry(k)
<1>1. /\ <<from, k>> \in Names /\ <<to, k>> \in Names /\ <<from, k>> # <<to, k>>
      /\ Nothing \in EntryContents
  BY NamesFacts, EntryContentsFacts
<1>2. fs' = [fs EXCEPT ![<<to, k>>] = fs[<<from, k>>], ![<<from, k>>] = Nothing]
  BY DEF Renamed
<1>3. /\ fs' \in [Names -> EntryContents]
      /\ fs'[<<to, k>>] = fs[<<from, k>>] /\ fs'[<<from, k>>] = Nothing
  BY <1>1, <1>2
<1>4. ASSUME NEW role \in Roles, NEW i \in Items, role \notin {from, to} \/ i # k
      PROVE  fs'[<<role, i>>] = fs[<<role, i>>]
  <2>1. <<role, i>> \in Names /\ <<role, i>> # <<from, k>> /\ <<role, i>> # <<to, k>>
    BY <1>4, NamesFacts
  <2> QED BY <1>2, <2>1
<1> QED BY <1>3, <1>4 DEF OnlyEntry, Same, Roles, O, D, S, P

StepType ==
  [at : {"stage", "check", "park", "take", "return", "clean"}, item : Items]
    \cup [at : {"undo"}, item : 0 .. N] \cup [at : {"done", "crashed"}, item : {0}]

LEMMA StepFacts ==
  ASSUME MutationAssumption
  PROVE  /\ \A at, item : At(at, item).at = at /\ At(at, item).item = item
         /\ \A at \in {"stage", "check", "park", "take", "return", "clean"}, item \in Items :
              At(at, item) \in StepType
         /\ \A item \in 0 .. N : At("undo", item) \in StepType
         /\ At("done", 0) \in StepType /\ At("crashed", 0) \in StepType
         /\ point \in StepType =>
              /\ point = At(point.at, point.item)
              /\ point.at \in {"stage", "check", "park", "take", "return", "clean", "undo", "done",
                              "crashed"}
              /\ point.at \in {"stage", "check", "park", "take", "return", "clean"} =>
                   point.item \in Items
              /\ point.item \in 0 .. N
BY DEF MutationAssumption, At, StepType, Items

LEMMA TypeFacts ==
  ASSUME MutationTypeOK
  PROVE  /\ mode \in Modes /\ replaces \in SUBSET Items /\ fs \in [Names -> EntryContents]
         /\ point \in StepType /\ staged \in 0 .. N /\ committed \in 0 .. N
         /\ uncertain \in BOOLEAN /\ failures \in SUBSET Items
         /\ mutationOutcome \in {"none", "Unchanged", "Committed", "Indeterminate"}
         /\ otherChanges \in 0 .. OtherChanges /\ touched \in SUBSET Visible /\ gone \in SUBSET EntryContents
BY DEF MutationTypeOK, StepType

\* The shapes of an entry that a step leaves alone.
LEMMA ShapesStay ==
  ASSUME NEW i, Same(i), UNCHANGED <<mode, replaces>>
  PROVE  /\ IsBefore(i)' = IsBefore(i) /\ IsStaged(i)' = IsStaged(i)
         /\ IsParked(i)' = IsParked(i) /\ IsTaken(i)' = IsTaken(i)
         /\ IsAfter(i)' = IsAfter(i) /\ IsReturning(i)' = IsReturning(i)
BY DEF Same, IsBefore, IsStaged, IsParked, IsTaken, IsAfter, IsReturning, OldOrNone, Left

LEMMA NothingToPark ==
  ASSUME NEW i, i \notin replaces, Transfer
  PROVE  IsStaged(i) => IsParked(i)
BY DEF IsStaged, IsParked, OldOrNone, Transfer

\* How the steps of one entry lead from shape to shape.
LEMMA StageShape ==
  ASSUME NEW k, mode \in Modes, UNCHANGED <<mode, replaces>>, replaces # {} => Transfer,
         IsBefore(k), P(k)' = P(k),
         mode = "create" => O(k)' = O(k) /\ D(k)' = <<"created", k>> /\ S(k)' = S(k),
         mode = "copy" => O(k)' = O(k) /\ D(k)' = D(k) /\ S(k)' = O(k),
         mode \in {"move", "discard"} => O(k)' = Nothing /\ D(k)' = D(k) /\ S(k)' = O(k)
  PROVE  IsStaged(k)'
BY DEF Modes, Transfer, IsBefore, IsStaged, OldOrNone, Left

LEMMA StagedIsAfter ==
  ASSUME NEW k, mode = "create", UNCHANGED mode
  PROVE  IsStaged(k)' => IsAfter(k)'
BY DEF IsStaged, IsAfter

LEMMA UndoneShape ==
  ASSUME NEW k \in Items, mode \in Modes, UNCHANGED <<mode, replaces>>, replaces # {} => Transfer,
         mode \in {"create", "discard"} => committed = 0, committed \in Nat,
         IF k <= committed THEN IsTaken(k) ELSE IsStaged(k) \/ (Transfer /\ IsParked(k)),
         P(k)' = P(k),
         mode = "create" \/ (mode = "copy" /\ k <= committed) =>
           O(k)' = O(k) /\ D(k)' = Nothing /\ S(k)' = S(k),
         mode = "copy" /\ ~(k <= committed) => O(k)' = O(k) /\ D(k)' = D(k) /\ S(k)' = Nothing,
         mode = "move" /\ k <= committed => O(k)' = D(k) /\ D(k)' = Nothing /\ S(k)' = S(k),
         mode = "discard" \/ (mode = "move" /\ ~(k <= committed)) =>
           O(k)' = S(k) /\ D(k)' = D(k) /\ S(k)' = Nothing
  PROVE  IF P(k) # Nothing THEN IsReturning(k)' ELSE IsBefore(k)'
BY Distinct
DEF Modes, Transfer, IsBefore, IsStaged, IsTaken, IsParked, IsReturning, OldOrNone, Left, Items

LEMMA CleanShape ==
  ASSUME NEW k \in Items, mode \in Modes \ {"create"}, UNCHANGED <<mode, replaces>>,
         replaces # {} => Transfer,
         IF Transfer THEN IsTaken(k) ELSE IsStaged(k),
         O(k)' = O(k) /\ D(k)' = D(k),
         IF mode = "discard" THEN S(k)' = Nothing /\ P(k)' = P(k) ELSE P(k)' = Nothing /\ S(k)' = S(k)
  PROVE  IsAfter(k)'
BY DEF Modes, Transfer, IsStaged, IsTaken, IsAfter, OldOrNone, Left

\* The quiet steps: those that touch no name.
LEMMA CheckStep ==
  ASSUME MutationAssumption, EntriesInv, Check
  PROVE  EntriesInv'
<1>1. /\ MutationTypeOK /\ Flow /\ point.item \in Items /\ point.at = "check"
      /\ point' = At(IF point.item \in replaces THEN "park" ELSE "take", point.item)
      /\ point'.at = (IF point.item \in replaces THEN "park" ELSE "take")
      /\ point'.item = point.item
      /\ UNCHANGED <<mode, replaces, fs, staged, committed, uncertain, failures, mutationOutcome,
                     otherChanges, touched, gone>>
      /\ Items = 1 .. N /\ N \in Nat
      /\ D(point.item) # Nothing <=> point.item \in replaces
  BY TypeFacts, StepFacts DEF EntriesInv, Check, MutationAssumption, Items, D, Dest
<1>2. MutationTypeOK'
  BY <1>1, TypeFacts, StepFacts DEF MutationTypeOK, StepType
<1>3. Flow'
  BY <1>1 DEF Flow, Transfer, Committing, Undoing
<1>4. ASSUME NEW i \in Items PROVE Entry(i)'
  <2>1. Entry(i) /\ Same(i)
    BY <1>1 DEF EntriesInv, Same, O, D, S, P
  <2>2. ParkedInTime(i)'
    BY <1>1, <2>1 DEF Entry, Same, ParkedInTime
  <2>3. SourceInPlace(i)'
    BY <1>1, <2>1 DEF Entry, Same, SourceInPlace, Active, Remains
  <2>4. SourceKept(i)' /\ OldKept(i)'
    BY <1>1, <2>1 DEF Entry, Same, SourceKept, OldKept
  <2>5. OldInPlace(i)'
    BY <1>1, Distinct, <2>1 DEF Entry, Same, OldInPlace, Active, Remains, At
  <2>6. ASSUME Alone(i)' PROVE InShape(i)'
    <3>1. InShape(i)
      BY <1>1, <2>1, <2>6 DEF Entry, Alone
    <3>2. i < point.item => IsTaken(i)
      BY <1>1, <3>1 DEF InShape, Committing
    <3>3. i >= point.item => IsStaged(i)
      BY <1>1, <3>1 DEF InShape, Committing
    <3>4. i = point.item /\ point'.at = "take" => IsParked(i)
      BY <1>1, <3>3, NothingToPark DEF Flow, Committing
    <3> QED BY <1>1, <2>1, <3>2, <3>3, <3>4, ShapesStay DEF InShape, Committing, Undoing, At
  <2> QED BY <2>2, <2>3, <2>4, <2>5, <2>6 DEF Entry
<1> QED BY <1>2, <1>3, <1>4 DEF EntriesInv

\* The approved destination moves to its parked name.
LEMMA ParkStep ==
  ASSUME MutationAssumption, EntriesInv, NEW k \in Items, k = point.item, Park
  PROVE  EntriesInv'
<1>1. /\ MutationTypeOK /\ Flow /\ Items = 1 .. N /\ N \in Nat /\ staged \in 0 .. N
      /\ committed \in 0 .. N
      /\ failures \in SUBSET Items /\ mode \in Modes /\ point = At(point.at, k)
      /\ point.at = "park" /\ point' = At("take", k)
      /\ point'.at = "take" /\ point'.item = k
      /\ fs' = IF D(k) = Nothing THEN fs ELSE Renamed(<<"dest", k>>, <<"parked", k>>)
      /\ UNCHANGED <<mode, replaces, staged, committed, uncertain, failures, mutationOutcome,
          otherChanges,
                     touched, gone>>
  BY TypeFacts, StepFacts DEF EntriesInv, Park, MutationAssumption, Items, D, Dest, Parked
<1>2. Entry(k)
  BY <1>1 DEF EntriesInv
<1>3. /\ fs' \in [Names -> EntryContents]
      /\ O(k)' = O(k) /\ S(k)' = S(k)
      /\ D(k)' = Nothing /\ P(k)' = D(k) /\ P(k) = Nothing
      /\ OnlyEntry(k)
  <2>1. P(k) = Nothing
    BY <1>1, <1>2 DEF Entry, ParkedInTime
  <2>2. CASE D(k) = Nothing
    BY <1>1, <2>1, <2>2, TypeFacts DEF O, D, S, P, OnlyEntry, Same
  <2>3. CASE D(k) # Nothing
    <3>1. fs' = Renamed(<<"dest", k>>, <<"parked", k>>)
      BY <1>1, <2>3
    <3>5. "dest" \in Roles /\ "parked" \in Roles /\ "dest" # "parked"
          /\ fs \in [Names -> EntryContents]
      BY <1>1, TypeFacts DEF Roles
    <3>6. /\ fs' \in [Names -> EntryContents]
          /\ fs'[<<"parked", k>>] = fs[<<"dest", k>>] /\ fs'[<<"dest", k>>] = Nothing
          /\ \A role \in Roles : role \notin {"dest", "parked"}
               => fs'[<<role, k>>] = fs[<<role, k>>]
          /\ OnlyEntry(k)
      BY <1>1, <2>1, <2>3, <3>1, <3>5, MoveCells
    <3>7. O(k)' = O(k) /\ S(k)' = S(k) /\ P(k)' = D(k) /\ D(k)' = Nothing
      BY <3>6 DEF O, D, S, P, Roles
    <3> QED BY <1>1, <2>1, <2>3, <3>1, <3>6, <3>7
  <2> QED BY <2>2, <2>3
<1>4. MutationTypeOK'
  <2>1. point' \in StepType
    BY <1>1, StepFacts DEF Committing
  <2> QED BY <1>1, <2>1, <1>3, TypeFacts DEF MutationTypeOK, StepType
<1>5. Flow'
  BY <1>1, <1>2, <1>3 DEF Flow, Transfer, Committing, Undoing, At, Modes, Entry, ParkedInTime
<1>6. ASSUME NEW i \in Items, i # k PROVE Entry(i)'
  <2>1. Entry(i) /\ Same(i)
    BY <1>1, <1>3, <1>6 DEF EntriesInv, OnlyEntry
  <2>2. ParkedInTime(i)'
    BY <1>1, <2>1, <1>6 DEF Entry, Same, ParkedInTime, Flow, Committing, Undoing
  <2>3. SourceInPlace(i)'
    BY <1>1, <2>1, <1>6 DEF Entry, Same, SourceInPlace, Active, Remains, Flow, Committing, Undoing
  <2>4. SourceKept(i)' /\ OldKept(i)'
    BY <1>1, <2>1, <1>6 DEF Entry, Same, SourceKept, OldKept, Flow, Committing, Undoing
  <2>5. OldInPlace(i)'
    BY <1>1, <2>1, <1>6, Distinct
    DEF Entry, Same, OldInPlace, ParkedInTime, Active, Remains, At, Flow, Committing, Undoing
  <2>6. ASSUME Alone(i)' PROVE InShape(i)'
    <3>1. InShape(i)
      BY <1>1, <2>1, <2>6 DEF Entry, Alone
    <3> QED BY <1>1, <1>6, <2>1, <3>1, ShapesStay DEF InShape, Committing, Undoing, At
  <2> QED BY <2>2, <2>3, <2>4, <2>5, <2>6 DEF Entry
<1>7. Entry(k)'
  <2>1. Entry(k)
    BY <1>2
  <2>2. ParkedInTime(k)'
    BY <1>1, <1>3, <2>1, Distinct DEF Entry, ParkedInTime, Flow, Committing, Undoing
  <2>3. SourceInPlace(k)'
    BY <1>1, <1>3, <2>1, Distinct
    DEF Entry, SourceInPlace, ParkedInTime, Active, Remains, Flow, Transfer, Committing, Undoing
  <2>4. SourceKept(k)'
    BY <1>1, <1>3, <2>1, Distinct
    DEF Entry, SourceKept, SourceInPlace, ParkedInTime, Active, Remains, Flow, Transfer,
        Committing, Undoing, Modes
  <2>5. OldKept(k)'
    BY <1>1, <1>3, <2>1, Distinct
    DEF Entry, OldKept, OldInPlace, ParkedInTime, Active, Remains, At, Flow, Transfer, Committing,
        Undoing
  <2>6. OldInPlace(k)'
    BY <1>1, <1>3, <2>1, Distinct
    DEF Entry, OldInPlace, ParkedInTime, Active, Remains, At, Flow, Transfer, Committing, Undoing,
        Modes
  <2>7. ASSUME Alone(k)' PROVE InShape(k)'
    <3>1. InShape(k)
      BY <1>1, <2>1, <2>7 DEF Entry, Alone
    <3>2. IsStaged(k)
      BY <1>1, <3>1 DEF InShape, Committing
    <3>3. IsParked(k)'
      BY <1>1, <1>3, <3>2 DEF IsStaged, IsParked, OldOrNone, Left, Flow, Committing, Transfer
    <3> QED BY <1>1, <3>3 DEF InShape, Committing, Undoing, At
  <2> QED BY <2>2, <2>3, <2>4, <2>5, <2>6, <2>7 DEF Entry
<1> QED
  <2>1. ASSUME NEW i \in Items PROVE Entry(i)'
    <3>1. CASE i # k
      BY <1>6, <3>1
    <3>2. CASE i = k
      BY <1>7, <3>2
    <3> QED BY <3>1, <3>2
  <2> QED BY <1>4, <1>5, <2>1 DEF EntriesInv

\* The staged entry takes its destination.
LEMMA TakeEntryStep ==
  ASSUME MutationAssumption, EntriesInv, NEW k \in Items, k = point.item, Take
  PROVE  EntriesInv'
<1>1. /\ MutationTypeOK /\ Flow /\ Items = 1 .. N /\ N \in Nat /\ staged \in 0 .. N
      /\ committed \in 0 .. N
      /\ failures \in SUBSET Items /\ mode \in Modes /\ point = At(point.at, k)
      /\ point.at = "take" /\ committed' = k
      /\ point' = IF k < N THEN At("check", k + 1) ELSE At("clean", 1)
      /\ point'.at = (IF k < N THEN "check" ELSE "clean")
      /\ point'.item = (IF k < N THEN k + 1 ELSE 1)
      /\ fs' = Renamed(<<"staged", k>>, <<"dest", k>>)
      /\ UNCHANGED <<mode, replaces, staged, uncertain, failures, mutationOutcome, otherChanges,
          touched,
                     gone>>
  BY TypeFacts, StepFacts DEF EntriesInv, Take, MutationAssumption, Items, Staged, Dest
<1>2. Entry(k)
  BY <1>1 DEF EntriesInv
<1>3. /\ fs' \in [Names -> EntryContents]
      /\ O(k)' = O(k) /\ P(k)' = P(k)
      /\ D(k)' = S(k) /\ S(k)' = Nothing
      /\ OnlyEntry(k)
  <2>5. "staged" \in Roles /\ "dest" \in Roles /\ "staged" # "dest" /\ fs \in [Names -> EntryContents]
    BY <1>1, TypeFacts DEF Roles
  <2>4. fs' = Renamed(<<"staged", k>>, <<"dest", k>>)
    BY <1>1
  <2>6. /\ fs' \in [Names -> EntryContents]
        /\ fs'[<<"dest", k>>] = fs[<<"staged", k>>] /\ fs'[<<"staged", k>>] = Nothing
        /\ \A role \in Roles : role \notin {"staged", "dest"}
             => fs'[<<role, k>>] = fs[<<role, k>>]
        /\ OnlyEntry(k)
    BY <2>4, <2>5, MoveCells
  <2>7. O(k)' = O(k) /\ P(k)' = P(k) /\ D(k)' = S(k) /\ S(k)' = Nothing
    BY <2>6 DEF O, D, S, P, Roles
  <2> QED BY <1>1, <2>6, <2>7
<1>4. MutationTypeOK'
  <2>1. point' \in StepType
    BY <1>1, StepFacts DEF Committing
  <2>2. committed' \in 0 .. N
    BY <1>1
  <2> QED BY <1>1, <2>1, <2>2, <1>3 DEF MutationTypeOK, StepType
<1>5. Flow'
  BY <1>1, <1>2, <1>3 DEF Flow, Transfer, Committing, Undoing, At, Modes, Entry, ParkedInTime
<1>6. ASSUME NEW i \in Items, i # k PROVE Entry(i)'
  <2>1. Entry(i) /\ Same(i)
    BY <1>1, <1>3, <1>6 DEF EntriesInv, OnlyEntry
  <2>2. ParkedInTime(i)'
    BY <1>1, <2>1, <1>6 DEF Entry, Same, ParkedInTime, Flow, Committing, Undoing
  <2>3. SourceInPlace(i)'
    BY <1>1, <2>1, <1>6 DEF Entry, Same, SourceInPlace, Active, Remains, Flow, Committing, Undoing
  <2>4. SourceKept(i)' /\ OldKept(i)'
    BY <1>1, <2>1, <1>6 DEF Entry, Same, SourceKept, OldKept, Flow, Committing, Undoing
  <2>5. OldInPlace(i)'
    BY <1>1, <2>1, <1>6, Distinct
    DEF Entry, Same, OldInPlace, ParkedInTime, Active, Remains, At, Flow, Committing, Undoing
  <2>6. ASSUME Alone(i)' PROVE InShape(i)'
    <3>1. InShape(i)
      BY <1>1, <2>1, <2>6 DEF Entry, Alone
    <3> QED BY <1>1, <1>6, <2>1, <3>1, ShapesStay
        DEF InShape, Committing, Undoing, At, Flow, Transfer
  <2> QED BY <2>2, <2>3, <2>4, <2>5, <2>6 DEF Entry
<1>7. Entry(k)'
  <2>1. Entry(k)
    BY <1>2
  <2>2. ParkedInTime(k)'
    BY <1>1, <1>3, <2>1, Distinct DEF Entry, ParkedInTime, Flow, Committing, Undoing
  <2>3. SourceInPlace(k)'
    BY <1>1, <1>3, <2>1, Distinct
    DEF Entry, SourceInPlace, ParkedInTime, Active, Remains, Flow, Transfer, Committing, Undoing
  <2>4. SourceKept(k)'
    BY <1>1, <1>3, <2>1, Distinct
    DEF Entry, SourceKept, SourceInPlace, ParkedInTime, Active, Remains, Flow, Transfer,
        Committing, Undoing, Modes
  <2>5. OldKept(k)'
    BY <1>1, <1>3, <2>1, Distinct
    DEF Entry, OldKept, OldInPlace, ParkedInTime, Active, Remains, At, Flow, Transfer, Committing,
        Undoing
  <2>6. OldInPlace(k)'
    BY <1>1, <1>3, <2>1, Distinct
    DEF Entry, OldInPlace, ParkedInTime, Active, Remains, At, Flow, Transfer, Committing, Undoing,
        Modes
  <2>7. ASSUME Alone(k)' PROVE InShape(k)'
    <3>1. InShape(k)
      BY <1>1, <2>1, <2>7 DEF Entry, Alone
    <3>2. IsParked(k)
      BY <1>1, <3>1 DEF InShape, Committing
    <3>3. IsTaken(k)'
      BY <1>1, <1>3, <3>2 DEF IsTaken, IsParked, OldOrNone, Left
    <3> QED BY <1>1, <3>3 DEF InShape, Committing, Undoing, At, Flow, Transfer
  <2> QED BY <2>2, <2>3, <2>4, <2>5, <2>6, <2>7 DEF Entry
<1> QED
  <2>1. ASSUME NEW i \in Items PROVE Entry(i)'
    <3>1. CASE i # k
      BY <1>6, <3>1
    <3>2. CASE i = k
      BY <1>7, <3>2
    <3> QED BY <3>1, <3>2
  <2> QED BY <1>4, <1>5, <2>1 DEF EntriesInv

\* A failure of the commit starts the unwind at the last entry.
LEMMA FailCommitStep ==
  ASSUME MutationAssumption, EntriesInv, NEW k \in Items, k = point.item, FailCommit
  PROVE  EntriesInv'
<1>1. /\ MutationTypeOK /\ Flow /\ Items = 1 .. N /\ N \in Nat /\ staged \in 0 .. N
      /\ committed \in 0 .. N
      /\ failures \in SUBSET Items /\ mode \in Modes /\ point = At(point.at, k)
      /\ point.at \in {"check", "park", "take"} /\ uncertain' = TRUE
      /\ point' = At("undo", N) /\ point'.at = "undo" /\ point'.item = N
      /\ UNCHANGED <<mode, replaces, fs, staged, committed, failures, mutationOutcome,
          otherChanges, touched,
                     gone>>
  BY TypeFacts, StepFacts DEF EntriesInv, FailCommit, MutationAssumption, Items, Unwind
<1>4. MutationTypeOK'
  <2>1. point' \in StepType
    BY <1>1, StepFacts DEF Committing
  <2> QED BY <1>1, <2>1, TypeFacts DEF MutationTypeOK, StepType
<1>5. Flow'
  BY <1>1 DEF Flow, Transfer, Committing, Undoing, At, Modes, Entry, ParkedInTime
<1>6. ASSUME NEW i \in Items PROVE Entry(i)'
  <2>1. Entry(i) /\ Same(i)
    BY <1>1 DEF EntriesInv, Same, O, D, S, P
  <2>2. ParkedInTime(i)'
    BY <1>1, <2>1 DEF Entry, Same, ParkedInTime, Flow, Committing, Undoing
  <2>3. SourceInPlace(i)'
    BY <1>1, <2>1 DEF Entry, Same, SourceInPlace, Active, Remains, Flow, Committing, Undoing
  <2>4. SourceKept(i)' /\ OldKept(i)'
    BY <1>1, <2>1 DEF Entry, Same, SourceKept, OldKept, Flow, Committing, Undoing
  <2>5. OldInPlace(i)'
    BY <1>1, <2>1, Distinct
    DEF Entry, Same, OldInPlace, ParkedInTime, Active, Remains, At, Flow, Committing, Undoing
  <2>6. ASSUME Alone(i)' PROVE InShape(i)'
    <3>1. InShape(i)
      BY <1>1, <2>1, <2>6 DEF Entry, Alone
    <3>2. i < k => IsTaken(i)
      BY <1>1, <3>1 DEF InShape, Committing
    <3>3. i >= k => IsStaged(i) \/ (i = k /\ IsParked(i))
      BY <1>1, <3>1 DEF InShape, Committing
    <3> QED BY <1>1, <2>1, <3>2, <3>3, ShapesStay
        DEF InShape, Committing, Undoing, Remains, At, Flow, Transfer
  <2> QED BY <2>2, <2>3, <2>4, <2>5, <2>6 DEF Entry
<1> QED BY <1>4, <1>5, <1>6 DEF EntriesInv

\* The parked entry takes its destination again.
LEMMA ReturnStep ==
  ASSUME MutationAssumption, EntriesInv, NEW k \in Items, k = point.item, Return
  PROVE  EntriesInv'
<1>1. /\ MutationTypeOK /\ Flow /\ Items = 1 .. N /\ N \in Nat /\ staged \in 0 .. N
      /\ committed \in 0 .. N
      /\ failures \in SUBSET Items /\ mode \in Modes /\ point = At(point.at, k)
      /\ point.at = "return" /\ point' = At("undo", k - 1)
      /\ point'.at = "undo" /\ point'.item = k - 1
      /\ \/ fs' = Renamed(<<"parked", k>>, <<"dest", k>>) /\ failures' = failures
         \/ fs' = fs /\ failures' = failures \cup {k}
      /\ UNCHANGED <<mode, replaces, staged, committed, uncertain, mutationOutcome, otherChanges,
          touched,
                     gone>>
  BY TypeFacts, StepFacts DEF EntriesInv, Return, MutationAssumption, Items, Parked, Dest
<1>2. Entry(k)
  BY <1>1 DEF EntriesInv
<1>3. /\ fs' \in [Names -> EntryContents]
      /\ O(k)' = O(k) /\ S(k)' = S(k)
      /\ \/ D(k)' = P(k) /\ P(k)' = Nothing /\ failures' = failures
         \/ /\ D(k)' = D(k) /\ P(k)' = P(k)
            /\ failures' = failures \cup {k}
      /\ OnlyEntry(k)
  <2>1. CASE fs' = Renamed(<<"parked", k>>, <<"dest", k>>) /\ failures' = failures
    <3>5. "parked" \in Roles /\ "dest" \in Roles /\ "parked" # "dest"
          /\ fs \in [Names -> EntryContents]
      BY <1>1, TypeFacts DEF Roles
    <3>6. /\ fs' \in [Names -> EntryContents]
          /\ fs'[<<"dest", k>>] = fs[<<"parked", k>>] /\ fs'[<<"parked", k>>] = Nothing
          /\ \A role \in Roles : role \notin {"parked", "dest"}
               => fs'[<<role, k>>] = fs[<<role, k>>]
          /\ OnlyEntry(k)
      BY <1>1, <2>1, <3>5, MoveCells
    <3>7. O(k)' = O(k) /\ S(k)' = S(k) /\ D(k)' = P(k) /\ P(k)' = Nothing
      BY <3>6 DEF O, D, S, P, Roles
    <3> QED BY <1>1, <2>1, <3>6, <3>7
  <2>2. CASE fs' = fs /\ failures' = failures \cup {k}
    BY <1>1, <2>2, TypeFacts DEF O, D, S, P, OnlyEntry, Same
  <2> QED BY <1>1, <2>1, <2>2
<1>4. MutationTypeOK'
  <2>1. point' \in StepType
    BY <1>1, StepFacts DEF Committing
  <2> QED BY <1>1, <2>1, <1>3, TypeFacts DEF MutationTypeOK, StepType
<1>5. Flow'
  BY <1>1, <1>2, <1>3 DEF Flow, Transfer, Committing, Undoing, At, Modes, Entry, ParkedInTime
<1>6. ASSUME NEW i \in Items, i # k PROVE Entry(i)'
  <2>1. Entry(i) /\ Same(i)
    BY <1>1, <1>3, <1>6 DEF EntriesInv, OnlyEntry
  <2>2. ParkedInTime(i)'
    BY <1>1, <2>1, <1>6 DEF Entry, Same, ParkedInTime, Flow, Committing, Undoing
  <2>3. SourceInPlace(i)'
    BY <1>1, <2>1, <1>6 DEF Entry, Same, SourceInPlace, Active, Remains, Flow, Committing, Undoing
  <2>4. SourceKept(i)' /\ OldKept(i)'
    BY <1>1, <2>1, <1>6 DEF Entry, Same, SourceKept, OldKept, Flow, Committing, Undoing
  <2>5. OldInPlace(i)'
    BY <1>1, <2>1, <1>6, Distinct
    DEF Entry, Same, OldInPlace, ParkedInTime, Active, Remains, At, Flow, Committing, Undoing
  <2>6. ASSUME Alone(i)' PROVE InShape(i)'
    <3>1. InShape(i)
      BY <1>1, <2>1, <2>6 DEF Entry, Alone
    <3> QED BY <1>1, <1>3, <1>6, <2>1, <3>1, ShapesStay
        DEF InShape, Committing, Undoing, Remains, At, Transfer
  <2> QED BY <2>2, <2>3, <2>4, <2>5, <2>6 DEF Entry
<1>7. Entry(k)'
  <2>1. Entry(k)
    BY <1>2
  <2>2. ParkedInTime(k)'
    BY <1>1, <1>3, <2>1, Distinct DEF Entry, ParkedInTime, Flow, Committing, Undoing
  <2>3. SourceInPlace(k)'
    BY <1>1, <1>3, <2>1, Distinct
    DEF Entry, SourceInPlace, ParkedInTime, Active, Remains, Flow, Transfer, Committing, Undoing
  <2>4. SourceKept(k)'
    BY <1>1, <1>3, <2>1, Distinct
    DEF Entry, SourceKept, SourceInPlace, ParkedInTime, Active, Remains, Flow, Transfer,
        Committing, Undoing, Modes
  <2>5. OldKept(k)'
    BY <1>1, <1>3, <2>1, Distinct
    DEF Entry, OldKept, OldInPlace, ParkedInTime, Active, Remains, At, Flow, Transfer, Committing,
        Undoing
  <2>6. OldInPlace(k)'
    BY <1>1, <1>3, <2>1, Distinct
    DEF Entry, OldInPlace, ParkedInTime, Active, Remains, At, Flow, Transfer, Committing, Undoing,
        Modes
  <2>7. ASSUME Alone(k)' PROVE InShape(k)'
    <3>1. InShape(k)
      BY <1>1, <2>1, <2>7 DEF Entry, Alone
    <3>2. k \in failures \/ IsReturning(k)
      BY <1>1, <3>1, StepFacts, TypeFacts DEF InShape
    <3>3. k \in failures' \/ IsBefore(k)'
      BY <1>1, <1>3, <3>2 DEF IsReturning, IsBefore, OldOrNone, Flow, Transfer
    <3> QED BY <1>1, <3>3 DEF InShape, Committing, Undoing, Remains, At, Transfer
  <2> QED BY <2>2, <2>3, <2>4, <2>5, <2>6, <2>7 DEF Entry
<1> QED
  <2>1. ASSUME NEW i \in Items PROVE Entry(i)'
    <3>1. CASE i # k
      BY <1>6, <3>1
    <3>2. CASE i = k
      BY <1>7, <3>2
    <3> QED BY <3>1, <3>2
  <2> QED BY <1>4, <1>5, <2>1 DEF EntriesInv

\* The staging of an entry.
LEMMA StageEntryStep ==
  ASSUME MutationAssumption, EntriesInv, NEW k \in Items, k = point.item, StageEntry
  PROVE  EntriesInv'
<1>1. /\ MutationTypeOK /\ Flow /\ Items = 1 .. N /\ N \in Nat /\ staged \in 0 .. N
      /\ committed \in 0 .. N
      /\ failures \in SUBSET Items /\ mode \in Modes /\ point = At(point.at, k)
      /\ point.at = "stage" /\ staged' = k
      /\ point' = IF k < N THEN At("stage", k + 1)
                  ELSE CASE mode = "create" -> At("done", 0) [] mode = "discard" -> At("clean", 1)
                         [] OTHER -> At("check", 1)
      /\ point'.at = (IF k < N THEN "stage"
                     ELSE CASE mode = "create" -> "done" [] mode = "discard" -> "clean"
                            [] OTHER -> "check")
      /\ point'.item = (IF k < N THEN k + 1 ELSE IF mode = "create" THEN 0 ELSE 1)
      /\ mutationOutcome' = IF point'.at = "done" THEN "Committed" ELSE mutationOutcome
      /\ mode = "create" => D(k) = Nothing /\ fs' = [fs EXCEPT ![<<"dest", k>>] = <<"created", k>>]
      /\ mode = "copy" => fs' = [fs EXCEPT ![<<"staged", k>>] = O(k)]
      /\ mode \in {"move", "discard"} => fs' = Renamed(<<"origin", k>>, <<"staged", k>>)
      /\ UNCHANGED <<mode, replaces, committed, uncertain, failures, otherChanges, touched, gone>>
  BY TypeFacts, StepFacts
  DEF EntriesInv, StageEntry, MutationAssumption, Items, Origin, Dest, Staged, O, D, AfterStage,
      MutationTypeOK
<1>2. Entry(k)
  BY <1>1 DEF EntriesInv
<1>3. /\ fs' \in [Names -> EntryContents]
      /\ P(k)' = P(k)
      /\ mode = "create" => O(k)' = O(k) /\ D(k)' = <<"created", k>> /\ S(k)' = S(k)
      /\ mode = "copy" => O(k)' = O(k) /\ D(k)' = D(k) /\ S(k)' = O(k)
      /\ mode \in {"move", "discard"} => O(k)' = Nothing /\ D(k)' = D(k) /\ S(k)' = O(k)
      /\ OnlyEntry(k)
  <2>1. CASE mode = "create"
    <3>5. "dest" \in Roles /\ fs \in [Names -> EntryContents] /\ <<"created", k>> \in EntryContents
      BY <1>1, TypeFacts, EntryContentsFacts, NamesFacts DEF Roles, O
    <3>6. /\ fs' \in [Names -> EntryContents]
          /\ fs'[<<"dest", k>>] = <<"created", k>>
          /\ \A role \in Roles : role # "dest" => fs'[<<role, k>>] = fs[<<role, k>>]
          /\ OnlyEntry(k)
      BY <1>1, <2>1, <3>5, PutCells
    <3>7. O(k)' = O(k) /\ S(k)' = S(k) /\ P(k)' = P(k) /\ D(k)' = <<"created", k>>
      BY <3>6 DEF O, D, S, P, Roles
    <3> QED BY <1>1, <2>1, <3>6, <3>7
  <2>2. CASE mode = "copy"
    <3>5. "staged" \in Roles /\ fs \in [Names -> EntryContents] /\ O(k) \in EntryContents
      BY <1>1, TypeFacts, EntryContentsFacts, NamesFacts DEF Roles, O
    <3>6. /\ fs' \in [Names -> EntryContents]
          /\ fs'[<<"staged", k>>] = O(k)
          /\ \A role \in Roles : role # "staged" => fs'[<<role, k>>] = fs[<<role, k>>]
          /\ OnlyEntry(k)
      BY <1>1, <2>2, <3>5, PutCells
    <3>7. O(k)' = O(k) /\ D(k)' = D(k) /\ P(k)' = P(k) /\ S(k)' = O(k)
      BY <3>6 DEF O, D, S, P, Roles
    <3> QED BY <1>1, <2>2, <3>6, <3>7
  <2>3. CASE mode \in {"move", "discard"}
    <3>5. "origin" \in Roles /\ "staged" \in Roles /\ "origin" # "staged"
          /\ fs \in [Names -> EntryContents]
      BY <1>1, TypeFacts DEF Roles
    <3>6. /\ fs' \in [Names -> EntryContents]
          /\ fs'[<<"staged", k>>] = fs[<<"origin", k>>] /\ fs'[<<"origin", k>>] = Nothing
          /\ \A role \in Roles : role \notin {"origin", "staged"}
               => fs'[<<role, k>>] = fs[<<role, k>>]
          /\ OnlyEntry(k)
      BY <1>1, <2>3, <3>5, MoveCells
    <3>7. D(k)' = D(k) /\ P(k)' = P(k) /\ S(k)' = O(k) /\ O(k)' = Nothing
      BY <3>6 DEF O, D, S, P, Roles
    <3> QED BY <1>1, <2>3, <3>6, <3>7
  <2> QED BY <1>1, <2>1, <2>2, <2>3 DEF Modes
<1>4. MutationTypeOK'
  <2>1. point' \in StepType
    BY <1>1, StepFacts DEF Committing
  <2> QED BY <1>1, <2>1, <1>3, TypeFacts DEF MutationTypeOK, StepType, Modes
<1>5. Flow'
  BY <1>1, <1>2, <1>3 DEF Flow, Transfer, Committing, Undoing, At, Modes, Entry, ParkedInTime
<1>6. ASSUME NEW i \in Items, i # k PROVE Entry(i)'
  <2>1. Entry(i) /\ Same(i)
    BY <1>1, <1>3, <1>6 DEF EntriesInv, OnlyEntry
  <2>2. ParkedInTime(i)'
    BY <1>1, <2>1, <1>6 DEF Entry, Same, ParkedInTime, Flow, Committing, Undoing
  <2>3. SourceInPlace(i)'
    BY <1>1, <2>1, <1>6 DEF Entry, Same, SourceInPlace, Active, Remains, Flow, Committing, Undoing
  <2>4. SourceKept(i)' /\ OldKept(i)'
    BY <1>1, <2>1, <1>6 DEF Entry, Same, SourceKept, OldKept, Flow, Committing, Undoing
  <2>5. OldInPlace(i)'
    BY <1>1, <2>1, <1>6, Distinct
    DEF Entry, Same, OldInPlace, ParkedInTime, Active, Remains, At, Flow, Committing, Undoing
  <2>6. ASSUME Alone(i)' PROVE InShape(i)'
    <3>1. InShape(i)
      BY <1>1, <2>1, <2>6 DEF Entry, Alone
    <3>2. i < k => IsStaged(i)'
      BY <1>1, <1>6, <2>1, <3>1, ShapesStay DEF InShape
    <3>3. i > k => IsBefore(i)'
      BY <1>1, <1>6, <2>1, <3>1, ShapesStay DEF InShape
    <3>4. mode = "create" /\ IsStaged(i)' => IsAfter(i)'
      BY <1>1, StagedIsAfter DEF Flow
    <3> QED BY <1>1, <1>6, <3>2, <3>3, <3>4
        DEF InShape, Committing, Undoing, At, Flow, Transfer, Modes
  <2> QED BY <2>2, <2>3, <2>4, <2>5, <2>6 DEF Entry
<1>7. Entry(k)'
  <2>1. Entry(k)
    BY <1>2
  <2>2. ParkedInTime(k)'
    BY <1>1, <1>3, <2>1, Distinct DEF Entry, ParkedInTime, Flow, Committing, Undoing
  <2>3. SourceInPlace(k)'
    BY <1>1, <1>3, <2>1, Distinct
    DEF Entry, SourceInPlace, ParkedInTime, Active, Remains, Flow, Transfer, Committing, Undoing
  <2>4. SourceKept(k)'
    BY <1>1, <1>3, <2>1, Distinct
    DEF Entry, SourceKept, SourceInPlace, ParkedInTime, Active, Remains, Flow, Transfer,
        Committing, Undoing, Modes
  <2>5. OldKept(k)'
    BY <1>1, <1>3, <2>1, Distinct
    DEF Entry, OldKept, OldInPlace, ParkedInTime, Active, Remains, At, Flow, Transfer, Committing,
        Undoing
  <2>6. OldInPlace(k)'
    BY <1>1, <1>3, <2>1, Distinct
    DEF Entry, OldInPlace, ParkedInTime, Active, Remains, At, Flow, Transfer, Committing, Undoing,
        Modes
  <2>7. ASSUME Alone(k)' PROVE InShape(k)'
    <3>1. InShape(k)
      BY <1>1, <2>1, <2>7 DEF Entry, Alone
    <3>2. IsBefore(k)
      BY <1>1, <3>1 DEF InShape
    <3>3. IsStaged(k)'
      BY <1>1, <1>3, <3>2, StageShape DEF Flow
    <3>4. mode = "create" /\ IsStaged(k)' => IsAfter(k)'
      BY <1>1, StagedIsAfter DEF Flow
    <3> QED BY <1>1, <3>3, <3>4 DEF InShape, Committing, Undoing, At, Flow, Transfer, Modes
  <2> QED BY <2>2, <2>3, <2>4, <2>5, <2>6, <2>7 DEF Entry
<1> QED
  <2>1. ASSUME NEW i \in Items PROVE Entry(i)'
    <3>1. CASE i # k
      BY <1>6, <3>1
    <3>2. CASE i = k
      BY <1>7, <3>2
    <3> QED BY <3>1, <3>2
  <2> QED BY <1>4, <1>5, <2>1 DEF EntriesInv

\* A staging that fails.
LEMMA FailStageStep ==
  ASSUME MutationAssumption, EntriesInv, NEW k \in Items, k = point.item, FailStage
  PROVE  EntriesInv'
<1>1. /\ MutationTypeOK /\ Flow /\ Items = 1 .. N /\ N \in Nat /\ staged \in 0 .. N
      /\ committed \in 0 .. N
      /\ failures \in SUBSET Items /\ mode \in Modes /\ point = At(point.at, k)
      /\ point.at = "stage" /\ point' = At("undo", staged) /\ uncertain' = (failures' # {})
      /\ point'.at = "undo" /\ point'.item = staged /\ staged = k - 1 /\ failures = {}
      /\ \/ fs' = fs /\ failures' = failures
         \/ mode = "copy" /\ failures' = failures \cup {k} /\ fs' = fs
         \/ mode = "copy" /\ failures' = failures \cup {k} /\
              fs' = [fs EXCEPT ![<<"staged", k>>] = <<"part", k>>]
      /\ UNCHANGED <<mode, replaces, staged, committed, mutationOutcome, otherChanges, touched,
          gone>>
  BY TypeFacts, StepFacts DEF EntriesInv, FailStage, MutationAssumption, Items, Unwind, Staged, Flow
<1>2. Entry(k)
  BY <1>1 DEF EntriesInv
<1>3. /\ fs' \in [Names -> EntryContents]
      /\ O(k)' = O(k) /\ D(k)' = D(k) /\ P(k)' = P(k)
      /\ S(k)' = S(k) \/ (mode = "copy" /\ k \in failures' /\ S(k)' = <<"part", k>>)
      /\ OnlyEntry(k)
  <2>1. CASE fs' = fs
    <3>1. fs' \in [Names -> EntryContents]
      BY <1>1, <2>1, TypeFacts
    <3> QED BY <2>1, <3>1 DEF O, D, S, P, OnlyEntry, Same
  <2>2. CASE fs' # fs
    <3>5. "staged" \in Roles /\ fs \in [Names -> EntryContents] /\ <<"part", k>> \in EntryContents
      BY <1>1, TypeFacts, EntryContentsFacts, NamesFacts DEF Roles, O
    <3>6. /\ fs' \in [Names -> EntryContents]
          /\ fs'[<<"staged", k>>] = <<"part", k>>
          /\ \A role \in Roles : role # "staged" => fs'[<<role, k>>] = fs[<<role, k>>]
          /\ OnlyEntry(k)
      BY <1>1, <2>2, <3>5, PutCells
    <3>7. O(k)' = O(k) /\ D(k)' = D(k) /\ P(k)' = P(k) /\ S(k)' = <<"part", k>>
      BY <3>6 DEF O, D, S, P, Roles
    <3> QED BY <1>1, <2>2, <3>6, <3>7
  <2> QED BY <2>1, <2>2
<1>4. MutationTypeOK'
  <2>1. point' \in StepType
    BY <1>1, StepFacts DEF Committing
  <2> QED BY <1>1, <2>1, <1>3, TypeFacts DEF MutationTypeOK, StepType
<1>5. Flow'
  BY <1>1, <1>2, <1>3 DEF Flow, Transfer, Committing, Undoing, At, Modes, Entry, ParkedInTime
<1>6. ASSUME NEW i \in Items, i # k PROVE Entry(i)'
  <2>1. Entry(i) /\ Same(i)
    BY <1>1, <1>3, <1>6 DEF EntriesInv, OnlyEntry
  <2>2. ParkedInTime(i)'
    BY <1>1, <2>1, <1>6 DEF Entry, Same, ParkedInTime, Flow, Committing, Undoing
  <2>3. SourceInPlace(i)'
    BY <1>1, <2>1, <1>6 DEF Entry, Same, SourceInPlace, Active, Remains, Flow, Committing, Undoing
  <2>4. SourceKept(i)' /\ OldKept(i)'
    BY <1>1, <2>1, <1>6 DEF Entry, Same, SourceKept, OldKept, Flow, Committing, Undoing
  <2>5. OldInPlace(i)'
    BY <1>1, <2>1, <1>6, Distinct
    DEF Entry, Same, OldInPlace, ParkedInTime, Active, Remains, At, Flow, Committing, Undoing
  <2>6. ASSUME Alone(i)' PROVE InShape(i)'
    <3>1. InShape(i)
      BY <1>1, <2>1, <2>6 DEF Entry, Alone
    <3> QED BY <1>1, <1>6, <2>1, <3>1, ShapesStay
        DEF InShape, Committing, Undoing, Remains, At, Flow, Transfer
  <2> QED BY <2>2, <2>3, <2>4, <2>5, <2>6 DEF Entry
<1>7. Entry(k)'
  <2>1. Entry(k)
    BY <1>2
  <2>2. ParkedInTime(k)'
    BY <1>1, <1>3, <2>1, Distinct DEF Entry, ParkedInTime, Flow, Committing, Undoing
  <2>3. SourceInPlace(k)'
    BY <1>1, <1>3, <2>1, Distinct
    DEF Entry, SourceInPlace, ParkedInTime, Active, Remains, Flow, Transfer, Committing, Undoing
  <2>4. SourceKept(k)'
    BY <1>1, <1>3, <2>1, Distinct
    DEF Entry, SourceKept, SourceInPlace, ParkedInTime, Active, Remains, Flow, Transfer,
        Committing, Undoing, Modes
  <2>5. OldKept(k)'
    BY <1>1, <1>3, <2>1, Distinct
    DEF Entry, OldKept, OldInPlace, ParkedInTime, Active, Remains, At, Flow, Transfer, Committing,
        Undoing
  <2>6. OldInPlace(k)'
    BY <1>1, <1>3, <2>1, Distinct
    DEF Entry, OldInPlace, ParkedInTime, Active, Remains, At, Flow, Transfer, Committing, Undoing,
        Modes
  <2>7. ASSUME Alone(k)' PROVE InShape(k)'
    <3>1. InShape(k)
      BY <1>1, <2>1, <2>7 DEF Entry, Alone
    <3>2. k \in failures' \/ IsBefore(k)'
      BY <1>1, <1>3, <3>1 DEF InShape, IsBefore, OldOrNone
    <3> QED BY <1>1, <3>2 DEF InShape, Committing, Undoing, Remains, At
  <2> QED BY <2>2, <2>3, <2>4, <2>5, <2>6, <2>7 DEF Entry
<1> QED
  <2>1. ASSUME NEW i \in Items PROVE Entry(i)'
    <3>1. CASE i # k
      BY <1>6, <3>1
    <3>2. CASE i = k
      BY <1>7, <3>2
    <3> QED BY <3>1, <3>2
  <2> QED BY <1>4, <1>5, <2>1 DEF EntriesInv

\* The step of an unwind that gives an entry back.
LEMMA UndoStep ==
  ASSUME MutationAssumption, EntriesInv, NEW k \in Items, k = point.item, Undo
  PROVE  EntriesInv'
<1>1. /\ MutationTypeOK /\ Flow /\ Items = 1 .. N /\ N \in Nat /\ staged \in 0 .. N
      /\ committed \in 0 .. N
      /\ failures \in SUBSET Items /\ mode \in Modes /\ point = At(point.at, k)
      /\ point.at = "undo"
      /\ point' = IF P(k) # Nothing THEN At("return", k) ELSE At("undo", k - 1)
      /\ point'.at = (IF P(k) # Nothing THEN "return" ELSE "undo")
      /\ point'.item = (IF P(k) # Nothing THEN k ELSE k - 1)
      /\ \/ fs' = fs /\ failures' = failures \cup {k}
         \/ fs' = Restored /\ failures' = failures
      /\ UNCHANGED <<mode, replaces, staged, committed, uncertain, mutationOutcome, otherChanges,
          touched,
                     gone>>
  BY TypeFacts, StepFacts DEF EntriesInv, Undo, MutationAssumption, Items, AfterUndo, Parked, P,
      MutationTypeOK
<1>2. Entry(k)
  BY <1>1 DEF EntriesInv
<1>3. /\ fs' \in [Names -> EntryContents]
      /\ P(k)' = P(k)
      /\ \/ /\ failures' = failures \cup {k}
            /\ O(k)' = O(k) /\ D(k)' = D(k) /\ S(k)' = S(k)
         \/ /\ failures' = failures
            /\ mode = "create" \/ (mode = "copy" /\ k <= committed) =>
                 O(k)' = O(k) /\ D(k)' = Nothing /\ S(k)' = S(k)
            /\ mode = "copy" /\ ~(k <= committed) =>
                 O(k)' = O(k) /\ D(k)' = D(k) /\ S(k)' = Nothing
            /\ mode = "move" /\ k <= committed =>
                 O(k)' = D(k) /\ D(k)' = Nothing /\ S(k)' = S(k)
            /\ mode = "discard" \/ (mode = "move" /\ ~(k <= committed)) =>
                 O(k)' = S(k) /\ D(k)' = D(k) /\ S(k)' = Nothing
      /\ OnlyEntry(k)
  <2>1. CASE fs' = fs /\ failures' = failures \cup {k}
    <3>1. fs' \in [Names -> EntryContents]
      BY <1>1, <2>1, TypeFacts
    <3> QED BY <2>1, <3>1 DEF O, D, S, P, OnlyEntry, Same
  <2>2. CASE fs' = Restored /\ failures' = failures
    <3>1. CASE mode = "create" \/ (mode = "copy" /\ k <= committed)
      <4>1. fs' = Removed(<<"dest", k>>)
        BY <1>1, <2>2, <3>1 DEF Restored, Dest
      <4>5. "dest" \in Roles /\ fs \in [Names -> EntryContents] /\ Nothing \in EntryContents
        BY <1>1, TypeFacts, EntryContentsFacts, NamesFacts DEF Roles, O
      <4>6. /\ fs' \in [Names -> EntryContents]
            /\ fs'[<<"dest", k>>] = Nothing
            /\ \A role \in Roles : role # "dest" => fs'[<<role, k>>] = fs[<<role, k>>]
            /\ OnlyEntry(k)
        BY <4>1, <4>5, RemoveCells
      <4>7. O(k)' = O(k) /\ S(k)' = S(k) /\ P(k)' = P(k) /\ D(k)' = Nothing
        BY <4>6 DEF O, D, S, P, Roles
      <4> QED BY <1>1, <2>2, <3>1, <4>1, <4>6, <4>7
    <3>2. CASE mode = "copy" /\ ~(k <= committed)
      <4>1. fs' = Removed(<<"staged", k>>)
        BY <1>1, <2>2, <3>2 DEF Restored, Staged
      <4>5. "staged" \in Roles /\ fs \in [Names -> EntryContents] /\ Nothing \in EntryContents
        BY <1>1, TypeFacts, EntryContentsFacts, NamesFacts DEF Roles, O
      <4>6. /\ fs' \in [Names -> EntryContents]
            /\ fs'[<<"staged", k>>] = Nothing
            /\ \A role \in Roles : role # "staged" => fs'[<<role, k>>] = fs[<<role, k>>]
            /\ OnlyEntry(k)
        BY <4>1, <4>5, RemoveCells
      <4>7. O(k)' = O(k) /\ D(k)' = D(k) /\ P(k)' = P(k) /\ S(k)' = Nothing
        BY <4>6 DEF O, D, S, P, Roles
      <4> QED BY <1>1, <2>2, <3>2, <4>1, <4>6, <4>7
    <3>3. CASE mode = "move" /\ k <= committed
      <4>1. fs' = Renamed(<<"dest", k>>, <<"origin", k>>)
        BY <1>1, <2>2, <3>3 DEF Restored, Dest, Origin
      <4>5. "dest" \in Roles /\ "origin" \in Roles /\ "dest" # "origin"
            /\ fs \in [Names -> EntryContents]
        BY <1>1, TypeFacts DEF Roles
      <4>6. /\ fs' \in [Names -> EntryContents]
            /\ fs'[<<"origin", k>>] = fs[<<"dest", k>>] /\ fs'[<<"dest", k>>] = Nothing
            /\ \A role \in Roles : role \notin {"dest", "origin"}
                 => fs'[<<role, k>>] = fs[<<role, k>>]
            /\ OnlyEntry(k)
        BY <1>1, <2>2, <3>3, <4>1, <4>5, MoveCells
      <4>7. S(k)' = S(k) /\ P(k)' = P(k) /\ O(k)' = D(k) /\ D(k)' = Nothing
        BY <4>6 DEF O, D, S, P, Roles
      <4> QED BY <1>1, <2>2, <3>3, <4>1, <4>6, <4>7
    <3>4. CASE mode = "discard" \/ (mode = "move" /\ ~(k <= committed))
      <4>1. fs' = Renamed(<<"staged", k>>, <<"origin", k>>)
        BY <1>1, <2>2, <3>4 DEF Restored, Staged, Origin
      <4>5. "staged" \in Roles /\ "origin" \in Roles /\ "staged" # "origin"
            /\ fs \in [Names -> EntryContents]
        BY <1>1, TypeFacts DEF Roles
      <4>6. /\ fs' \in [Names -> EntryContents]
            /\ fs'[<<"origin", k>>] = fs[<<"staged", k>>] /\ fs'[<<"staged", k>>] = Nothing
            /\ \A role \in Roles : role \notin {"staged", "origin"}
                 => fs'[<<role, k>>] = fs[<<role, k>>]
            /\ OnlyEntry(k)
        BY <1>1, <2>2, <3>4, <4>1, <4>5, MoveCells
      <4>7. D(k)' = D(k) /\ P(k)' = P(k) /\ O(k)' = S(k) /\ S(k)' = Nothing
        BY <4>6 DEF O, D, S, P, Roles
      <4> QED BY <1>1, <2>2, <3>4, <4>1, <4>6, <4>7
    <3> QED BY <1>1, <3>1, <3>2, <3>3, <3>4 DEF Modes
  <2> QED BY <1>1, <2>1, <2>2
<1>4. MutationTypeOK'
  <2>1. point' \in StepType
    BY <1>1, StepFacts DEF Committing
  <2> QED BY <1>1, <2>1, <1>3, TypeFacts DEF MutationTypeOK, StepType
<1>5. Flow'
  BY <1>1, <1>2, <1>3 DEF Flow, Transfer, Committing, Undoing, At, Modes, Entry, ParkedInTime
<1>6. ASSUME NEW i \in Items, i # k PROVE Entry(i)'
  <2>1. Entry(i) /\ Same(i)
    BY <1>1, <1>3, <1>6 DEF EntriesInv, OnlyEntry
  <2>2. ParkedInTime(i)'
    BY <1>1, <2>1, <1>6 DEF Entry, Same, ParkedInTime, Flow, Committing, Undoing
  <2>3. SourceInPlace(i)'
    BY <1>1, <2>1, <1>6 DEF Entry, Same, SourceInPlace, Active, Remains, Flow, Committing, Undoing
  <2>4. SourceKept(i)' /\ OldKept(i)'
    BY <1>1, <2>1, <1>6 DEF Entry, Same, SourceKept, OldKept, Flow, Committing, Undoing
  <2>5. OldInPlace(i)'
    BY <1>1, <2>1, <1>6, Distinct
    DEF Entry, Same, OldInPlace, ParkedInTime, Active, Remains, At, Flow, Committing, Undoing
  <2>6. ASSUME Alone(i)' PROVE InShape(i)'
    <3>1. InShape(i)
      BY <1>1, <2>1, <2>6 DEF Entry, Alone
    <3> QED BY <1>1, <1>3, <1>6, <2>1, <3>1, ShapesStay
        DEF InShape, Committing, Undoing, Remains, At, Transfer
  <2> QED BY <2>2, <2>3, <2>4, <2>5, <2>6 DEF Entry
<1>7. Entry(k)'
  <2>1. Entry(k)
    BY <1>2
  <2>2. ParkedInTime(k)'
    BY <1>1, <1>3, <2>1, Distinct DEF Entry, ParkedInTime, Flow, Committing, Undoing
  <2>3. SourceInPlace(k)'
    BY <1>1, <1>3, <2>1, Distinct
    DEF Entry, SourceInPlace, ParkedInTime, Active, Remains, Flow, Transfer, Committing, Undoing
  <2>4. SourceKept(k)'
    BY <1>1, <1>3, <2>1, Distinct
    DEF Entry, SourceKept, SourceInPlace, ParkedInTime, Active, Remains, Flow, Transfer,
        Committing, Undoing, Modes
  <2>5. OldKept(k)'
    BY <1>1, <1>3, <2>1, Distinct
    DEF Entry, OldKept, OldInPlace, ParkedInTime, Active, Remains, At, Flow, Transfer, Committing,
        Undoing
  <2>6. OldInPlace(k)'
    BY <1>1, <1>3, <2>1, Distinct
    DEF Entry, OldInPlace, ParkedInTime, Active, Remains, At, Flow, Transfer, Committing, Undoing,
        Modes
  <2>7. ASSUME Alone(k)' PROVE InShape(k)'
    <3>1. InShape(k)
      BY <1>1, <2>1, <2>7 DEF Entry, Alone
    <3>2. IF k <= committed THEN IsTaken(k) ELSE IsStaged(k) \/ (Transfer /\ IsParked(k))
      BY <1>1, <3>1 DEF InShape, Undoing, Remains
    <3>3. k \notin failures' /\ P(k) # Nothing => IsReturning(k)'
      BY <1>1, <1>3, <3>2, UndoneShape DEF Flow
    <3>4. k \notin failures' /\ P(k) = Nothing => IsBefore(k)'
      BY <1>1, <1>3, <3>2, UndoneShape DEF Flow
    <3> QED BY <1>1, <3>3, <3>4 DEF InShape, Committing, Undoing, Remains, At
  <2> QED BY <2>2, <2>3, <2>4, <2>5, <2>6, <2>7 DEF Entry
<1> QED
  <2>1. ASSUME NEW i \in Items PROVE Entry(i)'
    <3>1. CASE i # k
      BY <1>6, <3>1
    <3>2. CASE i = k
      BY <1>7, <3>2
    <3> QED BY <3>1, <3>2
  <2> QED BY <1>4, <1>5, <2>1 DEF EntriesInv

\* The removal of what the mutation leaves behind.
LEMMA CleanStep ==
  ASSUME MutationAssumption, EntriesInv, NEW k \in Items, k = point.item, Clean
  PROVE  EntriesInv'
<1>1. /\ MutationTypeOK /\ Flow /\ Items = 1 .. N /\ N \in Nat /\ staged \in 0 .. N
      /\ committed \in 0 .. N
      /\ failures \in SUBSET Items /\ mode \in Modes /\ point = At(point.at, k)
      /\ point.at = "clean"
      /\ point' = IF k < N THEN At("clean", k + 1) ELSE At("done", 0)
      /\ point'.at = (IF k < N THEN "clean" ELSE "done")
      /\ point'.item = (IF k < N THEN k + 1 ELSE 0)
      /\ mutationOutcome' = IF k < N THEN mutationOutcome
                     ELSE IF failures' = {} THEN "Committed" ELSE "Indeterminate"
      /\ \/ fs' = fs /\ failures' = failures /\ (IF mode = "discard" THEN S(k) ELSE P(k)) = Nothing
         \/ fs' = fs /\ failures' = failures \cup {k}
         \/ /\ failures' = failures
            /\ fs' = Removed(<<IF mode = "discard" THEN "staged" ELSE "parked", k>>)
      /\ UNCHANGED <<mode, replaces, staged, committed, uncertain, otherChanges, touched, gone>>
  BY TypeFacts, StepFacts
  DEF EntriesInv, Clean, MutationAssumption, Items, Parked, Staged, S, P, MutationTypeOK
<1>2. Entry(k)
  BY <1>1 DEF EntriesInv
<1>3. /\ fs' \in [Names -> EntryContents]
      /\ O(k)' = O(k) /\ D(k)' = D(k)
      /\ \/ S(k)' = S(k) /\ P(k)' = P(k) /\ failures' = failures \cup {k}
         \/ /\ failures' = failures
            /\ IF mode = "discard" THEN S(k)' = Nothing /\ P(k)' = P(k)
                                   ELSE P(k)' = Nothing /\ S(k)' = S(k)
      /\ OnlyEntry(k)
  <2>1. CASE fs' = fs /\ (failures' = failures \cup {k} \/ (IF mode = "discard" THEN S(k)
          ELSE P(k)) = Nothing)
    <3>1. fs' \in [Names -> EntryContents]
      BY <1>1, <2>1, TypeFacts
    <3> QED BY <1>1, <2>1, <3>1 DEF O, D, S, P, OnlyEntry, Same
  <2>2. CASE failures' = failures /\ mode = "discard"
        /\ fs' = Removed(<<"staged", k>>)
    <3>5. "staged" \in Roles /\ fs \in [Names -> EntryContents] /\ Nothing \in EntryContents
      BY <1>1, TypeFacts, EntryContentsFacts, NamesFacts DEF Roles, O
    <3>6. /\ fs' \in [Names -> EntryContents]
          /\ fs'[<<"staged", k>>] = Nothing
          /\ \A role \in Roles : role # "staged" => fs'[<<role, k>>] = fs[<<role, k>>]
          /\ OnlyEntry(k)
      BY <2>2, <3>5, RemoveCells
    <3>7. O(k)' = O(k) /\ D(k)' = D(k) /\ P(k)' = P(k) /\ S(k)' = Nothing
      BY <3>6 DEF O, D, S, P, Roles
    <3> QED BY <1>1, <2>2, <3>6, <3>7
  <2>3. CASE failures' = failures /\ mode # "discard"
        /\ fs' = Removed(<<"parked", k>>)
    <3>5. "parked" \in Roles /\ fs \in [Names -> EntryContents] /\ Nothing \in EntryContents
      BY <1>1, TypeFacts, EntryContentsFacts, NamesFacts DEF Roles, O
    <3>6. /\ fs' \in [Names -> EntryContents]
          /\ fs'[<<"parked", k>>] = Nothing
          /\ \A role \in Roles : role # "parked" => fs'[<<role, k>>] = fs[<<role, k>>]
          /\ OnlyEntry(k)
      BY <2>3, <3>5, RemoveCells
    <3>7. O(k)' = O(k) /\ D(k)' = D(k) /\ S(k)' = S(k) /\ P(k)' = Nothing
      BY <3>6 DEF O, D, S, P, Roles
    <3> QED BY <1>1, <2>3, <3>6, <3>7
  <2> QED BY <1>1, <2>1, <2>2, <2>3
<1>4. MutationTypeOK'
  <2>1. point' \in StepType
    BY <1>1, StepFacts DEF Committing
  <2> QED BY <1>1, <2>1, <1>3, TypeFacts DEF MutationTypeOK, StepType
<1>5. Flow'
  BY <1>1, <1>2, <1>3 DEF Flow, Transfer, Committing, Undoing, At, Modes, Entry, ParkedInTime
<1>6. ASSUME NEW i \in Items, i # k PROVE Entry(i)'
  <2>1. Entry(i) /\ Same(i)
    BY <1>1, <1>3, <1>6 DEF EntriesInv, OnlyEntry
  <2>2. ParkedInTime(i)'
    BY <1>1, <2>1, <1>6 DEF Entry, Same, ParkedInTime, Flow, Committing, Undoing
  <2>3. SourceInPlace(i)'
    BY <1>1, <2>1, <1>6 DEF Entry, Same, SourceInPlace, Active, Remains, Flow, Committing, Undoing
  <2>4. SourceKept(i)' /\ OldKept(i)'
    BY <1>1, <2>1, <1>6 DEF Entry, Same, SourceKept, OldKept, Flow, Committing, Undoing
  <2>5. OldInPlace(i)'
    BY <1>1, <2>1, <1>6, Distinct
    DEF Entry, Same, OldInPlace, ParkedInTime, Active, Remains, At, Flow, Committing, Undoing
  <2>6. ASSUME Alone(i)' PROVE InShape(i)'
    <3>1. InShape(i)
      BY <1>1, <2>1, <2>6 DEF Entry, Alone
    <3>2. failures' = failures \/ failures' = failures \cup {k}
      BY <1>3
    <3> QED BY <1>1, <1>6, <2>1, <3>1, <3>2, ShapesStay
        DEF InShape, Committing, Undoing, Remains, At, Transfer, Flow
  <2> QED BY <2>2, <2>3, <2>4, <2>5, <2>6 DEF Entry
<1>7. Entry(k)'
  <2>1. Entry(k)
    BY <1>2
  <2>2. ParkedInTime(k)'
    BY <1>1, <1>3, <2>1, Distinct DEF Entry, ParkedInTime, Flow, Committing, Undoing
  <2>3. SourceInPlace(k)'
    BY <1>1, <1>3, <2>1, Distinct
    DEF Entry, SourceInPlace, ParkedInTime, Active, Remains, Flow, Transfer, Committing, Undoing
  <2>4. SourceKept(k)'
    BY <1>1, <1>3, <2>1, Distinct
    DEF Entry, SourceKept, SourceInPlace, ParkedInTime, Active, Remains, Flow, Transfer,
        Committing, Undoing, Modes
  <2>5. OldKept(k)'
    BY <1>1, <1>3, <2>1, Distinct
    DEF Entry, OldKept, OldInPlace, ParkedInTime, Active, Remains, At, Flow, Transfer, Committing,
        Undoing
  <2>6. OldInPlace(k)'
    BY <1>1, <1>3, <2>1, Distinct
    DEF Entry, OldInPlace, ParkedInTime, Active, Remains, At, Flow, Transfer, Committing, Undoing,
        Modes
  <2>7. ASSUME Alone(k)' PROVE InShape(k)'
    <3>1. InShape(k)
      BY <1>1, <2>1, <2>7 DEF Entry, Alone
    <3>2. IF Transfer THEN IsTaken(k) ELSE IsStaged(k)
      BY <1>1, <3>1 DEF InShape
    <3>3. k \notin failures' => IsAfter(k)'
      BY <1>1, <1>3, <3>2, CleanShape DEF Flow
    <3> QED BY <1>1, <3>3 DEF InShape, Committing, Undoing, Remains, At
  <2> QED BY <2>2, <2>3, <2>4, <2>5, <2>6, <2>7 DEF Entry
<1> QED
  <2>1. ASSUME NEW i \in Items PROVE Entry(i)'
    <3>1. CASE i # k
      BY <1>6, <3>1
    <3>2. CASE i = k
      BY <1>7, <3>2
    <3> QED BY <3>1, <3>2
  <2> QED BY <1>4, <1>5, <2>1 DEF EntriesInv

\* The end of an unwind names its outcome.
LEMMA UnwoundStep ==
  ASSUME MutationAssumption, EntriesInv, Unwound
  PROVE  EntriesInv'
<1>1. /\ MutationTypeOK /\ Flow /\ Items = 1 .. N /\ N \in Nat /\ point.at = "undo" /\ point.item = 0
      /\ point' = At("done", 0) /\ point'.at = "done" /\ point'.item = 0
      /\ mutationOutcome' = IF uncertain \/ failures # {} THEN "Indeterminate" ELSE "Unchanged"
      /\ UNCHANGED <<mode, replaces, fs, staged, committed, uncertain, failures, otherChanges,
          touched,
                     gone>>
  BY TypeFacts, StepFacts DEF EntriesInv, Unwound, MutationAssumption, Items
<1>2. MutationTypeOK'
  <2>1. point' \in StepType
    BY <1>1, StepFacts
  <2> QED BY <1>1, <2>1, TypeFacts DEF MutationTypeOK, StepType
<1>3. Flow'
  BY <1>1 DEF Flow, Transfer, Committing, Undoing
<1>4. ASSUME NEW i \in Items PROVE Entry(i)'
  <2>1. Entry(i) /\ Same(i)
    BY <1>1 DEF EntriesInv, Same, O, D, S, P
  <2>2. ParkedInTime(i)' /\ SourceInPlace(i)'
    BY <1>1, <2>1 DEF Entry, Same, ParkedInTime, SourceInPlace, Active
  <2>3. SourceKept(i)' /\ OldKept(i)' /\ OldInPlace(i)'
    BY <1>1, <2>1 DEF Entry, Same, SourceKept, OldKept, OldInPlace, Active, At
  <2>4. ASSUME Alone(i)' PROVE InShape(i)'
    <3>1. i \in failures \/ IsBefore(i)
      BY <1>1, <2>1, <2>4 DEF Entry, Alone, InShape, Undoing
    <3> QED BY <1>1, <2>1, <3>1, ShapesStay DEF InShape, Committing, Undoing, At
  <2> QED BY <2>2, <2>3, <2>4 DEF Entry
<1> QED BY <1>2, <1>3, <1>4 DEF EntriesInv

\* The end of the process.
LEMMA CrashStep ==
  ASSUME MutationAssumption, EntriesInv, Crash
  PROVE  EntriesInv'
<1>1. /\ MutationTypeOK /\ Flow /\ Active
      /\ point' = At("crashed", 0) /\ point'.at = "crashed" /\ point'.item = 0
      /\ UNCHANGED <<mode, replaces, fs, staged, committed, uncertain, failures, mutationOutcome,
          otherChanges,
                     touched, gone>>
  BY TypeFacts, StepFacts DEF EntriesInv, Crash
<1>2. MutationTypeOK'
  <2>1. point' \in StepType
    BY <1>1, StepFacts
  <2> QED BY <1>1, <2>1, TypeFacts DEF MutationTypeOK, StepType
<1>3. Flow'
  BY <1>1 DEF Flow, Active, Transfer, Committing, Undoing
<1>4. ASSUME NEW i \in Items PROVE Entry(i)'
  <2>1. Entry(i) /\ Same(i)
    BY <1>1 DEF EntriesInv, Same, O, D, S, P
  <2>2. ParkedInTime(i)' /\ SourceInPlace(i)'
    BY <1>1, <2>1 DEF Entry, Same, ParkedInTime, SourceInPlace, Active
  <2>3. SourceKept(i)' /\ OldKept(i)' /\ OldInPlace(i)'
    BY <1>1, <2>1 DEF Entry, Same, SourceKept, OldKept, OldInPlace, Active, At
  <2>4. InShape(i)'
    BY <1>1 DEF InShape, Committing, Undoing, At
  <2> QED BY <2>2, <2>3, <2>4 DEF Entry
<1> QED BY <1>2, <1>3, <1>4 DEF EntriesInv

\* Another program changes a visible name.
LEMMA OtherStep ==
  ASSUME MutationAssumption, EntriesInv, OtherProgram
  PROVE  EntriesInv'
<1>1. PICK at \in {"origin", "dest"}, k \in Items, content \in {<<"other", otherChanges + 1>>, Nothing} :
        /\ fs' = [fs EXCEPT ![<<at, k>>] = content]
        /\ touched' = touched \cup {<<at, k>>}
        /\ gone' = gone \cup {fs[<<at, k>>]}
  <2>1. PICK name \in Visible, content \in {<<"other", otherChanges + 1>>, Nothing} :
          /\ fs' = [fs EXCEPT ![name] = content]
          /\ touched' = touched \cup {name}
          /\ gone' = gone \cup {fs[name]}
    BY DEF OtherProgram
  <2>2. PICK at \in {"origin", "dest"}, k \in Items : name = <<at, k>>
    BY NamesFacts
  <2> QED BY <2>1, <2>2
<1>2. /\ MutationTypeOK /\ Flow /\ Active /\ otherChanges < OtherChanges /\ otherChanges' = otherChanges + 1
      /\ Items = 1 .. N /\ N \in Nat /\ OtherChanges \in Nat
      /\ UNCHANGED <<mode, replaces, point, staged, committed, uncertain, failures,
          mutationOutcome>>
  BY DEF EntriesInv, OtherProgram, MutationAssumption, Items
<1>3. content \in EntryContents /\ content # Source(k) /\ content # Old(k)
  BY <1>2, EntryContentsFacts, TypeFacts, Distinct
<1>4. /\ fs' \in [Names -> EntryContents] /\ OnlyEntry(k)
      /\ S(k)' = S(k) /\ P(k)' = P(k)
      /\ \/ O(k)' = content /\ D(k)' = D(k) /\ O(k) \in gone'
         \/ O(k)' = O(k) /\ D(k)' = content /\ D(k) \in gone'
  <2>1. at \in Roles /\ fs \in [Names -> EntryContents]
    BY <1>2, TypeFacts DEF Roles
  <2>2. /\ fs' \in [Names -> EntryContents]
        /\ fs'[<<at, k>>] = content
        /\ \A role \in Roles : role # at => fs'[<<role, k>>] = fs[<<role, k>>]
        /\ OnlyEntry(k)
    BY <1>1, <1>3, <2>1, PutCells
  <2>3. CASE at = "origin"
    BY <1>1, <2>2, <2>3 DEF O, D, S, P, Roles
  <2>4. CASE at = "dest"
    BY <1>1, <2>2, <2>4 DEF O, D, S, P, Roles
  <2> QED BY <1>1, <2>2, <2>3, <2>4
<1>5. MutationTypeOK'
  <2>1. touched' \in SUBSET Visible /\ gone' \in SUBSET EntryContents
    <3>1. <<at, k>> \in Visible /\ <<at, k>> \in Names
      BY NamesFacts
    <3> QED BY <1>1, <1>2, <3>1, TypeFacts
  <2> QED BY <1>2, <1>4, <2>1, TypeFacts DEF MutationTypeOK
<1>6. Flow'
  BY <1>2 DEF Flow, Transfer, Committing, Undoing
<1>7. ASSUME NEW i \in Items, i # k PROVE Entry(i)'
  <2>1. Entry(i) /\ Same(i) /\ gone \subseteq gone' /\ touched \subseteq touched'
    BY <1>1, <1>4, <1>7 DEF EntriesInv, OnlyEntry
  <2>2. ParkedInTime(i)' /\ SourceInPlace(i)'
    BY <1>2, <2>1 DEF Entry, Same, ParkedInTime, SourceInPlace, Active, Remains
  <2>3. SourceKept(i)' /\ OldKept(i)'
    BY <1>2, <2>1 DEF Entry, Same, SourceKept, OldKept
  <2>4. OldInPlace(i)'
    BY <1>2, <2>1 DEF Entry, Same, OldInPlace, Active, Remains
  <2>5. ASSUME Alone(i)' PROVE InShape(i)'
    <3>1. InShape(i)
      BY <2>1, <2>5 DEF Entry, Alone
    <3> QED BY <1>2, <2>1, <3>1, ShapesStay DEF InShape, Committing, Undoing, Remains, Transfer
  <2> QED BY <2>2, <2>3, <2>4, <2>5 DEF Entry
<1>8. Entry(k)'
  <2>1. Entry(k) /\ gone \subseteq gone'
    BY <1>1 DEF EntriesInv
  <2>2. ParkedInTime(k)' /\ SourceInPlace(k)'
    BY <1>2, <1>3, <1>4, <2>1 DEF Entry, ParkedInTime, SourceInPlace, Active, Remains
  <2>3. SourceKept(k)' /\ OldKept(k)'
    BY <1>2, <1>4, <2>1 DEF Entry, SourceKept, OldKept
  <2>4. OldInPlace(k)'
    BY <1>2, <1>3, <1>4, <2>1 DEF Entry, OldInPlace, Active, Remains
  <2>5. ~Alone(k)'
    BY <1>1 DEF Alone
  <2> QED BY <2>2, <2>3, <2>4, <2>5 DEF Entry
<1> QED
  <2>1. ASSUME NEW i \in Items PROVE Entry(i)'
    BY <1>7, <1>8
  <2> QED BY <1>5, <1>6, <2>1 DEF EntriesInv

-----------------------------------------------------------------------------
(* The theorems about Mutation. *)

LEMMA InitHolds == MutationAssumption /\ MutationInit => EntriesInv
<1> SUFFICES ASSUME MutationAssumption, MutationInit
             PROVE  EntriesInv
  OBVIOUS
<1>1. /\ Items = 1 .. N /\ N \in Nat \ {0} /\ OtherChanges \in Nat /\ mode \in Modes
      /\ point = At("stage", 1) /\ point.at = "stage" /\ point.item = 1 /\ 1 \in Items
      /\ fs = [name \in Names |-> Before(name)]
      /\ staged = 0 /\ committed = 0 /\ uncertain = FALSE /\ failures = {} /\ mutationOutcome = "none"
      /\ otherChanges = 0 /\ touched = {} /\ gone = {}
  BY DEF MutationAssumption, MutationInit, At, Items
<1>2. replaces \in SUBSET Items /\ (replaces # {} => Transfer)
  BY <1>1 DEF MutationInit, Transfer
<1>3. ASSUME NEW i \in Items PROVE IsBefore(i)
  <2>1. \A role \in Roles : fs[<<role, i>>] = Before(<<role, i>>)
    BY <1>1, NamesFacts
  <2> QED BY <2>1 DEF IsBefore, Before, Roles, O, D, S, P, OldOrNone
<1>4. fs \in [Names -> EntryContents]
  <2>1. ASSUME NEW name \in Names PROVE Before(name) \in EntryContents
    <3>1. PICK role \in Roles, i \in Items : name = <<role, i>>
      BY NamesFacts
    <3> QED BY <3>1, EntryContentsFacts DEF Before
  <2> QED BY <1>1, <2>1
<1>5. MutationTypeOK
  <2>1. point \in StepType
    BY <1>1, StepFacts
  <2>2. staged \in 0 .. N /\ committed \in 0 .. N /\ otherChanges \in 0 .. OtherChanges
    BY <1>1
  <2>3. /\ failures \in SUBSET Items /\ touched \in SUBSET Visible /\ gone \in SUBSET EntryContents
        /\ uncertain \in BOOLEAN
        /\ mutationOutcome \in {"none", "Unchanged", "Committed", "Indeterminate"}
    BY <1>1
  <2> QED BY <1>1, <1>2, <1>4, <2>1, <2>2, <2>3 DEF MutationTypeOK, StepType
<1>6. Flow
  BY <1>1, <1>2 DEF Flow, Committing, Undoing
<1>7. ASSUME NEW i \in Items PROVE Entry(i)
  <2>1. ParkedInTime(i) /\ SourceInPlace(i) /\ SourceKept(i)
    BY <1>1, <1>3, Distinct
    DEF IsBefore, ParkedInTime, SourceInPlace, SourceKept, Remains, OldOrNone
  <2>2. OldInPlace(i) /\ OldKept(i)
    BY <1>1, <1>2, <1>3, Distinct
    DEF IsBefore, OldInPlace, OldKept, Remains, OldOrNone, At, Modes, Transfer
  <2>3. InShape(i)
    BY <1>1, <1>3 DEF InShape, Committing, Undoing, At
  <2> QED BY <2>1, <2>2, <2>3 DEF Entry
<1> QED BY <1>5, <1>6, <1>7 DEF EntriesInv

LEMMA StepHolds == MutationAssumption /\ EntriesInv /\ [MutationNext]_mutationVars => EntriesInv'
<1> SUFFICES ASSUME MutationAssumption, EntriesInv, [MutationNext]_mutationVars
             PROVE  EntriesInv'
  OBVIOUS
<1>1. CASE Unwound
  BY <1>1, UnwoundStep
<1>2. CASE OtherProgram
  BY <1>2, OtherStep
<1>3. CASE Crash
  BY <1>3, CrashStep
<1>4. CASE \/ StageEntry \/ FailStage
           \/ Check \/ Park \/ Take \/ FailCommit
           \/ Undo \/ Return \/ Clean
  <2>1. PICK k \in Items : k = point.item
    <3>1. \/ point.at \in {"stage", "check", "park", "take", "return", "clean"}
          \/ point.at = "undo" /\ point.item > 0
      BY <1>4 DEF StageEntry, FailStage, Check, Park, Take, FailCommit, Undo, Return, Clean
    <3>2. point.item \in Items
      BY <3>1, TypeFacts, StepFacts DEF EntriesInv, MutationAssumption, Items
    <3> QED BY <3>2
  <2> QED
    BY <1>4, <2>1, StageEntryStep, FailStageStep, CheckStep, ParkStep, TakeEntryStep, FailCommitStep,
       UndoStep, ReturnStep, CleanStep
<1>5. CASE UNCHANGED mutationVars
  <2>1. /\ MutationTypeOK' = MutationTypeOK /\ Flow' = Flow
    BY <1>5 DEF mutationVars, MutationTypeOK, Flow, Transfer, Committing, Undoing
  <2>2. ASSUME NEW i \in Items PROVE Entry(i)'
    <3>1. Entry(i)
      BY DEF EntriesInv
    <3> QED BY <1>5, <3>1
        DEF mutationVars, Entry, ParkedInTime, SourceInPlace, SourceKept, OldInPlace, OldKept,
            Alone, InShape,
            O, D, S, P, Transfer, Committing, Undoing, Remains, OldOrNone, Left, IsBefore, IsStaged,
            IsParked, IsTaken, IsAfter, IsReturning, Active
  <2> QED BY <2>1, <2>2 DEF EntriesInv
<1> QED BY <1>1, <1>2, <1>3, <1>4, <1>5 DEF MutationNext

\* What the invariant says of the properties.
LEMMA AllShapes ==
  ASSUME MutationTypeOK
  PROVE  /\ (\A i \in Items : Alone(i) => IsBefore(i)) => AllBefore
         /\ (\A i \in Items : Alone(i) => IsAfter(i)) => AllAfter
<1>1. ASSUME NEW name \in Own
      PROVE  \E role \in Roles, i \in Items : name = <<role, i>> /\ Alone(i)
  <2>1. PICK role \in Roles, i \in Items : name = <<role, i>>
    BY NamesFacts DEF Own
  <2>2. <<"origin", i>> \notin touched /\ <<"dest", i>> \notin touched
    <3>1. touched \cap ({"origin", "dest"} \X {i}) = {}
      BY <2>1 DEF Own
    <3> QED BY <3>1
  <2> QED BY <2>1, <2>2 DEF Alone
<1>2. ASSUME NEW role \in Roles, NEW i \in Items, IsBefore(i)
      PROVE  fs[<<role, i>>] = Before(<<role, i>>)
  BY <1>2, TypeFacts DEF IsBefore, Before, Roles, O, D, S, P, OldOrNone
<1>3. ASSUME NEW role \in Roles, NEW i \in Items, IsAfter(i)
      PROVE  fs[<<role, i>>] = After(<<role, i>>)
  BY <1>3, TypeFacts DEF IsAfter, After, Before, Roles, O, D, S, P, Left, Modes
<1>4. (\A i \in Items : Alone(i) => IsBefore(i)) => AllBefore
  BY <1>1, <1>2 DEF AllBefore
<1>5. (\A i \in Items : Alone(i) => IsAfter(i)) => AllAfter
  BY <1>1, <1>3 DEF AllAfter
<1> QED BY <1>4, <1>5

LEMMA InvNothingDestroyed == EntriesInv => NothingDestroyed
<1> SUFFICES ASSUME EntriesInv, NEW i \in Items
             PROVE  /\ mode # "create" /\ ~Held(Source(i)) /\ Source(i) \notin gone =>
                         \/ mode = "discard" /\ staged = N
                         \/ mode = "move" /\ i \in failures \cap replaces
                    /\ i \in replaces /\ ~Held(Old(i)) /\ Old(i) \notin gone => committed = N
  BY DEF NothingDestroyed
<1>1. SourceKept(i) /\ OldKept(i)
  BY DEF EntriesInv, Entry
<1>2. ASSUME NEW content, O(i) = content \/ D(i) = content \/ S(i) = content \/ P(i) = content
      PROVE  Held(content)
  <2>1. PICK role \in Roles : fs[<<role, i>>] = content
    BY <1>2 DEF O, D, S, P, Roles
  <2> QED BY <2>1, NamesFacts DEF Held
<1> QED BY <1>1, <1>2 DEF SourceKept, OldKept

LEMMA InvOutcome == EntriesInv => AllOrNothing /\ MutationOutcomeIsTrue
<1> SUFFICES ASSUME EntriesInv
             PROVE  AllOrNothing /\ MutationOutcomeIsTrue
  OBVIOUS
<1>1. MutationTypeOK /\ Flow /\ mutationOutcome \in {"none", "Unchanged", "Committed", "Indeterminate"}
  BY TypeFacts DEF EntriesInv
<1>2. ASSUME NEW i \in Items, Alone(i), point.at = "done", failures = {} \/ mutationOutcome # "Indeterminate"
      PROVE  /\ mutationOutcome # "none"
             /\ mutationOutcome \in {"Unchanged", "Indeterminate"} => IsBefore(i)
             /\ mutationOutcome = "Committed" => IsAfter(i)
  BY <1>2 DEF EntriesInv, Entry, InShape
<1>3. MutationOutcomeIsTrue
  <2>1. mutationOutcome # "none" => point.at = "done"
    BY <1>1 DEF Flow
  <2> QED BY <1>1, <1>2, <2>1, AllShapes DEF MutationOutcomeIsTrue
<1>4. AllOrNothing
  <2>1. CASE point.at = "done" /\ failures = {} /\ mutationOutcome = "Committed"
    BY <1>1, <1>2, <2>1, AllShapes DEF AllOrNothing
  <2>2. CASE point.at = "done" /\ failures = {} /\ mutationOutcome # "Committed"
    <3>1. \A i \in Items : Alone(i) => IsBefore(i)
      BY <1>1, <1>2, <2>2
    <3> QED BY <1>1, <3>1, AllShapes DEF AllOrNothing
  <2> QED BY <2>1, <2>2 DEF AllOrNothing
<1> QED BY <1>3, <1>4

\* The inductive invariant holds of every behaviour: at each step of the staging,
\* the commit and the unwind it says where each entry's old and new content lie.
THEOREM EntriesInvariance == ASSUME MutationAssumption PROVE MutationSpec => []EntriesInv
BY InitHolds, StepHolds, PTL DEF MutationSpec

\* Every variable of a mutation keeps its type.
THEOREM MutationTypeCorrect == ASSUME MutationAssumption PROVE MutationSpec => []MutationTypeOK
<1>1. EntriesInv => MutationTypeOK
  BY DEF EntriesInv
<1> QED BY <1>1, EntriesInvariance, PTL

\* What the user had and other programs left stays under some name at every
\* step of the staging, the commit, the unwind and the cleanup, and after a
\* crash between any two of them.
THEOREM SourcesSurvive == ASSUME MutationAssumption PROVE MutationSpec => []NothingDestroyed
BY EntriesInvariance, InvNothingDestroyed, PTL

\* A mutation whose unwind and cleanup succeeded leaves every entry as it was
\* or every entry as asked.
THEOREM NoHalfResults == ASSUME MutationAssumption PROVE MutationSpec => []AllOrNothing
<1>1. EntriesInv => AllOrNothing
  BY InvOutcome
<1> QED BY <1>1, EntriesInvariance, PTL

\* Unchanged and Committed are reported only when every entry is as before, or
\* as asked.
THEOREM MutationOutcomesAreTrue == ASSUME MutationAssumption PROVE MutationSpec => []MutationOutcomeIsTrue
<1>1. EntriesInv => MutationOutcomeIsTrue
  BY InvOutcome
<1> QED BY <1>1, EntriesInvariance, PTL

\* The whole invariant of MCFiles.
THEOREM MutationCorrect == ASSUME MutationAssumption PROVE MutationSpec => []MutationInvariant
<1>1. EntriesInv => MutationInvariant
  BY InvNothingDestroyed, InvOutcome DEF EntriesInv, MutationInvariant
<1> QED BY <1>1, EntriesInvariance, PTL
=============================================================================
