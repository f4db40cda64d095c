--------------------------- MODULE RuntimeProofs ---------------------------
(***************************************************************************)
(* Proofs about Runtime for every set of requests and every limit.         *)
(*                                                                         *)
(* The inductive invariant IInv joins four parts: the types, the relation  *)
(* between a task and its work, the accounting of slots and permits, and   *)
(* the accounting of answers.  Each part has a lemma that every step       *)
(* preserves it.  The refinement of RequestPromise follows from IInv:      *)
(* which step of the promise a step is depends on what it changes of       *)
(* Status, Answer and Effect.                                              *)
(***************************************************************************)
EXTENDS Runtime, FiniteSetTheorems, TLAPS

\* TypeOK without the upper bounds of the counters, which follow from the
\* accounting and not from any one step.
Types ==
  /\ shutdown \in BOOLEAN
  /\ cancelled \in SUBSET Requests
  /\ task \in [Requests -> TaskStates]
  /\ work \in [Requests -> WorkStates]
  /\ stop \in [Requests -> {"none", "Cancelled", "Timeout"}]
  /\ freeSlots \in Nat
  /\ workerPermits \in Nat
  /\ processPermits \in Nat
  /\ events \in Seq(Event)
  /\ received \in [Requests -> Outcomes \cup {"none"}]

IInv ==
  /\ Types
  /\ WorkMatchesTask
  /\ ResultSlotsAccounted
  /\ PermitsAccounted
  /\ ExactlyOneEvent
  /\ CommittedIsReported

-----------------------------------------------------------------------------
(* What an answer can be, by the state of the task that gives it. *)

LEMMA PublishedOutcomes ==
  ASSUME Types, WorkMatchesTask, NEW r \in Requests
  PROVE  /\ ResultOf(r) \in Outcomes
         /\ task[r] = "aborting" => ResultOfAborted(r) \in Outcomes
  BY DEF Types, WorkMatchesTask, ResultOf, ResultOfAborted, Outcomes, WorkStates, Requests

LEMMA TypesInit == Init => Types
<1> SUFFICES ASSUME Init PROVE Types
  OBVIOUS
<1>1. events \in Seq(Event)
  BY DEF Init
<1>2. freeSlots \in Nat /\ workerPermits \in Nat /\ processPermits \in Nat
  BY LimitsAssumption DEF Init
<1> QED
  BY <1>1, <1>2 DEF Init, Types, TaskStates, WorkStates

LEMMA TypesStep == Types /\ WorkMatchesTask /\ [Next]_vars => Types'
<1> SUFFICES ASSUME Types, WorkMatchesTask, [Next]_vars
             PROVE  Types'
  OBVIOUS
<1> USE DEF Types, TaskStates, WorkStates
<1>1. ASSUME NEW r \in Requests, Submission(r) PROVE Types'
  BY <1>1 DEF Submission, RefuseSubmission, RefuseBounds, ReserveResultSlot,
              RefusePermit, SpawnTask
<1>2. ASSUME NEW r \in Requests, Cancel(r) PROVE Types'
  BY <1>2 DEF Cancel
<1>3. ASSUME NEW r \in Requests, NEW o \in Outcomes, Publish(r, o)
      PROVE  events' \in Seq(Event) /\ task' \in [Requests -> TaskStates]
  BY <1>3 DEF Publish, Event
<1>4. ASSUME NEW r \in Requests, TaskStep(r) PROVE Types'
  <2>1. CASE StartTask(r)
    BY <2>1, <1>3 DEF StartTask, Outcomes
  <2>2. CASE PollStopped(r)
    BY <2>2, <1>3 DEF PollStopped, Abort, KillChild, Outcomes
  <2>3. CASE PollRunning(r)
    BY <2>3 DEF PollRunning
  <2>4. CASE Wake(r)
    BY <2>4 DEF Wake
  <2>5. CASE Complete(r)
    BY <2>5, <1>3, PublishedOutcomes DEF Complete
  <2>6. CASE MapPanics(r)
    BY <2>6 DEF MapPanics
  <2>7. CASE CompleteAborted(r)
    BY <2>7, <1>3, PublishedOutcomes DEF CompleteAborted
  <2>8. CASE FinishTask(r)
    BY <2>8 DEF FinishTask
  <2> QED
    BY <1>4, <2>1, <2>2, <2>3, <2>4, <2>5, <2>6, <2>7, <2>8 DEF TaskStep
<1>5. ASSUME NEW r \in Requests, Expire(r) PROVE Types'
  BY <1>5, <1>3 DEF Expire, Abort, KillChild, Outcomes
<1>6. ASSUME NEW r \in Requests, WorkStep(r) PROVE Types'
  BY <1>6 DEF WorkStep, StartClosure, EndWork
<1>7. CASE BeginShutdown
  BY <1>7 DEF BeginShutdown
<1>8. CASE Receive
  <2>1. Head(events) \in Event /\ Tail(events) \in Seq(Event)
    BY <1>8 DEF Receive
  <2> QED
    BY <1>8, <2>1 DEF Receive, Event
<1>9. CASE UNCHANGED vars
  BY <1>9 DEF vars
<1> QED
  BY <1>1, <1>2, <1>4, <1>5, <1>6, <1>7, <1>8, <1>9 DEF Next

-----------------------------------------------------------------------------
(* The relation between a task and its work. *)

LEMMA WorkMatchesTaskInit == Init => WorkMatchesTask
  BY DEF Init, WorkMatchesTask, Busy

LEMMA WorkMatchesTaskStep ==
  Types /\ WorkMatchesTask /\ [Next]_vars => WorkMatchesTask'
<1> SUFFICES ASSUME Types, WorkMatchesTask, [Next]_vars
             PROVE  WorkMatchesTask'
  OBVIOUS
<1> USE RequestsAssumption DEF Types, WorkMatchesTask, Busy, Requests, Jobs
<1>1. ASSUME NEW r \in Requests, Submission(r) PROVE WorkMatchesTask'
  BY <1>1 DEF Submission, RefuseSubmission, RefuseBounds, ReserveResultSlot,
              RefusePermit, SpawnTask
<1>2. ASSUME NEW r \in Requests, Cancel(r) PROVE WorkMatchesTask'
  BY <1>2 DEF Cancel
<1>3. ASSUME NEW r \in Requests, TaskStep(r) PROVE WorkMatchesTask'
  <2>1. CASE StartTask(r)
    BY <2>1 DEF StartTask, Publish
  <2>2. CASE PollStopped(r)
    <3>1. CASE r \in Optional
      BY <2>2, <3>1 DEF PollStopped, Publish
    <3>2. CASE r \in Committing
      BY <2>2, <3>2 DEF PollStopped, Abort
    <3>3. CASE r \in Commands
      BY <2>2, <3>3 DEF PollStopped, KillChild, Publish
    <3> QED
      BY <3>1, <3>2, <3>3
  <2>3. CASE PollRunning(r)
    BY <2>3 DEF PollRunning
  <2>4. CASE Wake(r)
    BY <2>4 DEF Wake
  <2>5. CASE Complete(r)
    BY <2>5 DEF Complete, Publish
  <2>6. CASE MapPanics(r)
    BY <2>6 DEF MapPanics
  <2>7. CASE CompleteAborted(r)
    BY <2>7 DEF CompleteAborted, Publish
  <2>8. CASE FinishTask(r)
    BY <2>8 DEF FinishTask
  <2> QED
    BY <1>3, <2>1, <2>2, <2>3, <2>4, <2>5, <2>6, <2>7, <2>8 DEF TaskStep
<1>4. ASSUME NEW r \in Requests, Expire(r) PROVE WorkMatchesTask'
  <2>1. CASE r \in Optional
    BY <1>4, <2>1 DEF Expire, Publish
  <2>2. CASE r \in Committing
    BY <1>4, <2>2 DEF Expire, Abort
  <2>3. CASE r \in Commands
    <3>1. /\ task[r] = "polled" /\ Busy(r) /\ UNCHANGED stop
          /\ task' = [task EXCEPT ![r] = "joining"]
          /\ work' = IF work[r] = "running" THEN [work EXCEPT ![r] = "aborted"] ELSE work
      BY <1>4, <2>3 DEF Expire, KillChild, Publish
    <3>2. ~Busy(r)' /\ task'[r] = "joining" /\ work'[r] # "queued"
      BY <2>3, <3>1
    <3>3. \A q \in Requests : q # r => task'[q] = task[q] /\ work'[q] = work[q]
      BY <3>1
    <3> QED
      BY <2>3, <3>1, <3>2, <3>3
  <2> QED
    BY <2>1, <2>2, <2>3
<1>5. ASSUME NEW r \in Requests, WorkStep(r) PROVE WorkMatchesTask'
  BY <1>5 DEF WorkStep, StartClosure, EndWork
<1>6. CASE BeginShutdown
  BY <1>6 DEF BeginShutdown
<1>7. CASE Receive
  BY <1>7 DEF Receive
<1>8. CASE UNCHANGED vars
  BY <1>8 DEF vars
<1> QED
  BY <1>1, <1>2, <1>3, <1>4, <1>5, <1>6, <1>7, <1>8 DEF Next

-----------------------------------------------------------------------------
(* The accounting of result slots and permits. *)

\* A set of requests changes its size by at most the one request of a step.
LEMMA AddRequest ==
  ASSUME NEW S \in SUBSET Requests, NEW r \in Requests \ S
  PROVE  /\ Cardinality(S) \in Nat
         /\ Cardinality(S \cup {r}) = Cardinality(S) + 1
  BY RequestsAssumption, FS_Subset, FS_AddElement, FS_CardinalityType

LEMMA RemoveRequest ==
  ASSUME NEW S \in SUBSET Requests, NEW r \in S
  PROVE  /\ Cardinality(S) \in Nat
         /\ Cardinality(S \ {r}) = Cardinality(S) - 1
  BY RequestsAssumption, FS_Subset, FS_RemoveElement, FS_CardinalityType

LEMMA RequestCardinality ==
  ASSUME NEW S \in SUBSET Requests
  PROVE  IsFiniteSet(S) /\ Cardinality(S) \in Nat
  BY RequestsAssumption, FS_Subset, FS_CardinalityType

LEMMA SlotsInit == Init => ResultSlotsAccounted
<1> SUFFICES ASSUME Init PROVE ResultSlotsAccounted
  OBVIOUS
<1>1. HoldsSlot = {}
  BY DEF Init, HoldsSlot
<1>2. Cardinality(HoldsSlot) = 0 /\ Len(events) = 0
  BY <1>1, FS_EmptySet DEF Init
<1> QED
  BY <1>2, LimitsAssumption DEF Init, ResultSlotsAccounted

\* An answer moves one slot from the reservations into the queue.
LEMMA PublishKeepsSlots ==
  ASSUME Types, ResultSlotsAccounted, NEW r \in Requests, NEW o \in Outcomes,
         r \in HoldsSlot, Publish(r, o), UNCHANGED freeSlots
  PROVE  ResultSlotsAccounted'
<1>1. HoldsSlot' = HoldsSlot \ {r}
  BY DEF Types, HoldsSlot, Publish
<1>2. Len(events') = Len(events) + 1
  BY DEF Types, Publish, Event
<1>3. HoldsSlot \in SUBSET Requests
  BY DEF HoldsSlot
<1> QED
  BY <1>1, <1>2, <1>3, RemoveRequest DEF ResultSlotsAccounted, Types

\* A step that moves a task between two states of the same kind.
LEMMA SameHoldersKeepSlots ==
  ASSUME ResultSlotsAccounted, HoldsSlot' = HoldsSlot, UNCHANGED <<freeSlots, events>>
  PROVE  ResultSlotsAccounted'
  BY DEF ResultSlotsAccounted

LEMMA SlotsStep ==
  Types /\ WorkMatchesTask /\ ResultSlotsAccounted /\ [Next]_vars => ResultSlotsAccounted'
<1> SUFFICES ASSUME Types, WorkMatchesTask, ResultSlotsAccounted, [Next]_vars
             PROVE  ResultSlotsAccounted'
  OBVIOUS
<1>0. HoldsSlot \in SUBSET Requests
  BY DEF HoldsSlot
<1>1. ASSUME NEW r \in Requests, Submission(r) PROVE ResultSlotsAccounted'
  <2>1. CASE RefuseSubmission(r) \/ RefuseBounds(r)
    <3>1. HoldsSlot' = HoldsSlot
      BY <2>1 DEF RefuseSubmission, RefuseBounds, HoldsSlot, Types
    <3> QED
      BY <2>1, <3>1, SameHoldersKeepSlots DEF RefuseSubmission, RefuseBounds
  <2>2. CASE ReserveResultSlot(r)
    <3>1. HoldsSlot' = HoldsSlot \cup {r} /\ r \notin HoldsSlot
      BY <2>2 DEF ReserveResultSlot, HoldsSlot, Types
    <3> QED
      BY <2>2, <3>1, <1>0, AddRequest DEF ReserveResultSlot, ResultSlotsAccounted, Types
  <2>3. CASE RefusePermit(r)
    <3>1. HoldsSlot' = HoldsSlot \ {r} /\ r \in HoldsSlot
      BY <2>3 DEF RefusePermit, HoldsSlot, Types
    <3> QED
      BY <2>3, <3>1, <1>0, RemoveRequest DEF RefusePermit, ResultSlotsAccounted, Types
  <2>4. CASE SpawnTask(r)
    <3>1. HoldsSlot' = HoldsSlot
      BY <2>4 DEF SpawnTask, HoldsSlot, Types
    <3> QED
      BY <2>4, <3>1, SameHoldersKeepSlots DEF SpawnTask
  <2> QED
    BY <1>1, <2>1, <2>2, <2>3, <2>4 DEF Submission
<1>2. ASSUME NEW r \in Requests, Cancel(r) PROVE ResultSlotsAccounted'
  BY <1>2, SameHoldersKeepSlots DEF Cancel, HoldsSlot
<1>3. ASSUME NEW r \in Requests, TaskStep(r) PROVE ResultSlotsAccounted'
  <2>1. CASE StartTask(r)
    <3>1. CASE Stopped(r)
      BY <2>1, <3>1, PublishKeepsSlots DEF StartTask, Outcomes, HoldsSlot
    <3>2. CASE ~Stopped(r)
      <4>1. HoldsSlot' = HoldsSlot
        BY <2>1, <3>2 DEF StartTask, HoldsSlot, Types
      <4> QED
        BY <2>1, <3>2, <4>1, SameHoldersKeepSlots DEF StartTask
    <3> QED
      BY <3>1, <3>2
  <2>2. CASE PollStopped(r)
    <3>1. CASE Publish(r, "Cancelled")
      BY <2>2, <3>1, PublishKeepsSlots DEF PollStopped, Outcomes, HoldsSlot
    <3>2. CASE Abort(r, "Cancelled")
      <4>1. HoldsSlot' = HoldsSlot
        BY <2>2, <3>2 DEF PollStopped, Abort, HoldsSlot, Types
      <4> QED
        BY <2>2, <3>2, <4>1, SameHoldersKeepSlots DEF PollStopped, Abort
    <3> QED
      BY <2>2, <3>1, <3>2 DEF PollStopped
  <2>3. CASE PollRunning(r) \/ Wake(r)
    <3>1. HoldsSlot' = HoldsSlot
      BY <2>3 DEF PollRunning, Wake, HoldsSlot, Types
    <3> QED
      BY <2>3, <3>1, SameHoldersKeepSlots DEF PollRunning, Wake
  <2>4. CASE Complete(r)
    BY <2>4, PublishedOutcomes, PublishKeepsSlots DEF Complete, HoldsSlot
  <2>5. CASE MapPanics(r)
    <3>1. HoldsSlot' = HoldsSlot \ {r} /\ r \in HoldsSlot
      BY <2>5 DEF MapPanics, HoldsSlot, Types
    <3> QED
      BY <2>5, <3>1, <1>0, RemoveRequest DEF MapPanics, ResultSlotsAccounted, Types
  <2>6. CASE CompleteAborted(r)
    BY <2>6, PublishedOutcomes, PublishKeepsSlots DEF CompleteAborted, HoldsSlot
  <2>7. CASE FinishTask(r)
    <3>1. HoldsSlot' = HoldsSlot
      BY <2>7 DEF FinishTask, HoldsSlot, Types
    <3> QED
      BY <2>7, <3>1, SameHoldersKeepSlots DEF FinishTask
  <2> QED
    BY <1>3, <2>1, <2>2, <2>3, <2>4, <2>5, <2>6, <2>7 DEF TaskStep
<1>4. ASSUME NEW r \in Requests, Expire(r) PROVE ResultSlotsAccounted'
  <2>1. CASE Publish(r, "Timeout")
    BY <1>4, <2>1, PublishKeepsSlots DEF Expire, Outcomes, HoldsSlot
  <2>2. CASE Abort(r, "Timeout")
    <3>1. HoldsSlot' = HoldsSlot
      BY <1>4, <2>2 DEF Expire, Abort, HoldsSlot, Types
    <3> QED
      BY <1>4, <2>2, <3>1, SameHoldersKeepSlots DEF Expire, Abort
  <2> QED
    BY <1>4, <2>1, <2>2 DEF Expire
<1>5. ASSUME NEW r \in Requests, WorkStep(r) PROVE ResultSlotsAccounted'
  BY <1>5, SameHoldersKeepSlots DEF WorkStep, StartClosure, EndWork, HoldsSlot
<1>6. CASE BeginShutdown
  BY <1>6, SameHoldersKeepSlots DEF BeginShutdown, HoldsSlot
<1>7. CASE Receive
  <2>1. Len(events') = Len(events) - 1 /\ Len(events) \in Nat \ {0}
    BY <1>7 DEF Receive, Types
  <2>2. HoldsSlot' = HoldsSlot
    BY <1>7 DEF Receive, HoldsSlot
  <2> QED
    BY <1>7, <2>1, <2>2, <1>0, RequestCardinality DEF Receive, ResultSlotsAccounted, Types
<1>8. CASE UNCHANGED vars
  BY <1>8, SameHoldersKeepSlots DEF vars, HoldsSlot
<1> QED
  BY <1>1, <1>2, <1>3, <1>4, <1>5, <1>6, <1>7, <1>8 DEF Next

LEMMA PermitsInit == Init => PermitsAccounted
<1> SUFFICES ASSUME Init PROVE PermitsAccounted
  OBVIOUS
<1>1. JobTasks = {} /\ CommandTasks = {}
  BY DEF Init, JobTasks, CommandTasks, Tracked
<1>2. Cardinality(JobTasks) = 0 /\ Cardinality(CommandTasks) = 0
  BY <1>1, FS_EmptySet
<1> QED
  BY <1>2, LimitsAssumption DEF Init, PermitsAccounted

LEMMA SameTrackedKeepsPermits ==
  ASSUME PermitsAccounted, Tracked' = Tracked, UNCHANGED <<workerPermits, processPermits>>
  PROVE  PermitsAccounted'
  BY DEF PermitsAccounted, JobTasks, CommandTasks

\* A tracked task takes one permit of its own pool, and an ended one gives it
\* back: the other pool keeps its owners.
LEMMA PermitsStep ==
  Types /\ WorkMatchesTask /\ PermitsAccounted /\ [Next]_vars => PermitsAccounted'
<1> SUFFICES ASSUME Types, WorkMatchesTask, PermitsAccounted, [Next]_vars
             PROVE  PermitsAccounted'
  OBVIOUS
<1> USE RequestsAssumption
<1>0. JobTasks \in SUBSET Requests /\ CommandTasks \in SUBSET Requests
  BY DEF JobTasks, CommandTasks, Tracked
<1>1. ASSUME NEW r \in Requests, SpawnTask(r) PROVE PermitsAccounted'
  <2>1. CASE r \in Jobs
    <3>1. JobTasks' = JobTasks \cup {r} /\ CommandTasks' = CommandTasks /\ r \notin JobTasks
      BY <1>1, <2>1 DEF SpawnTask, Types, JobTasks, CommandTasks, Tracked, Requests
    <3>2. Cardinality(JobTasks) \in Nat /\ Cardinality(JobTasks') = Cardinality(JobTasks) + 1
      BY <1>0, <3>1, AddRequest
    <3> QED
      BY <1>1, <2>1, <3>1, <3>2 DEF SpawnTask, PermitsAccounted, Types
  <2>2. CASE r \notin Jobs
    <3>1. CommandTasks' = CommandTasks \cup {r} /\ JobTasks' = JobTasks /\ r \notin CommandTasks
      BY <1>1, <2>2 DEF SpawnTask, Types, JobTasks, CommandTasks, Tracked, Requests
    <3>2. /\ Cardinality(CommandTasks) \in Nat
          /\ Cardinality(CommandTasks') = Cardinality(CommandTasks) + 1
      BY <1>0, <3>1, AddRequest
    <3> QED
      BY <1>1, <2>2, <3>1, <3>2 DEF SpawnTask, PermitsAccounted, Types
  <2> QED
    BY <2>1, <2>2
<1>2. ASSUME NEW r \in Requests, FinishTask(r) PROVE PermitsAccounted'
  <2>1. CASE r \in Jobs
    <3>1. JobTasks' = JobTasks \ {r} /\ CommandTasks' = CommandTasks /\ r \in JobTasks
      BY <1>2, <2>1 DEF FinishTask, Types, JobTasks, CommandTasks, Tracked, Requests
    <3>2. Cardinality(JobTasks) \in Nat /\ Cardinality(JobTasks') = Cardinality(JobTasks) - 1
      BY <1>0, <3>1, RemoveRequest
    <3> QED
      BY <1>2, <2>1, <3>1, <3>2 DEF FinishTask, PermitsAccounted, Types
  <2>2. CASE r \notin Jobs
    <3>1. CommandTasks' = CommandTasks \ {r} /\ JobTasks' = JobTasks /\ r \in CommandTasks
      BY <1>2, <2>2 DEF FinishTask, Types, JobTasks, CommandTasks, Tracked, Requests
    <3>2. /\ Cardinality(CommandTasks) \in Nat
          /\ Cardinality(CommandTasks') = Cardinality(CommandTasks) - 1
      BY <1>0, <3>1, RemoveRequest
    <3> QED
      BY <1>2, <2>2, <3>1, <3>2 DEF FinishTask, PermitsAccounted, Types
  <2> QED
    BY <2>1, <2>2
<1>3. ASSUME NEW r \in Requests, MapPanics(r) PROVE PermitsAccounted'
  <2>1. CommandTasks' = CommandTasks \ {r} /\ JobTasks' = JobTasks /\ r \in CommandTasks
    BY <1>3 DEF MapPanics, Types, JobTasks, CommandTasks, Tracked
  <2>2. /\ Cardinality(CommandTasks) \in Nat
        /\ Cardinality(CommandTasks') = Cardinality(CommandTasks) - 1
    BY <1>0, <2>1, RemoveRequest
  <2> QED
    BY <1>3, <2>1, <2>2 DEF MapPanics, PermitsAccounted, Types
<1>4. ASSUME NEW r \in Requests, Submission(r) PROVE PermitsAccounted'
  <2>1. CASE \/ RefuseSubmission(r) \/ RefuseBounds(r)
             \/ ReserveResultSlot(r) \/ RefusePermit(r)
    <3>1. Tracked' = Tracked
      BY <2>1 DEF RefuseSubmission, RefuseBounds, ReserveResultSlot, RefusePermit,
                  Tracked, Types
    <3> QED
      BY <2>1, <3>1, SameTrackedKeepsPermits
      DEF RefuseSubmission, RefuseBounds, ReserveResultSlot, RefusePermit
  <2> QED
    BY <1>1, <1>4, <2>1 DEF Submission
<1>5. ASSUME NEW r \in Requests, TaskStep(r) PROVE PermitsAccounted'
  <2>1. CASE \/ StartTask(r) \/ PollStopped(r) \/ PollRunning(r) \/ Wake(r)
             \/ Complete(r) \/ CompleteAborted(r)
    <3>1. Tracked' = Tracked
      BY <2>1 DEF StartTask, PollStopped, PollRunning, Wake, Complete, CompleteAborted,
                  Abort, Publish, Tracked, Types
    <3> QED
      BY <2>1, <3>1, SameTrackedKeepsPermits
      DEF StartTask, PollStopped, PollRunning, Wake, Complete, CompleteAborted
  <2> QED
    BY <1>2, <1>3, <1>5, <2>1 DEF TaskStep
<1>6. ASSUME NEW r \in Requests, Cancel(r) \/ Expire(r) \/ WorkStep(r)
      PROVE  PermitsAccounted'
  <2>1. Tracked' = Tracked
    BY <1>6 DEF Cancel, Expire, WorkStep, StartClosure, EndWork, Abort, Publish,
                Tracked, Types
  <2> QED
    BY <1>6, <2>1, SameTrackedKeepsPermits DEF Cancel, Expire, WorkStep, StartClosure, EndWork
<1>7. CASE BeginShutdown \/ Receive \/ UNCHANGED vars
  <2>1. Tracked' = Tracked
    BY <1>7 DEF BeginShutdown, Receive, vars, Tracked
  <2> QED
    BY <1>7, <2>1, SameTrackedKeepsPermits DEF BeginShutdown, Receive, vars
<1> QED
  BY <1>4, <1>5, <1>6, <1>7 DEF Next

-----------------------------------------------------------------------------
(* The accounting of answers. *)

LEMMA AnswersInit == Init => ExactlyOneEvent /\ CommittedIsReported
<1> SUFFICES ASSUME Init PROVE ExactlyOneEvent /\ CommittedIsReported
  OBVIOUS
<1>1. \A r \in Requests : Queued(r) = {} /\ received[r] = "none" /\ ~Answered(r)
  BY DEF Init, Queued, Answered
<1> QED
  BY <1>1 DEF ExactlyOneEvent, CommittedIsReported, AnswerIs, Requests, Jobs

\* The queue after a publication: the old events, then the new one.
LEMMA PublishedQueue ==
  ASSUME Types, NEW r \in Requests, NEW o \in Outcomes, Publish(r, o)
  PROVE  /\ Len(events) \in Nat
         /\ DOMAIN events = 1 .. Len(events)
         /\ DOMAIN events' = 1 .. (Len(events) + 1)
         /\ events'[Len(events) + 1].request = r
         /\ events'[Len(events) + 1].result = o
         /\ \A i \in 1 .. Len(events) : events'[i] = events[i]
  BY DEF Types, Publish, Event

LEMMA PublishKeepsExactlyOne ==
  ASSUME Types, ExactlyOneEvent, NEW r \in Requests, NEW o \in Outcomes,
         ~Answered(r), Publish(r, o), UNCHANGED received
  PROVE  ExactlyOneEvent'
<1>1. Queued(r) = {} /\ received[r] = "none"
  BY DEF ExactlyOneEvent
<1>0. /\ Len(events) \in Nat
      /\ DOMAIN events = 1 .. Len(events)
      /\ DOMAIN events' = 1 .. (Len(events) + 1)
      /\ events'[Len(events) + 1].request = r
      /\ \A i \in 1 .. Len(events) : events'[i] = events[i]
  BY PublishedQueue
<1>2. Queued(r)' = {Len(events) + 1}
  BY <1>0, <1>1 DEF Queued
<1>3. ASSUME NEW q \in Requests, q # r PROVE Queued(q)' = Queued(q)
  BY <1>0, <1>3 DEF Queued
<1>4. \A q \in Requests : Answered(q)' <=> (q = r \/ Answered(q))
  BY DEF Types, Publish, Answered
<1> QED
  BY <1>1, <1>2, <1>3, <1>4 DEF ExactlyOneEvent

LEMMA SameAnswersKeepExactlyOne ==
  ASSUME ExactlyOneEvent, UNCHANGED <<events, received>>,
         \A q \in Requests : Answered(q)' <=> Answered(q)
  PROVE  ExactlyOneEvent'
  BY DEF ExactlyOneEvent, Queued

\* Taking the head of the queue moves the one event of its request.
LEMMA ReceivedQueue ==
  ASSUME Types, Receive
  PROVE  /\ Len(events) \in Nat \ {0}
         /\ DOMAIN events = 1 .. Len(events)
         /\ DOMAIN events' = 1 .. (Len(events) - 1)
         /\ Head(events) = events[1]
         /\ \A i \in 1 .. (Len(events) - 1) : events'[i] = events[i + 1]
  BY DEF Types, Receive

LEMMA ReceiveKeepsExactlyOne ==
  ASSUME Types, ExactlyOneEvent, Receive
  PROVE  ExactlyOneEvent'
<1>1. events[1] \in Event
  BY ReceivedQueue DEF Types
<1> PICK h \in Requests : h = events[1].request
  BY <1>1 DEF Event
<1>2. 1 \in Queued(h)
  BY ReceivedQueue DEF Queued
<1>3. received' = [received EXCEPT ![h] = events[1].result]
  BY ReceivedQueue DEF Receive
<1>4. events[1].result # "none"
  BY <1>1 DEF Event, Outcomes
<1>0. /\ Len(events) \in Nat \ {0}
      /\ DOMAIN events = 1 .. Len(events)
      /\ DOMAIN events' = 1 .. (Len(events) - 1)
      /\ \A i \in 1 .. (Len(events) - 1) : events'[i] = events[i + 1]
  BY ReceivedQueue
<1>5. Queued(h)' = {}
  <2>1. ASSUME NEW i \in Queued(h)' PROVE FALSE
    <3>1. i \in 1 .. (Len(events) - 1) /\ events'[i].request = h
      BY <1>0, <2>1 DEF Queued
    <3>2. i + 1 \in 1 .. Len(events) /\ i + 1 # 1 /\ events[i + 1].request = h
      BY <1>0, <3>1
    <3>3. i + 1 \in Queued(h)
      BY <1>0, <3>2 DEF Queued
    <3> QED
      BY <1>2, <3>2, <3>3 DEF ExactlyOneEvent
  <2> QED
    BY <2>1
<1>6. ASSUME NEW q \in Requests, q # h
      PROVE  /\ \A i \in Queued(q)' : i \in Int /\ i + 1 \in Queued(q)
             /\ \A i \in Queued(q) : i - 1 \in Queued(q)'
  <2>1. ASSUME NEW i \in Queued(q)' PROVE i \in Int /\ i + 1 \in Queued(q)
    <3>1. i \in 1 .. (Len(events) - 1) /\ events'[i].request = q
      BY <1>0, <2>1 DEF Queued
    <3>2. i + 1 \in 1 .. Len(events) /\ events[i + 1].request = q
      BY <1>0, <3>1
    <3> QED
      BY <1>0, <3>1, <3>2 DEF Queued
  <2>2. ASSUME NEW i \in Queued(q) PROVE i - 1 \in Queued(q)'
    <3>1. i \in 1 .. Len(events) /\ events[i].request = q
      BY <1>0, <2>2 DEF Queued
    <3>2. i # 1
      BY <1>6, <3>1
    <3>3. i - 1 \in 1 .. (Len(events) - 1) /\ i = (i - 1) + 1
      BY <1>0, <3>1, <3>2
    <3>4. events'[i - 1] = events[i]
      BY <1>0, <3>3
    <3> QED
      BY <1>0, <3>1, <3>3, <3>4 DEF Queued
  <2> QED
    BY <2>1, <2>2
<1>7. \A q \in Requests : Answered(q)' <=> Answered(q)
  BY DEF Receive, Answered
<1>8. ASSUME NEW q \in Requests, q # h
      PROVE  /\ \A i, j \in Queued(q)' : i = j
             /\ Queued(q)' = {} <=> Queued(q) = {}
  <2>1. \A i, j \in Queued(q)' : i \in Int /\ j \in Int /\ i + 1 = j + 1
    BY <1>6, <1>8 DEF ExactlyOneEvent
  <2>2. \A i, j \in Queued(q)' : i = j
    BY <2>1
  <2> QED
    BY <1>6, <1>8, <2>2
<1>9. received'[h] # "none" /\ \A q \in Requests : q # h => received'[q] = received[q]
  BY <1>2, <1>3, <1>4 DEF Types
<1>10. Answered(h)
  BY <1>2 DEF ExactlyOneEvent
<1>11. ASSUME NEW q \in Requests
       PROVE  /\ \A i, j \in Queued(q)' : i = j
              /\ received'[q] # "none" => Queued(q)' = {}
              /\ (received'[q] # "none" \/ Queued(q)' # {}) <=> Answered(q)'
  <2>1. CASE q = h
    BY <1>5, <1>7, <1>9, <1>10, <2>1
  <2>2. CASE q # h
    BY <1>7, <1>8, <1>9, <2>2 DEF ExactlyOneEvent
  <2> QED
    BY <2>1, <2>2
<1> QED
  BY <1>11 DEF ExactlyOneEvent

\* The publishing steps, and the outcome each publishes.
Publishes(r, o) ==
  /\ Publish(r, o)
  /\ UNCHANGED received
  /\ \/ StartTask(r) /\ Stopped(r) /\ o = "Cancelled"
     \/ PollStopped(r) /\ r \notin Committing /\ o = "Cancelled"
     \/ Expire(r) /\ r \notin Committing /\ o = "Timeout"
     \/ Complete(r) /\ o = ResultOf(r)
     \/ CompleteAborted(r) /\ o = ResultOfAborted(r)

QuietStep ==
  /\ UNCHANGED <<events, received>>
  /\ \A q \in Requests : Answered(q)' <=> Answered(q)

\* Every step publishes one answer, takes one, or leaves all answers alone.
LEMMA AnswerSteps ==
  ASSUME Types, WorkMatchesTask, [Next]_vars
  PROVE  \/ \E r \in Requests, o \in Outcomes : ~Answered(r) /\ Publishes(r, o)
         \/ Receive
         \/ QuietStep
<1> DEFINE Goal == \/ \E r \in Requests, o \in Outcomes : ~Answered(r) /\ Publishes(r, o)
                   \/ Receive
                   \/ QuietStep
<1> USE DEF QuietStep, Types
<1>1. ASSUME NEW r \in Requests, Submission(r) PROVE Goal
  BY <1>1 DEF Submission, RefuseSubmission, RefuseBounds, ReserveResultSlot,
              RefusePermit, SpawnTask, Answered
<1>2. ASSUME NEW r \in Requests, TaskStep(r) PROVE Goal
  <2>1. CASE StartTask(r)
    <3>1. CASE Stopped(r)
      BY <2>1, <3>1 DEF StartTask, Publishes, Answered, Outcomes
    <3>2. CASE ~Stopped(r)
      BY <2>1, <3>2 DEF StartTask, Answered
    <3> QED
      BY <3>1, <3>2
  <2>2. CASE PollStopped(r)
    <3>1. CASE r \in Committing
      BY <2>2, <3>1, RequestsAssumption DEF PollStopped, Abort, Answered, Requests, Jobs
    <3>2. CASE r \notin Committing
      BY <2>2, <3>2 DEF PollStopped, Publishes, Answered, Outcomes
    <3> QED
      BY <3>1, <3>2
  <2>3. CASE PollRunning(r) \/ Wake(r)
    BY <2>3 DEF PollRunning, Wake, Answered
  <2>4. CASE Complete(r)
    BY <2>4, PublishedOutcomes DEF Complete, Publishes, Answered
  <2>5. CASE MapPanics(r)
    BY <2>5 DEF MapPanics, Answered
  <2>6. CASE CompleteAborted(r)
    BY <2>6, PublishedOutcomes DEF CompleteAborted, Publishes, Answered
  <2>7. CASE FinishTask(r)
    BY <2>7 DEF FinishTask, Answered
  <2> QED
    BY <1>2, <2>1, <2>2, <2>3, <2>4, <2>5, <2>6, <2>7 DEF TaskStep
<1>3. ASSUME NEW r \in Requests, Expire(r) PROVE Goal
  <2>1. CASE r \in Committing
    BY <1>3, <2>1, RequestsAssumption DEF Expire, Abort, Answered, Requests, Jobs
  <2>2. CASE r \notin Committing
    BY <1>3, <2>2 DEF Expire, Publishes, Answered, Outcomes
  <2> QED
    BY <2>1, <2>2
<1>4. ASSUME NEW r \in Requests, Cancel(r) \/ WorkStep(r) PROVE Goal
  BY <1>4 DEF Cancel, WorkStep, StartClosure, EndWork, Answered
<1>5. CASE BeginShutdown \/ UNCHANGED vars
  BY <1>5 DEF BeginShutdown, vars, Answered
<1> QED
  BY <1>1, <1>2, <1>3, <1>4, <1>5 DEF Next

LEMMA ExactlyOneStep ==
  Types /\ WorkMatchesTask /\ ExactlyOneEvent /\ [Next]_vars => ExactlyOneEvent'
<1> SUFFICES ASSUME Types, WorkMatchesTask, ExactlyOneEvent, [Next]_vars
             PROVE  ExactlyOneEvent'
  OBVIOUS
<1>1. ASSUME NEW r \in Requests, NEW o \in Outcomes, ~Answered(r), Publishes(r, o)
      PROVE  ExactlyOneEvent'
  BY <1>1, PublishKeepsExactlyOne DEF Publishes
<1>2. CASE Receive
  BY <1>2, ReceiveKeepsExactlyOne
<1>3. CASE QuietStep
  BY <1>3, SameAnswersKeepExactlyOne DEF QuietStep
<1> QED
  BY <1>1, <1>2, <1>3, AnswerSteps

\* An answer, once given, stays what it is: while it is queued and after the
\* host took it.
LEMMA AnswersAreFinal ==
  ASSUME Types, WorkMatchesTask, ExactlyOneEvent, [Next]_vars,
         NEW q \in Requests, Answered(q), NEW x \in Outcomes, AnswerIs(q, x)'
  PROVE  AnswerIs(q, x)
<1>1. ASSUME NEW r \in Requests, NEW o \in Outcomes, ~Answered(r), Publishes(r, o)
      PROVE  AnswerIs(q, x)
  <2>1. /\ Len(events) \in Nat
        /\ DOMAIN events = 1 .. Len(events)
        /\ DOMAIN events' = 1 .. (Len(events) + 1)
        /\ events'[Len(events) + 1].request = r
        /\ \A i \in 1 .. Len(events) : events'[i] = events[i]
    BY <1>1, PublishedQueue DEF Publishes
  <2>2. q # r /\ received' = received
    BY <1>1 DEF Publishes
  <2> QED
    BY <2>1, <2>2 DEF AnswerIs, Queued
<1>2. CASE Receive
  <2>1. /\ Len(events) \in Nat \ {0}
        /\ DOMAIN events = 1 .. Len(events)
        /\ DOMAIN events' = 1 .. (Len(events) - 1)
        /\ \A i \in 1 .. (Len(events) - 1) : events'[i] = events[i + 1]
        /\ Head(events) = events[1]
    BY <1>2, ReceivedQueue
  <2>2. CASE received'[q] = x
    <3>1. received[q] = x \/ (q = events[1].request /\ x = events[1].result)
      BY <1>2, <2>1, <2>2 DEF Receive, Types
    <3> QED
      BY <2>1, <3>1 DEF AnswerIs, Queued
  <2>3. ASSUME NEW i \in Queued(q)', events'[i].result = x PROVE AnswerIs(q, x)
    <3>1. i \in 1 .. (Len(events) - 1) /\ events'[i].request = q
      BY <2>1, <2>3 DEF Queued
    <3>2. i + 1 \in 1 .. Len(events) /\ events[i + 1].request = q /\ events[i + 1].result = x
      BY <2>1, <2>3, <3>1
    <3> QED
      BY <2>1, <3>2 DEF AnswerIs, Queued
  <2> QED
    BY <2>2, <2>3 DEF AnswerIs
<1>3. CASE QuietStep
  BY <1>3 DEF QuietStep, AnswerIs, Queued
<1> QED
  BY <1>1, <1>2, <1>3, AnswerSteps

\* The work of a committing request is over when it is answered.
LEMMA AnsweredWorkIsOver ==
  ASSUME Types, WorkMatchesTask, [Next]_vars, NEW q \in Committing, Answered(q)
  PROVE  work'[q] = work[q]
<1> USE RequestsAssumption DEF Types, WorkMatchesTask, Busy, Answered, Requests, Jobs
<1>1. q \in Requests /\ ~Busy(q) /\ task[q] \in {"joining", "finished"}
  OBVIOUS
<1>2. ASSUME NEW r \in Requests, Submission(r) \/ Cancel(r) \/ WorkStep(r)
      PROVE  work'[q] = work[q]
  BY <1>1, <1>2 DEF Submission, RefuseSubmission, RefuseBounds, ReserveResultSlot,
              RefusePermit, SpawnTask, Cancel, WorkStep, StartClosure, EndWork
<1>3. ASSUME NEW r \in Requests, TaskStep(r) \/ Expire(r) PROVE work'[q] = work[q]
  BY <1>1, <1>3 DEF TaskStep, Expire, StartTask, PollStopped, PollRunning, Wake, Complete,
              MapPanics, CompleteAborted, FinishTask, Abort, KillChild
<1>4. CASE BeginShutdown \/ Receive \/ UNCHANGED vars
  BY <1>4 DEF BeginShutdown, Receive, vars
<1> QED
  BY <1>2, <1>3, <1>4 DEF Next

\* What a publication says about a committing request is true when it is said.
LEMMA CommittedPublishesTruth ==
  ASSUME Types, WorkMatchesTask, NEW q \in Committing, NEW o \in Outcomes,
         ~Answered(q), Publishes(q, o)
  PROVE  /\ o \in {"Cancelled", "Timeout"} => work'[q] \in {"none", "aborted"}
         /\ o = "Value" => work'[q] = "ok"
         /\ o = "WorkerFailure" => work'[q] = "error"
         /\ o # "ProcessFailure"
<1> USE RequestsAssumption DEF Types, WorkMatchesTask, Busy, Requests, Jobs, WorkStates
<1>1. CASE StartTask(q) /\ Stopped(q) /\ o = "Cancelled"
  BY <1>1 DEF StartTask
<1>2. CASE Complete(q) /\ o = ResultOf(q)
  BY <1>2 DEF Complete, ResultOf
<1>3. CASE CompleteAborted(q) /\ o = ResultOfAborted(q)
  BY <1>3 DEF CompleteAborted, ResultOfAborted
<1> QED
  BY <1>1, <1>2, <1>3 DEF Publishes

\* A request that was not answered and now is has the one outcome of its publication.
LEMMA NewAnswer ==
  ASSUME Types, WorkMatchesTask, ExactlyOneEvent, [Next]_vars,
         NEW q \in Requests, ~Answered(q), Answered(q)'
  PROVE  \E o \in Outcomes : Publishes(q, o) /\ \A x \in Outcomes : AnswerIs(q, x)' => x = o
<1>1. PICK r \in Requests, o \in Outcomes : ~Answered(r) /\ Publishes(r, o)
  BY AnswerSteps DEF QuietStep, Receive, Answered
<1>2. r = q
  BY <1>1 DEF Publishes, Publish, Answered, Types
<1>3. /\ Len(events) \in Nat
      /\ DOMAIN events = 1 .. Len(events)
      /\ DOMAIN events' = 1 .. (Len(events) + 1)
      /\ events'[Len(events) + 1].result = o
      /\ \A i \in 1 .. Len(events) : events'[i] = events[i]
  BY <1>1, PublishedQueue DEF Publishes
<1>4. Queued(q) = {} /\ received[q] = "none" /\ received' = received
  BY <1>1 DEF ExactlyOneEvent, Publishes
<1>5. ASSUME NEW x \in Outcomes, NEW i \in Queued(q)', events'[i].result = x PROVE x = o
  <2>1. i \in 1 .. (Len(events) + 1) /\ events'[i].request = q
    BY <1>3, <1>5 DEF Queued
  <2>2. i \notin 1 .. Len(events)
    BY <1>3, <1>4, <2>1 DEF Queued
  <2> QED
    BY <1>3, <1>5, <2>1, <2>2
<1>6. \A x \in Outcomes : received'[q] # x
  BY <1>4 DEF Outcomes
<1> QED
  BY <1>1, <1>2, <1>5, <1>6 DEF AnswerIs

LEMMA CommittedStep ==
  /\ Types /\ WorkMatchesTask /\ ExactlyOneEvent /\ ExactlyOneEvent'
  /\ CommittedIsReported /\ [Next]_vars
  => CommittedIsReported'
<1> SUFFICES ASSUME Types, WorkMatchesTask, ExactlyOneEvent, ExactlyOneEvent',
                    CommittedIsReported, [Next]_vars, NEW q \in Committing
             PROVE  /\ AnswerIs(q, "Cancelled")' \/ AnswerIs(q, "Timeout")'
                         => work'[q] \in {"none", "aborted"}
                    /\ AnswerIs(q, "Value")' => work'[q] = "ok"
                    /\ AnswerIs(q, "WorkerFailure")' => work'[q] = "error"
                    /\ ~AnswerIs(q, "ProcessFailure")'
  BY DEF CommittedIsReported
<1>0. q \in Requests
  BY DEF Requests, Jobs
<1>1. CASE Answered(q)
  <2>1. \A x \in Outcomes : AnswerIs(q, x)' => AnswerIs(q, x)
    BY <1>0, <1>1, AnswersAreFinal
  <2>2. work'[q] = work[q]
    BY <1>1, AnsweredWorkIsOver
  <2> QED
    BY <2>1, <2>2 DEF CommittedIsReported, Outcomes
<1>2. CASE ~Answered(q) /\ ~Answered(q)'
  <2>1. \A x \in Outcomes : ~AnswerIs(q, x)'
    BY <1>0, <1>2 DEF ExactlyOneEvent, AnswerIs, Outcomes
  <2> QED
    BY <2>1 DEF Outcomes
<1>3. CASE ~Answered(q) /\ Answered(q)'
  <2>1. PICK o \in Outcomes : Publishes(q, o) /\ \A x \in Outcomes : AnswerIs(q, x)' => x = o
    BY <1>0, <1>3, NewAnswer
  <2>2. /\ o \in {"Cancelled", "Timeout"} => work'[q] \in {"none", "aborted"}
        /\ o = "Value" => work'[q] = "ok"
        /\ o = "WorkerFailure" => work'[q] = "error"
        /\ o # "ProcessFailure"
    BY <1>3, <2>1, CommittedPublishesTruth
  <2> QED
    BY <2>1, <2>2 DEF Outcomes
<1> QED
  BY <1>1, <1>2, <1>3

-----------------------------------------------------------------------------
(* The answers that the host sees, and the promise about them. *)

\* The answer of a request is the outcome its event carries, and there is one
\* exactly when the task answered.
AnswersMean ==
  \A q \in Requests :
    /\ Answer[q] \in Outcomes \cup {"none"}
    /\ Answered(q) <=> Answer[q] # "none"
    /\ \A x \in Outcomes : AnswerIs(q, x) <=> Answer[q] = x

LEMMA AnswerMeaning == Types /\ ExactlyOneEvent => AnswersMean
<1> SUFFICES ASSUME Types, ExactlyOneEvent, NEW q \in Requests
             PROVE  /\ Answer[q] \in Outcomes \cup {"none"}
                    /\ Answered(q) <=> Answer[q] # "none"
                    /\ \A x \in Outcomes : AnswerIs(q, x) <=> Answer[q] = x
  BY DEF AnswersMean
<1>1. received[q] \in Outcomes \cup {"none"} /\ "none" \notin Outcomes
  BY DEF Types, Outcomes
<1>2. \A i \in Queued(q) : events[i].result \in Outcomes
  <2>1. \A i \in DOMAIN events : events[i] \in Event
    BY DEF Types
  <2> QED
    BY <2>1 DEF Queued, Event
<1>3. CASE received[q] # "none"
  <2>1. Answer[q] = received[q] /\ Queued(q) = {} /\ Answered(q)
    BY <1>3 DEF Answer, ExactlyOneEvent
  <2> QED
    BY <1>1, <1>3, <2>1 DEF AnswerIs
<1>4. CASE received[q] = "none" /\ Queued(q) # {}
  <2>1. PICK i \in Queued(q) : TRUE
    BY <1>4
  <2>2. \A j \in Queued(q) : j = i
    BY <2>1 DEF ExactlyOneEvent
  <2>3. (CHOOSE j \in Queued(q) : TRUE) = i
    BY <2>1, <2>2
  <2>4. Answer[q] = events[i].result /\ Answered(q)
    BY <1>4, <2>3 DEF Answer, ExactlyOneEvent
  <2> QED
    BY <1>1, <1>2, <1>4, <2>1, <2>2, <2>4 DEF AnswerIs
<1>5. CASE received[q] = "none" /\ Queued(q) = {}
  <2>1. Answer[q] = "none" /\ ~Answered(q)
    BY <1>5 DEF Answer, ExactlyOneEvent
  <2> QED
    BY <1>1, <1>5, <2>1 DEF AnswerIs
<1> QED
  BY <1>3, <1>4, <1>5

\* The same about the next state.
LEMMA NextAnswerMeaning == Types' /\ ExactlyOneEvent' => AnswersMean'
BY AnswerMeaning, PTL

\* A step that answers nobody else keeps an answer.
LEMMA KeptAnswer ==
  ASSUME IInv, IInv', [Next]_vars, NEW q \in Requests, Answered(q)' <=> Answered(q)
  PROVE  Answer'[q] = Answer[q]
<1> USE DEF IInv
<1>1. CASE Answered(q)
  <2>1. PICK x \in Outcomes : Answer'[q] = x
    BY <1>1, NextAnswerMeaning DEF AnswersMean
  <2>2. AnswerIs(q, x)'
    BY <2>1, NextAnswerMeaning DEF AnswersMean
  <2>3. AnswerIs(q, x)
    BY <1>1, <2>2, AnswersAreFinal
  <2> QED
    BY <2>1, <2>3, AnswerMeaning DEF AnswersMean
<1>2. CASE ~Answered(q)
  BY <1>2, AnswerMeaning, NextAnswerMeaning DEF AnswersMean
<1> QED
  BY <1>1, <1>2

LEMMA QuietAnswers ==
  ASSUME IInv, IInv', [Next]_vars, \A q \in Requests : Answered(q)' <=> Answered(q)
  PROVE  Answer' = Answer
<1>1. \A q \in Requests : Answer'[q] = Answer[q]
  BY KeptAnswer
<1>2. /\ Answer = [q \in Requests |-> Answer[q]]
      /\ Answer' = [q \in Requests |-> Answer'[q]]
  BY DEF Answer
<1> QED
  BY <1>1, <1>2

LEMMA PublicationAnswers ==
  ASSUME IInv, IInv', [Next]_vars,
         NEW r \in Requests, NEW o \in Outcomes, ~Answered(r), Publishes(r, o)
  PROVE  Answer' = [Answer EXCEPT ![r] = o]
<1> USE DEF IInv
<1>1. \A q \in Requests : q # r => Answer'[q] = Answer[q]
  <2> SUFFICES ASSUME NEW q \in Requests, q # r PROVE Answer'[q] = Answer[q]
    OBVIOUS
  <2>1. Answered(q)' <=> Answered(q)
    BY DEF Publishes, Publish, Answered, Types
  <2> QED
    BY <2>1, KeptAnswer
<1>2. AnswerIs(r, o)'
  <2>1. /\ Len(events) + 1 \in DOMAIN events'
        /\ events'[Len(events) + 1].request = r /\ events'[Len(events) + 1].result = o
    BY PublishedQueue DEF Publishes
  <2> QED
    BY <2>1 DEF AnswerIs, Queued
<1>3. Answer'[r] = o
  BY <1>2, NextAnswerMeaning DEF AnswersMean
<1>4. /\ Answer = [q \in Requests |-> Answer[q]]
      /\ Answer' = [q \in Requests |-> Answer'[q]]
  BY DEF Answer
<1> QED
  BY <1>1, <1>3, <1>4

-----------------------------------------------------------------------------
(* The refinement of RequestPromise, step by step. *)

StatusOf(state) ==
  IF state \in {"joining", "finished"} THEN "answered"
  ELSE IF state = "refused" THEN "refused"
  ELSE IF state \in {"none", "reserved"} THEN "new" ELSE "accepted"

EffectOf(state) ==
  IF state = "running" THEN "open" ELSE IF state \in {"ok", "error"} THEN state ELSE "none"

StatusesOf == Status = [q \in Requests |-> StatusOf(task[q])]
EffectsOf == Effect = [q \in Requests |-> IF q \in Committing THEN EffectOf(work[q]) ELSE "none"]

LEMMA StatusForm == StatusesOf
BY DEF StatusesOf, Status, StatusOf, Answered

LEMMA EffectForm == EffectsOf
BY DEF EffectsOf, Effect, EffectOf

LEMMA NextForms == StatusesOf' /\ EffectsOf'
BY StatusForm, EffectForm, PTL

LEMMA StatusMeaning ==
  ASSUME NEW r \in Requests
  PROVE  /\ Status[r] = StatusOf(task[r])
         /\ Effect[r] = IF r \in Committing THEN EffectOf(work[r]) ELSE "none"
BY StatusForm, EffectForm DEF StatusesOf, EffectsOf

\* What the caller sees changes with the request of the step only.
LEMMA StatusChange ==
  ASSUME Types, NEW r \in Requests, NEW state \in TaskStates, task' = [task EXCEPT ![r] = state]
  PROVE  Status' = [Status EXCEPT ![r] = StatusOf(state)]
<1>1. task'[r] = state /\ \A q \in Requests : q # r => task'[q] = task[q]
  BY DEF Types
<1> QED
  BY <1>1, StatusForm, NextForms DEF StatusesOf

LEMMA StatusKept ==
  ASSUME Types, NEW r \in Requests, NEW state \in TaskStates,
         task' = [task EXCEPT ![r] = state], StatusOf(state) = StatusOf(task[r])
  PROVE  Status' = Status
<1>1. task'[r] = state /\ \A q \in Requests : q # r => task'[q] = task[q]
  BY DEF Types
<1> QED
  BY <1>1, StatusForm, NextForms DEF StatusesOf

LEMMA EffectChange ==
  ASSUME Types, NEW r \in Committing, NEW state \in WorkStates, work' = [work EXCEPT ![r] = state]
  PROVE  Effect' = [Effect EXCEPT ![r] = EffectOf(state)]
<1>1. work'[r] = state /\ \A q \in Requests : q # r => work'[q] = work[q]
  BY DEF Types, Requests, Jobs
<1> QED
  BY <1>1, EffectForm, NextForms DEF EffectsOf

LEMMA EffectKept ==
  ASSUME \A q \in Committing : EffectOf(work'[q]) = EffectOf(work[q])
  PROVE  Effect' = Effect
BY EffectForm, NextForms DEF EffectsOf

\* A step that the caller does not see.
Unseen == UNCHANGED <<Status, Answer, Effect>>

LEMMA PromiseRequests == Promise!Requests = Requests
BY DEF Promise!Requests, Requests, Jobs

\* The initial states are those of the promise.
LEMMA PromiseInit == Init => Promise!Init
<1> SUFFICES ASSUME Init PROVE Promise!Init
  OBVIOUS
<1>1. Status = [q \in Requests |-> "new"]
  BY DEF Init, Status, Answered
<1>2. Effect = [q \in Requests |-> "none"]
  BY DEF Init, Effect
<1>3. \A q \in Requests : received[q] = "none" /\ Queued(q) = {}
  BY DEF Init, Queued
<1>4. Answer = [q \in Requests |-> "none"]
  BY <1>3 DEF Answer
<1> QED
  BY <1>1, <1>2, <1>4, PromiseRequests DEF Promise!Init

\* Submission: a refusal is a Refuse, a spawned task an Accept.
LEMMA PromiseSubmission ==
  ASSUME IInv, IInv', [Next]_vars, NEW r \in Requests, Submission(r)
  PROVE  Promise!Refuse(r) \/ Promise!Accept(r) \/ Unseen
<1>1. Types
  BY DEF IInv
<1>2. UNCHANGED <<work, events, received>> /\ Effect' = Effect
  BY DEF Submission, RefuseSubmission, RefuseBounds, ReserveResultSlot, RefusePermit,
         SpawnTask, Effect
<1>3. Answer' = Answer
  BY <1>2 DEF Answer, Queued
<1>4. CASE RefuseSubmission(r) \/ RefuseBounds(r) \/ RefusePermit(r)
  <2>1. Status[r] = "new" /\ task' = [task EXCEPT ![r] = "refused"]
    BY <1>4, StatusMeaning DEF RefuseSubmission, RefuseBounds, RefusePermit, StatusOf
  <2>2. Status' = [Status EXCEPT ![r] = "refused"]
    BY <1>1, <2>1, StatusChange DEF TaskStates, StatusOf
  <2> QED
    BY <1>2, <1>3, <2>1, <2>2 DEF Promise!Refuse
<1>5. CASE ReserveResultSlot(r)
  <2>1. Status' = Status
    BY <1>1, <1>5, StatusKept DEF ReserveResultSlot, TaskStates, StatusOf
  <2> QED
    BY <1>2, <1>3, <2>1 DEF Unseen
<1>6. CASE SpawnTask(r)
  <2>1. Status[r] = "new" /\ task' = [task EXCEPT ![r] = "spawned"]
    BY <1>6, StatusMeaning DEF SpawnTask, StatusOf
  <2>2. Status' = [Status EXCEPT ![r] = "accepted"]
    BY <1>1, <2>1, StatusChange DEF TaskStates, StatusOf
  <2> QED
    BY <1>2, <1>3, <2>1, <2>2 DEF Promise!Accept
<1> QED
  BY <1>4, <1>5, <1>6 DEF Submission

\* A publication is the one Reply, and it tells the truth.
LEMMA PromiseReply ==
  ASSUME IInv, IInv', [Next]_vars,
         NEW r \in Requests, NEW o \in Outcomes, ~Answered(r), Publishes(r, o)
  PROVE  Promise!Reply(r)
<1> USE RequestsAssumption
<1>1. Types /\ WorkMatchesTask
  BY DEF IInv
<1>2. Answer' = [Answer EXCEPT ![r] = o]
  BY PublicationAnswers
<1>3. task[r] \in {"spawned", "waiting", "polled", "aborting"} /\ task' = [task EXCEPT ![r] = "joining"]
  BY DEF Publishes, Publish, StartTask, PollStopped, Expire, Complete, CompleteAborted
<1>4. Status[r] = "accepted" /\ Status' = [Status EXCEPT ![r] = "answered"]
  BY <1>1, <1>3, StatusMeaning, StatusChange DEF StatusOf, TaskStates
<1>5. \A q \in Committing : work'[q] = work[q]
  <2>1. CASE r \in Committing
    BY <1>1, <2>1 DEF Publishes, StartTask, Complete, CompleteAborted
  <2>2. CASE r \notin Committing
    BY <1>1, <1>3, <2>2 DEF Publishes, StartTask, PollStopped, Expire, KillChild, Complete,
                            CompleteAborted, Types, Requests, Jobs
  <2> QED
    BY <2>1, <2>2
<1>6. Effect' = Effect
  BY <1>5, EffectKept
<1>7. Promise!Truthful(r, o)
  <2> SUFFICES ASSUME r \in Committing PROVE Promise!Truthful(r, o)
    BY DEF Promise!Truthful
  <2>1. /\ o \in {"Cancelled", "Timeout"} => work[r] \in {"none", "aborted"}
        /\ o = "Value" => work[r] = "ok"
        /\ o = "WorkerFailure" => work[r] = "error"
        /\ o # "ProcessFailure"
    BY <1>1, <1>5, CommittedPublishesTruth
  <2>2. Effect[r] = EffectOf(work[r])
    BY StatusMeaning
  <2> QED
    BY <2>1, <2>2 DEF Promise!Truthful, EffectOf, Outcomes
<1> QED
  BY <1>2, <1>4, <1>6, <1>7 DEF Promise!Reply, Outcomes

\* The closure of a committing job starts and ends while its request is
\* accepted and unanswered.
LEMMA PromiseEffect ==
  ASSUME IInv, IInv', [Next]_vars, NEW r \in Requests, WorkStep(r)
  PROVE  Promise!OpenEffect(r) \/ Promise!CloseEffect(r) \/ Unseen
<1> USE RequestsAssumption
<1>1. Types /\ WorkMatchesTask
  BY DEF IInv
<1>2. UNCHANGED <<task, events, received>>
  BY DEF WorkStep, StartClosure, EndWork
<1>3. Status' = Status /\ Answer' = Answer
  BY <1>2 DEF Status, Answered, Answer, Queued
<1>4. CASE r \notin Committing
  <2>1. \A q \in Committing : work'[q] = work[q]
    BY <1>1, <1>4 DEF WorkStep, StartClosure, EndWork, Types, Requests, Jobs
  <2> QED
    BY <1>3, <2>1, EffectKept DEF Unseen
<1>5. CASE r \in Committing
  <2>1. task[r] \in {"waiting", "polled", "aborting"}
    BY <1>1, <1>5 DEF WorkStep, StartClosure, EndWork, Types, TaskStates, WorkMatchesTask,
                      Busy, Requests, Jobs
  <2>2. Status[r] = "accepted" /\ Effect[r] = EffectOf(work[r])
    BY <1>5, <2>1, StatusMeaning DEF StatusOf
  <2>3. CASE StartClosure(r)
    <3>1. Effect[r] = "none" /\ Effect' = [Effect EXCEPT ![r] = "open"]
      BY <1>1, <1>5, <2>2, <2>3, EffectChange DEF StartClosure, EffectOf, WorkStates
    <3> QED
      BY <1>3, <1>5, <2>2, <3>1 DEF Promise!OpenEffect
  <2>4. CASE EndWork(r)
    <3>1. PICK end \in {"ok", "error"} : work' = [work EXCEPT ![r] = end]
      BY <2>4 DEF EndWork
    <3>2. Effect[r] = "open" /\ Effect' = [Effect EXCEPT ![r] = end]
      BY <1>1, <1>5, <2>2, <2>4, <3>1, EffectChange DEF EndWork, EffectOf, WorkStates
    <3> QED
      BY <1>3, <2>2, <3>2 DEF Promise!CloseEffect
  <2> QED
    BY <2>3, <2>4 DEF WorkStep
<1> QED
  BY <1>4, <1>5

\* The rest of a task is unseen.
LEMMA UnseenStep ==
  ASSUME Types, NEW r \in Requests, NEW state \in TaskStates,
         task' = [task EXCEPT ![r] = state], StatusOf(state) = StatusOf(task[r]),
         \A q \in Committing : EffectOf(work'[q]) = EffectOf(work[q]),
         UNCHANGED <<events, received>>
  PROVE  Unseen
<1>1. Status' = Status
  BY StatusKept
<1>2. Effect' = Effect
  BY EffectKept
<1>3. Answer' = Answer
  BY DEF Answer, Queued
<1> QED
  BY <1>1, <1>2, <1>3 DEF Unseen

\* A committing job that is stopped: its closure is withdrawn or goes on.
LEMMA UnseenAbort ==
  ASSUME IInv, NEW r \in Committing, NEW reason, task[r] \in {"waiting", "polled"},
         Abort(r, reason), UNCHANGED received
  PROVE  Unseen
<1>1. Types /\ r \in Requests
  BY DEF IInv, Requests, Jobs
<1>2. task' = [task EXCEPT ![r] = "aborting"] /\ StatusOf("aborting") = StatusOf(task[r])
  BY DEF Abort, StatusOf
<1>3. \A q \in Committing : EffectOf(work'[q]) = EffectOf(work[q])
  BY <1>1 DEF Abort, EffectOf, Types, Requests, Jobs
<1> QED
  BY <1>1, <1>2, <1>3, UnseenStep DEF Abort, TaskStates

LEMMA PromiseTask ==
  ASSUME IInv, IInv', [Next]_vars, NEW r \in Requests, TaskStep(r) \/ Expire(r)
  PROVE  Promise!Reply(r) \/ Unseen
<1> USE RequestsAssumption
<1>1. Types /\ WorkMatchesTask
  BY DEF IInv
<1>2. ASSUME NEW o \in Outcomes, ~Answered(r), Publishes(r, o) PROVE Promise!Reply(r)
  BY <1>2, PromiseReply
<1>3. CASE StartTask(r)
  <2>1. CASE Stopped(r)
    BY <1>2, <1>3, <2>1 DEF StartTask, Publishes, Answered, Outcomes
  <2>2. CASE ~Stopped(r)
    <3>1. /\ task' = [task EXCEPT ![r] = "waiting"] /\ StatusOf("waiting") = StatusOf(task[r])
          /\ UNCHANGED <<events, received>>
      BY <1>3, <2>2 DEF StartTask, StatusOf
    <3>2. \A q \in Committing : EffectOf(work'[q]) = EffectOf(work[q])
      BY <1>1, <1>3, <2>2 DEF StartTask, EffectOf, Types, WorkMatchesTask, Requests, Jobs
    <3> QED
      BY <1>1, <3>1, <3>2, UnseenStep DEF TaskStates
  <2> QED
    BY <2>1, <2>2
<1>4. CASE PollStopped(r)
  <2>1. CASE r \in Committing
    BY <1>4, <2>1, UnseenAbort DEF PollStopped, Requests, Jobs
  <2>2. CASE r \notin Committing
    BY <1>2, <1>4, <2>2 DEF PollStopped, Publishes, Answered, Outcomes
  <2> QED
    BY <2>1, <2>2
<1>5. CASE Expire(r)
  <2>1. CASE r \in Committing
    BY <1>5, <2>1, UnseenAbort DEF Expire, Requests, Jobs
  <2>2. CASE r \notin Committing
    BY <1>2, <1>5, <2>2 DEF Expire, Publishes, Answered, Outcomes
  <2> QED
    BY <2>1, <2>2
<1>6. CASE PollRunning(r)
  <2>1. /\ task' = [task EXCEPT ![r] = "polled"] /\ StatusOf("polled") = StatusOf(task[r])
        /\ UNCHANGED <<events, received>>
    BY <1>6 DEF PollRunning, StatusOf
  <2>2. \A q \in Committing : work'[q] = work[q]
    BY <1>1, <1>6 DEF PollRunning, Types, Requests, Jobs
  <2> QED
    BY <1>1, <2>1, <2>2, UnseenStep DEF TaskStates
<1>7. CASE Wake(r)
  <2>1. task' = [task EXCEPT ![r] = "waiting"] /\ StatusOf("waiting") = StatusOf(task[r])
    BY <1>7 DEF Wake, StatusOf
  <2> QED
    BY <1>1, <1>7, <2>1, UnseenStep DEF Wake, TaskStates
<1>8. CASE Complete(r)
  BY <1>1, <1>2, <1>8, PublishedOutcomes DEF Complete, Publishes, Answered
<1>9. CASE MapPanics(r)
  <2>1. task' = [task EXCEPT ![r] = "lost"] /\ StatusOf("lost") = StatusOf(task[r])
    BY <1>9 DEF MapPanics, StatusOf
  <2> QED
    BY <1>1, <1>9, <2>1, UnseenStep DEF MapPanics, TaskStates
<1>10. CASE CompleteAborted(r)
  BY <1>1, <1>2, <1>10, PublishedOutcomes DEF CompleteAborted, Publishes, Answered
<1>11. CASE FinishTask(r)
  <2>1. task' = [task EXCEPT ![r] = "finished"] /\ StatusOf("finished") = StatusOf(task[r])
    BY <1>11 DEF FinishTask, StatusOf
  <2> QED
    BY <1>1, <1>11, <2>1, UnseenStep DEF FinishTask, TaskStates
<1> QED
  BY <1>3, <1>4, <1>5, <1>6, <1>7, <1>8, <1>9, <1>10, <1>11 DEF TaskStep

\* Every step of the runtime is one of the promise, or unseen.
LEMMA PromiseStep ==
  ASSUME IInv, IInv', [Next]_vars
  PROVE  [Promise!Next]_Promise!vars
<1>1. ASSUME Unseen PROVE [Promise!Next]_Promise!vars
  BY <1>1 DEF Unseen, Promise!vars
<1>2. ASSUME NEW r \in Requests,
             \/ Promise!Refuse(r) \/ Promise!Accept(r) \/ Promise!OpenEffect(r)
             \/ Promise!CloseEffect(r) \/ Promise!Reply(r)
      PROVE  [Promise!Next]_Promise!vars
  BY <1>2, PromiseRequests DEF Promise!Next
<1>3. ASSUME NEW r \in Requests, Submission(r) PROVE [Promise!Next]_Promise!vars
  BY <1>1, <1>2, <1>3, PromiseSubmission
<1>4. ASSUME NEW r \in Requests, TaskStep(r) \/ Expire(r) PROVE [Promise!Next]_Promise!vars
  BY <1>1, <1>2, <1>4, PromiseTask
<1>5. ASSUME NEW r \in Requests, WorkStep(r) PROVE [Promise!Next]_Promise!vars
  BY <1>1, <1>2, <1>5, PromiseEffect
<1>6. CASE BeginShutdown \/ UNCHANGED vars \/ \E r \in Requests : Cancel(r)
  <2>1. UNCHANGED <<task, work, events, received>>
    BY <1>6 DEF BeginShutdown, vars, Cancel
  <2>2. UNCHANGED <<Status, Effect, Answer>>
    BY <2>1 DEF Status, Answered, Effect, Answer, Queued
  <2> QED
    BY <1>1, <2>2 DEF Unseen
<1>7. CASE Receive
  <2>1. UNCHANGED <<task, work>>
    BY <1>7 DEF Receive
  <2>2. UNCHANGED <<Status, Effect>>
    BY <2>1 DEF Status, Answered, Effect
  <2>3. \A q \in Requests : Answered(q)' <=> Answered(q)
    BY <2>1 DEF Answered
  <2>4. Answer' = Answer
    BY <2>3, QuietAnswers
  <2> QED
    BY <1>1, <2>2, <2>4 DEF Unseen
<1> QED
  BY <1>3, <1>4, <1>5, <1>6, <1>7 DEF Next

-----------------------------------------------------------------------------
(* The theorems. *)

\* The conjunction of the parts is an invariant of every behaviour.
THEOREM InductiveInvariant == Spec => []IInv
<1>1. Init => IInv
  BY TypesInit, WorkMatchesTaskInit, SlotsInit, PermitsInit, AnswersInit DEF IInv
<1>2. IInv /\ [Next]_vars => IInv'
  BY TypesStep, WorkMatchesTaskStep, SlotsStep, PermitsStep, ExactlyOneStep, CommittedStep
  DEF IInv
<1> QED
  BY <1>1, <1>2, PTL DEF Spec

\* The counters never leave their bounds: neither a reservation nor a permit
\* is taken that does not exist, and none is returned twice.
THEOREM TypeCorrect == Spec => []TypeOK
<1>1. ASSUME IInv PROVE TypeOK
  <2>1. Cardinality(HoldsSlot) \in Nat /\ Len(events) \in Nat
    BY <1>1, RequestCardinality DEF IInv, Types, HoldsSlot
  <2>2. Cardinality(JobTasks) \in Nat /\ Cardinality(CommandTasks) \in Nat
    BY RequestCardinality DEF JobTasks, CommandTasks, Tracked
  <2>3. freeSlots <= EventQueue
    BY <1>1, <2>1, LimitsAssumption DEF IInv, Types, ResultSlotsAccounted
  <2>4. workerPermits <= Workers /\ processPermits <= Processes
    BY <1>1, <2>2, LimitsAssumption DEF IInv, Types, PermitsAccounted
  <2> QED
    BY <1>1, <2>3, <2>4, LimitsAssumption DEF IInv, Types, TypeOK
<1> QED
  BY <1>1, InductiveInvariant, PTL

\* A reserved slot is never lost or doubled, for every number of requests and
\* every queue size.
THEOREM SlotsAreAccounted == Spec => []ResultSlotsAccounted
<1>1. IInv => ResultSlotsAccounted
  BY DEF IInv
<1> QED
  BY <1>1, InductiveInvariant, PTL

\* One answer for each request that was answered, none for any other.
THEOREM OneEventForEachRequest == Spec => []ExactlyOneEvent
<1>1. IInv => ExactlyOneEvent
  BY DEF IInv
<1> QED
  BY <1>1, InductiveInvariant, PTL

\* No durable effect is answered with Cancelled or Timeout.
THEOREM CommitsAreReported == Spec => []CommittedIsReported
<1>1. IInv => CommittedIsReported
  BY DEF IInv
<1> QED
  BY <1>1, InductiveInvariant, PTL

\* Threads and children, the ones whose request was answered included, stay
\* within the limits: work that is not over belongs to a tracked task.
THEOREM WorkStaysWithinLimits == Spec => []WorkWithinLimits
<1>1. ASSUME IInv PROVE WorkWithinLimits
  <2>1. {r \in Jobs : Busy(r)} \subseteq JobTasks /\ {r \in Commands : Busy(r)} \subseteq CommandTasks
    BY <1>1 DEF IInv, Types, WorkMatchesTask, Busy, JobTasks, CommandTasks, Tracked,
                TaskStates, Requests
  <2>2. JobTasks \in SUBSET Requests /\ CommandTasks \in SUBSET Requests
    BY DEF JobTasks, CommandTasks, Tracked
  <2>3. /\ Cardinality({r \in Jobs : Busy(r)}) <= Cardinality(JobTasks)
        /\ Cardinality({r \in Commands : Busy(r)}) <= Cardinality(CommandTasks)
    BY <2>1, <2>2, RequestCardinality, FS_Subset
  <2>4. /\ Cardinality(JobTasks) \in Nat
        /\ Cardinality(CommandTasks) \in Nat
        /\ Cardinality({r \in Jobs : Busy(r)}) \in Nat
        /\ Cardinality({r \in Commands : Busy(r)}) \in Nat
    BY <2>1, <2>2, RequestCardinality
  <2> QED
    BY <1>1, <2>3, <2>4, LimitsAssumption DEF IInv, Types, PermitsAccounted, WorkWithinLimits
<1> QED
  BY <1>1, InductiveInvariant, PTL

\* When the drain returns, no thread, no child and no permit is outstanding.
THEOREM DrainIsComplete == Spec => []DrainLeavesNothing
<1>1. ASSUME IInv, Drained PROVE DrainLeavesNothing
  <2>1. \A r \in Requests : task[r] \notin {"spawned", "waiting", "polled", "aborting", "joining"}
    BY <1>1 DEF Drained, Tracked
  <2>2. \A r \in Requests : ~Busy(r)
    BY <1>1, <2>1 DEF IInv, Types, TaskStates, WorkMatchesTask, Busy
  <2>3. JobTasks = {} /\ CommandTasks = {}
    BY <1>1 DEF Drained, JobTasks, CommandTasks
  <2>4. Cardinality(JobTasks) = 0 /\ Cardinality(CommandTasks) = 0
    BY <2>3, FS_EmptySet
  <2>5. workerPermits = Workers /\ processPermits = Processes
    BY <1>1, <2>4 DEF IInv, Types, PermitsAccounted
  <2>6. \A r \in Requests : task[r] = "finished" => received[r] # "none" \/ Queued(r) # {}
    BY <1>1 DEF IInv, ExactlyOneEvent, Answered
  <2> QED
    BY <2>2, <2>5, <2>6 DEF DrainLeavesNothing
<1>2. IInv => DrainLeavesNothing
  BY <1>1 DEF DrainLeavesNothing
<1> QED
  BY <1>2, InductiveInvariant, PTL

\* No step publishes the value of an optional job that was cancelled before.
THEOREM ObsoleteValuesStay == Spec => NoObsoleteValue
<1>1. ASSUME IInv, IInv', [Next]_vars, NEW r \in Optional, AnswerIs(r, "Value")', ~AnswerIs(r, "Value")
      PROVE  r \notin cancelled
  <2>1. r \in Requests /\ r \notin Committing
    BY RequestsAssumption DEF Requests, Jobs
  <2>2. ~Answered(r)
    BY <1>1, <2>1, AnswersAreFinal DEF IInv, Outcomes
  <2>3. Answered(r)'
    BY <1>1, <2>1 DEF IInv, ExactlyOneEvent, AnswerIs
  <2>4. PICK o \in Outcomes : Publishes(r, o) /\ \A x \in Outcomes : AnswerIs(r, x)' => x = o
    BY <1>1, <2>1, <2>2, <2>3, NewAnswer DEF IInv
  <2>5. o = "Value"
    BY <1>1, <2>4 DEF Outcomes
  <2>6. task[r] # "aborting"
    BY <1>1, <2>1 DEF IInv, WorkMatchesTask
  <2>7. Complete(r) /\ ResultOf(r) = "Value"
    BY <2>4, <2>5, <2>6 DEF Publishes, CompleteAborted
  <2> QED
    BY <1>1, <2>7 DEF ResultOf
<1>2. IInv /\ IInv' /\ [Next]_vars =>
        [\A r \in Optional : AnswerIs(r, "Value")' /\ ~AnswerIs(r, "Value") => r \notin cancelled]_vars
  BY <1>1
<1> QED
  BY <1>2, InductiveInvariant, PTL DEF Spec, NoObsoleteValue

\* The runtime implements its promise: seen through Status, Answer and Effect,
\* every behaviour is one that RequestPromise allows.
THEOREM PromiseIsKept == Spec => KeepsPromise
<1>1. IInv /\ IInv' /\ [Next]_vars => [Promise!Next]_Promise!vars
  BY PromiseStep
<1> QED
  BY <1>1, PromiseInit, InductiveInvariant, PTL DEF Spec, KeepsPromise, Promise!Spec
=============================================================================
