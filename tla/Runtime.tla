------------------------------ MODULE Runtime ------------------------------
(***************************************************************************)
(* The bounded background-work service of kvim-runtime                     *)
(* (src/crates/kvim-runtime/src/lib.rs).                                   *)
(*                                                                         *)
(* A host submits worker jobs and external commands.  A submission never   *)
(* waits: it reserves one slot of the result queue, then one worker or     *)
(* process permit, and spawns a task that owns both.  The task races the   *)
(* work against the cancellation token of the request, the shutdown token  *)
(* of the runtime and a deadline, publishes one event into its reserved    *)
(* slot, and keeps its permit until the blocking thread has ended.         *)
(*                                                                         *)
(* Steps of different requests interleave freely: the tasks run on a       *)
(* multi-threaded executor, the closures on the blocking pool, and the     *)
(* tokens are set from any thread.  Deadlines are nondeterministic.  The   *)
(* contents of a value, of a command and of its output are left out.       *)
(***************************************************************************)
EXTENDS Integers, Sequences, FiniteSets

CONSTANTS
  Optional,     \* worker jobs that change no durable state
  Committing,   \* worker jobs whose closure can commit a durable effect
  Commands,     \* external commands of the process service
  EventQueue,   \* RuntimeLimits.event_queue
  Workers,      \* RuntimeLimits.workers
  Processes,    \* RuntimeLimits.processes
  MapMayPanic   \* whether the caller's mapping of a process output can panic

Jobs == Optional \cup Committing
Requests == Jobs \cup Commands

ASSUME RequestsAssumption ==
  /\ IsFiniteSet(Requests)
  /\ Optional \cap Committing = {}
  /\ Jobs \cap Commands = {}

\* RuntimeLimits::new refuses a zero limit.
ASSUME LimitsAssumption ==
  /\ EventQueue \in Nat \ {0}
  /\ Workers \in Nat \ {0}
  /\ Processes \in Nat \ {0}

ASSUME MapAssumption == MapMayPanic \in BOOLEAN

VARIABLES
  shutdown,        \* the shutting_down flag and the shutdown token
  cancelled,       \* the requests whose cancellation token is set
  task,            \* where the task of each request stands
  work,            \* the blocking closure or the child process of a request
  stop,            \* pre_commit_stop of a committing task that is aborting
  freeSlots,       \* free slots of the bounded result channel
  workerPermits,   \* free permits of the worker semaphore
  processPermits,  \* free permits of the process semaphore
  events,          \* the result channel
  received         \* what the host has taken out of the channel

vars == <<shutdown, cancelled, task, work, stop, freeSlots, workerPermits,
          processPermits, events, received>>

Outcomes == {"Value", "Cancelled", "Timeout", "WorkerFailure", "ProcessFailure"}
Event == [request : Requests, result : Outcomes]

\* none: not submitted.  reserved: it holds a slot, not yet a permit.
\* spawned: the tracked task exists.  waiting: about to poll its select.
\* polled: this poll has found both tokens unset.  aborting: awaiting the
\* aborted closure.  joining: published, the closure may still run.
\* lost: the task panicked in the caller's mapping.
TaskStates == {"none", "refused", "reserved", "spawned", "waiting", "polled",
               "aborting", "joining", "finished", "lost"}
WorkStates == {"none", "queued", "running", "ok", "error", "aborted"}

HoldsSlot == {r \in Requests :
                task[r] \in {"reserved", "spawned", "waiting", "polled", "aborting"}}
Tracked == {r \in Requests :
              task[r] \in {"spawned", "waiting", "polled", "aborting", "joining"}}
JobTasks == Tracked \cap Jobs
CommandTasks == Tracked \cap Commands
Answered(r) == task[r] \in {"joining", "finished"}
Busy(r) == work[r] \in {"queued", "running"}
Stopped(r) == shutdown \/ r \in cancelled

Init ==
  /\ shutdown = FALSE
  /\ cancelled = {}
  /\ task = [r \in Requests |-> "none"]
  /\ work = [r \in Requests |-> "none"]
  /\ stop = [r \in Requests |-> "none"]
  /\ freeSlots = EventQueue
  /\ workerPermits = Workers
  /\ processPermits = Processes
  /\ events = <<>>
  /\ received = [r \in Requests |-> "none"]

-----------------------------------------------------------------------------
(* Submission.  submit_worker, submit_committing_worker and submit_process *)
(* share this shape.  The methods take a shared reference, so another      *)
(* submission can run between the two reservations.                        *)

\* ensure_running and reserve_result_slot, refused.
RefuseSubmission(r) ==
  /\ task[r] = "none"
  /\ shutdown \/ freeSlots = 0
  /\ task' = [task EXCEPT ![r] = "refused"]
  /\ UNCHANGED <<shutdown, cancelled, work, stop, freeSlots, workerPermits,
                 processPermits, events, received>>

\* A command past PROCESS_INPUT_BYTES_MAX or PROCESS_OUTPUT_BYTES_MAX.
RefuseBounds(r) ==
  /\ r \in Commands
  /\ task[r] = "none"
  /\ task' = [task EXCEPT ![r] = "refused"]
  /\ UNCHANGED <<shutdown, cancelled, work, stop, freeSlots, workerPermits,
                 processPermits, events, received>>

ReserveResultSlot(r) ==
  /\ task[r] = "none"
  /\ ~shutdown
  /\ freeSlots > 0
  /\ freeSlots' = freeSlots - 1
  /\ task' = [task EXCEPT ![r] = "reserved"]
  /\ UNCHANGED <<shutdown, cancelled, work, stop, workerPermits, processPermits,
                 events, received>>

\* Mutant: the refused submission forgets its reserved slot.
RefusePermitLeak(r) ==
  /\ task[r] = "reserved"
  /\ IF r \in Jobs THEN workerPermits = 0 ELSE processPermits = 0
  /\ task' = [task EXCEPT ![r] = "refused"]
  /\ UNCHANGED <<shutdown, cancelled, work, stop, freeSlots, workerPermits,
                 processPermits, events, received>>

\* Saturated(Workers) or Saturated(Processes): the dropped reservation
\* returns its slot to the channel.
RefusePermit(r) ==
  /\ task[r] = "reserved"
  /\ IF r \in Jobs THEN workerPermits = 0 ELSE processPermits = 0
  /\ freeSlots' = freeSlots + 1
  /\ task' = [task EXCEPT ![r] = "refused"]
  /\ UNCHANGED <<shutdown, cancelled, work, stop, workerPermits, processPermits,
                 events, received>>

\* Mutant: the permit is taken without asking whether one is free.
SpawnTaskUnbounded(r) ==
  /\ task[r] = "reserved"
  /\ IF r \in Jobs
       THEN workerPermits' = workerPermits - 1 /\ UNCHANGED processPermits
       ELSE processPermits' = processPermits - 1 /\ UNCHANGED workerPermits
  /\ task' = [task EXCEPT ![r] = "spawned"]
  /\ UNCHANGED <<shutdown, cancelled, work, stop, freeSlots, events, received>>

SpawnTask(r) ==
  /\ task[r] = "reserved"
  /\ IF r \in Jobs
       THEN /\ workerPermits > 0
            /\ workerPermits' = workerPermits - 1
            /\ UNCHANGED processPermits
       ELSE /\ processPermits > 0
            /\ processPermits' = processPermits - 1
            /\ UNCHANGED workerPermits
  /\ task' = [task EXCEPT ![r] = "spawned"]
  /\ UNCHANGED <<shutdown, cancelled, work, stop, freeSlots, events, received>>

-----------------------------------------------------------------------------
(* Tokens. *)

\* Any holder of the handle: a displacing request, the gate, the host; and
\* the propagation of the shutdown token to the child token of a request.
Cancel(r) ==
  /\ r \notin cancelled
  /\ cancelled' = cancelled \cup {r}
  /\ UNCHANGED <<shutdown, task, work, stop, freeSlots, workerPermits,
                 processPermits, events, received>>

\* begin_shutdown consumes the runtime, so no submission is under way.
BeginShutdown ==
  /\ ~shutdown
  /\ \A r \in Requests : task[r] # "reserved"
  /\ shutdown' = TRUE
  /\ UNCHANGED <<cancelled, task, work, stop, freeSlots, workerPermits,
                 processPermits, events, received>>

-----------------------------------------------------------------------------
(* The task of one request. *)

\* Mutant: the event is sent through the channel, not into the reserved slot.
PublishUnreserved(r, outcome) ==
  /\ freeSlots > 0
  /\ events' = Append(events, [request |-> r, result |-> outcome])
  /\ task' = [task EXCEPT ![r] = "joining"]

\* result_slot.send: the reserved slot now holds the event.
Publish(r, outcome) ==
  /\ events' = Append(events, [request |-> r, result |-> outcome])
  /\ task' = [task EXCEPT ![r] = "joining"]

\* The check before the closure or the child starts.
StartTask(r) ==
  /\ task[r] = "spawned"
  /\ IF Stopped(r)
       THEN /\ Publish(r, "Cancelled")
            /\ UNCHANGED work
       ELSE /\ task' = [task EXCEPT ![r] = "waiting"]
            /\ work' = IF r \in Jobs THEN [work EXCEPT ![r] = "queued"] ELSE work
            /\ UNCHANGED events
  /\ UNCHANGED <<shutdown, cancelled, stop, freeSlots, workerPermits,
                 processPermits, received>>

\* worker.abort() withdraws a queued closure and leaves a started one alone.
Abort(r, reason) ==
  /\ work' = IF work[r] = "queued" THEN [work EXCEPT ![r] = "aborted"] ELSE work
  /\ stop' = [stop EXCEPT ![r] = reason]
  /\ task' = [task EXCEPT ![r] = "aborting"]
  /\ UNCHANGED events

\* Dropping the process future kills a child that still runs.
KillChild(r) ==
  work' = IF work[r] = "running" THEN [work EXCEPT ![r] = "aborted"] ELSE work

\* Mutant: a committing job is stopped like an optional one.
PollStoppedOptional(r) ==
  /\ task[r] = "waiting"
  /\ Stopped(r)
  /\ cancelled' = cancelled \cup {r}
  /\ IF r \in Commands THEN KillChild(r) ELSE UNCHANGED work
  /\ Publish(r, "Cancelled")
  /\ UNCHANGED <<shutdown, stop, freeSlots, workerPermits, processPermits, received>>

\* The select is biased: a poll looks at the two tokens first.
PollStopped(r) ==
  /\ task[r] = "waiting"
  /\ Stopped(r)
  /\ \/ /\ r \in Optional
        /\ cancelled' = cancelled \cup {r}
        /\ Publish(r, "Cancelled")
        /\ UNCHANGED <<work, stop>>
     \/ /\ r \in Committing
        /\ Abort(r, "Cancelled")
        /\ UNCHANGED cancelled
     \/ /\ r \in Commands
        /\ cancelled' = cancelled \cup {r}
        /\ KillChild(r)
        /\ Publish(r, "Cancelled")
        /\ UNCHANGED stop
  /\ UNCHANGED <<shutdown, freeSlots, workerPermits, processPermits, received>>

\* Both tokens were unset: the poll goes on to the timer and the work.  The
\* first poll of a command spawns the child, which can fail.
PollRunning(r) ==
  /\ task[r] = "waiting"
  /\ ~Stopped(r)
  /\ task' = [task EXCEPT ![r] = "polled"]
  /\ IF r \in Commands /\ work[r] = "none"
       THEN \E started \in {"running", "error"} :
              work' = [work EXCEPT ![r] = started]
       ELSE UNCHANGED work
  /\ UNCHANGED <<shutdown, cancelled, stop, freeSlots, workerPermits,
                 processPermits, events, received>>

\* A token woke the task before the work ended: the next poll starts over.
Wake(r) ==
  /\ task[r] = "polled"
  /\ Stopped(r)
  /\ Busy(r)
  /\ task' = [task EXCEPT ![r] = "waiting"]
  /\ UNCHANGED <<shutdown, cancelled, work, stop, freeSlots, workerPermits,
                 processPermits, events, received>>

\* The deadline.  time::timeout prefers finished work; the sleep of a
\* committing task is polled before its closure.
Expire(r) ==
  /\ task[r] = "polled"
  /\ \/ /\ r \in Optional
        /\ Busy(r)
        /\ cancelled' = cancelled \cup {r}
        /\ Publish(r, "Timeout")
        /\ UNCHANGED <<work, stop>>
     \/ /\ r \in Committing
        /\ Abort(r, "Timeout")
        /\ UNCHANGED cancelled
     \/ /\ r \in Commands
        /\ Busy(r)
        /\ KillChild(r)
        /\ Publish(r, "Timeout")
        /\ UNCHANGED <<cancelled, stop>>
  /\ UNCHANGED <<shutdown, freeSlots, workerPermits, processPermits, received>>

\* Mutant: the guard against a value that finished after cancellation is gone.
ResultOfObsolete(r) ==
  CASE work[r] = "ok" -> "Value"
    [] work[r] = "error" /\ r \in Jobs -> "WorkerFailure"
    [] OTHER -> "ProcessFailure"

\* What finished work publishes when the select resolves to it.
ResultOf(r) ==
  CASE work[r] = "ok" /\ r \in Optional /\ r \in cancelled -> "Cancelled"
    [] work[r] = "ok" /\ ~(r \in Optional /\ r \in cancelled) -> "Value"
    [] work[r] = "error" /\ r \in Jobs -> "WorkerFailure"
    [] OTHER -> "ProcessFailure"

Complete(r) ==
  /\ task[r] = "polled"
  /\ work[r] \in {"ok", "error"}
  /\ Publish(r, ResultOf(r))
  /\ UNCHANGED <<shutdown, cancelled, work, stop, freeSlots, workerPermits,
                 processPermits, received>>

\* The caller's mapping of the output panics: the task unwinds and drops its
\* reservation and its permit.
MapPanics(r) ==
  /\ MapMayPanic
  /\ task[r] = "polled"
  /\ r \in Commands
  /\ work[r] = "ok"
  /\ task' = [task EXCEPT ![r] = "lost"]
  /\ freeSlots' = freeSlots + 1
  /\ processPermits' = processPermits + 1
  /\ UNCHANGED <<shutdown, cancelled, work, stop, workerPermits, events, received>>

\* Mutant: the stop reason hides what the started closure did.
ResultOfAbortedStop(r) == stop[r]

\* The join of an aborted committing closure.  A closure that had started
\* reports what it did; only a withdrawn one reports the stop reason.
ResultOfAborted(r) ==
  CASE work[r] = "ok" -> "Value"
    [] work[r] = "error" -> "WorkerFailure"
    [] OTHER -> stop[r]

CompleteAborted(r) ==
  /\ task[r] = "aborting"
  /\ ~Busy(r)
  /\ Publish(r, ResultOfAborted(r))
  /\ UNCHANGED <<shutdown, cancelled, work, stop, freeSlots, workerPermits,
                 processPermits, received>>

\* Mutant: the permit is dropped while the blocking thread still runs.
FinishTaskEarly(r) ==
  /\ task[r] = "joining"
  /\ task' = [task EXCEPT ![r] = "finished"]
  /\ IF r \in Jobs
       THEN workerPermits' = workerPermits + 1 /\ UNCHANGED processPermits
       ELSE processPermits' = processPermits + 1 /\ UNCHANGED workerPermits
  /\ UNCHANGED <<shutdown, cancelled, work, stop, freeSlots, events, received>>

\* Mutant: the task waits until the host has taken its event.
FinishTaskOnceReceived(r) ==
  /\ task[r] = "joining"
  /\ ~Busy(r)
  /\ received[r] # "none"
  /\ task' = [task EXCEPT ![r] = "finished"]
  /\ IF r \in Jobs
       THEN workerPermits' = workerPermits + 1 /\ UNCHANGED processPermits
       ELSE processPermits' = processPermits + 1 /\ UNCHANGED workerPermits
  /\ UNCHANGED <<shutdown, cancelled, work, stop, freeSlots, events, received>>

\* The task returns and drops its permit, after the blocking thread ended.
FinishTask(r) ==
  /\ task[r] = "joining"
  /\ ~Busy(r)
  /\ task' = [task EXCEPT ![r] = "finished"]
  /\ IF r \in Jobs
       THEN workerPermits' = workerPermits + 1 /\ UNCHANGED processPermits
       ELSE processPermits' = processPermits + 1 /\ UNCHANGED workerPermits
  /\ UNCHANGED <<shutdown, cancelled, work, stop, freeSlots, events, received>>

-----------------------------------------------------------------------------
(* The blocking pool and the child processes. *)

StartClosure(r) ==
  /\ work[r] = "queued"
  /\ work' = [work EXCEPT ![r] = "running"]
  /\ UNCHANGED <<shutdown, cancelled, task, stop, freeSlots, workerPermits,
                 processPermits, events, received>>

\* The closure returns or panics; the child exits, fails or overflows its
\* output limit.
EndWork(r) ==
  /\ work[r] = "running"
  /\ \E end \in {"ok", "error"} : work' = [work EXCEPT ![r] = end]
  /\ UNCHANGED <<shutdown, cancelled, task, stop, freeSlots, workerPermits,
                 processPermits, events, received>>

-----------------------------------------------------------------------------
(* The host loop. *)

\* EventReceiver::recv and try_recv free the slot of the event they return.
Receive ==
  /\ events # <<>>
  /\ received' = [received EXCEPT ![Head(events).request] = Head(events).result]
  /\ events' = Tail(events)
  /\ freeSlots' = freeSlots + 1
  /\ UNCHANGED <<shutdown, cancelled, task, work, stop, workerPermits, processPermits>>

Submission(r) ==
  \/ RefuseSubmission(r)
  \/ RefuseBounds(r)
  \/ ReserveResultSlot(r)
  \/ RefusePermit(r)
  \/ SpawnTask(r)

TaskStep(r) ==
  \/ StartTask(r)
  \/ PollStopped(r)
  \/ PollRunning(r)
  \/ Wake(r)
  \/ Complete(r)
  \/ MapPanics(r)
  \/ CompleteAborted(r)
  \/ FinishTask(r)

WorkStep(r) == StartClosure(r) \/ EndWork(r)

Next ==
  \/ \E r \in Requests :
       Submission(r) \/ Cancel(r) \/ TaskStep(r) \/ Expire(r) \/ WorkStep(r)
  \/ BeginShutdown
  \/ Receive

Spec == Init /\ [][Next]_vars

\* The executor polls a woken task and the blocking pool starts and ends a
\* queued closure.  Neither the deadline nor the host is fair: no result may
\* depend on them.
FairSpec ==
  /\ Spec
  /\ \A r \in Requests : WF_vars(TaskStep(r)) /\ WF_vars(WorkStep(r))

-----------------------------------------------------------------------------
(* Correctness. *)

TypeOK ==
  /\ shutdown \in BOOLEAN
  /\ cancelled \in SUBSET Requests
  /\ task \in [Requests -> TaskStates]
  /\ work \in [Requests -> WorkStates]
  /\ stop \in [Requests -> {"none", "Cancelled", "Timeout"}]
  /\ freeSlots \in 0 .. EventQueue
  /\ workerPermits \in 0 .. Workers
  /\ processPermits \in 0 .. Processes
  /\ events \in Seq(Event)
  /\ received \in [Requests -> Outcomes \cup {"none"}]

\* Every slot of the result queue is free, holds an event, or is reserved by
\* exactly one request: no refusal and no outcome leaks or doubles a slot, so
\* a publication always finds its slot.
ResultSlotsAccounted ==
  freeSlots + Len(events) + Cardinality(HoldsSlot) = EventQueue

\* Every permit is free or owned by one tracked task.
PermitsAccounted ==
  /\ workerPermits + Cardinality(JobTasks) = Workers
  /\ processPermits + Cardinality(CommandTasks) = Processes

\* A permit outlives the published answer: threads and children that still
\* work after their request was answered count against the limit.
WorkWithinLimits ==
  /\ Cardinality({r \in Jobs : Busy(r)}) <= Workers
  /\ Cardinality({r \in Commands : Busy(r)}) <= Processes

\* The outcome of r that is on its way to the host or has reached it.
Queued(r) == {i \in DOMAIN events : events[i].request = r}
AnswerIs(r, outcome) ==
  \/ received[r] = outcome
  \/ \E i \in Queued(r) : events[i].result = outcome

\* "Every accepted request produces exactly one RuntimeEvent" (lib.rs, module
\* comment), the half that is safety: a request has one event from the moment
\* its task has published and none before, and none twice.
ExactlyOneEvent ==
  \A r \in Requests :
    /\ \A i, j \in Queued(r) : i = j
    /\ received[r] # "none" => Queued(r) = {}
    /\ (received[r] # "none" \/ Queued(r) # {}) <=> Answered(r)

\* "Starting the closure is the commit point": a committing job answered
\* Cancelled or Timeout never started and never will; a job that ran to its
\* end is answered with what it did.
CommittedIsReported ==
  \A r \in Committing :
    /\ AnswerIs(r, "Cancelled") \/ AnswerIs(r, "Timeout")
         => work[r] \in {"none", "aborted"}
    /\ AnswerIs(r, "Value") => work[r] = "ok"
    /\ AnswerIs(r, "WorkerFailure") => work[r] = "error"
    /\ ~AnswerIs(r, "ProcessFailure")

\* RuntimeDrain::wait returned.
Drained == shutdown /\ Tracked = {}

\* What the host may rely on after the drain: no thread and no child is left,
\* every permit is back, and the answer of every finished task waits in the
\* queue unless the host already took it.
DrainLeavesNothing ==
  Drained =>
    /\ \A r \in Requests : ~Busy(r)
    /\ workerPermits = Workers
    /\ processPermits = Processes
    /\ \A r \in Requests :
         task[r] = "finished" => received[r] # "none" \/ Queued(r) # {}

\* A value that finished after cancellation is obsolete by decision: no step
\* publishes the value of an optional job whose token is already set.
NoObsoleteValue ==
  [][\A r \in Optional :
       AnswerIs(r, "Value")' /\ ~AnswerIs(r, "Value") => r \notin cancelled]_vars

\* Where the task of a request stands bounds where its work can stand.  The
\* invariants above rest on it: nothing runs before the task has looked at
\* the tokens, and a committing task answers only about work that is over.
WorkMatchesTask ==
  \A r \in Requests :
    /\ task[r] \in {"none", "refused", "reserved", "spawned"} => work[r] = "none"
    /\ task[r] = "waiting" => work[r] # "aborted" /\ (r \in Jobs => work[r] # "none")
    /\ task[r] = "polled" => work[r] \notin {"none", "aborted"}
    /\ task[r] = "aborting" =>
         /\ r \in Committing
         /\ stop[r] # "none"
         /\ work[r] \notin {"none", "queued"}
    /\ task[r] = "joining" /\ r \notin Optional => ~Busy(r)
    /\ task[r] \in {"finished", "lost"} => ~Busy(r)
    /\ task[r] = "lost" => r \in Commands
    /\ work[r] = "queued" => r \in Jobs

\* The rest of "guaranteed": an accepted request is answered although the
\* host never takes an event out of the queue, unless the caller's mapping of
\* a process output panics.
AcceptedIsAnswered ==
  \A r \in Requests : (task[r] = "spawned") ~> (Answered(r) \/ task[r] = "lost")

\* Shutdown ends: the drain finishes although the host takes no event.
ShutdownDrains == shutdown ~> Drained

-----------------------------------------------------------------------------
(* Sentences of the documentation that the code does not keep. *)

\* "Every accepted request produces exactly one RuntimeEvent" (lib.rs, module
\* comment), without that exception.
EveryRequestIsAnswered ==
  \A r \in Requests : (task[r] = "spawned") ~> Answered(r)

-----------------------------------------------------------------------------
(* The promise of the service, as one request sees it. *)

Status == [r \in Requests |->
             IF Answered(r) THEN "answered"
             ELSE IF task[r] = "refused" THEN "refused"
             ELSE IF task[r] \in {"none", "reserved"} THEN "new" ELSE "accepted"]

Answer == [r \in Requests |->
             IF received[r] # "none" THEN received[r]
             ELSE IF Queued(r) # {} THEN events[CHOOSE i \in Queued(r) : TRUE].result
             ELSE "none"]

Effect == [r \in Requests |->
             IF r \notin Committing THEN "none"
             ELSE IF work[r] = "running" THEN "open"
             ELSE IF work[r] \in {"ok", "error"} THEN work[r] ELSE "none"]

Promise == INSTANCE RequestPromise WITH
             Ordinary <- Requests \ Committing, status <- Status,
             answer <- Answer, effect <- Effect

\* The runtime implements the promise: every behaviour, seen through Status,
\* Answer and Effect, is one the abstract specification allows.
KeepsPromise == Promise!Spec
=============================================================================
