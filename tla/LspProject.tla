------------------------------- MODULE LspProject -----------------------------
(***************************************************************************)
(* The language-server projects of one host: the manager and its budget,   *)
(* the handle and the driver of each project, the bounded supervisor of    *)
(* each server (src/crates/kvim-lsp/src/project.rs), and the process it    *)
(* starts, shuts down, kills and reaps (process.rs).                       *)
(*                                                                         *)
(* An opening of a project is one member of Drivers, so a project that was *)
(* closed and opened again may still have the driver of its earlier        *)
(* opening.  Every deadline is a step that may happen at any time.  The    *)
(* conversation is the time from the handshake to the failure of the       *)
(* server, its own end, or the cancellation.                               *)
(***************************************************************************)
EXTENDS Integers, Sequences, FiniteSets, FiniteSetsExt

CONSTANTS
  Projects,
  Drivers,       \* bound of the model: the openings
  Servers,       \* the servers that each project declares
  ProjectsMax,   \* ManagerLimits::projects
  ProcessesMax,  \* ManagerLimits::processes
  QueueMax,      \* LSP_EVENT_QUEUE_CAPACITY
  RestartsMax    \* LSP_RESTARTS_MAX

ProjectAssumption ==
  /\ IsFiniteSet(Drivers) /\ IsFiniteSet(Servers)
  /\ {ProjectsMax, ProcessesMax, QueueMax} \subseteq Nat \ {0} /\ RestartsMax \in Nat

VARIABLES
  manager,   \* the open projects and the processes they reserved
  handle,    \* the host side of each opening
  cancelled, \* the openings whose token is cancelled
  driver,    \* the future of each opening
  results,   \* the queue from the supervisors to the handle
  super,     \* the supervisor of each server
  child,     \* the process of the current attempt
  leftover   \* the processes of closed attempts that are dying

vars == <<manager, handle, cancelled, driver, results, super, child, leftover>>

Event(s, kind, generation) == [server |-> s, kind |-> kind, generation |-> generation]
Ended == [pc |-> "ended", generation |-> 0, stops |-> FALSE]
Begun(generation) == [pc |-> "attempt", generation |-> generation, stops |-> FALSE]

Init ==
  /\ manager = [open |-> {}, processes |-> 0]
  /\ handle = [d \in Drivers |-> [state |-> "none", project |-> "none"]]
  /\ cancelled = {}
  /\ driver = [d \in Drivers |-> "none"]
  /\ results = [d \in Drivers |-> <<>>]
  /\ super = [d \in Drivers |-> [s \in Servers |-> Ended]]
  /\ child = [d \in Drivers |-> [s \in Servers |-> "none"]]
  /\ leftover = [d \in Drivers |-> 0]

-----------------------------------------------------------------------------
(* The host: manager, handle and driver. *)

processes == <<super, child, leftover>>

\* Mutant: the identity of an open project is not checked.
ReserveTwice(p) ==
  /\ Cardinality(manager.open) + 1 <= ProjectsMax
  /\ manager.processes + Cardinality(Servers) <= ProcessesMax
\* reserve: a refused project reserves nothing.
MayReserve(p) ==
  /\ p \notin manager.open
  /\ Cardinality(manager.open) + 1 <= ProjectsMax
  /\ manager.processes + Cardinality(Servers) <= ProcessesMax

Open(d, p) ==
  /\ handle[d].state = "none" /\ MayReserve(p)
  /\ \A e \in Drivers : e < d => handle[e].state # "none"
  /\ manager' = [open |-> manager.open \cup {p},
                 processes |-> manager.processes + Cardinality(Servers)]
  /\ handle' = [handle EXCEPT ![d] = [state |-> "held", project |-> p]]
  /\ driver' = [driver EXCEPT ![d] = "ready"]
  /\ UNCHANGED <<cancelled, results, processes>>

Run(d) ==
  /\ driver[d] = "ready"
  /\ driver' = [driver EXCEPT ![d] = "running"]
  /\ super' = [super EXCEPT ![d] = [s \in Servers |-> Begun(0)]]
  /\ UNCHANGED <<manager, handle, cancelled, results, child, leftover>>

Live(c) == c \in {"running", "killed"}

\* Every lifecycle asks its process to end when it is dropped.
Kill(c) == IF c = "running" THEN "killed" ELSE c

\* Mutant: the future of the driver leaves its processes alone.
DropDriverOnly(d) ==
  /\ driver[d] \in {"ready", "running"}
  /\ driver' = [driver EXCEPT ![d] = "dropped"]
  /\ super' = [super EXCEPT ![d] = [s \in Servers |-> Ended]]
  /\ UNCHANGED <<manager, handle, cancelled, results, child, leftover>>
DropDriver(d) ==
  /\ driver[d] \in {"ready", "running"}
  /\ driver' = [driver EXCEPT ![d] = "dropped"]
  /\ super' = [super EXCEPT ![d] = [s \in Servers |-> Ended]]
  /\ child' = [child EXCEPT ![d] = [s \in Servers |-> Kill(@[s])]]
  /\ UNCHANGED <<manager, handle, cancelled, results, leftover>>

\* The lease and the receiver go with the handle.
Released(d) ==
  /\ handle' = [handle EXCEPT ![d].state = "gone"]
  /\ manager' = [open |-> manager.open \ {handle[d].project},
                 processes |-> manager.processes - Cardinality(Servers)]
  /\ results' = [results EXCEPT ![d] = <<>>]

DropHandle(d) ==
  /\ handle[d].state = "held" /\ Released(d)
  /\ cancelled' = cancelled \cup {d}
  /\ UNCHANGED <<driver, processes>>

Close(d) ==
  /\ handle[d].state = "held"
  /\ handle' = [handle EXCEPT ![d].state = "closing"]
  /\ cancelled' = cancelled \cup {d}
  /\ UNCHANGED <<manager, driver, results, processes>>

\* The driver ended, or LSP_PROJECT_CLOSE_DEADLINE passed.
CloseReturns(d) ==
  /\ handle[d].state = "closing" /\ Released(d)
  /\ UNCHANGED <<cancelled, driver, processes>>

Cancel(d) ==
  /\ handle[d].state = "held" /\ d \notin cancelled
  /\ cancelled' = cancelled \cup {d}
  /\ UNCHANGED <<manager, handle, driver, results, processes>>

Recv(d) ==
  /\ handle[d].state = "held" /\ results[d] # <<>>
  /\ results' = [results EXCEPT ![d] = Tail(@)]
  /\ UNCHANGED <<manager, handle, cancelled, driver, processes>>

\* join_all, and the guard that tells a waiting close
DriverEnds(d) ==
  /\ driver[d] = "running" /\ \A s \in Servers : super[d][s].pc = "ended"
  /\ driver' = [driver EXCEPT ![d] = "finished"]
  /\ UNCHANGED <<manager, handle, cancelled, results, processes>>

-----------------------------------------------------------------------------
(* The supervisor of one server. *)

host == <<manager, handle, cancelled, driver>>

At(d, s, pc) == driver[d] = "running" /\ super[d][s].pc = pc
To(d, s, pc) == super' = [super EXCEPT ![d][s].pc = pc]
ToClose(d, s, stops) ==
  super' = [super EXCEPT ![d][s] = [pc |-> "close", generation |-> @.generation, stops |-> stops]]

\* Mutant: a record waits for a reader that is gone.
RecordForRoom(d, e) ==
  /\ Len(results[d]) < QueueMax
  /\ results' = [results EXCEPT ![d] = Append(@, e)]
\* record: it waits for room, and fails at once when the receiver is gone.
Record(d, e) ==
  \/ /\ handle[d].state # "gone" /\ Len(results[d]) < QueueMax
     /\ results' = [results EXCEPT ![d] = Append(@, e)]
  \/ handle[d].state = "gone" /\ UNCHANGED results

\* report: try_send, so a full queue loses it.
Report(d, e) ==
  results' = IF handle[d].state # "gone" /\ Len(results[d]) < QueueMax
             THEN [results EXCEPT ![d] = Append(@, e)] ELSE results

\* The process and the tasks that read its streams.
Spawn(d, s) == To(d, s, "handshake") /\ child' = [child EXCEPT ![d][s] = "running"]

\* A program that is not installed is not tried again; a failed start is.
Unstarted(d, s) ==
  /\ UNCHANGED child
  /\ To(d, s, "record unavailable") \/ To(d, s, "record failed")

Attempt(d, s) ==
  /\ At(d, s, "attempt")
  /\ IF d \in cancelled
     THEN To(d, s, "record stopped") /\ UNCHANGED child
     ELSE Spawn(d, s) \/ Unstarted(d, s)
  /\ UNCHANGED <<host, results, leftover>>

\* initialize: ready, cancelled, or failed
Handshake(d, s) ==
  /\ At(d, s, "handshake")
  /\ \/ /\ d \notin cancelled /\ child[d][s] = "running"
        /\ To(d, s, "record started")
     \/ ToClose(d, s, d \in cancelled)
  /\ UNCHANGED <<host, results, child, leftover>>

RecordStarted(d, s) ==
  /\ At(d, s, "record started")
  /\ Record(d, Event(s, "started", super[d][s].generation)) /\ To(d, s, "serve")
  /\ UNCHANGED <<host, child, leftover>>

\* The conversation ends, cancelled or not, or the server fails.
ServeEnds(d, s) ==
  /\ At(d, s, "serve")
  /\ \E stops \in BOOLEAN : ToClose(d, s, stops)
  /\ UNCHANGED <<host, results, child, leftover>>

AfterClose(d, s) == IF super[d][s].stops THEN "record stopped" ELSE "record failed"

\* shutdown_until and the graceful wait: the process ends within its deadline.
Graceful(d, s) ==
  /\ At(d, s, "close") /\ super[d][s].stops
  /\ child' = [child EXCEPT ![d][s] = "none"] /\ To(d, s, AfterClose(d, s))
  /\ UNCHANGED <<host, results, leftover>>

\* Mutant: only a process that was asked to stop is waited for.
ForceStopped(d, s) ==
  /\ At(d, s, "close")
  /\ IF super[d][s].stops
     THEN /\ child' = [child EXCEPT ![d][s] = Kill(@)] /\ To(d, s, "reap")
     ELSE UNCHANGED child /\ To(d, s, "reap")
  /\ UNCHANGED <<host, results, leftover>>
\* Immediate, or past the graceful deadline.
ForceStop(d, s) ==
  /\ At(d, s, "close")
  /\ child' = [child EXCEPT ![d][s] = Kill(@)] /\ To(d, s, "reap")
  /\ UNCHANGED <<host, results, leftover>>

Reaped(d, s) ==
  /\ At(d, s, "reap") /\ ~Live(child[d][s])
  /\ child' = [child EXCEPT ![d][s] = "none"] /\ To(d, s, AfterClose(d, s))
  /\ UNCHANGED <<host, results, leftover>>

\* LSP_FORCED_CLEANUP_DEADLINE: the attempt goes on without the process.
ReapTimesOut(d, s) ==
  /\ At(d, s, "reap") /\ Live(child[d][s])
  /\ Report(d, Event(s, "cleanup", super[d][s].generation))
  /\ child' = [child EXCEPT ![d][s] = "none"]
  /\ leftover' = [leftover EXCEPT ![d] = @ + 1]
  /\ To(d, s, AfterClose(d, s))
  /\ UNCHANGED host

RecordFailed(d, s) ==
  /\ At(d, s, "record failed")
  /\ Record(d, Event(s, "failed", super[d][s].generation))
  /\ To(d, s, IF super[d][s].generation >= RestartsMax \/ d \in cancelled
              THEN "record stopped" ELSE "record restarted")
  /\ UNCHANGED <<host, child, leftover>>

RecordRestarted(d, s) ==
  /\ At(d, s, "record restarted")
  /\ LET next == super[d][s].generation + 1
     IN /\ Record(d, Event(s, "restarted", next))
        /\ super' = [super EXCEPT ![d][s] = Begun(next)]
  /\ UNCHANGED <<host, child, leftover>>

RecordEnd(d, s) ==
  /\ At(d, s, "record stopped") \/ At(d, s, "record unavailable")
  /\ Record(d, Event(s, IF super[d][s].pc = "record stopped" THEN "stopped" ELSE "unavailable",
                     super[d][s].generation))
  /\ super' = [super EXCEPT ![d][s] = Ended]
  /\ UNCHANGED <<host, child, leftover>>

-----------------------------------------------------------------------------
(* The processes: one may end at any time; a killed one does in the end. *)

ChildExits(d, s) ==
  /\ Live(child[d][s])
  /\ child' = [child EXCEPT ![d][s] = "gone"]
  /\ UNCHANGED <<host, results, super, leftover>>

LeftoverExits(d) ==
  /\ leftover[d] > 0
  /\ leftover' = [leftover EXCEPT ![d] = @ - 1]
  /\ UNCHANGED <<host, results, super, child>>

-----------------------------------------------------------------------------
Host(d) ==
  \/ \E p \in Projects : Open(d, p)
  \/ Run(d) \/ DropDriver(d) \/ DropHandle(d) \/ Close(d) \/ Cancel(d) \/ Recv(d)

Supervise(d, s) ==
  \/ Attempt(d, s) \/ Handshake(d, s) \/ RecordStarted(d, s)
  \/ Graceful(d, s) \/ ForceStop(d, s) \/ Reaped(d, s) \/ ReapTimesOut(d, s)
  \/ RecordFailed(d, s) \/ RecordRestarted(d, s) \/ RecordEnd(d, s)

Next ==
  \E d \in Drivers :
    \/ Host(d) \/ CloseReturns(d) \/ DriverEnds(d) \/ LeftoverExits(d)
    \/ \E s \in Servers : Supervise(d, s) \/ ServeEnds(d, s) \/ ChildExits(d, s)

Spec == Init /\ [][Next]_vars

\* A running driver is polled, its conversations end when they are cancelled, a
\* killed process dies, and a close returns.  The host need not read, close or
\* drop anything, and a driver that never ran need not run.
FairSpec ==
  /\ Spec
  /\ \A d \in Drivers :
       /\ WF_vars(CloseReturns(d)) /\ WF_vars(DriverEnds(d)) /\ WF_vars(LeftoverExits(d))
       /\ \A s \in Servers :
            /\ WF_vars(Supervise(d, s)) /\ WF_vars(d \in cancelled /\ ServeEnds(d, s))
            /\ WF_vars(child[d][s] = "killed" /\ ChildExits(d, s))

-----------------------------------------------------------------------------
(* Properties *)

States == {"none", "held", "closing", "gone"}
Futures == {"none", "ready", "running", "finished", "dropped"}
Points == {"attempt", "handshake", "record started", "serve", "close", "reap", "record failed",
           "record restarted", "record stopped", "record unavailable", "ended"}
Kinds == {"started", "cleanup", "failed", "restarted", "stopped", "unavailable"}
Generations == 0 .. RestartsMax

Supervisor == [pc : Points, generation : Generations, stops : BOOLEAN]
Child == {"none", "running", "killed", "gone"}
Queue == Seq([server : Servers, kind : Kinds, generation : Generations])

\* The counters stay within the limits of the manager, of the queue and of the
\* restarts.
TypeOK ==
  /\ manager \in [open : SUBSET Projects, processes : 0 .. ProcessesMax]
  /\ handle \in [Drivers -> [state : States, project : Projects \cup {"none"}]]
  /\ cancelled \in SUBSET Drivers
  /\ driver \in [Drivers -> Futures]
  /\ results \in [Drivers -> Queue] /\ \A d \in Drivers : Len(results[d]) <= QueueMax
  /\ super \in [Drivers -> [Servers -> Supervisor]]
  /\ child \in [Drivers -> [Servers -> Child]]
  /\ leftover \in [Drivers -> Nat]

\* The budget of the manager is exactly what the handles that still exist
\* reserved, one opening for each open project, and it stays within the limits.
BudgetIsHeld ==
  LET held == {d \in Drivers : handle[d].state \in {"held", "closing"}}
  IN /\ manager.open = {handle[d].project : d \in held}
     /\ Cardinality(manager.open) = Cardinality(held) /\ Cardinality(held) <= ProjectsMax
     /\ manager.processes = Cardinality(held) * Cardinality(Servers)

\* No process is left alone: one that nobody asked to end belongs to an attempt
\* of a running driver that will, and one server never has two of them.
ChildrenAreOwned ==
  \A d \in Drivers, s \in Servers :
    child[d][s] = "running" =>
      /\ driver[d] = "running"
      /\ super[d][s].pc \in {"handshake", "record started", "serve", "close"}

\* The budget is held and every process is owned.
ProjectInvariant == TypeOK /\ BudgetIsHeld /\ ChildrenAreOwned

\* A project whose handle is gone ends, although nobody reads its results and
\* the queue may be full: its driver finishes and every process dies.
DroppedProjectEnds ==
  \A d \in Drivers :
    (handle[d].state = "gone" /\ driver[d] = "running") ~>
      (driver[d] # "running" /\ leftover[d] = 0 /\ \A s \in Servers : ~Live(child[d][s]))

\* What ProjectHandle::cancellation says: the token alone ends the project.
CancelledProjectEnds ==
  \A d \in Drivers : (d \in cancelled /\ driver[d] = "running") ~> (driver[d] # "running")
=============================================================================
