----------------------------- MODULE DiagnosticsHub ---------------------------
(***************************************************************************)
(* The changed-file diagnostics of one warm project: concurrent calls of   *)
(* changed_file share one request slot, and one conversation per server    *)
(* fills its own slot of the running job through starts, restarts, pulls,  *)
(* refreshes and late publications                                         *)
(* (src/crates/kvim-lsp/src/diagnostics.rs).                               *)
(*                                                                         *)
(* A job has the identity of the call that created it.  A text is its      *)
(* revision, an answer is the set of revisions its content describes, and  *)
(* every deadline is a step that may happen at any time.  The two locks of *)
(* the hub, the servers and the active job, are taken in separate steps.   *)
(* Limits of sizes, paths, languages and the order of the merged list are  *)
(* left out, but for the choice of servers that a language makes.          *)
(***************************************************************************)
EXTENDS Integers, FiniteSets

CONSTANTS
  Calls,        \* the calls of changed_file; Nat, 0 is no call
  Servers,
  Policies,     \* the completion policies that a server may declare
  RevisionMax,  \* bound of the model: the revisions asked for
  RestartsMax,  \* LSP_RESTARTS_MAX
  PullsMax      \* LSP_DIAGNOSTIC_REFRESH_PULLS_MAX

HubAssumption ==
  /\ Calls \subseteq Nat \ {0} /\ IsFiniteSet(Servers)
  /\ Policies \subseteq {"pull", "refresh", "push", "unsupported"}
  /\ RevisionMax \in Nat /\ RestartsMax \in Nat /\ PullsMax \in Nat \ {0}

VARIABLES
  call,       \* the callers
  job,        \* the jobs, by the call that created them
  active,     \* the job in the request slot of the hub, or 0
  late,       \* the calls, and with them their jobs, whose deadline passed
  server,     \* each server: its supervisor, its conversation, its liveness
  cancelled,  \* the project was cancelled
  missed      \* history: servers that ended between the choice and the install

vars == <<call, job, active, late, server, cancelled, missed>>

Revisions == 1 .. RevisionMax
Terminal == {"unavailable", "stopped"}

\* The terminal outcomes of a slot; an answer names what its content describes.
Ready(revs) == [kind |-> "ready", revs |-> revs]
Refusal(kind) == [kind |-> kind, revs |-> {}]
Open == Refusal("open")
Unselected == Refusal("unselected")

ConversationAt(at, j, target) ==
  [at |-> at, job |-> j, target |-> target, pulls |-> 0, pending |-> FALSE, empty |-> FALSE]
Idle == ConversationAt("rest", 0, "none")

Init ==
  /\ call = [r \in Calls |-> [pc |-> "idle", rev |-> 0, job |-> 0, immediate |-> FALSE,
                              supersede |-> FALSE, outcome |-> "none"]]
  /\ job = [r \in Calls |-> [slots |-> [s \in Servers |-> Unselected], state |-> "none"]]
  /\ active = 0 /\ late = {} /\ cancelled = FALSE /\ missed = {}
  /\ \E policy \in [Servers -> Policies] :
       server = [s \in Servers |->
         [policy |-> policy[s], state |-> "starting", restarts |-> 0, liveness |-> "starting",
          owes |-> FALSE, news |-> FALSE, warm |-> FALSE, conv |-> Idle]]

-----------------------------------------------------------------------------
(* Jobs. *)

OpenSlots(j) == {s \in Servers : j.slots[s].kind = "open"}

\* complete_if_ready
Completed(j) ==
  IF j.state = "running" /\ OpenSlots(j) = {} THEN [j EXCEPT !.state = "ready"] ELSE j

\* end
End(j, why) == IF j.state = "running" THEN [j EXCEPT !.state = why] ELSE j

\* Mutant: a later outcome replaces the first.
FillAgain(j, s, outcome) ==
  IF j.slots[s] = Unselected THEN j ELSE Completed([j EXCEPT !.slots[s] = outcome])
\* fill: the first outcome of a slot stands.
Fill(j, s, outcome) ==
  IF j.state # "running" \/ j.slots[s].kind # "open" THEN j
  ELSE Completed([j EXCEPT !.slots[s] = outcome])

HasEnded(r) == job[r].state # "running" \/ r \in late

\* terminal: what a server that serves no more answers at once.
Answer(liveness) ==
  CASE liveness = "unavailable" -> Refusal("unavailable")
    [] liveness = "stopped" -> Refusal("cancelled")
    [] OTHER -> Open

-----------------------------------------------------------------------------
(* changed_file *)

\* select: the slots of the servers of the language, as they are now.
Selected(servers) ==
  [s \in Servers |-> IF s \in servers THEN Answer(server[s].liveness) ELSE Unselected]
NewJob(servers) == Completed([slots |-> Selected(servers), state |-> "running"])

\* The calls are numbered in the order in which they come.
Submit(r) ==
  /\ call[r].pc = "idle" /\ \A earlier \in Calls : earlier < r => call[earlier].pc # "idle"
  /\ \E servers \in SUBSET Servers, rev \in Revisions, immediate, supersede \in BOOLEAN :
       /\ servers # {}
       /\ call' = [call EXCEPT ![r].pc = "selected", ![r].rev = rev,
                               ![r].immediate = immediate, ![r].supersede = supersede]
       /\ job' = [job EXCEPT ![r] = NewJob(servers)]
  /\ UNCHANGED <<active, late, server, cancelled, missed>>

SameWork(r, c) ==
  /\ call[r].rev = call[c].rev
  /\ \A s \in Servers : job[r].slots[s] = Unselected <=> job[c].slots[s] = Unselected

Joins(r) ==
  /\ active # 0 /\ SameWork(r, active)
  /\ job[active].state = "ready" \/ ~HasEnded(active)
Busy(r) == active # 0 /\ ~Joins(r) /\ ~HasEnded(active)

Waits(r, pc, j) == [call[r] EXCEPT !.pc = pc, !.job = j, !.supersede = FALSE]
Returns(r, j, outcome) ==
  [Waits(r, "done", j) EXCEPT !.outcome = outcome, !.immediate = FALSE]

\* What the caller does with the active job: wait, or read it at once.
Attached(r, j) ==
  IF ~call[r].immediate THEN Waits(r, "waiting", j)
  ELSE Returns(r, j, IF job[j].state = "running" THEN "starting" ELSE job[j].state)

\* install, joining the job in the slot
Join(r) ==
  /\ call[r].pc = "selected" /\ Joins(r)
  /\ call' = [call EXCEPT ![r] = Attached(r, active)]
  /\ UNCHANGED <<job, active, late, server, cancelled, missed>>

\* install, taking the slot: every conversation hears of it.
Install(r) ==
  /\ call[r].pc = "selected" /\ ~Joins(r) /\ ~Busy(r)
  /\ active' = r
  /\ call' = [call EXCEPT ![r] = Attached(r, r)]
  /\ server' = [s \in Servers |-> [server[s] EXCEPT !.news = TRUE]]
  /\ missed' = {s \in OpenSlots(job[r]) : server[s].liveness \in Terminal /\ ~server[s].owes}
  /\ UNCHANGED <<job, late, cancelled>>

Supersede(r) ==
  /\ call[r].pc = "selected" /\ Busy(r) /\ call[r].supersede
  /\ job' = [job EXCEPT ![active] = End(@, "superseded")]
  /\ UNCHANGED <<call, active, late, server, cancelled, missed>>

Queue(r) ==
  /\ call[r].pc = "selected" /\ Busy(r) /\ ~call[r].supersede
  /\ call' = [call EXCEPT ![r] = IF @.immediate THEN Returns(r, 0, "starting")
                                 ELSE Waits(r, "queued", active)]
  /\ UNCHANGED <<job, active, late, server, cancelled, missed>>

\* The end of the awaited job is its token, not its deadline.
QueueEnds(r) ==
  /\ call[r].pc = "queued" /\ job[call[r].job].state # "running"
  /\ call' = [call EXCEPT ![r] = Waits(r, "selected", 0)]
  /\ UNCHANGED <<job, active, late, server, cancelled, missed>>

QueueTimesOut(r) ==
  /\ call[r].pc = "queued" /\ r \in late
  /\ call' = [call EXCEPT ![r] = Returns(r, 0, "timedout")]
  /\ UNCHANGED <<job, active, late, server, cancelled, missed>>

WaitEnds(r) ==
  /\ call[r].pc = "waiting" /\ job[call[r].job].state # "running"
  /\ call' = [call EXCEPT ![r] = Returns(r, @.job, job[@.job].state)]
  /\ UNCHANGED <<job, active, late, server, cancelled, missed>>

\* The caller's cancellation or deadline ends its own job, never a joined one.
GiveUp(r, why) ==
  /\ call[r].pc = "waiting" /\ job[call[r].job].state = "running"
  /\ call' = [call EXCEPT ![r] = Returns(r, 0, why)]
  /\ job' = IF call[r].job = r THEN [job EXCEPT ![r] = End(@, why)] ELSE job
  /\ UNCHANGED <<active, late, server, cancelled, missed>>

WaitCancelled(r) == GiveUp(r, "cancelled")
WaitTimesOut(r) == r \in late /\ GiveUp(r, "timedout")

\* The host drops the future; its job goes on until its deadline.
DropCall(r) ==
  /\ call[r].pc \in {"queued", "waiting"}
  /\ call' = [call EXCEPT ![r] = Returns(r, 0, "dropped")]
  /\ UNCHANGED <<job, active, late, server, cancelled, missed>>

\* It concerns a running job that a call waits for or that fills the slot.
Deadline(r) ==
  /\ job[r].state = "running" /\ r \notin late
  /\ call[r].pc # "done" \/ active = r
  /\ late' = late \cup {r}
  /\ UNCHANGED <<call, job, active, server, cancelled, missed>>

-----------------------------------------------------------------------------
(* The conversation of one server. *)

Converse(s, conv) ==
  /\ server' = [server EXCEPT ![s].conv = conv]
  /\ UNCHANGED <<call, active, late, cancelled, missed>>

Resting(s) == server[s].state = "serving" /\ server[s].conv.at = "rest"

\* produce and reopen: the text of the job is opened anew, then asked about.
Produce(s) ==
  IF server[s].policy = "unsupported" THEN Idle
  ELSE ConversationAt("collect", active, IF server[s].policy = "push" THEN "push" ELSE "initial")

\* serve: it takes the active job when the hub announced one.
Look(s) ==
  LET serves == active # 0 /\ ~HasEnded(active) /\ s \in OpenSlots(job[active])
  IN /\ Resting(s) /\ server[s].news
     /\ server' = [server EXCEPT ![s].news = FALSE,
                                 ![s].conv = IF serves THEN Produce(s) ELSE Idle]
     /\ job' = IF serves /\ server[s].policy = "unsupported"
               THEN [job EXCEPT ![active] = Fill(@, s, Refusal("unsupported"))] ELSE job
     /\ UNCHANGED <<call, active, late, cancelled, missed>>

\* collect: the server writes while the job runs.
Collecting(s) == server[s].state = "serving" /\ server[s].conv.at = "collect"
Reads(s) == Collecting(s) /\ job[server[s].conv.job].state = "running"

Abandon(s) ==
  /\ Collecting(s)
  /\ LET j == server[s].conv.job
     IN /\ job[j].state # "running" \/ j \in late
        /\ job' = [job EXCEPT ![j] = End(@, "timedout")]
        /\ Converse(s, Idle)

Publish(s, outcome) ==
  /\ job' = [job EXCEPT ![server[s].conv.job] = Fill(@, s, outcome)]
  /\ server' = [server EXCEPT ![s].conv = Idle, ![s].warm = @ \/ outcome.kind = "ready"]
  /\ UNCHANGED <<call, active, late, cancelled, missed>>

\* Mutant: a publication of any version completes the slot.
AnyVersion(s, version) == TRUE
\* accept_publish
SameVersion(s, version) == version = call[server[s].conv.job].rev

\* A publication, of this text or of an earlier one; an empty one completes
\* nothing for a server that is still loading.
ReadPublish(s, version, empty) ==
  LET p == server[s].policy
  IN /\ Reads(s) /\ p \in {"push", "refresh"} /\ SameVersion(s, version)
     /\ p = "refresh" => ~empty
     /\ Publish(s, Ready({version}))

\* request_refresh_pull
Refreshed(conv) ==
  [conv EXCEPT !.target = "refreshed", !.pulls = @ + 1, !.pending = FALSE, !.empty = FALSE]

\* workspace/diagnostic/refresh
ReadRefresh(s) ==
  LET c == server[s].conv
  IN /\ Reads(s) /\ server[s].policy = "refresh"
     /\ Converse(s, IF ~server[s].warm /\ c.empty /\ c.target = "initial"
                    THEN Refreshed(c) ELSE [c EXCEPT !.pending = TRUE])
     /\ UNCHANGED job

\* The report of the current pull: complete, or empty while the server loads.
ReadReport(s, empty) ==
  LET c == server[s].conv
  IN /\ Reads(s) /\ c.target \in {"initial", "refreshed"} /\ ~c.empty
     /\ IF \/ server[s].policy # "refresh" \/ server[s].warm
           \/ c.target = "refreshed" \/ ~empty
        THEN Publish(s, Ready({call[c.job].rev}))
        ELSE /\ Converse(s, IF c.pending THEN Refreshed(c) ELSE [c EXCEPT !.empty = TRUE])
             /\ UNCHANGED job

\* The server cancels the pull: a refresh it announced repeats it, boundedly.
ReadCancelled(s) ==
  LET c == server[s].conv
  IN /\ Reads(s) /\ c.target \in {"initial", "refreshed"} /\ ~c.empty
     /\ IF server[s].policy = "refresh" /\ c.pending /\ c.pulls < PullsMax
        THEN Converse(s, Refreshed(c)) /\ UNCHANGED job
        ELSE Publish(s, Refusal("failed"))

\* A failure of this request alone: malformed, over a limit, an error response.
ReadFailure(s) == Reads(s) /\ Publish(s, Refusal("failed"))

-----------------------------------------------------------------------------
(* The supervisor, as the conversation observes it. *)

\* Mutant: a server that ends leaves its open slot to nobody.
RecordAlone(s, state, liveness, restarts) ==
  /\ server' = [server EXCEPT ![s].state = state, ![s].liveness = liveness,
                              ![s].restarts = restarts, ![s].conv = Idle]
  /\ UNCHANGED <<call, job, active, late, cancelled, missed>>
\* record: the liveness first, the slot of the active job in a step of its own.
Record(s, state, liveness, restarts) ==
  /\ server' = [server EXCEPT ![s].state = state, ![s].liveness = liveness,
                              ![s].restarts = restarts, ![s].conv = Idle,
                              ![s].owes = liveness \in Terminal]
  /\ UNCHANGED <<call, job, active, late, cancelled, missed>>

RecordFill(s) ==
  /\ server[s].owes
  /\ job' = IF active = 0 THEN job
            ELSE [job EXCEPT ![active] = Fill(@, s, Answer(server[s].liveness))]
  /\ server' = [server EXCEPT ![s].owes = FALSE]
  /\ UNCHANGED <<call, active, late, cancelled, missed>>

\* Started; serve begins and looks at the active job.
Handshake(s) ==
  /\ server[s].state = "starting" /\ ~cancelled
  /\ server' = [server EXCEPT ![s].state = "serving", ![s].liveness = "serving",
                              ![s].news = TRUE, ![s].warm = FALSE]
  /\ UNCHANGED <<call, job, active, late, cancelled, missed>>

NotInstalled(s) ==
  /\ server[s].state = "starting" /\ ~cancelled
  /\ Record(s, "gone", "unavailable", server[s].restarts)

\* A fatal failure; it decides no outcome.
AttemptFails(s) ==
  /\ server[s].state \in {"starting", "serving"}
  /\ Record(s, "failed", server[s].liveness, server[s].restarts)

Restart(s) ==
  /\ server[s].state = "failed" /\ server[s].restarts < RestartsMax /\ ~cancelled
  /\ Record(s, "starting", "serving", server[s].restarts + 1)

Stop(s) ==
  /\ \/ server[s].state = "failed" /\ (server[s].restarts = RestartsMax \/ cancelled)
     \/ server[s].state \in {"starting", "serving"} /\ cancelled
  /\ Record(s, "gone", "stopped", server[s].restarts)

CancelProject ==
  /\ ~cancelled /\ cancelled' = TRUE
  /\ UNCHANGED <<call, job, active, late, server, missed>>

-----------------------------------------------------------------------------
CallStep(r) ==
  \/ Join(r) \/ Install(r) \/ Supersede(r) \/ Queue(r)
  \/ QueueEnds(r) \/ QueueTimesOut(r) \/ WaitEnds(r) \/ WaitTimesOut(r)
Caller(r) == Submit(r) \/ WaitCancelled(r) \/ DropCall(r) \/ Deadline(r)

Read(s) ==
  \/ \E version \in Revisions, empty \in BOOLEAN : ReadPublish(s, version, empty)
  \/ ReadRefresh(s) \/ ReadCancelled(s) \/ ReadFailure(s)
  \/ \E empty \in BOOLEAN : ReadReport(s, empty)
Starts(s) == Handshake(s) \/ NotInstalled(s) \/ AttemptFails(s)
Supervisor(s) == Starts(s) \/ Restart(s) \/ Stop(s)

Next ==
  \/ \E r \in Calls : CallStep(r) \/ Caller(r)
  \/ \E s \in Servers : Look(s) \/ Abandon(s) \/ Read(s) \/ RecordFill(s) \/ Supervisor(s)
  \/ CancelProject

Spec == Init /\ [][Next]_vars

\* Calls and conversations are polled, and a start ends within its deadline.
FairSpec ==
  /\ Spec
  /\ \A r \in Calls : WF_vars(CallStep(r))
  /\ \A s \in Servers :
       /\ WF_vars(Look(s) \/ Abandon(s) \/ RecordFill(s) \/ Restart(s) \/ Stop(s))
       /\ WF_vars(server[s].state = "starting" /\ Starts(s))

-----------------------------------------------------------------------------
(* Properties *)

Points == {"idle", "selected", "queued", "waiting", "done"}
JobStates == {"none", "running", "ready", "superseded", "timedout", "cancelled"}
Outcome ==
  [kind : {"ready", "open", "unselected", "unsupported", "failed", "unavailable", "cancelled"},
   revs : SUBSET Revisions]
Job == [slots : [Servers -> Outcome], state : JobStates]
Call == [pc : Points, rev : Revisions \cup {0}, job : Calls \cup {0}, immediate : BOOLEAN,
         supersede : BOOLEAN, outcome : JobStates \cup {"starting", "dropped"}]
Conversation ==
  [at : {"rest", "collect"}, job : Calls \cup {0},
   target : {"none", "push", "initial", "refreshed"}, pulls : 0 .. PullsMax,
   pending : BOOLEAN, empty : BOOLEAN]
Server ==
  [policy : Policies, state : {"starting", "serving", "failed", "gone"},
   restarts : 0 .. RestartsMax, liveness : {"starting", "serving"} \cup Terminal,
   owes : BOOLEAN, news : BOOLEAN, warm : BOOLEAN, conv : Conversation]

\* A server restarts within LSP_RESTARTS_MAX, and a job repeats its pull within
\* LSP_DIAGNOSTIC_REFRESH_PULLS_MAX.
TypeOK ==
  /\ call \in [Calls -> Call] /\ job \in [Calls -> Job] /\ server \in [Servers -> Server]
  /\ active \in Calls \cup {0} /\ late \in SUBSET Calls /\ missed \in SUBSET Servers
  /\ cancelled \in BOOLEAN

\* An open slot of the running job is on the way to an outcome: its server
\* collects it, is about to look at it, or is between two attempts; or its end
\* is being recorded.  A server that ended between the choice of the servers and
\* the install of the job is the exception.
OpenSlotIsServed ==
  active # 0 /\ job[active].state = "running" =>
    \A s \in OpenSlots(job[active]) :
      \/ server[s].owes \/ s \in missed
      \/ server[s].state \in {"starting", "failed"}
      \/ server[s].state = "serving"
           /\ (server[s].conv.job = active \/ server[s].news)
      \/ active \in late

\* A call that returns a report returns the one of its own text: each selected
\* server has an outcome in it, and no answer describes another revision.
ReportIsOfItsRequest ==
  \A r \in Calls :
    call[r].pc = "done" /\ call[r].outcome = "ready" =>
      LET j == job[call[r].job]
      IN /\ OpenSlots(j) = {}
         /\ \A s \in Servers : j.slots[s].revs \subseteq {call[r].rev}

\* Open slots are served, and what is returned answers what was asked.
HubInvariant == TypeOK /\ OpenSlotIsServed /\ ReportIsOfItsRequest

\* A job ends once, and a server answers once: a superseded, cancelled or
\* expired job takes no report, and no restart replaces an outcome.
EndsOnce ==
  \A r \in Calls :
    job[r].state # "none" =>
      /\ job[r].state # "running" => job'[r] = job[r]
      /\ \A s \in Servers : job[r].slots[s].kind # "open" => job'[r].slots[s] = job[r].slots[s]
JobsEndOnce == [][EndsOnce]_vars

\* What the code says of itself and does not hold.  diagnostics.rs:812, "an
\* abandoned job never holds the request slot of the hub": a call queued behind
\* a job whose deadline passed stays queued, because only its token ends it.
AbandonedJobHoldsNothing ==
  \A r \in Calls :
    (call[r].pc = "queued" /\ call[r].job \in late) ~> (call[r].pc # "queued" \/ r \in late)

\* diagnostics.rs:276, "Keep this request alive until its deadline passes": a call
\* that joined another call's job ends with the deadline of that call.
WaitsUntilItsDeadline ==
  \A r \in Calls : call[r].outcome = "timedout" => r \in late
=============================================================================
