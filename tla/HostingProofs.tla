---------------------------- MODULE HostingProofs -----------------------------
(***************************************************************************)
(* Proofs about DiagnosticsHub, for any calls, servers and policies, any   *)
(* number of revisions, any restart budget and any number of pulls; about  *)
(* ReviewCapture, for any number of requests, steps and slots and any      *)
(* bound of the events; about HostCommands, for any queries and any number *)
(* of sessions, requests and searches; and about Facade, for any dialogs   *)
(* that a host asks for, any areas and any number of generations.          *)
(***************************************************************************)
EXTENDS HostCommands, DiagnosticsHub, ReviewCapture, Facade, FiniteSetTheorems, TLAPS

-----------------------------------------------------------------------------
(* The inductive invariant of DiagnosticsHub. *)

\* A call has its job from the moment it chose its servers.
Begun == \A r \in Calls : call[r].pc = "idle" <=> job[r].state = "none"

\* A call waits for the job of a call that began, and once it joined one they
\* asked for the same revision.
Awaits(c) ==
  /\ c.pc \in {"queued", "waiting"} => c.job # 0
  /\ c.job # 0 => call[c.job].pc # "idle"
  /\ c.pc \in {"waiting", "done"} /\ c.job # 0 => call[c.job].rev = c.rev
  /\ c.pc = "done" /\ c.outcome = "ready" => c.job # 0 /\ job[c.job].state = "ready"
Awaited == \A r \in Calls : Awaits(call[r])
ActiveBegun == active # 0 => call[active].pc # "idle"

\* A call that began asks about a revision.
Started == \A r \in Calls : call[r].pc # "idle" => call[r].rev # 0

\* A job that is ready has an outcome of each of its servers, and the answers
\* in its slots describe the text of its own call.
Complete == \A r \in Calls : job[r].state = "ready" => OpenSlots(job[r]) = {}
OwnText == \A r \in Calls, s \in Servers : job[r].slots[s].revs \subseteq {call[r].rev}

\* A server that serves no more says so, and only such a server owes an outcome.
Serves(q) ==
  /\ q.state = "gone" <=> q.liveness \in Terminal
  /\ q.owes => q.liveness \in Terminal
  /\ q.conv.at = "collect" => q.conv.job # 0
  /\ q.conv.target # "refreshed" => q.conv.pulls = 0
Serving == \A s \in Servers : Serves(server[s])

Inv ==
  /\ TypeOK /\ Begun /\ Awaited /\ ActiveBegun /\ Started /\ Complete /\ OwnText /\ Serving
  /\ OpenSlotIsServed

-----------------------------------------------------------------------------
(* Types and records. *)

LEMMA TypeFacts ==
  ASSUME HubAssumption, TypeOK
  PROVE  /\ RestartsMax \in Nat /\ PullsMax \in Nat /\ PullsMax > 0 /\ RevisionMax \in Nat
         /\ 0 \notin Calls
         /\ \A r \in Calls :
              /\ call[r] \in Call /\ call[r].pc \in Points /\ call[r].rev \in Revisions \cup {0}
              /\ call[r].job \in Calls \cup {0} /\ call[r].immediate \in BOOLEAN
              /\ job[r] \in Job /\ job[r].state \in JobStates
              /\ \A s \in Servers : job[r].slots[s] \in Outcome
         /\ \A s \in Servers :
              /\ server[s] \in Server /\ server[s].conv \in Conversation
              /\ server[s].restarts \in 0 .. RestartsMax
              /\ server[s].conv.job \in Calls \cup {0}
              /\ server[s].conv.pulls \in 0 .. PullsMax
<1>1. /\ RestartsMax \in Nat /\ PullsMax \in Nat /\ PullsMax > 0 /\ RevisionMax \in Nat
      /\ 0 \notin Calls
  BY DEF HubAssumption
<1>2. ASSUME NEW r \in Calls
      PROVE  /\ call[r] \in Call /\ call[r].pc \in Points /\ call[r].rev \in Revisions \cup {0}
             /\ call[r].job \in Calls \cup {0} /\ call[r].immediate \in BOOLEAN
  <2>1. call[r] \in Call
    BY DEF TypeOK
  <2> QED BY <2>1 DEF Call
<1>3. ASSUME NEW r \in Calls
      PROVE  /\ job[r] \in Job /\ job[r].state \in JobStates
             /\ \A s \in Servers : job[r].slots[s] \in Outcome
  <2>1. job[r] \in Job
    BY DEF TypeOK
  <2> QED BY <2>1 DEF Job
<1>4. ASSUME NEW s \in Servers
      PROVE  /\ server[s] \in Server /\ server[s].conv \in Conversation
             /\ server[s].restarts \in 0 .. RestartsMax
             /\ server[s].conv.job \in Calls \cup {0}
             /\ server[s].conv.pulls \in 0 .. PullsMax
  <2>1. server[s] \in Server
    BY DEF TypeOK
  <2>2. server[s].conv \in Conversation /\ server[s].restarts \in 0 .. RestartsMax
    BY <2>1 DEF Server
  <2> QED BY <2>1, <2>2 DEF Conversation
<1> QED BY <1>1, <1>2, <1>3, <1>4

LEMMA RefusalFacts ==
  ASSUME NEW kind \in {"open", "unselected", "unsupported", "failed", "unavailable", "cancelled"}
  PROVE  Refusal(kind) \in Outcome /\ Refusal(kind).kind = kind /\ Refusal(kind).revs = {}
BY DEF Refusal, Outcome

LEMMA ReadyFacts ==
  ASSUME NEW rev \in Revisions
  PROVE  Ready({rev}) \in Outcome /\ Ready({rev}).kind = "ready" /\ Ready({rev}).revs = {rev}
BY DEF Ready, Outcome

LEMMA AnswerFacts ==
  ASSUME NEW liveness \in {"starting", "serving"} \cup Terminal
  PROVE  /\ Answer(liveness) \in Outcome /\ Answer(liveness).revs = {}
         /\ liveness \in Terminal => Answer(liveness).kind # "open"
<1>1. Answer(liveness) \in {Refusal("unavailable"), Refusal("cancelled"), Refusal("open")}
      /\ (liveness \in Terminal => Answer(liveness) \in {Refusal("unavailable"), Refusal("cancelled")})
  BY Zenon DEF Answer, Terminal, Open
<1>2. /\ Refusal("unavailable") \in Outcome /\ Refusal("unavailable").revs = {}
      /\ Refusal("unavailable").kind = "unavailable"
  BY RefusalFacts
<1>3. /\ Refusal("cancelled") \in Outcome /\ Refusal("cancelled").revs = {}
      /\ Refusal("cancelled").kind = "cancelled"
  BY RefusalFacts
<1>4. Refusal("open") \in Outcome /\ Refusal("open").revs = {}
  BY RefusalFacts
<1> QED BY <1>1, <1>2, <1>3, <1>4

-----------------------------------------------------------------------------
(* What a step does to a job: it may end it, or fill a slot that is open. *)

Follows(old, new, rev) ==
  /\ new \in Job
  /\ old.state # "running" => new = old
  /\ old.state = "running" => new.state # "none"
  /\ \A s \in Servers : old.slots[s].kind # "open" => new.slots[s] = old.slots[s]
  /\ \A s \in Servers : new.slots[s].revs \subseteq {rev}
  /\ new.state = "ready" => OpenSlots(new) = {}

\* A job as the invariant has it.
Sound(j, rev) ==
  /\ j \in Job
  /\ \A s \in Servers : j.slots[s].revs \subseteq {rev}
  /\ j.state = "ready" => OpenSlots(j) = {}

LEMMA CompletedFacts ==
  ASSUME NEW j \in Job
  PROVE  /\ Completed(j) \in Job /\ Completed(j).slots = j.slots
         /\ Completed(j).state = "ready" => j.state = "ready" \/ OpenSlots(j) = {}
         /\ j.state = "running" => Completed(j).state \in {"running", "ready"}
         /\ j.state # "running" => Completed(j) = j
         /\ OpenSlots(Completed(j)) = OpenSlots(j)
<1>1. CASE j.state = "running" /\ OpenSlots(j) = {}
  <2> DEFINE k == [j EXCEPT !.state = "ready"]
  <2>1. Completed(j) = k
    BY <1>1 DEF Completed
  <2>2. k \in Job /\ k.slots = j.slots /\ k.state = "ready"
    BY DEF Job, JobStates
  <2> HIDE DEF k
  <2> QED BY <1>1, <2>1, <2>2 DEF OpenSlots
<1>2. CASE ~(j.state = "running" /\ OpenSlots(j) = {})
  <2>1. Completed(j) = j
    BY <1>2 DEF Completed
  <2> QED BY <2>1
<1> QED BY <1>1, <1>2

LEMMA SameFollows ==
  ASSUME NEW j, NEW rev, Sound(j, rev)
  PROVE  Follows(j, j, rev)
BY DEF Sound, Follows

LEMMA FillFollows ==
  ASSUME NEW j, NEW rev, Sound(j, rev), NEW s \in Servers, NEW outcome \in Outcome,
         outcome.kind # "open", outcome.revs \subseteq {rev}
  PROVE  /\ Follows(j, Fill(j, s, outcome), rev)
         /\ Fill(j, s, outcome).state = "running" => Fill(j, s, outcome).slots[s].kind # "open"
<1>1. CASE j.state # "running" \/ j.slots[s].kind # "open"
  <2>1. Fill(j, s, outcome) = j
    BY <1>1 DEF Fill
  <2> QED BY <1>1, <2>1, SameFollows
<1>2. CASE ~(j.state # "running" \/ j.slots[s].kind # "open")
  <2> DEFINE k == [j EXCEPT !.slots[s] = outcome]
  <2>1. Fill(j, s, outcome) = Completed(k)
    BY <1>2 DEF Fill
  <2>2. /\ k \in Job /\ k.state = j.state
        /\ \A t \in Servers : k.slots[t] = IF t = s THEN outcome ELSE j.slots[t]
    BY DEF Sound, Job
  <2> HIDE DEF k
  <2>3. /\ Completed(k) \in Job /\ Completed(k).slots = k.slots
        /\ Completed(k).state \in {"running", "ready"}
        /\ Completed(k).state = "ready" => OpenSlots(Completed(k)) = {}
    BY <1>2, <2>2, CompletedFacts
  <2> QED BY <1>2, <2>1, <2>2, <2>3 DEF Follows, Sound
<1> QED BY <1>1, <1>2

LEMMA EndFollows ==
  ASSUME NEW j, NEW rev, Sound(j, rev), NEW why \in {"superseded", "timedout", "cancelled"}
  PROVE  Follows(j, End(j, why), rev) /\ End(j, why).state # "running"
<1>1. CASE j.state # "running"
  <2>1. End(j, why) = j
    BY <1>1 DEF End
  <2> QED BY <1>1, <2>1, SameFollows
<1>2. CASE j.state = "running"
  <2> DEFINE k == [j EXCEPT !.state = why]
  <2>1. End(j, why) = k
    BY <1>2 DEF End
  <2>2. k \in Job /\ k.slots = j.slots /\ k.state = why
    BY DEF Sound, Job, JobStates
  <2> HIDE DEF k
  <2> QED BY <1>2, <2>1, <2>2 DEF Follows, Sound
<1> QED BY <1>1, <1>2

-----------------------------------------------------------------------------
(* What a step does to the calls, the jobs and the servers. *)

CallsFollow ==
  /\ call' \in [Calls -> Call]
  /\ \A r \in Calls :
       /\ call'[r].pc = "idle" <=> call[r].pc = "idle"
       /\ call'[r].rev = call[r].rev
       /\ Awaits(call'[r])

JobsFollow ==
  /\ job' \in [Calls -> Job]
  /\ \A r \in Calls : Follows(job[r], job'[r], call[r].rev)

ServersFollow ==
  /\ server' \in [Servers -> Server]
  /\ \A s \in Servers : Serves(server'[s])

LEMMA JobSound ==
  ASSUME HubAssumption, Inv, NEW r \in Calls
  PROVE  Sound(job[r], call[r].rev)
BY TypeFacts DEF Inv, Sound, OwnText, Complete

LEMMA SameCalls ==
  ASSUME HubAssumption, Inv, UNCHANGED call
  PROVE  CallsFollow
BY DEF Inv, TypeOK, CallsFollow, Awaited

LEMMA OneCall ==
  ASSUME HubAssumption, Inv, NEW r \in Calls, NEW c \in Call,
         call' = [call EXCEPT ![r] = c],
         call[r].pc # "idle", c.pc # "idle", c.rev = call[r].rev, Awaits(c)
  PROVE  CallsFollow
<1>1. call' \in [Calls -> Call] /\ \A e \in Calls : call'[e] = IF e = r THEN c ELSE call[e]
  BY DEF Inv, TypeOK
<1> QED BY <1>1 DEF Inv, CallsFollow, Awaited

LEMMA SameJobs ==
  ASSUME HubAssumption, Inv, UNCHANGED job
  PROVE  JobsFollow
<1>1. \A r \in Calls : Follows(job[r], job[r], call[r].rev)
  BY JobSound, SameFollows
<1> QED BY <1>1 DEF Inv, TypeOK, JobsFollow

LEMMA OneJob ==
  ASSUME HubAssumption, Inv, NEW j \in Calls, NEW k,
         job' = [job EXCEPT ![j] = k], Follows(job[j], k, call[j].rev)
  PROVE  JobsFollow /\ job'[j] = k
<1>1. k \in Job
  BY DEF Follows
<1>2. job' \in [Calls -> Job] /\ \A e \in Calls : job'[e] = IF e = j THEN k ELSE job[e]
  BY <1>1 DEF Inv, TypeOK
<1>3. \A r \in Calls : Follows(job[r], job[r], call[r].rev)
  BY JobSound, SameFollows
<1> QED BY <1>2, <1>3 DEF JobsFollow

LEMMA SameServers ==
  ASSUME HubAssumption, Inv, UNCHANGED server
  PROVE  ServersFollow
BY DEF Inv, TypeOK, ServersFollow, Serving

LEMMA OneServer ==
  ASSUME HubAssumption, Inv, NEW s \in Servers, NEW q \in Server,
         server' = [server EXCEPT ![s] = q], Serves(q)
  PROVE  ServersFollow /\ \A t \in Servers : server'[t] = IF t = s THEN q ELSE server[t]
<1>1. /\ server' \in [Servers -> Server]
      /\ \A t \in Servers : server'[t] = IF t = s THEN q ELSE server[t]
  BY DEF Inv, TypeOK
<1> QED BY <1>1 DEF Inv, ServersFollow, Serving

LEMMA Keeps ==
  ASSUME HubAssumption, Inv, CallsFollow, JobsFollow, ServersFollow, OpenSlotIsServed',
         active' \in Calls \cup {0}, active' # 0 => call[active'].pc # "idle",
         late' \in SUBSET Calls, missed' \in SUBSET Servers, cancelled' \in BOOLEAN
  PROVE  Inv' /\ EndsOnce
<1> USE DEF Inv
<1>1. TypeOK'
  BY DEF TypeOK, CallsFollow, JobsFollow, ServersFollow
<1>2. \A r \in Calls : /\ job[r].state # "running" => job'[r] = job[r]
                       /\ job[r].state = "running" => job'[r].state # "none"
  BY DEF JobsFollow, Follows
<1>3. Begun'
  BY <1>2 DEF Begun, CallsFollow
<1>4. ActiveBegun' /\ Started'
  BY DEF ActiveBegun, Started, CallsFollow
<1>5. Awaited'
  <2> SUFFICES ASSUME NEW r \in Calls PROVE Awaits(call[r])'
    BY DEF Awaited
  <2>1. Awaits(call'[r]) /\ call'[r] \in Call
    BY DEF CallsFollow
  <2>2. call'[r].job \in Calls \cup {0}
    BY <2>1 DEF Call
  <2>3. /\ call'[r].job # 0 => call'[call'[r].job].pc # "idle"
        /\ call'[r].job # 0 => call'[call'[r].job].rev = call[call'[r].job].rev
        /\ call'[r].job # 0 /\ job[call'[r].job].state = "ready"
             => job'[call'[r].job].state = "ready"
    BY <1>2, <2>1, <2>2 DEF Awaits, CallsFollow
  <2> QED BY <2>1, <2>3 DEF Awaits
<1>6. Complete' /\ OwnText'
  BY DEF Complete, OwnText, JobsFollow, CallsFollow, Follows, OpenSlots
<1>7. Serving'
  BY DEF Serving, ServersFollow, Serves
<1>8. EndsOnce
  BY DEF EndsOnce, JobsFollow, Follows
<1> QED BY <1>1, <1>3, <1>4, <1>5, <1>6, <1>7, <1>8

-----------------------------------------------------------------------------
(* The open slots of the active job. *)

\* What serves the slot of a server in the active job.
ServedBy(s, q) ==
  \/ q.owes \/ s \in missed
  \/ q.state \in {"starting", "failed"}
  \/ q.state = "serving" /\ (q.conv.job = active \/ q.news)
  \/ active \in late

LEMMA ServedFacts ==
  OpenSlotIsServed <=>
    (active # 0 /\ job[active].state = "running" =>
       \A s \in OpenSlots(job[active]) : ServedBy(s, server[s]))
BY DEF OpenSlotIsServed, ServedBy

\* A slot that is open after a step was open before it.
LEMMA OpenSlotsShrink ==
  ASSUME HubAssumption, Inv, JobsFollow, active # 0, UNCHANGED active,
         job'[active].state = "running"
  PROVE  job[active].state = "running" /\ OpenSlots(job'[active]) \subseteq OpenSlots(job[active])
<1>1. active \in Calls
  BY DEF Inv, TypeOK
<1>2. Follows(job[active], job'[active], call[active].rev)
  BY <1>1 DEF JobsFollow
<1> QED BY <1>2 DEF Follows, OpenSlots

LEMMA SlotsStay ==
  ASSUME HubAssumption, Inv, JobsFollow, UNCHANGED <<active, missed, server>>, late \subseteq late'
  PROVE  OpenSlotIsServed'
<1> SUFFICES ASSUME active # 0, job'[active].state = "running", NEW s \in OpenSlots(job'[active])
             PROVE  ServedBy(s, server[s])'
  BY DEF OpenSlotIsServed, ServedBy
<1>1. job[active].state = "running" /\ s \in OpenSlots(job[active])
  BY OpenSlotsShrink
<1>2. ServedBy(s, server[s])
  BY <1>1, ServedFacts DEF Inv
<1> QED BY <1>2 DEF ServedBy

LEMMA SlotServed ==
  ASSUME HubAssumption, Inv, JobsFollow, UNCHANGED <<active, missed, late>>,
         NEW s \in Servers, NEW q, \A t \in Servers : server'[t] = IF t = s THEN q ELSE server[t],
         active # 0 /\ job'[active].state = "running" /\ s \in OpenSlots(job'[active])
           => ServedBy(s, q)
  PROVE  OpenSlotIsServed'
<1> SUFFICES ASSUME active # 0, job'[active].state = "running", NEW t \in OpenSlots(job'[active])
             PROVE  ServedBy(t, server'[t])
  BY DEF OpenSlotIsServed, ServedBy
<1>1. t \in Servers /\ job[active].state = "running" /\ t \in OpenSlots(job[active])
  BY OpenSlotsShrink DEF OpenSlots
<1>2. CASE t = s
  BY <1>1, <1>2
<1>3. CASE t # s
  BY <1>1, <1>3, ServedFacts DEF Inv
<1> QED BY <1>2, <1>3

-----------------------------------------------------------------------------
(* The steps of a call. *)

LEMMA SubmitStep ==
  ASSUME HubAssumption, Inv, NEW r \in Calls, Submit(r)
  PROVE  Inv' /\ EndsOnce
<1> USE DEF Inv
<1>1. PICK servers \in SUBSET Servers, rev \in Revisions, immediate \in BOOLEAN,
           supersede \in BOOLEAN :
        /\ call' = [call EXCEPT ![r].pc = "selected", ![r].rev = rev,
                                ![r].immediate = immediate, ![r].supersede = supersede]
        /\ job' = [job EXCEPT ![r] = NewJob(servers)]
  BY DEF Submit
<1>2. call[r].pc = "idle" /\ UNCHANGED <<active, late, server, cancelled, missed>>
  BY DEF Submit
<1>3. /\ NewJob(servers) \in Job /\ NewJob(servers).state \in {"running", "ready"}
      /\ NewJob(servers).state = "ready" => OpenSlots(NewJob(servers)) = {}
      /\ \A s \in Servers : NewJob(servers).slots[s].revs = {}
  <2> DEFINE j == [slots |-> Selected(servers), state |-> "running"]
  <2>1. \A s \in Servers : server[s].liveness \in {"starting", "serving"} \cup Terminal
    BY TypeFacts DEF Server
  <2>2. Unselected \in Outcome /\ Unselected.revs = {}
    BY RefusalFacts DEF Unselected
  <2>3. Selected(servers) \in [Servers -> Outcome]
        /\ \A s \in Servers : Selected(servers)[s].revs = {}
    BY <2>1, <2>2, AnswerFacts DEF Selected
  <2>4. j \in Job /\ j.state = "running" /\ j.slots = Selected(servers)
    BY <2>3 DEF Job, JobStates
  <2>5. NewJob(servers) = Completed(j)
    BY DEF NewJob
  <2> HIDE DEF j
  <2> QED BY <2>3, <2>4, <2>5, CompletedFacts
<1>4. /\ call' \in [Calls -> Call]
      /\ call'[r].pc = "selected" /\ call'[r].job = call[r].job /\ call'[r].rev = rev
      /\ \A e \in Calls : e # r => call'[e] = call[e]
  <2> DEFINE c == [call[r] EXCEPT !.pc = "selected", !.rev = rev,
                                  !.immediate = immediate, !.supersede = supersede]
  <2>1. call' = [call EXCEPT ![r] = c]
    BY <1>1
  <2>2. call[r] \in Call
    BY TypeFacts
  <2>3. c \in Call /\ c.pc = "selected" /\ c.job = call[r].job /\ c.rev = rev
    BY <2>2 DEF Call, Points
  <2> HIDE DEF c
  <2> QED BY <2>1, <2>3 DEF TypeOK
<1>5. job' \in [Calls -> Job] /\ \A e \in Calls : job'[e] = IF e = r THEN NewJob(servers) ELSE job[e]
  BY <1>1, <1>3 DEF TypeOK
<1>6. TypeOK'
  BY <1>2, <1>4, <1>5 DEF TypeOK
<1>7. Begun'
  BY <1>3, <1>4, <1>5 DEF Begun
<1>8. active # r /\ \A e \in Calls : call[e].job # r
  <2>1. r # 0
    BY TypeFacts
  <2> QED BY <1>2, <2>1 DEF ActiveBegun, Awaited, Awaits
<1>9. ActiveBegun' /\ Started'
  <2>1. rev # 0
    BY TypeFacts DEF Revisions
  <2> QED BY <1>2, <1>4, <1>8, <2>1 DEF ActiveBegun, Started, TypeOK
<1>10. Awaited'
  <2> SUFFICES ASSUME NEW e \in Calls PROVE Awaits(call[e])'
    BY DEF Awaited
  <2>1. Awaits(call[e])
    BY DEF Awaited
  <2>2. call[e].job \in Calls \cup {0} /\ call[e].job # r
    BY <1>8, TypeFacts
  <2>3. call[e].job # 0 => /\ call'[call[e].job] = call[call[e].job]
                           /\ job'[call[e].job] = job[call[e].job]
    BY <1>4, <1>5, <2>2
  <2>4. CASE e = r
    BY <1>4, <2>1, <2>3, <2>4 DEF Awaits
  <2>5. CASE e # r
    <3>1. call'[e] = call[e]
      BY <1>4, <2>5
    <3> QED BY <2>1, <2>3, <3>1 DEF Awaits
  <2> QED BY <2>4, <2>5
<1>11. Complete'
  BY <1>3, <1>5 DEF Complete, OpenSlots
<1>12. OwnText'
  BY <1>3, <1>4, <1>5 DEF OwnText
<1>13. Serving'
  BY <1>2 DEF Serving, Serves
<1>14. OpenSlotIsServed'
  <2>1. active # 0 => job'[active] = job[active]
    BY <1>5, <1>8 DEF TypeOK
  <2> QED BY <1>2, <2>1 DEF OpenSlotIsServed, OpenSlots
<1>15. EndsOnce
  BY <1>2, <1>5 DEF EndsOnce, Begun
<1> QED BY <1>6, <1>7, <1>9, <1>10, <1>11, <1>12, <1>13, <1>14, <1>15

LEMMA WaitsFacts ==
  ASSUME HubAssumption, Inv, NEW r \in Calls, NEW pc \in Points, NEW j \in Calls \cup {0}
  PROVE  /\ Waits(r, pc, j) \in Call /\ Waits(r, pc, j).pc = pc
         /\ Waits(r, pc, j).job = j /\ Waits(r, pc, j).rev = call[r].rev
<1>1. call[r] \in Call
  BY TypeFacts DEF Inv
<1> QED BY <1>1 DEF Waits, Call

LEMMA ReturnsFacts ==
  ASSUME HubAssumption, Inv, NEW r \in Calls, NEW j \in Calls \cup {0},
         NEW outcome \in JobStates \cup {"starting", "dropped"}
  PROVE  /\ Returns(r, j, outcome) \in Call /\ Returns(r, j, outcome).pc = "done"
         /\ Returns(r, j, outcome).job = j /\ Returns(r, j, outcome).rev = call[r].rev
         /\ Returns(r, j, outcome).outcome = outcome
<1> DEFINE w == Waits(r, "done", j)
<1>1. w \in Call /\ w.pc = "done" /\ w.job = j /\ w.rev = call[r].rev
  BY WaitsFacts DEF Points
<1>2. Returns(r, j, outcome) = [w EXCEPT !.outcome = outcome, !.immediate = FALSE]
  BY DEF Returns
<1> HIDE DEF w
<1> QED BY <1>1, <1>2 DEF Call

\* A call that began follows the job of a call of the same text, or none.
MayJoin(r, j) == j \in Calls /\ call[j].pc # "idle" /\ call[j].rev = call[r].rev

LEMMA AttachedFacts ==
  ASSUME HubAssumption, Inv, NEW r \in Calls, NEW j, MayJoin(r, j)
  PROVE  /\ Attached(r, j) \in Call /\ Attached(r, j).pc # "idle"
         /\ Attached(r, j).rev = call[r].rev /\ Awaits(Attached(r, j))
<1>1. j \in Calls \cup {0} /\ j # 0 /\ j \in Calls
  BY TypeFacts DEF MayJoin, Inv
<1>2. CASE ~call[r].immediate
  <2> DEFINE w == Waits(r, "waiting", j)
  <2>1. w \in Call /\ w.pc = "waiting" /\ w.job = j /\ w.rev = call[r].rev
    BY <1>1, WaitsFacts DEF Points
  <2>2. Attached(r, j) = w
    BY <1>2 DEF Attached
  <2> HIDE DEF w
  <2> QED BY <1>1, <2>1, <2>2 DEF Awaits, MayJoin
<1>3. CASE call[r].immediate
  <2> DEFINE o == IF job[j].state = "running" THEN "starting" ELSE job[j].state
             w == Returns(r, j, o)
  <2>1. o \in JobStates \cup {"starting", "dropped"} /\ (o = "ready" => job[j].state = "ready")
    BY <1>1, TypeFacts DEF Inv
  <2> HIDE DEF o
  <2>2. w \in Call /\ w.pc = "done" /\ w.job = j /\ w.rev = call[r].rev /\ w.outcome = o
    BY <1>1, <2>1, ReturnsFacts
  <2>3. Attached(r, j) = w
    BY <1>3 DEF Attached, o
  <2> HIDE DEF w
  <2> QED BY <1>1, <2>1, <2>2, <2>3 DEF Awaits, MayJoin
<1> QED BY <1>2, <1>3, TypeFacts DEF Inv

\* A call that waits for nothing, or returns without a job.
LEMMA AloneFacts ==
  ASSUME HubAssumption, Inv, NEW r \in Calls, NEW outcome \in JobStates \cup {"starting", "dropped"},
         outcome # "ready"
  PROVE  /\ Returns(r, 0, outcome) \in Call /\ Returns(r, 0, outcome).pc # "idle"
         /\ Returns(r, 0, outcome).rev = call[r].rev /\ Awaits(Returns(r, 0, outcome))
<1> DEFINE w == Returns(r, 0, outcome)
<1>1. w \in Call /\ w.pc = "done" /\ w.job = 0 /\ w.rev = call[r].rev /\ w.outcome = outcome
  BY ReturnsFacts
<1> HIDE DEF w
<1> QED BY <1>1 DEF Awaits, w

\* The steps that change one call and nothing else.
LEMMA CallKeeps ==
  ASSUME HubAssumption, Inv, NEW r \in Calls, NEW c \in Call,
         call' = [call EXCEPT ![r] = c],
         call[r].pc # "idle", c.pc # "idle", c.rev = call[r].rev, Awaits(c),
         UNCHANGED <<job, active, late, server, cancelled, missed>>
  PROVE  Inv' /\ EndsOnce
<1>1. CallsFollow /\ JobsFollow /\ ServersFollow
  BY OneCall, SameJobs, SameServers
<1>2. OpenSlotIsServed'
  BY <1>1, SlotsStay
<1>3. /\ active' \in Calls \cup {0} /\ (active' # 0 => call[active'].pc # "idle")
      /\ late' \in SUBSET Calls /\ missed' \in SUBSET Servers /\ cancelled' \in BOOLEAN
  BY DEF Inv, TypeOK, ActiveBegun
<1> QED BY <1>1, <1>2, <1>3, Keeps

LEMMA JoinStep ==
  ASSUME HubAssumption, Inv, NEW r \in Calls, Join(r)
  PROVE  Inv' /\ EndsOnce
<1>1. /\ call[r].pc = "selected" /\ active # 0 /\ call[r].rev = call[active].rev
      /\ call' = [call EXCEPT ![r] = Attached(r, active)]
      /\ UNCHANGED <<job, active, late, server, cancelled, missed>>
  BY DEF Join, Joins, SameWork
<1>2. MayJoin(r, active)
  BY <1>1 DEF Inv, TypeOK, ActiveBegun, MayJoin
<1>3. /\ Attached(r, active) \in Call /\ Attached(r, active).pc # "idle"
      /\ Attached(r, active).rev = call[r].rev /\ Awaits(Attached(r, active))
  BY <1>2, AttachedFacts
<1> QED BY <1>1, <1>3, CallKeeps

LEMMA InstallStep ==
  ASSUME HubAssumption, Inv, NEW r \in Calls, Install(r)
  PROVE  Inv' /\ EndsOnce
<1> USE DEF Inv
<1>1. /\ call[r].pc = "selected" /\ active' = r
      /\ call' = [call EXCEPT ![r] = Attached(r, r)]
      /\ server' = [s \in Servers |-> [server[s] EXCEPT !.news = TRUE]]
      /\ missed' = {s \in OpenSlots(job[r]) : server[s].liveness \in Terminal /\ ~server[s].owes}
      /\ UNCHANGED <<job, late, cancelled>>
  BY DEF Install
<1>2. MayJoin(r, r)
  BY <1>1 DEF MayJoin
<1>3. /\ Attached(r, r) \in Call /\ Attached(r, r).pc # "idle"
      /\ Attached(r, r).rev = call[r].rev /\ Awaits(Attached(r, r))
  BY <1>2, AttachedFacts
<1>4. CallsFollow
  BY <1>1, <1>3, OneCall
<1>5. JobsFollow
  BY <1>1, SameJobs
<1>6. /\ server' \in [Servers -> Server]
      /\ \A s \in Servers :
           /\ server'[s].news /\ server'[s].state = server[s].state
           /\ server'[s].liveness = server[s].liveness /\ server'[s].owes = server[s].owes
           /\ server'[s].conv = server[s].conv
  <2>1. ASSUME NEW s \in Servers
        PROVE  LET q == [server[s] EXCEPT !.news = TRUE] IN
               /\ q \in Server /\ q.news /\ q.state = server[s].state
               /\ q.liveness = server[s].liveness /\ q.owes = server[s].owes
               /\ q.conv = server[s].conv
    <3>1. server[s] \in Server
      BY TypeFacts
    <3> QED BY <3>1 DEF Server
  <2> QED BY <1>1, <2>1
<1>7. ServersFollow
  BY <1>6 DEF ServersFollow, Serving, Serves
<1>8. missed' \in SUBSET Servers
  BY <1>1 DEF OpenSlots
<1>9. OpenSlotIsServed'
  <2> SUFFICES ASSUME NEW s \in OpenSlots(job[r])
               PROVE  \/ server'[s].owes \/ s \in missed'
                      \/ server'[s].state \in {"starting", "failed"}
                      \/ server'[s].state = "serving" /\ server'[s].news
    BY <1>1 DEF OpenSlotIsServed
  <2>1. s \in Servers /\ server[s].state \in {"starting", "serving", "failed", "gone"}
    BY TypeFacts DEF OpenSlots, Server
  <2>2. CASE server[s].state = "gone"
    BY <1>1, <1>6, <2>1, <2>2 DEF Serving, Serves
  <2>3. CASE server[s].state # "gone"
    BY <1>6, <2>1, <2>3
  <2> QED BY <2>2, <2>3
<1>10. /\ active' \in Calls \cup {0} /\ (active' # 0 => call[active'].pc # "idle")
       /\ late' \in SUBSET Calls /\ cancelled' \in BOOLEAN
  BY <1>1 DEF TypeOK
<1> QED BY <1>4, <1>5, <1>7, <1>8, <1>9, <1>10, Keeps

LEMMA QueueStep ==
  ASSUME HubAssumption, Inv, NEW r \in Calls, Queue(r)
  PROVE  Inv' /\ EndsOnce
<1>1. /\ call[r].pc = "selected" /\ active # 0
      /\ UNCHANGED <<job, active, late, server, cancelled, missed>>
  BY DEF Queue, Busy
<1>2. active \in Calls \cup {0} /\ call[active].pc # "idle"
  BY <1>1 DEF Inv, TypeOK, ActiveBegun
<1>3. CASE call[r].immediate
  <2>1. call' = [call EXCEPT ![r] = Returns(r, 0, "starting")]
    BY <1>3 DEF Queue
  <2>2. /\ Returns(r, 0, "starting") \in Call /\ Returns(r, 0, "starting").pc # "idle"
        /\ Returns(r, 0, "starting").rev = call[r].rev /\ Awaits(Returns(r, 0, "starting"))
    BY AloneFacts
  <2> QED BY <1>1, <2>1, <2>2, CallKeeps
<1>4. CASE ~call[r].immediate
  <2> DEFINE w == Waits(r, "queued", active)
  <2>1. call' = [call EXCEPT ![r] = w]
    BY <1>4 DEF Queue
  <2>2. w \in Call /\ w.pc = "queued" /\ w.job = active /\ w.rev = call[r].rev
    BY <1>2, WaitsFacts DEF Points
  <2> HIDE DEF w
  <2>3. Awaits(w)
    BY <1>1, <1>2, <2>2 DEF Awaits
  <2> QED BY <1>1, <2>1, <2>2, <2>3, CallKeeps
<1> QED BY <1>3, <1>4

LEMMA QueueEndsStep ==
  ASSUME HubAssumption, Inv, NEW r \in Calls, QueueEnds(r)
  PROVE  Inv' /\ EndsOnce
<1> DEFINE w == Waits(r, "selected", 0)
<1>1. /\ call[r].pc = "queued" /\ call' = [call EXCEPT ![r] = w]
      /\ UNCHANGED <<job, active, late, server, cancelled, missed>>
  BY DEF QueueEnds
<1>2. w \in Call /\ w.pc = "selected" /\ w.job = 0 /\ w.rev = call[r].rev
  BY WaitsFacts DEF Points
<1> HIDE DEF w
<1>3. Awaits(w)
  BY <1>2 DEF Awaits
<1> QED BY <1>1, <1>2, <1>3, CallKeeps

LEMMA WaitEndsStep ==
  ASSUME HubAssumption, Inv, NEW r \in Calls, WaitEnds(r)
  PROVE  Inv' /\ EndsOnce
<1> DEFINE j == call[r].job
           w == Returns(r, j, job[j].state)
<1>1. /\ call[r].pc = "waiting" /\ call' = [call EXCEPT ![r] = w]
      /\ UNCHANGED <<job, active, late, server, cancelled, missed>>
  BY DEF WaitEnds
<1>2. /\ j \in Calls \cup {0} /\ j # 0 /\ call[j].pc # "idle" /\ call[j].rev = call[r].rev
  BY <1>1, TypeFacts DEF Inv, Awaited, Awaits
<1>3. job[j].state \in JobStates \cup {"starting", "dropped"}
  BY <1>2, TypeFacts DEF Inv
<1>4. w \in Call /\ w.pc = "done" /\ w.job = j /\ w.rev = call[r].rev /\ w.outcome = job[j].state
  BY <1>2, <1>3, ReturnsFacts
<1> HIDE DEF w
<1>5. Awaits(w)
  BY <1>2, <1>4 DEF Awaits
<1> QED BY <1>1, <1>4, <1>5, CallKeeps

LEMMA ReturnStep ==
  ASSUME HubAssumption, Inv, NEW r \in Calls, QueueTimesOut(r) \/ DropCall(r)
  PROVE  Inv' /\ EndsOnce
<1>1. PICK outcome \in {"timedout", "dropped"} :
        /\ call[r].pc # "idle" /\ call' = [call EXCEPT ![r] = Returns(r, 0, outcome)]
        /\ UNCHANGED <<job, active, late, server, cancelled, missed>>
  BY DEF QueueTimesOut, DropCall
<1>2. /\ Returns(r, 0, outcome) \in Call /\ Returns(r, 0, outcome).pc # "idle"
      /\ Returns(r, 0, outcome).rev = call[r].rev /\ Awaits(Returns(r, 0, outcome))
  BY AloneFacts DEF JobStates
<1> QED BY <1>1, <1>2, CallKeeps

LEMMA SupersedeStep ==
  ASSUME HubAssumption, Inv, NEW r \in Calls, Supersede(r)
  PROVE  Inv' /\ EndsOnce
<1>1. /\ active # 0 /\ job' = [job EXCEPT ![active] = End(job[active], "superseded")]
      /\ UNCHANGED <<call, active, late, server, cancelled, missed>>
  BY DEF Supersede, Busy
<1>2. active \in Calls
  BY <1>1 DEF Inv, TypeOK
<1>3. Follows(job[active], End(job[active], "superseded"), call[active].rev)
  BY <1>2, JobSound, EndFollows
<1>4. CallsFollow /\ JobsFollow /\ ServersFollow
  BY <1>1, <1>2, <1>3, SameCalls, OneJob, SameServers
<1>5. OpenSlotIsServed'
  BY <1>1, <1>4, SlotsStay
<1>6. /\ active' \in Calls \cup {0} /\ (active' # 0 => call[active'].pc # "idle")
      /\ late' \in SUBSET Calls /\ missed' \in SUBSET Servers /\ cancelled' \in BOOLEAN
  BY <1>1 DEF Inv, TypeOK, ActiveBegun
<1> QED BY <1>4, <1>5, <1>6, Keeps

LEMMA GiveUpStep ==
  ASSUME HubAssumption, Inv, NEW r \in Calls, NEW why \in {"cancelled", "timedout"}, GiveUp(r, why)
  PROVE  Inv' /\ EndsOnce
<1>1. /\ call[r].pc = "waiting" /\ call' = [call EXCEPT ![r] = Returns(r, 0, why)]
      /\ job' = IF call[r].job = r THEN [job EXCEPT ![r] = End(job[r], why)] ELSE job
      /\ UNCHANGED <<active, late, server, cancelled, missed>>
  BY DEF GiveUp
<1>2. /\ Returns(r, 0, why) \in Call /\ Returns(r, 0, why).pc # "idle"
      /\ Returns(r, 0, why).rev = call[r].rev /\ Awaits(Returns(r, 0, why))
  BY AloneFacts DEF JobStates
<1>3. CallsFollow /\ ServersFollow
  BY <1>1, <1>2, OneCall, SameServers
<1>4. JobsFollow
  <2>1. Follows(job[r], End(job[r], why), call[r].rev)
    BY JobSound, EndFollows
  <2> QED BY <1>1, <2>1, OneJob, SameJobs
<1>5. OpenSlotIsServed'
  BY <1>1, <1>4, SlotsStay
<1>6. /\ active' \in Calls \cup {0} /\ (active' # 0 => call[active'].pc # "idle")
      /\ late' \in SUBSET Calls /\ missed' \in SUBSET Servers /\ cancelled' \in BOOLEAN
  BY <1>1 DEF Inv, TypeOK, ActiveBegun
<1> QED BY <1>3, <1>4, <1>5, <1>6, Keeps

LEMMA DeadlineStep ==
  ASSUME HubAssumption, Inv, CancelProject \/ \E r \in Calls : Deadline(r)
  PROVE  Inv' /\ EndsOnce
<1>1. /\ late' \in SUBSET Calls /\ late \subseteq late' /\ cancelled' \in BOOLEAN
      /\ UNCHANGED <<call, job, active, server, missed>>
  BY DEF Deadline, CancelProject, Inv, TypeOK
<1>2. CallsFollow /\ JobsFollow /\ ServersFollow
  BY <1>1, SameCalls, SameJobs, SameServers
<1>3. OpenSlotIsServed'
  BY <1>1, <1>2, SlotsStay
<1>4. /\ active' \in Calls \cup {0} /\ (active' # 0 => call[active'].pc # "idle")
      /\ missed' \in SUBSET Servers
  BY <1>1 DEF Inv, TypeOK, ActiveBegun
<1> QED BY <1>1, <1>2, <1>3, <1>4, Keeps

-----------------------------------------------------------------------------
(* The steps of a server. *)

LEMMA ServedBefore ==
  ASSUME HubAssumption, Inv, JobsFollow, active # 0, UNCHANGED active,
         job'[active].state = "running", NEW s \in OpenSlots(job'[active])
  PROVE  ServedBy(s, server[s]) /\ s \in OpenSlots(job[active]) /\ job[active].state = "running"
<1>1. job[active].state = "running" /\ s \in OpenSlots(job[active])
  BY OpenSlotsShrink
<1> QED BY <1>1, ServedFacts DEF Inv

LEMMA ServerKeeps ==
  ASSUME HubAssumption, Inv, NEW s \in Servers, NEW q \in Server,
         server' = [server EXCEPT ![s] = q], Serves(q), JobsFollow,
         active # 0 /\ job'[active].state = "running" /\ s \in OpenSlots(job'[active])
           => ServedBy(s, q),
         UNCHANGED <<call, active, late, cancelled, missed>>
  PROVE  Inv' /\ EndsOnce
<1>1. CallsFollow /\ ServersFollow /\ \A t \in Servers : server'[t] = IF t = s THEN q ELSE server[t]
  BY SameCalls, OneServer
<1>2. OpenSlotIsServed'
  BY <1>1, SlotServed
<1>3. /\ active' \in Calls \cup {0} /\ (active' # 0 => call[active'].pc # "idle")
      /\ late' \in SUBSET Calls /\ missed' \in SUBSET Servers /\ cancelled' \in BOOLEAN
  BY DEF Inv, TypeOK, ActiveBegun
<1> QED BY <1>1, <1>2, <1>3, Keeps

\* A conversation as the invariant has it.
Talks(c) ==
  /\ c \in Conversation
  /\ c.at = "collect" => c.job # 0
  /\ c.target # "refreshed" => c.pulls = 0

\* The server with another conversation.
With(s, c) == [server[s] EXCEPT !.conv = c]

LEMMA WithFacts ==
  ASSUME HubAssumption, Inv, NEW s \in Servers, NEW c, Talks(c)
  PROVE  /\ With(s, c) \in Server /\ Serves(With(s, c)) /\ With(s, c).conv = c
         /\ With(s, c).owes = server[s].owes /\ With(s, c).state = server[s].state
         /\ With(s, c).news = server[s].news
<1>1. server[s] \in Server /\ Serves(server[s])
  BY TypeFacts DEF Inv, Serving
<1>2. /\ With(s, c) \in Server /\ With(s, c).conv = c
      /\ With(s, c).owes = server[s].owes /\ With(s, c).state = server[s].state
      /\ With(s, c).news = server[s].news /\ With(s, c).liveness = server[s].liveness
  BY <1>1 DEF With, Server, Talks
<1> QED BY <1>1, <1>2 DEF Serves, Talks

LEMMA IdleTalks ==
  ASSUME HubAssumption
  PROVE  Talks(Idle) /\ Idle.job = 0
<1>1. 0 \in 0 .. PullsMax
  BY DEF HubAssumption
<1> QED BY <1>1 DEF Idle, ConversationAt, Talks, Conversation

\* A conversation that ends leaves no slot of the active job to nobody: the job
\* it collected for has ended, or the slot is filled, or it was another job.
LEMMA ConversationEnds ==
  ASSUME HubAssumption, Inv, NEW s \in Servers, NEW q \in Server, Serves(q), JobsFollow,
         server' = [server EXCEPT ![s] = q],
         q.owes = server[s].owes, q.state = server[s].state, q.news = server[s].news,
         server[s].conv.job = active /\ job'[active].state = "running"
           => s \notin OpenSlots(job'[active]),
         UNCHANGED <<call, active, late, cancelled, missed>>
  PROVE  Inv' /\ EndsOnce
<1>1. ASSUME active # 0, job'[active].state = "running", s \in OpenSlots(job'[active])
      PROVE  ServedBy(s, q)
  <2>1. ServedBy(s, server[s]) /\ server[s].conv.job # active
    BY <1>1, ServedBefore
  <2> QED BY <2>1 DEF ServedBy
<1> QED BY <1>1, ServerKeeps

LEMMA AbandonStep ==
  ASSUME HubAssumption, Inv, NEW s \in Servers, Abandon(s)
  PROVE  Inv' /\ EndsOnce
<1> DEFINE j == server[s].conv.job
<1>1. /\ server[s].conv.at = "collect" /\ job' = [job EXCEPT ![j] = End(job[j], "timedout")]
      /\ server' = [server EXCEPT ![s].conv = Idle]
      /\ UNCHANGED <<call, active, late, cancelled, missed>>
  BY DEF Abandon, Collecting, Converse
<1>2. j \in Calls
  BY <1>1, TypeFacts DEF Inv, Serving, Serves
<1>3. Follows(job[j], End(job[j], "timedout"), call[j].rev) /\ End(job[j], "timedout").state # "running"
  BY <1>2, JobSound, EndFollows
<1>4. JobsFollow /\ job'[j].state # "running"
  BY <1>1, <1>2, <1>3, OneJob
<1>5. server' = [server EXCEPT ![s] = With(s, Idle)]
  BY <1>1 DEF With
<1>6. /\ With(s, Idle) \in Server /\ Serves(With(s, Idle))
      /\ With(s, Idle).owes = server[s].owes /\ With(s, Idle).state = server[s].state
      /\ With(s, Idle).news = server[s].news
  BY IdleTalks, WithFacts
<1> QED BY <1>1, <1>4, <1>5, <1>6, ConversationEnds

LEMMA PublishStep ==
  ASSUME HubAssumption, Inv, NEW s \in Servers, Reads(s), NEW outcome \in Outcome,
         outcome.kind # "open", outcome.revs \subseteq {call[server[s].conv.job].rev},
         Publish(s, outcome)
  PROVE  Inv' /\ EndsOnce
<1> DEFINE j == server[s].conv.job
           k == Fill(job[j], s, outcome)
           q == [server[s] EXCEPT !.conv = Idle, !.warm = server[s].warm \/ outcome.kind = "ready"]
<1>1. /\ server[s].conv.at = "collect" /\ job' = [job EXCEPT ![j] = k]
      /\ server' = [server EXCEPT ![s] = q]
      /\ UNCHANGED <<call, active, late, cancelled, missed>>
  BY DEF Publish, Reads, Collecting
<1>2. j \in Calls
  BY <1>1, TypeFacts DEF Inv, Serving, Serves
<1>3. Follows(job[j], k, call[j].rev) /\ (k.state = "running" => k.slots[s].kind # "open")
  BY <1>2, JobSound, FillFollows
<1> HIDE DEF k, q
<1>4. JobsFollow /\ job'[j] = k
  BY <1>1, <1>2, <1>3, OneJob
<1>5. /\ q \in Server /\ q.owes = server[s].owes /\ q.state = server[s].state
      /\ q.news = server[s].news /\ q.liveness = server[s].liveness /\ q.conv = Idle
  <2>1. server[s] \in Server /\ Idle \in Conversation
    BY IdleTalks, TypeFacts DEF Inv, Talks
  <2>2. (server[s].warm \/ outcome.kind = "ready") \in BOOLEAN
    OBVIOUS
  <2> QED BY <2>1, <2>2 DEF Server, q
<1>6. Serves(q)
  <2>1. Serves(server[s]) /\ Talks(Idle)
    BY IdleTalks DEF Inv, Serving
  <2> QED BY <1>5, <2>1 DEF Serves, Talks
<1>7. j = active /\ job'[active].state = "running" => s \notin OpenSlots(job'[active])
  BY <1>3, <1>4 DEF OpenSlots
<1> QED BY <1>1, <1>4, <1>5, <1>6, <1>7, ConversationEnds

\* The conversation goes on for the same job.
LEMMA ConverseStep ==
  ASSUME HubAssumption, Inv, NEW s \in Servers, NEW c, Talks(c), c.job = server[s].conv.job,
         Converse(s, c), UNCHANGED job
  PROVE  Inv' /\ EndsOnce
<1>1. /\ server' = [server EXCEPT ![s] = With(s, c)]
      /\ UNCHANGED <<call, active, late, cancelled, missed>>
  BY DEF Converse, With
<1>2. /\ With(s, c) \in Server /\ Serves(With(s, c)) /\ With(s, c).conv = c
      /\ With(s, c).owes = server[s].owes /\ With(s, c).state = server[s].state
      /\ With(s, c).news = server[s].news
  BY WithFacts
<1>3. JobsFollow
  BY SameJobs
<1>4. ASSUME active # 0, job'[active].state = "running", s \in OpenSlots(job'[active])
      PROVE  ServedBy(s, With(s, c))
  <2>1. ServedBy(s, server[s])
    BY <1>1, <1>3, <1>4, ServedBefore
  <2> QED BY <1>2, <2>1 DEF ServedBy
<1> QED BY <1>1, <1>2, <1>3, <1>4, ServerKeeps

\* A refreshed pull is counted, and never beyond the limit.
LEMMA RefreshedTalks ==
  ASSUME HubAssumption, NEW c, Talks(c), c.pulls < PullsMax
  PROVE  Talks(Refreshed(c)) /\ Refreshed(c).job = c.job
<1> DEFINE k == [c EXCEPT !.target = "refreshed", !.pulls = c.pulls + 1, !.pending = FALSE,
                          !.empty = FALSE]
<1>1. c.pulls + 1 \in 0 .. PullsMax
  BY DEF HubAssumption, Talks, Conversation
<1>2. k \in Conversation /\ k.at = c.at /\ k.job = c.job /\ k.target = "refreshed"
  BY <1>1 DEF Talks, Conversation
<1>3. Refreshed(c) = k
  BY DEF Refreshed
<1> HIDE DEF k
<1> QED BY <1>2, <1>3 DEF Talks

LEMMA ReadStep ==
  ASSUME HubAssumption, Inv, NEW s \in Servers, Read(s)
  PROVE  Inv' /\ EndsOnce
<1> USE DEF Inv
<1> DEFINE c == server[s].conv
           rev == call[c.job].rev
<1>1. Reads(s) /\ c.at = "collect"
  BY DEF Read, ReadPublish, ReadRefresh, ReadCancelled, ReadFailure, ReadReport, Reads, Collecting
<1>2. Talks(c)
  BY TypeFacts DEF Serving, Serves, Talks
<1>3. c.job \in Calls
  BY <1>1, <1>2, TypeFacts DEF Talks
<1>4. rev \in Revisions
  <2>1. call[c.job].pc # "idle"
    BY <1>1, <1>3 DEF Reads, Begun
  <2> QED BY <1>3, <2>1, TypeFacts DEF Started
<1>5. /\ Ready({rev}) \in Outcome /\ Ready({rev}).kind = "ready" /\ Ready({rev}).revs = {rev}
      /\ Refusal("failed") \in Outcome /\ Refusal("failed").kind = "failed"
      /\ Refusal("failed").revs = {}
  BY <1>4, ReadyFacts, RefusalFacts
<1>6. c.target # "refreshed" => c.pulls < PullsMax
  BY <1>2, TypeFacts DEF Talks
<1>7. ASSUME NEW version \in Revisions, NEW empty \in BOOLEAN, ReadPublish(s, version, empty)
      PROVE  Inv' /\ EndsOnce
  <2>1. Publish(s, Ready({rev}))
    BY <1>7 DEF ReadPublish, SameVersion
  <2> QED BY <1>1, <1>5, <2>1, PublishStep
<1>8. CASE ReadRefresh(s)
  <2> DEFINE k == [c EXCEPT !.pending = TRUE]
  <2>1. UNCHANGED job /\ (\/ c.target = "initial" /\ Converse(s, Refreshed(c))
                          \/ Converse(s, k))
    BY <1>8 DEF ReadRefresh
  <2>2. Talks(k) /\ k.job = c.job
    BY <1>2 DEF Talks, Conversation
  <2>3. c.target = "initial" => Talks(Refreshed(c)) /\ Refreshed(c).job = c.job
    BY <1>2, <1>6, RefreshedTalks
  <2> HIDE DEF k
  <2> QED BY <2>1, <2>2, <2>3, ConverseStep
<1>9. ASSUME NEW empty \in BOOLEAN, ReadReport(s, empty)
      PROVE  Inv' /\ EndsOnce
  <2> DEFINE k == [c EXCEPT !.empty = TRUE]
  <2>1. \/ Publish(s, Ready({rev}))
        \/ UNCHANGED job /\ c.target # "refreshed" /\ (Converse(s, Refreshed(c)) \/ Converse(s, k))
    BY <1>9 DEF ReadReport
  <2>2. Talks(k) /\ k.job = c.job
    BY <1>2 DEF Talks, Conversation
  <2>3. c.target # "refreshed" => Talks(Refreshed(c)) /\ Refreshed(c).job = c.job
    BY <1>2, <1>6, RefreshedTalks
  <2>4. CASE Publish(s, Ready({rev}))
    BY <1>1, <1>5, <2>4, PublishStep
  <2> HIDE DEF k
  <2> QED BY <2>1, <2>2, <2>3, <2>4, ConverseStep
<1>10. CASE ReadCancelled(s)
  <2>1. \/ Publish(s, Refusal("failed"))
        \/ UNCHANGED job /\ c.pulls < PullsMax /\ Converse(s, Refreshed(c))
    BY <1>10 DEF ReadCancelled
  <2>2. c.pulls < PullsMax => Talks(Refreshed(c)) /\ Refreshed(c).job = c.job
    BY <1>2, RefreshedTalks
  <2>3. CASE Publish(s, Refusal("failed"))
    BY <1>1, <1>5, <2>3, PublishStep
  <2> QED BY <2>1, <2>2, <2>3, ConverseStep
<1>11. CASE ReadFailure(s)
  <2>1. Publish(s, Refusal("failed"))
    BY <1>11 DEF ReadFailure
  <2> QED BY <1>1, <1>5, <2>1, PublishStep
<1> QED BY <1>7, <1>8, <1>9, <1>10, <1>11 DEF Read

LEMMA ProduceFacts ==
  ASSUME HubAssumption, Inv, NEW s \in Servers, active \in Calls
  PROVE  /\ Talks(Produce(s))
         /\ server[s].policy # "unsupported" => Produce(s).job = active
<1>1. CASE server[s].policy = "unsupported"
  <2>1. Produce(s) = Idle
    BY <1>1 DEF Produce
  <2> QED BY <1>1, <2>1, IdleTalks
<1>2. CASE server[s].policy # "unsupported"
  <2> DEFINE target == IF server[s].policy = "push" THEN "push" ELSE "initial"
             k == [at |-> "collect", job |-> active, target |-> target, pulls |-> 0,
                   pending |-> FALSE, empty |-> FALSE]
  <2>1. target \in {"push", "initial"}
    OBVIOUS
  <2>2. Produce(s) = k
    BY <1>2 DEF Produce, ConversationAt
  <2> HIDE DEF target
  <2>3. active # 0 /\ 0 \in 0 .. PullsMax
    BY DEF HubAssumption
  <2>4. Talks(k) /\ k.job = active
    BY <2>1, <2>3 DEF Talks, Conversation
  <2> QED BY <2>2, <2>4
<1> QED BY <1>1, <1>2

LEMMA LookStep ==
  ASSUME HubAssumption, Inv, NEW s \in Servers, Look(s)
  PROVE  Inv' /\ EndsOnce
<1> DEFINE serves == active # 0 /\ ~HasEnded(active) /\ s \in OpenSlots(job[active])
           c == IF serves THEN Produce(s) ELSE Idle
           q == [server[s] EXCEPT !.news = FALSE, !.conv = c]
           refusal == Refusal("unsupported")
<1>1. /\ server[s].state = "serving" /\ server' = [server EXCEPT ![s] = q]
      /\ job' = IF serves /\ server[s].policy = "unsupported"
                THEN [job EXCEPT ![active] = Fill(job[active], s, refusal)] ELSE job
      /\ UNCHANGED <<call, active, late, cancelled, missed>>
  BY DEF Look, Resting
<1>2. serves => active \in Calls
  BY DEF Inv, TypeOK
<1>3. Talks(c)
  BY <1>2, IdleTalks, ProduceFacts
<1>4. serves /\ server[s].policy # "unsupported" => c.job = active
  BY <1>2, ProduceFacts
<1> HIDE DEF c
<1>5. /\ q \in Server /\ q.owes = server[s].owes /\ q.state = server[s].state
      /\ q.liveness = server[s].liveness /\ q.conv = c
  <2>1. server[s] \in Server /\ c \in Conversation
    BY <1>3, TypeFacts DEF Inv, Talks
  <2> QED BY <2>1 DEF Server
<1> HIDE DEF q
<1>6. Serves(q)
  <2>1. Serves(server[s])
    BY DEF Inv, Serving
  <2> QED BY <1>3, <1>5, <2>1 DEF Serves, Talks
<1>7. /\ refusal \in Outcome /\ refusal.kind = "unsupported" /\ refusal.revs = {}
  BY RefusalFacts
<1> HIDE DEF refusal
<1>8. CASE serves /\ server[s].policy = "unsupported"
  <2>1. /\ Follows(job[active], Fill(job[active], s, refusal), call[active].rev)
        /\ Fill(job[active], s, refusal).state = "running"
             => Fill(job[active], s, refusal).slots[s].kind # "open"
    BY <1>2, <1>7, <1>8, JobSound, FillFollows
  <2>2. JobsFollow /\ job'[active] = Fill(job[active], s, refusal)
    BY <1>1, <1>2, <1>8, <2>1, OneJob
  <2>3. job'[active].state = "running" => s \notin OpenSlots(job'[active])
    BY <2>1, <2>2 DEF OpenSlots
  <2> QED BY <1>1, <1>5, <1>6, <2>2, <2>3, ServerKeeps
<1>9. CASE ~(serves /\ server[s].policy = "unsupported")
  <2>1. UNCHANGED job /\ JobsFollow
    BY <1>1, <1>9, SameJobs
  <2>2. ASSUME active # 0, job'[active].state = "running", s \in OpenSlots(job'[active])
        PROVE  ServedBy(s, q)
    <3>1. CASE serves
      BY <1>1, <1>4, <1>5, <1>9, <3>1 DEF ServedBy
    <3>2. CASE ~serves
      BY <2>1, <2>2, <3>2 DEF HasEnded, ServedBy
    <3> QED BY <3>1, <3>2
  <2> QED BY <1>1, <1>5, <1>6, <2>1, <2>2, ServerKeeps
<1> QED BY <1>8, <1>9

-----------------------------------------------------------------------------
(* The supervisor. *)

LEMMA RecordStep ==
  ASSUME HubAssumption, Inv, NEW s \in Servers, NEW state \in {"starting", "failed", "gone"},
         NEW liveness \in {"starting", "serving"} \cup Terminal,
         NEW restarts \in 0 .. RestartsMax,
         state = "gone" <=> liveness \in Terminal,
         Record(s, state, liveness, restarts)
  PROVE  Inv' /\ EndsOnce
<1> DEFINE q == [server[s] EXCEPT !.state = state, !.liveness = liveness, !.restarts = restarts,
                                  !.conv = Idle, !.owes = liveness \in Terminal]
<1>1. /\ server' = [server EXCEPT ![s] = q]
      /\ UNCHANGED <<call, job, active, late, cancelled, missed>>
  BY DEF Record
<1>2. /\ q \in Server /\ q.owes = (liveness \in Terminal) /\ q.state = state
      /\ q.liveness = liveness /\ q.conv = Idle
  <2>1. server[s] \in Server /\ Idle \in Conversation
    BY IdleTalks, TypeFacts DEF Inv, Talks
  <2>2. (liveness \in Terminal) \in BOOLEAN
    OBVIOUS
  <2> QED BY <2>1, <2>2 DEF Server
<1> HIDE DEF q
<1>3. Serves(q)
  BY <1>2, IdleTalks DEF Serves, Talks
<1>4. ServedBy(s, q)
  BY <1>2 DEF ServedBy
<1>5. JobsFollow
  BY <1>1, SameJobs
<1> QED BY <1>1, <1>2, <1>3, <1>4, <1>5, ServerKeeps

LEMMA RecordFillStep ==
  ASSUME HubAssumption, Inv, NEW s \in Servers, RecordFill(s)
  PROVE  Inv' /\ EndsOnce
<1> DEFINE q == [server[s] EXCEPT !.owes = FALSE]
           outcome == Answer(server[s].liveness)
<1>1. /\ server[s].owes /\ server' = [server EXCEPT ![s] = q]
      /\ job' = IF active = 0 THEN job
                ELSE [job EXCEPT ![active] = Fill(job[active], s, outcome)]
      /\ UNCHANGED <<call, active, late, cancelled, missed>>
  BY DEF RecordFill
<1>2. server[s] \in Server /\ Serves(server[s])
  BY TypeFacts DEF Inv, Serving
<1>3. q \in Server /\ ~q.owes /\ q.state = server[s].state /\ q.liveness = server[s].liveness
      /\ q.conv = server[s].conv
  BY <1>2 DEF Server
<1> HIDE DEF q
<1>4. Serves(q)
  BY <1>2, <1>3 DEF Serves
<1>5. outcome \in Outcome /\ outcome.revs = {} /\ outcome.kind # "open"
  BY <1>1, <1>2, AnswerFacts DEF Serves, Terminal
<1> HIDE DEF outcome
<1>6. CASE active = 0
  BY <1>1, <1>3, <1>4, <1>6, SameJobs, ServerKeeps
<1>7. CASE active # 0
  <2>1. active \in Calls
    BY <1>7 DEF Inv, TypeOK
  <2>2. /\ Follows(job[active], Fill(job[active], s, outcome), call[active].rev)
        /\ Fill(job[active], s, outcome).state = "running"
             => Fill(job[active], s, outcome).slots[s].kind # "open"
    BY <1>5, <2>1, JobSound, FillFollows
  <2>3. JobsFollow /\ job'[active] = Fill(job[active], s, outcome)
    BY <1>1, <1>7, <2>1, <2>2, OneJob
  <2>4. job'[active].state = "running" => s \notin OpenSlots(job'[active])
    BY <2>2, <2>3 DEF OpenSlots
  <2> QED BY <1>1, <1>3, <1>4, <2>3, <2>4, ServerKeeps
<1> QED BY <1>6, <1>7

LEMMA HandshakeStep ==
  ASSUME HubAssumption, Inv, NEW s \in Servers, Handshake(s)
  PROVE  Inv' /\ EndsOnce
<1> DEFINE q == [server[s] EXCEPT !.state = "serving", !.liveness = "serving", !.news = TRUE,
                                  !.warm = FALSE]
<1>1. /\ server[s].state = "starting" /\ server' = [server EXCEPT ![s] = q]
      /\ UNCHANGED <<call, job, active, late, cancelled, missed>>
  BY DEF Handshake
<1>2. server[s] \in Server /\ Serves(server[s])
  BY TypeFacts DEF Inv, Serving
<1>3. /\ q \in Server /\ q.state = "serving" /\ q.liveness = "serving" /\ q.news
      /\ q.owes = server[s].owes /\ q.conv = server[s].conv
  BY <1>2 DEF Server
<1> HIDE DEF q
<1>4. Serves(q)
  BY <1>1, <1>2, <1>3 DEF Serves, Terminal
<1>5. ServedBy(s, q)
  BY <1>3 DEF ServedBy
<1>6. JobsFollow
  BY <1>1, SameJobs
<1> QED BY <1>1, <1>3, <1>4, <1>5, <1>6, ServerKeeps

LEMMA SupervisorStep ==
  ASSUME HubAssumption, Inv, NEW s \in Servers, Supervisor(s)
  PROVE  Inv' /\ EndsOnce
<1>1. /\ server[s] \in Server /\ Serves(server[s]) /\ server[s].restarts \in 0 .. RestartsMax
      /\ RestartsMax \in Nat
  BY TypeFacts DEF Inv, Serving
<1>2. CASE NotInstalled(s)
  BY <1>1, <1>2, RecordStep DEF NotInstalled, Terminal
<1>3. CASE AttemptFails(s)
  <2>1. server[s].liveness \in {"starting", "serving"} \cup Terminal /\ server[s].liveness \notin Terminal
    BY <1>1, <1>3 DEF AttemptFails, Serves, Server
  <2> QED BY <1>1, <1>3, <2>1, RecordStep DEF AttemptFails
<1>4. CASE Restart(s)
  <2>1. server[s].restarts + 1 \in 0 .. RestartsMax
    BY <1>1, <1>4 DEF Restart
  <2> QED BY <1>4, <2>1, RecordStep DEF Restart, Terminal
<1>5. CASE Stop(s)
  BY <1>1, <1>5, RecordStep DEF Stop, Terminal
<1> QED BY <1>2, <1>3, <1>4, <1>5, HandshakeStep DEF Supervisor, Starts

-----------------------------------------------------------------------------
(* The theorems. *)

LEMMA InitInv ==
  ASSUME HubAssumption, Init
  PROVE  Inv
<1>1. /\ call = [r \in Calls |-> [pc |-> "idle", rev |-> 0, job |-> 0, immediate |-> FALSE,
                                  supersede |-> FALSE, outcome |-> "none"]]
      /\ job = [r \in Calls |-> [slots |-> [s \in Servers |-> Unselected], state |-> "none"]]
      /\ active = 0 /\ late = {} /\ cancelled = FALSE /\ missed = {}
  BY DEF Init
<1>2. PICK policy \in [Servers -> Policies] :
        server = [s \in Servers |->
          [policy |-> policy[s], state |-> "starting", restarts |-> 0, liveness |-> "starting",
           owes |-> FALSE, news |-> FALSE, warm |-> FALSE, conv |-> Idle]]
  BY DEF Init
<1>3. Unselected \in Outcome /\ Unselected.revs = {}
  BY RefusalFacts DEF Unselected
<1>4. Talks(Idle) /\ Idle.job = 0 /\ 0 \in 0 .. RestartsMax
  BY IdleTalks DEF HubAssumption
<1>5. call \in [Calls -> Call]
  BY <1>1 DEF Call, Points, JobStates
<1>6. job \in [Calls -> Job]
  BY <1>1, <1>3 DEF Job, JobStates
<1>7. server \in [Servers -> Server]
  BY <1>2, <1>4 DEF Server, Talks
<1>8. TypeOK
  BY <1>1, <1>5, <1>6, <1>7 DEF TypeOK
<1>9. Begun /\ Awaited /\ ActiveBegun /\ Started /\ Complete /\ OpenSlotIsServed
  BY <1>1 DEF Begun, Awaited, Awaits, ActiveBegun, Started, Complete, OpenSlotIsServed
<1>10. OwnText
  BY <1>1, <1>3 DEF OwnText
<1>11. Serving
  BY <1>2, <1>4 DEF Serving, Serves, Talks, Terminal
<1> QED BY <1>8, <1>9, <1>10, <1>11 DEF Inv

LEMMA StepInv ==
  ASSUME HubAssumption, Inv, [Next]_vars
  PROVE  Inv' /\ EndsOnce
<1>1. ASSUME NEW r \in Calls, CallStep(r) \/ Caller(r)
      PROVE  Inv' /\ EndsOnce
  <2>1. ASSUME WaitCancelled(r) \/ WaitTimesOut(r)
        PROVE  Inv' /\ EndsOnce
    BY <2>1, GiveUpStep DEF WaitCancelled, WaitTimesOut
  <2> QED BY <1>1, <2>1, SubmitStep, JoinStep, InstallStep, SupersedeStep, QueueStep,
             QueueEndsStep, WaitEndsStep, ReturnStep, DeadlineStep DEF CallStep, Caller
<1>2. ASSUME NEW s \in Servers, Look(s) \/ Abandon(s) \/ Read(s) \/ RecordFill(s) \/ Supervisor(s)
      PROVE  Inv' /\ EndsOnce
  BY <1>2, LookStep, AbandonStep, ReadStep, RecordFillStep, SupervisorStep
<1>3. CASE UNCHANGED vars
  <2>1. UNCHANGED <<call, job, active, late, server, cancelled, missed>>
    BY <1>3 DEF vars
  <2>2. CallsFollow /\ JobsFollow /\ ServersFollow
    BY <2>1, SameCalls, SameJobs, SameServers
  <2>3. OpenSlotIsServed'
    BY <2>1, <2>2, SlotsStay
  <2>4. /\ active' \in Calls \cup {0} /\ (active' # 0 => call[active'].pc # "idle")
        /\ late' \in SUBSET Calls /\ missed' \in SUBSET Servers /\ cancelled' \in BOOLEAN
    BY <2>1 DEF Inv, TypeOK, ActiveBegun
  <2> QED BY <2>2, <2>3, <2>4, Keeps
<1>4. CASE Next
  BY <1>1, <1>2, <1>4, DeadlineStep DEF Next
<1> QED BY <1>3, <1>4

\* What a call returns follows from the state of the job it joined.
LEMMA ReportsFollow ==
  ASSUME HubAssumption, Inv
  PROVE  ReportIsOfItsRequest
<1> SUFFICES ASSUME NEW r \in Calls, call[r].pc = "done", call[r].outcome = "ready"
             PROVE  /\ OpenSlots(job[call[r].job]) = {}
                    /\ \A s \in Servers : job[call[r].job].slots[s].revs \subseteq {call[r].rev}
  BY DEF ReportIsOfItsRequest
<1>1. /\ call[r].job \in Calls /\ job[call[r].job].state = "ready"
      /\ call[call[r].job].rev = call[r].rev
  BY TypeFacts DEF Inv, Awaited, Awaits
<1> QED BY <1>1 DEF Inv, Complete, OwnText

\* The inductive invariant holds of every behaviour.
THEOREM Invariance == ASSUME HubAssumption PROVE Spec => []Inv
<1>1. Init => Inv
  BY InitInv
<1>2. Inv /\ [Next]_vars => Inv'
  BY StepInv
<1> QED BY <1>1, <1>2, PTL DEF Spec

\* Every variable keeps its type: no server restarts more often than
\* LSP_RESTARTS_MAX, and no job repeats its pull more often than
\* LSP_DIAGNOSTIC_REFRESH_PULLS_MAX (diagnostics.rs, collect).
THEOREM TypeCorrect == ASSUME HubAssumption PROVE Spec => []TypeOK
<1>1. Inv => TypeOK
  BY DEF Inv
<1> QED BY <1>1, Invariance, PTL

\* An open slot of the running job always has somebody on the way to fill it,
\* although the servers and the job are locked in separate steps.
THEOREM SlotsServed == ASSUME HubAssumption PROVE Spec => []OpenSlotIsServed
<1>1. Inv => OpenSlotIsServed
  BY DEF Inv
<1> QED BY <1>1, Invariance, PTL

\* A call that returns a report returns an answer of every server it selected,
\* and each describes the text that this call asked about.
THEOREM ReportsMatch == ASSUME HubAssumption PROVE Spec => []ReportIsOfItsRequest
<1>1. Inv => ReportIsOfItsRequest
  BY ReportsFollow
<1> QED BY <1>1, Invariance, PTL

\* The invariant that the run MCHosting checks.
THEOREM HubCorrect == ASSUME HubAssumption PROVE Spec => []HubInvariant
<1>1. Inv => HubInvariant
  BY ReportsFollow DEF Inv, HubInvariant
<1> QED BY <1>1, Invariance, PTL

\* A job ends once and a slot is filled once: no late publication, restart or
\* second end replaces an outcome that a caller may have read.
THEOREM EndedOnce == ASSUME HubAssumption PROVE Spec => JobsEndOnce
<1>1. Inv /\ [Next]_vars => [EndsOnce]_vars
  BY StepInv
<1> QED BY <1>1, Invariance, PTL DEF Spec, JobsEndOnce

-----------------------------------------------------------------------------
(* The inductive invariant of ReviewCapture. *)

\* What the variables hold; a capture is [section, step] and an identity names its request.
Captures == [section : CaptureSections, step : 1..StepsMax]
Ids == [pair : 1..PairsMax, section : CaptureSections, step : 1..StepsMax]

CaptureTypeOK ==
  /\ activePair \in 1..PairsMax /\ toSubmit \in Seq(Captures)
  /\ works \subseteq [identity : Ids, outcome : Outcomes \cup {"running"}] /\ IsFiniteSet(works)
  /\ \A w \in works : w.outcome = "pending" => w.identity.step < StepsMax
  /\ gates \in [CaptureSections -> Ids \cup {NoIdentity}]
  /\ captured \in [CaptureSections -> Nat] /\ abandoned \in BOOLEAN /\ count \in Nat
  /\ ends \subseteq {"finished", "failed", "cancelled"}
  /\ visible \in [CaptureSections -> Nat]

\* A work of the active request, and a capture that waits, for one half.
WorksFor(w, s) == w.identity.pair = activePair /\ w.identity.section = s
HalfWaits(s) == \E n \in DOMAIN toSubmit : toSubmit[n].section = s
HalfWorks(s) == \E w \in works : WorksFor(w, s)

\* No half of the active request has two places, and one that has its candidate has none.
OnePlace ==
  /\ \A w \in works : w.identity.pair <= activePair
  /\ \A s \in CaptureSections :
       /\ \A v, w \in works : WorksFor(v, s) /\ WorksFor(w, s) => v = w
       /\ \A m, n \in DOMAIN toSubmit : toSubmit[m].section = s /\ toSubmit[n].section = s => m = n
       /\ ~(HalfWaits(s) /\ HalfWorks(s))
       /\ captured[s] # Missing => ~HalfWaits(s) /\ ~HalfWorks(s)

\* Until the request ends, every work of it is current and every half has a place.
HasPlace ==
  ends = {} =>
    /\ \A w \in works : w.identity.pair = activePair => IsCurrent(w)
    /\ \A s \in CaptureSections : captured[s] = Missing => HalfWaits(s) \/ HalfWorks(s)

\* The invariant that every step preserves.
CaptureInv ==
  CaptureTypeOK /\ PairIsOfOneRequest /\ OnePlace /\ HasPlace /\ EndedRequestIsOver /\ BoundsHold

-----------------------------------------------------------------------------
(* The lemmas of its parts, and one for each step. *)

\* At most one capture of each half waits.
LEMMA TwoWait ==
  ASSUME CaptureTypeOK, OnePlace
  PROVE  Len(toSubmit) \in 0..2
<1>1. Len(toSubmit) \in Nat BY DEF CaptureTypeOK
<1>2. ASSUME Len(toSubmit) > 2 PROVE FALSE
  <2>1. 1 \in DOMAIN toSubmit /\ 2 \in DOMAIN toSubmit /\ 3 \in DOMAIN toSubmit BY <1>2 DEF CaptureTypeOK
  <2>2. \A n \in DOMAIN toSubmit : toSubmit[n] \in Captures BY DEF CaptureTypeOK
  <2>3. \A n \in DOMAIN toSubmit : toSubmit[n].section \in {"staged", "unstaged"}
    BY <2>2 DEF Captures, CaptureSections
  <2>4. \A m, n \in DOMAIN toSubmit : toSubmit[m].section = toSubmit[n].section => m = n
    BY <2>3 DEF OnePlace, CaptureSections
  <2> QED BY <2>1, <2>3, <2>4
<1>3. \A k \in Nat : ~(k > 2) => k \in 0..2 OBVIOUS
<1> QED BY <1>1, <1>2, <1>3

\* Two members more make a set at most two larger.
LEMMA AddTwo ==
  ASSUME NEW S, IsFiniteSet(S), NEW a, NEW b
  PROVE  Cardinality(S \cup {a, b}) <= Cardinality(S) + 2 /\ IsFiniteSet(S \cup {a, b})
<1>1. S \cup {a, b} = (S \cup {a}) \cup {b} OBVIOUS
<1>2. Cardinality(S) \in Nat BY FS_CardinalityType
<1>3. IsFiniteSet(S \cup {a}) /\ Cardinality(S \cup {a}) \in {Cardinality(S), Cardinality(S) + 1} BY FS_AddElement
<1>4. IsFiniteSet((S \cup {a}) \cup {b})
      /\ Cardinality((S \cup {a}) \cup {b}) \in {Cardinality(S \cup {a}), Cardinality(S \cup {a}) + 1}
  BY <1>3, FS_AddElement
<1> QED BY <1>1, <1>2, <1>3, <1>4

\* The works that take a slot.
RunningOf(set) == {w \in set : w.outcome = "running"}

\* The free slots count the works that run.
LEMMA SlotsMean == Slots = SlotsMax - Cardinality(RunningOf(works))
BY DEF Slots, RunningOf

\* Fewer works that run take fewer slots.
LEMMA FewerRunning ==
  ASSUME NEW S, NEW T, IsFiniteSet(S), RunningOf(T) \subseteq RunningOf(S)
  PROVE  IsFiniteSet(RunningOf(S)) /\ Cardinality(RunningOf(T)) <= Cardinality(RunningOf(S))
         /\ Cardinality(RunningOf(T)) \in Nat /\ Cardinality(RunningOf(S)) \in Nat
<1>1. IsFiniteSet(RunningOf(S)) BY FS_Subset DEF RunningOf
<1> QED BY <1>1, FS_Subset, FS_CardinalityType

\* A work or two more take a slot or two more.
LEMMA MoreRunning ==
  ASSUME NEW S, IsFiniteSet(S), NEW a, NEW b
  PROVE  /\ IsFiniteSet(S \cup {a, b})
         /\ Cardinality(RunningOf(S)) \in Nat
         /\ Cardinality(RunningOf(S \cup {a})) \in 0..(Cardinality(RunningOf(S)) + 1)
         /\ Cardinality(RunningOf(S \cup {a, b})) \in 0..(Cardinality(RunningOf(S)) + 2)
<1>1. IsFiniteSet(RunningOf(S)) /\ Cardinality(RunningOf(S)) \in Nat BY FewerRunning
<1>2. IsFiniteSet(RunningOf(S) \cup {a})
      /\ Cardinality(RunningOf(S) \cup {a}) \in {Cardinality(RunningOf(S)), Cardinality(RunningOf(S)) + 1}
  BY <1>1, FS_AddElement
<1>3. RunningOf(S \cup {a}) \subseteq RunningOf(S) \cup {a} BY DEF RunningOf
<1>4. Cardinality(RunningOf(S \cup {a})) <= Cardinality(RunningOf(S) \cup {a})
      /\ Cardinality(RunningOf(S \cup {a})) \in Nat
  BY <1>2, <1>3, FS_Subset, FS_CardinalityType
<1>5. IsFiniteSet(RunningOf(S) \cup {a, b})
      /\ Cardinality(RunningOf(S) \cup {a, b}) <= Cardinality(RunningOf(S)) + 2
  BY <1>1, AddTwo
<1>6. RunningOf(S \cup {a, b}) \subseteq RunningOf(S) \cup {a, b} BY DEF RunningOf
<1>7. Cardinality(RunningOf(S \cup {a, b})) <= Cardinality(RunningOf(S) \cup {a, b})
      /\ Cardinality(RunningOf(S \cup {a, b})) \in Nat /\ Cardinality(RunningOf(S) \cup {a, b}) \in Nat
  BY <1>5, <1>6, FS_Subset, FS_CardinalityType
<1>8. IsFiniteSet(S \cup {a, b}) BY AddTwo
<1> QED BY <1>1, <1>2, <1>4, <1>5, <1>7, <1>8

\* The first request has both halves waiting.
LEMMA CaptureStarts ==
  ASSUME ReviewCaptureAssumption, CaptureInit
  PROVE  CaptureInv
<1> USE DEF CaptureInit, ReviewCaptureAssumption
<1>1. toSubmit \in Seq(Captures) /\ Len(toSubmit) = 2 /\ toSubmit[1].section = "staged" /\ toSubmit[2].section = "unstaged"
  BY DEF FreshPair, Captures, CaptureSections
<1>2. CaptureTypeOK
  <2>1. gates \in [CaptureSections -> Ids \cup {NoIdentity}] /\ captured \in [CaptureSections -> Nat]
        /\ visible \in [CaptureSections -> Nat]
    BY DEF NoGates, NoHalves, Missing
  <2>2. IsFiniteSet(works) BY FS_EmptySet
  <2>3. activePair \in 1..PairsMax /\ count \in Nat OBVIOUS
  <2>4. abandoned \in BOOLEAN /\ works = {} /\ ends = {} OBVIOUS
  <2> QED BY <1>1, <2>1, <2>2, <2>3, <2>4 DEF CaptureTypeOK
<1>3. PairIsOfOneRequest BY DEF PairIsOfOneRequest, NoHalves, Missing
<1>4. \A s \in CaptureSections : HalfWaits(s) /\ ~HalfWorks(s)
  BY <1>1 DEF HalfWaits, HalfWorks, CaptureSections
<1>5. OnePlace BY <1>1, <1>4 DEF OnePlace, NoHalves, Missing, HalfWorks
<1>6. HasPlace BY <1>4 DEF HasPlace
<1>7. EndedRequestIsOver BY DEF EndedRequestIsOver
<1>8. BoundsHold
  <2>1. RunningOf(works) = {} BY DEF RunningOf
  <2> QED BY <2>1, FS_EmptySet, SlotsMean DEF BoundsHold
<1> QED BY <1>2, <1>3, <1>5, <1>6, <1>7, <1>8 DEF CaptureInv

\* A new request gives each half a place; every work is of an older one.
LEMMA ReloadStep ==
  ASSUME ReviewCaptureAssumption, CaptureInv /\ RequestReload
  PROVE  CaptureInv'
<1> USE DEF CaptureInv, ReviewCaptureAssumption
<1>1. toSubmit' \in Seq(Captures) /\ Len(toSubmit') = 2 /\ toSubmit'[1].section = "staged" /\ toSubmit'[2].section = "unstaged"
  BY DEF FreshPair, Captures, CaptureSections, RequestReload
<1>2. CaptureTypeOK'
  <2>1. gates' \in [CaptureSections -> Ids \cup {NoIdentity}] /\ captured' \in [CaptureSections -> Nat]
    BY DEF NoGates, NoHalves, Missing, RequestReload, HalvesOfRequest
  <2>2. activePair' \in 1..PairsMax BY DEF CaptureTypeOK, RequestReload
  <2> QED BY <1>1, <2>1, <2>2 DEF CaptureTypeOK, RequestReload
<1>3. PairIsOfOneRequest' BY DEF PairIsOfOneRequest, NoHalves, Missing, HalvesOfRequest, RequestReload
<1>4. \A w \in works' : w.identity.pair < activePair'
  BY DEF RequestReload, OnePlace, CaptureTypeOK, Ids
<1>5. \A s \in CaptureSections : HalfWaits(s)' /\ ~HalfWorks(s)'
  <2>1. \A s \in CaptureSections : HalfWaits(s)' BY <1>1 DEF HalfWaits, CaptureSections
  <2>2. \A w \in works' : w.identity.pair \in Nat /\ activePair' \in Nat BY <1>2 DEF CaptureTypeOK, Ids
  <2>3. \A s \in CaptureSections : ~HalfWorks(s)' BY <1>4, <2>2 DEF HalfWorks, WorksFor
  <2> QED BY <2>1, <2>3
<1>6. OnePlace'
  BY <1>1, <1>2, <1>4, <1>5 DEF OnePlace, NoHalves, Missing, HalvesOfRequest, RequestReload, WorksFor, HalfWorks, CaptureTypeOK, Ids
<1>7. HasPlace' BY <1>2, <1>4, <1>5 DEF HasPlace, CaptureTypeOK, Ids
<1>8. EndedRequestIsOver' BY DEF EndedRequestIsOver, RequestReload
<1>9. BoundsHold' BY DEF BoundsHold, RequestReload, Slots
<1> QED BY <1>2, <1>3, <1>6, <1>7, <1>8, <1>9

\* A cancel closes the gates, so that no work is current.
LEMMA CancelStep ==
  ASSUME ReviewCaptureAssumption, CaptureInv /\ CancelCapture
  PROVE  CaptureInv'
<1> USE DEF CaptureInv, ReviewCaptureAssumption, CancelCapture
<1>1. CaptureTypeOK' BY DEF CaptureTypeOK, NoGates, Captures, Room
<1>2. PairIsOfOneRequest' BY DEF PairIsOfOneRequest
<1>3. \A s \in CaptureSections : ~HalfWaits(s)' /\ (HalfWorks(s)' <=> HalfWorks(s))
  BY DEF HalfWaits, HalfWorks, WorksFor
<1>4. OnePlace' BY <1>3 DEF OnePlace, WorksFor
<1>5. HasPlace' BY DEF HasPlace
<1>6. \A w \in works' : ~IsCurrent(w)'
  BY DEF IsCurrent, NoGates, NoIdentity, Identity, CaptureTypeOK, Ids
<1>7. EndedRequestIsOver'
  <2>1. ~({"finished", "failed"} \subseteq ends') BY DEF EndedRequestIsOver
  <2> QED BY <1>6, <2>1 DEF EndedRequestIsOver
<1>8. BoundsHold' BY DEF BoundsHold, Slots, Room
<1> QED BY <1>1, <1>2, <1>4, <1>5, <1>7, <1>8

\* The host's other calls touch the events alone.
LEMMA HostStep ==
  ASSUME ReviewCaptureAssumption, CaptureInv /\ (Input \/ TakeEvents)
  PROVE  CaptureInv'
<1> USE DEF CaptureInv, ReviewCaptureAssumption
<1>1. UNCHANGED <<activePair, toSubmit, works, gates, captured, abandoned, ends, visible>> /\ count' \in 0..EventsMax
  BY DEF Input, TakeEvents
<1>2. CaptureTypeOK' /\ PairIsOfOneRequest' BY <1>1 DEF CaptureTypeOK, PairIsOfOneRequest
<1>3. \A s \in CaptureSections : (HalfWaits(s)' <=> HalfWaits(s)) /\ (HalfWorks(s)' <=> HalfWorks(s))
  BY <1>1 DEF HalfWaits, HalfWorks, WorksFor
<1>4. OnePlace' BY <1>1, <1>3 DEF OnePlace, WorksFor
<1>5. HasPlace' /\ EndedRequestIsOver' BY <1>1, <1>3 DEF HasPlace, EndedRequestIsOver, IsCurrent
<1>6. BoundsHold' BY <1>1 DEF BoundsHold, Slots
<1> QED BY <1>2, <1>4, <1>5, <1>6

\* A completion keeps the place of its half and frees a slot.
LEMMA ReadyStep ==
  ASSUME NEW w \in works, NEW outcome \in Outcomes, ReviewCaptureAssumption, CaptureInv, ReadyCompletion(w, outcome)
  PROVE  CaptureInv'
<1> USE DEF CaptureInv, ReviewCaptureAssumption, ReadyCompletion
<1> DEFINE new == Work(w.identity, outcome)
<1>1. new \in [identity : Ids, outcome : Outcomes \cup {"running"}] /\ new.identity = w.identity /\ new.outcome # "running"
  BY DEF CaptureTypeOK, Work, Outcomes
<1>2. works' = (works \ {w}) \cup {new} OBVIOUS
<1>3. IsFiniteSet(works')
  <2>1. IsFiniteSet(works \ {w}) BY FS_RemoveElement DEF CaptureTypeOK
  <2>2. IsFiniteSet((works \ {w}) \cup {new}) BY <2>1, FS_AddElement
  <2> QED BY <1>2, <2>2
<1>13. new.outcome = "pending" => new.identity.step < StepsMax BY DEF Work
<1> HIDE DEF new
<1>4. CaptureTypeOK' BY <1>1, <1>2, <1>3, <1>13 DEF CaptureTypeOK
<1>5. \A v \in works' : (v = new \/ (v \in works /\ v # w)) BY <1>2
<1>6. \A s \in CaptureSections : (HalfWaits(s)' <=> HalfWaits(s)) /\ (HalfWorks(s)' <=> HalfWorks(s))
  BY <1>1, <1>2, <1>5 DEF HalfWaits, HalfWorks, WorksFor
<1>7. OnePlace'
  <2>1. \A v \in works' : v.identity.pair <= activePair' BY <1>1, <1>5 DEF OnePlace
  <2>2. \A s \in CaptureSections : \A u, v \in works' : WorksFor(u, s)' /\ WorksFor(v, s)' => u = v
    BY <1>1, <1>5 DEF OnePlace, WorksFor
  <2> QED BY <1>6, <2>1, <2>2 DEF OnePlace
<1>8. \A v \in works' : IsCurrent(v)' => \E u \in works : IsCurrent(u)
  BY <1>1, <1>5 DEF IsCurrent
<1>9. PairIsOfOneRequest' BY DEF PairIsOfOneRequest
<1>10. HasPlace' BY <1>1, <1>5, <1>6 DEF HasPlace, IsCurrent
<1>11. EndedRequestIsOver' BY <1>8 DEF EndedRequestIsOver
<1>12. BoundsHold'
  <2>1. RunningOf(works') \subseteq RunningOf(works) BY <1>1, <1>5 DEF RunningOf
  <2>2. Cardinality(RunningOf(works')) <= Cardinality(RunningOf(works))
        /\ Cardinality(RunningOf(works')) \in Nat /\ Cardinality(RunningOf(works)) \in Nat
    BY <2>1, FewerRunning DEF CaptureTypeOK
  <2> QED BY <2>2 DEF BoundsHold, Slots, RunningOf
<1> QED BY <1>4, <1>7, <1>9, <1>10, <1>11, <1>12

\* A work that is applied leaves, and takes no slot.
LEMMA TakingAWorkAway ==
  ASSUME NEW w \in works, CaptureInv, works' = works \ {w}
  PROVE  /\ IsFiniteSet(works') /\ works' \subseteq works
         /\ Cardinality({v \in works' : v.outcome = "running"}) \in Nat
         /\ Cardinality({v \in works' : v.outcome = "running"}) <= Cardinality({v \in works : v.outcome = "running"})
         /\ Cardinality({v \in works : v.outcome = "running"}) \in Nat
<1>1. IsFiniteSet(works') /\ works' \subseteq works BY FS_RemoveElement DEF CaptureInv, CaptureTypeOK
<1>2. RunningOf(works') \subseteq RunningOf(works) BY <1>1 DEF RunningOf
<1> QED BY <1>1, <1>2, FewerRunning DEF CaptureInv, CaptureTypeOK, RunningOf

\* What the surface refuses was no place of a request that did not end.
LEMMA StaleStep ==
  ASSUME NEW w \in works, ReviewCaptureAssumption, CaptureInv, ApplyStale(w)
  PROVE  CaptureInv'
<1> USE DEF CaptureInv, ReviewCaptureAssumption, ApplyStale
<1>1. IsFiniteSet(works') /\ works' \subseteq works BY TakingAWorkAway
<1>2. CaptureTypeOK' /\ PairIsOfOneRequest' BY <1>1 DEF CaptureTypeOK, PairIsOfOneRequest
<1>3. \A s \in CaptureSections : (HalfWaits(s)' <=> HalfWaits(s)) /\ (HalfWorks(s)' => HalfWorks(s))
  BY <1>1 DEF HalfWaits, HalfWorks, WorksFor
<1>4. OnePlace' BY <1>1, <1>3 DEF OnePlace, WorksFor
<1>5. HasPlace'
  <2>1. SUFFICES ASSUME ends = {} PROVE HasPlace' BY DEF HasPlace
  <2>2. w.identity.pair # activePair BY <2>1 DEF HasPlace
  <2>3. \A s \in CaptureSections : HalfWorks(s) => HalfWorks(s)' BY <2>2 DEF HalfWorks, WorksFor
  <2> QED BY <1>1, <1>3, <2>1, <2>3 DEF HasPlace, IsCurrent
<1>6. EndedRequestIsOver' BY <1>1 DEF EndedRequestIsOver, IsCurrent
<1>7. BoundsHold' BY TakingAWorkAway DEF BoundsHold, Slots
<1> QED BY <1>2, <1>4, <1>5, <1>6, <1>7

\* A current work is the one place of its half, so its request did not end.
LEMMA CurrentWork ==
  ASSUME NEW w \in works, CaptureInv, IsCurrent(w)
  PROVE  /\ ends = {} /\ w.identity \in Ids /\ w.identity.section \in CaptureSections
         /\ w.identity.pair = activePair /\ captured[w.identity.section] = Missing
         /\ ~HalfWaits(w.identity.section)
         /\ \A v \in works : WorksFor(v, w.identity.section) => v = w
<1> USE DEF CaptureInv
<1>1. w.identity \in Ids /\ w.identity.section \in CaptureSections BY DEF CaptureTypeOK, Ids
<1>2. WorksFor(w, w.identity.section) /\ HalfWorks(w.identity.section) BY DEF IsCurrent, WorksFor, HalfWorks
<1>3. ends = {} /\ w.identity.pair = activePair BY DEF EndedRequestIsOver, IsCurrent
<1> QED BY <1>1, <1>2, <1>3 DEF OnePlace

\* A capture of another step waits where its work was.
LEMMA PendingStep ==
  ASSUME NEW w \in works, ReviewCaptureAssumption, CaptureInv, ApplyPending(w)
  PROVE  CaptureInv'
<1> USE DEF CaptureInv, ReviewCaptureAssumption, ApplyPending
<1> DEFINE half == w.identity.section
           next == [section |-> half, step |-> w.identity.step + 1]
<1>1. IsFiniteSet(works') /\ works' \subseteq works BY TakingAWorkAway
<1>2. /\ ends = {} /\ w.identity \in Ids /\ half \in CaptureSections /\ captured[half] = Missing
      /\ ~HalfWaits(half) /\ \A v \in works : WorksFor(v, half) => v = w
  BY CurrentWork
<1>3. next \in Captures /\ next.section = half
  <2>1. w.identity.step < StepsMax BY DEF CaptureTypeOK
  <2> QED BY <1>2, <2>1 DEF Captures, Ids
<1>4. toSubmit' = Append(toSubmit, next) OBVIOUS
<1> HIDE DEF next
<1>5. CaptureTypeOK' BY <1>1, <1>3, <1>4 DEF CaptureTypeOK
<1>6. PairIsOfOneRequest' BY DEF PairIsOfOneRequest
<1>7. Len(toSubmit) \in Nat /\ DOMAIN toSubmit' = 1..(Len(toSubmit) + 1) /\ DOMAIN toSubmit = 1..Len(toSubmit)
      /\ toSubmit'[Len(toSubmit) + 1].section = half
      /\ \A n \in DOMAIN toSubmit : toSubmit'[n] = toSubmit[n]
  BY <1>3, <1>4 DEF CaptureTypeOK
<1>8. \A s \in CaptureSections : (HalfWaits(s)' <=> HalfWaits(s) \/ s = half) /\ (HalfWorks(s)' <=> HalfWorks(s) /\ s # half)
  <2>1. TAKE s \in CaptureSections
  <2>2. HalfWaits(s)' <=> HalfWaits(s) \/ s = half BY <1>7 DEF HalfWaits
  <2>3. HalfWorks(s)' <=> HalfWorks(s) /\ s # half BY <1>2 DEF HalfWorks, WorksFor
  <2> QED BY <2>2, <2>3
<1>9. OnePlace'
  <2>1. \A v \in works' : v.identity.pair <= activePair' BY <1>1 DEF OnePlace
  <2>2. \A s \in CaptureSections : \A u, v \in works' : WorksFor(u, s)' /\ WorksFor(v, s)' => u = v
    BY <1>1 DEF OnePlace, WorksFor
  <2>3. \A s \in CaptureSections : \A m, n \in DOMAIN toSubmit' : toSubmit'[m].section = s /\ toSubmit'[n].section = s => m = n
    BY <1>2, <1>7 DEF OnePlace, HalfWaits
  <2> QED BY <1>2, <1>8, <2>1, <2>2, <2>3 DEF OnePlace
<1>10. HasPlace' BY <1>1, <1>8 DEF HasPlace, IsCurrent
<1>11. EndedRequestIsOver' BY <1>2 DEF EndedRequestIsOver
<1>12. BoundsHold' BY TakingAWorkAway DEF BoundsHold, Slots
<1> QED BY <1>5, <1>6, <1>9, <1>10, <1>11, <1>12

\* A candidate fills its half; the last one ends the request, which has no place left.
LEMMA CandidateStep ==
  ASSUME NEW w \in works, NEW stale \in {0, 2}, ReviewCaptureAssumption, CaptureInv, ApplyCandidate(w, stale)
  PROVE  CaptureInv'
<1> USE DEF CaptureInv, ReviewCaptureAssumption, ApplyCandidate
<1> DEFINE half == w.identity.section
<1>1. IsFiniteSet(works') /\ works' \subseteq works BY TakingAWorkAway
<1>2. /\ ends = {} /\ w.identity \in Ids /\ half \in CaptureSections /\ w.identity.pair = activePair
      /\ ~HalfWaits(half) /\ \A v \in works : WorksFor(v, half) => v = w
  BY CurrentWork
<1>3. captured' \in [CaptureSections -> Nat] /\ captured'[half] = activePair
      /\ \A s \in CaptureSections \ {half} : captured'[s] = captured[s]
  BY <1>2 DEF CaptureTypeOK
<1>4. CASE abandoned \/ \E s \in CaptureSections : captured'[s] = Missing
  <2>1. UNCHANGED <<count, ends, visible>> BY <1>4 DEF PublishPair
  <2>2. CaptureTypeOK' BY <1>1, <1>3, <2>1 DEF CaptureTypeOK
  <2>3. PairIsOfOneRequest' BY <1>3, <2>1 DEF PairIsOfOneRequest
  <2>4. \A s \in CaptureSections : (HalfWaits(s)' <=> HalfWaits(s)) /\ (HalfWorks(s)' <=> HalfWorks(s) /\ s # half)
    BY <1>2 DEF HalfWaits, HalfWorks, WorksFor
  <2>5. OnePlace' BY <1>1, <1>2, <1>3, <2>4 DEF OnePlace, WorksFor
  <2>6. HasPlace' BY <1>1, <1>2, <1>3, <2>1, <2>4 DEF HasPlace, IsCurrent, CaptureTypeOK, Missing
  <2>7. EndedRequestIsOver' BY <1>2, <2>1 DEF EndedRequestIsOver
  <2>8. BoundsHold' BY <2>1, TakingAWorkAway DEF BoundsHold, Slots
  <2> QED BY <2>2, <2>3, <2>5, <2>6, <2>7, <2>8
<1>5. CASE ~abandoned /\ \A s \in CaptureSections : captured'[s] # Missing
  <2>1. visible' = captured' /\ count' = count + stale + 2 /\ ends' = {"finished"}
    BY <1>2, <1>5 DEF PublishPair
  <2>2. Reserved(w) = 4 BY <1>3, <1>5 DEF Reserved
  <2>3. count' \in Nat /\ count' <= EventsMax BY <2>1, <2>2 DEF CaptureTypeOK, Room
  <2>4. CaptureTypeOK' BY <1>1, <1>3, <2>1, <2>3 DEF CaptureTypeOK
  <2>5. \A s \in CaptureSections : captured'[s] = activePair BY <1>3, <1>5 DEF PairIsOfOneRequest
  <2>6. PairIsOfOneRequest' BY <2>1, <2>5 DEF PairIsOfOneRequest
  <2>7. \A s \in CaptureSections : ~HalfWaits(s)' /\ ~HalfWorks(s)'
    <3>1. TAKE s \in CaptureSections
    <3>2. CASE s = half BY <1>2, <3>2 DEF HalfWaits, HalfWorks, WorksFor
    <3>3. CASE s # half
      <4>1. captured[s] # Missing BY <1>3, <1>5, <3>3
      <4> QED BY <1>1, <4>1 DEF OnePlace, HalfWaits, HalfWorks, WorksFor
    <3> QED BY <3>2, <3>3
  <2>8. OnePlace' BY <1>1, <2>7 DEF OnePlace, WorksFor
  <2>9. HasPlace' BY <2>1 DEF HasPlace
  <2>10. EndedRequestIsOver'
    <3>1. toSubmit' = <<>>
      <4>1. ASSUME NEW n \in DOMAIN toSubmit' PROVE FALSE
        <5>1. toSubmit'[n] \in Captures BY <2>4 DEF CaptureTypeOK
        <5> QED BY <2>7, <5>1 DEF Captures, HalfWaits
      <4>2. toSubmit' \in Seq(Captures) BY <2>4 DEF CaptureTypeOK
      <4>3. Len(toSubmit') \in Nat /\ DOMAIN toSubmit' = 1..Len(toSubmit') BY <4>2
      <4>4. ~(1 \in 1..Len(toSubmit')) BY <4>1, <4>3
      <4>5. Len(toSubmit') = 0 BY <4>3, <4>4
      <4> QED BY <4>2, <4>5
    <3>2. \A v \in works' : ~IsCurrent(v)'
      BY <2>4, <2>7 DEF IsCurrent, HalfWorks, WorksFor, CaptureTypeOK, Ids
    <3> QED BY <2>1, <3>1, <3>2 DEF EndedRequestIsOver
  <2>11. BoundsHold' BY <2>3, TakingAWorkAway DEF BoundsHold, Slots
  <2> QED BY <2>4, <2>6, <2>8, <2>9, <2>10, <2>11
<1> QED BY <1>4, <1>5

\* A failure closes the gates and empties the queue.
LEMMA FailureStep ==
  ASSUME NEW w \in works, ReviewCaptureAssumption, CaptureInv, ApplyFailure(w)
  PROVE  CaptureInv'
<1> USE DEF CaptureInv, ReviewCaptureAssumption, ApplyFailure
<1>1. IsFiniteSet(works') /\ works' \subseteq works BY TakingAWorkAway
<1>2. ends = {} BY CurrentWork
<1>3. count' \in Nat /\ count' <= EventsMax BY DEF CaptureTypeOK, Room, Reserved
<1>4. CaptureTypeOK' BY <1>1, <1>2, <1>3 DEF CaptureTypeOK, NoGates
<1>5. PairIsOfOneRequest' BY DEF PairIsOfOneRequest
<1>6. \A s \in CaptureSections : ~HalfWaits(s)' /\ (HalfWorks(s)' => HalfWorks(s))
  BY <1>1 DEF HalfWaits, HalfWorks, WorksFor
<1>7. OnePlace' BY <1>1, <1>6 DEF OnePlace, WorksFor
<1>8. HasPlace' BY DEF HasPlace
<1>9. \A v \in works' : ~IsCurrent(v)'
  BY <1>4 DEF IsCurrent, NoGates, NoIdentity, Identity, CaptureTypeOK, Ids
<1>10. EndedRequestIsOver' BY <1>2, <1>9 DEF EndedRequestIsOver
<1>11. BoundsHold' BY <1>3, TakingAWorkAway DEF BoundsHold, Slots
<1> QED BY <1>4, <1>5, <1>7, <1>8, <1>10, <1>11

\* What remains of a queue when its first members are taken.
LEMMA RestFacts ==
  ASSUME NEW T, NEW queue \in Seq(T), NEW k \in 0..Len(queue), NEW rest, rest = SubSeq(queue, k + 1, Len(queue))
  PROVE  /\ rest \in Seq(T) /\ Len(rest) = Len(queue) - k /\ DOMAIN rest = 1..(Len(queue) - k)
         /\ \A n \in DOMAIN rest : n + k \in 1..Len(queue) /\ rest[n] = queue[n + k]
OBVIOUS

\* A dispatch turns the first captures into works, and the gates of these and of
\* the first refused one name them.
LEMMA DispatchStep ==
  ASSUME ReviewCaptureAssumption, CaptureInv /\ Dispatch
  PROVE  CaptureInv'
<1> USE DEF CaptureInv, ReviewCaptureAssumption
<1> DEFINE taken == IF Slots < Len(toSubmit) THEN Slots ELSE Len(toSubmit)
           begun == IF taken < Len(toSubmit) THEN taken + 1 ELSE taken
           Of(n) == Identity(activePair, toSubmit[n])
           Fresh == {Work(Of(n), "running") : n \in 1..taken}
<1>1. Len(toSubmit) \in 1..2 /\ ends = {}
  BY TwoWait DEF Dispatch, CaptureTypeOK, EndedRequestIsOver
<1>2. Slots \in Nat
  <2>1. Cardinality(RunningOf(works)) \in Nat BY FewerRunning DEF CaptureTypeOK
  <2> QED BY <2>1 DEF BoundsHold, Slots, RunningOf
<1>3. taken \in 0..Len(toSubmit) /\ taken <= Slots /\ begun \in 0..Len(toSubmit) /\ taken <= begun
      /\ begun <= taken + 1
  BY <1>1, <1>2
<1>4. \A n \in 1..Len(toSubmit) :
        /\ Of(n) \in Ids /\ Of(n).pair = activePair
        /\ Of(n).section = toSubmit[n].section /\ toSubmit[n].section \in CaptureSections
  <2>1. TAKE n \in 1..Len(toSubmit)
  <2>2. toSubmit[n] \in Captures /\ activePair \in 1..PairsMax BY DEF CaptureTypeOK
  <2> QED BY <2>2 DEF Captures, Identity, Ids
<1>5. /\ works' = works \cup Fresh
      /\ gates' = [s \in CaptureSections |->
          IF \E n \in 1..begun : toSubmit[n].section = s
          THEN Of(CHOOSE n \in 1..begun : toSubmit[n].section = s) ELSE gates[s]]
      /\ toSubmit' = SubSeq(toSubmit, taken + 1, Len(toSubmit))
      /\ UNCHANGED <<activePair, captured, abandoned, count, ends, visible>>
  BY DEF Dispatch, Remaining
<1> HIDE DEF taken, begun
<1>7. \A n \in 1..begun : gates'[toSubmit[n].section] = Of(n)
  <2>1. TAKE n \in 1..begun
  <2>2. n \in 1..Len(toSubmit) BY <1>1, <1>3
  <2>3. \A m \in 1..begun : toSubmit[m].section = toSubmit[n].section => m = n
    BY <1>1, <1>3, <1>4, <2>2 DEF OnePlace, CaptureTypeOK
  <2>4. (CHOOSE k \in 1..begun : toSubmit[k].section = toSubmit[n].section) = n BY <2>3
  <2> QED BY <1>4, <1>5, <2>2, <2>4
<1>8. \A s \in CaptureSections : (\A n \in 1..begun : toSubmit[n].section # s) => gates'[s] = gates[s]
  BY <1>5
<1>9. /\ toSubmit' \in Seq(Captures) /\ Len(toSubmit') = Len(toSubmit) - taken
      /\ DOMAIN toSubmit' = 1..(Len(toSubmit) - taken)
      /\ \A n \in DOMAIN toSubmit' : n + taken \in 1..Len(toSubmit) /\ toSubmit'[n] = toSubmit[n + taken]
  <2>1. toSubmit \in Seq(Captures) BY DEF CaptureTypeOK
  <2> QED BY <1>3, <1>5, <2>1, RestFacts
<1>10. \A v \in Fresh : \E n \in 1..taken : v = Work(Of(n), "running") OBVIOUS
<1>11. \A n \in 1..taken : Work(Of(n), "running") \in Fresh OBVIOUS
<1>12. \A n \in 1..taken : n \in 1..Len(toSubmit) /\ n \in 1..begun BY <1>1, <1>3
<1>13. /\ IsFiniteSet(works')
       /\ Cardinality(RunningOf(works')) <= Cardinality(RunningOf(works)) + taken
       /\ Cardinality(RunningOf(works')) \in Nat
  <2> DEFINE a == Work(Of(1), "running")
             b == Work(Of(2), "running")
  <2>1. IsFiniteSet(works) BY DEF CaptureTypeOK
  <2>2. taken \in {0, 1, 2}
    <3>1. \A l \in 1..2 : \A k \in 0..l : k \in {0, 1, 2} OBVIOUS
    <3> QED BY <1>1, <1>3, <3>1
  <2>3. taken = 0 => works' = works
    <3>1. taken = 0 => 1..taken = {} OBVIOUS
    <3> QED BY <1>5, <3>1
  <2>4. taken = 1 => works' = works \cup {a}
    <3>1. taken = 1 => 1..taken = {1} OBVIOUS
    <3> QED BY <1>5, <3>1
  <2>5. taken = 2 => works' = works \cup {a, b}
    <3>1. taken = 2 => 1..taken = {1, 2} OBVIOUS
    <3> QED BY <1>5, <3>1
  <2> HIDE DEF a, b, Of, Fresh
  <2>6. CASE taken = 0
    <3>1. Cardinality(RunningOf(works)) \in Nat BY <2>1, MoreRunning
    <3>2. works' = works BY <2>3, <2>6
    <3>3. RunningOf(works') = RunningOf(works) BY <3>2
    <3> QED BY <2>1, <2>6, <3>1, <3>2, <3>3
  <2>7. CASE taken = 1
    <3>1. works \cup {a} = works \cup {a, a} OBVIOUS
    <3>2. IsFiniteSet(works \cup {a}) /\ Cardinality(RunningOf(works)) \in Nat
          /\ Cardinality(RunningOf(works \cup {a})) \in 0..(Cardinality(RunningOf(works)) + 1)
      BY <2>1, <3>1, MoreRunning
    <3> QED BY <2>4, <2>7, <3>2
  <2>8. CASE taken = 2
    <3>1. IsFiniteSet(works \cup {a, b}) /\ Cardinality(RunningOf(works)) \in Nat
          /\ Cardinality(RunningOf(works \cup {a, b})) \in 0..(Cardinality(RunningOf(works)) + 2)
      BY <2>1, MoreRunning
    <3>2. works' = works \cup {a, b} BY <2>5, <2>8
    <3> QED BY <2>8, <3>1, <3>2
  <2> QED BY <2>2, <2>6, <2>7, <2>8
<1> HIDE DEF Of, Fresh
<1>14. CaptureTypeOK'
  <2>1. gates' \in [CaptureSections -> Ids \cup {NoIdentity}]
    <3>1. ASSUME NEW s \in CaptureSections PROVE gates'[s] \in Ids \cup {NoIdentity}
      <4>1. CASE \A n \in 1..begun : toSubmit[n].section # s BY <1>8, <4>1 DEF CaptureTypeOK
      <4>2. ASSUME NEW n \in 1..begun, toSubmit[n].section = s PROVE gates'[s] \in Ids \cup {NoIdentity}
        <5>1. n \in 1..Len(toSubmit) BY <1>1, <1>3
        <5> QED BY <1>4, <1>7, <4>2, <5>1
      <4> QED BY <4>1, <4>2
    <3>2. gates' = [s \in CaptureSections |-> gates'[s]] BY <1>5
    <3> QED BY <3>1, <3>2
  <2>2. works' \subseteq [identity : Ids, outcome : Outcomes \cup {"running"}]
    BY <1>4, <1>5, <1>10, <1>12 DEF CaptureTypeOK, Work
  <2>3. \A v \in works' : v.outcome = "pending" => v.identity.step < StepsMax
    BY <1>5, <1>10 DEF CaptureTypeOK, Work
  <2> QED BY <1>5, <1>9, <1>13, <2>1, <2>2, <2>3 DEF CaptureTypeOK
<1>15. PairIsOfOneRequest' BY <1>5 DEF PairIsOfOneRequest
<1>16. \A s \in CaptureSections : HalfWorks(s)' <=> HalfWorks(s) \/ \E n \in 1..taken : toSubmit[n].section = s
  <2>1. TAKE s \in CaptureSections
  <2>2. ASSUME NEW n \in 1..taken, toSubmit[n].section = s PROVE HalfWorks(s)'
    <3>1. n \in 1..Len(toSubmit) /\ Work(Of(n), "running") \in works' BY <1>5, <1>11, <1>12
    <3>2. PICK v \in works' : v = Work(Of(n), "running") BY <3>1
    <3>3. WorksFor(v, s)' BY <1>4, <1>5, <2>2, <3>1, <3>2 DEF WorksFor, Work
    <3> QED BY <3>3 DEF HalfWorks
  <2>3. ASSUME NEW v \in Fresh, WorksFor(v, s)' PROVE \E n \in 1..taken : toSubmit[n].section = s
    <3>1. PICK n \in 1..taken : v = Work(Of(n), "running") BY <1>10
    <3>2. n \in 1..Len(toSubmit) BY <1>12
    <3> QED BY <1>4, <2>3, <3>1, <3>2 DEF WorksFor, Work
  <2> QED BY <1>5, <2>2, <2>3 DEF HalfWorks, WorksFor
<1>17. \A s \in CaptureSections : HalfWaits(s) <=> HalfWaits(s)' \/ \E n \in 1..taken : toSubmit[n].section = s
  <2>1. TAKE s \in CaptureSections
  <2>2. HalfWaits(s)' => HalfWaits(s) BY <1>9 DEF HalfWaits, CaptureTypeOK
  <2>3. (\E n \in 1..taken : toSubmit[n].section = s) => HalfWaits(s) BY <1>12 DEF HalfWaits, CaptureTypeOK
  <2>4. ASSUME NEW n \in 1..Len(toSubmit), toSubmit[n].section = s, ~(n \in 1..taken) PROVE HalfWaits(s)'
    <3>1. n - taken \in 1..(Len(toSubmit) - taken) /\ (n - taken) + taken = n BY <1>1, <1>3, <2>4
    <3>2. toSubmit'[n - taken] = toSubmit[n] BY <1>9, <3>1
    <3> QED BY <1>9, <2>4, <3>1, <3>2 DEF HalfWaits
  <2>5. ASSUME HalfWaits(s) PROVE HalfWaits(s)' \/ \E n \in 1..taken : toSubmit[n].section = s
    <3>1. PICK n \in 1..Len(toSubmit) : toSubmit[n].section = s BY <2>5 DEF HalfWaits, CaptureTypeOK
    <3>2. CASE n \in 1..taken BY <3>1, <3>2
    <3>3. CASE ~(n \in 1..taken) BY <2>4, <3>1, <3>3
    <3> QED BY <3>2, <3>3
  <2> QED BY <2>2, <2>3, <2>5
<1>18. OnePlace'
  <2>1. \A v \in works' : v.identity.pair <= activePair'
    <3>1. \A v \in Fresh : v.identity.pair = activePair
      BY <1>4, <1>10, <1>12 DEF Work
    <3> QED BY <1>5, <3>1 DEF OnePlace, CaptureTypeOK
  <2>2. \A m, n \in 1..Len(toSubmit) : toSubmit[m].section = toSubmit[n].section => m = n
    BY <1>4 DEF OnePlace, CaptureTypeOK
  <2>3. ASSUME NEW s \in CaptureSections, NEW u \in works', NEW v \in works', WorksFor(u, s)', WorksFor(v, s)'
        PROVE  u = v
    <3>1. \A x \in Fresh : WorksFor(x, s)' => \E n \in 1..taken : x = Work(Of(n), "running") /\ toSubmit[n].section = s
      BY <1>4, <1>10, <1>12 DEF WorksFor, Work
    <3>2. \A x \in works : WorksFor(x, s)' => WorksFor(x, s) BY <1>5 DEF WorksFor
    <3>3. \A n \in 1..taken : toSubmit[n].section = s => HalfWaits(s) BY <1>12 DEF HalfWaits, CaptureTypeOK
    <3>4. CASE HalfWaits(s)
      <4>1. u \in Fresh /\ v \in Fresh BY <1>5, <2>3, <3>2, <3>4 DEF OnePlace, HalfWorks
      <4>2. PICK m \in 1..taken : u = Work(Of(m), "running") /\ toSubmit[m].section = s BY <2>3, <3>1, <4>1
      <4>3. PICK n \in 1..taken : v = Work(Of(n), "running") /\ toSubmit[n].section = s BY <2>3, <3>1, <4>1
      <4>4. m = n BY <1>12, <2>2, <4>2, <4>3
      <4> QED BY <4>2, <4>3, <4>4
    <3>5. CASE ~HalfWaits(s)
      <4>1. u \in works /\ v \in works BY <1>5, <2>3, <3>1, <3>3, <3>5
      <4> QED BY <2>3, <3>2, <4>1 DEF OnePlace
    <3> QED BY <3>4, <3>5
  <2>4. \A m, n \in DOMAIN toSubmit' : toSubmit'[m].section = toSubmit'[n].section => m = n
    <3>1. TAKE m, n \in DOMAIN toSubmit'
    <3>2. m \in Nat /\ n \in Nat BY <1>9
    <3>3. toSubmit'[m].section = toSubmit'[n].section => m + taken = n + taken BY <1>9, <2>2
    <3> QED BY <1>1, <1>3, <3>2, <3>3
  <2>5. ASSUME NEW s \in CaptureSections, HalfWaits(s)', HalfWorks(s)' PROVE FALSE
    <3>1. PICK n \in DOMAIN toSubmit' : toSubmit'[n].section = s BY <2>5 DEF HalfWaits
    <3>2. HalfWaits(s) BY <1>17, <2>5
    <3>3. PICK m \in 1..taken : toSubmit[m].section = s BY <1>16, <2>5, <3>2 DEF OnePlace
    <3>4. n + taken \in 1..Len(toSubmit) /\ toSubmit[n + taken].section = s BY <1>9, <3>1
    <3>5. m = n + taken BY <1>12, <2>2, <3>3, <3>4
    <3> QED BY <1>1, <1>3, <1>9, <3>5
  <2>6. \A s \in CaptureSections : captured'[s] # Missing => ~HalfWaits(s)' /\ ~HalfWorks(s)'
    BY <1>5, <1>16, <1>17 DEF OnePlace
  <2> QED BY <2>1, <2>3, <2>4, <2>5, <2>6 DEF OnePlace
<1>19. HasPlace'
  <2>1. ASSUME NEW v \in works', v.identity.pair = activePair' PROVE IsCurrent(v)'
    <3>1. CASE v \in Fresh
      <4>1. PICK n \in 1..taken : v = Work(Of(n), "running") BY <1>10, <3>1
      <4>2. n \in 1..begun /\ n \in 1..Len(toSubmit) BY <1>12
      <4> QED BY <1>4, <1>7, <2>1, <4>1, <4>2 DEF IsCurrent, Work
    <3>2. CASE v \in works
      <4>1. IsCurrent(v) /\ v.identity.section \in CaptureSections
        BY <1>1, <1>5, <2>1, <3>2 DEF HasPlace, CaptureTypeOK, Ids
      <4>2. HalfWorks(v.identity.section) BY <1>5, <2>1, <3>2 DEF HalfWorks, WorksFor
      <4>3. \A n \in 1..begun : toSubmit[n].section # v.identity.section
        BY <1>1, <1>3, <4>1, <4>2 DEF OnePlace, HalfWaits, CaptureTypeOK
      <4> QED BY <1>5, <1>8, <4>1, <4>3 DEF IsCurrent
    <3> QED BY <1>5, <3>1, <3>2
  <2>2. \A s \in CaptureSections : captured'[s] = Missing => HalfWaits(s)' \/ HalfWorks(s)'
    BY <1>1, <1>5, <1>16, <1>17 DEF HasPlace
  <2> QED BY <2>1, <2>2 DEF HasPlace
<1>20. EndedRequestIsOver' BY <1>1, <1>5 DEF EndedRequestIsOver
<1>21. BoundsHold'
  <2>1. Slots' = SlotsMax - Cardinality(RunningOf(works')) BY DEF Slots, RunningOf
  <2>2. Slots = SlotsMax - Cardinality(RunningOf(works)) BY SlotsMean
  <2>3. Cardinality(RunningOf(works)) \in Nat BY FewerRunning DEF CaptureTypeOK
  <2> HIDE DEF ReviewCaptureAssumption
  <2>4. SlotsMax \in Nat BY DEF ReviewCaptureAssumption
  <2>5. Slots' >= 0 BY <1>1, <1>3, <1>13, <2>1, <2>2, <2>3, <2>4
  <2> QED BY <1>5, <2>5 DEF BoundsHold
<1> QED BY <1>14, <1>15, <1>18, <1>19, <1>20, <1>21

\* The steps together.
LEMMA CaptureSteps ==
  ASSUME ReviewCaptureAssumption, CaptureInv /\ [CaptureNext]_captureVars
  PROVE  CaptureInv'
<1>1. CASE RequestReload BY <1>1, ReloadStep
<1>2. CASE CancelCapture BY <1>2, CancelStep
<1>3. CASE Dispatch BY <1>3, DispatchStep
<1>4. CASE Input \/ TakeEvents BY <1>4, HostStep
<1>5. ASSUME NEW w \in works, NEW outcome \in Outcomes, ReadyCompletion(w, outcome) PROVE CaptureInv'
  BY <1>5, ReadyStep
<1>6. ASSUME NEW w \in works, Apply(w) PROVE CaptureInv'
  <2>1. CASE ApplyStale(w) BY <2>1, StaleStep
  <2>2. CASE ApplyPending(w) BY <2>2, PendingStep
  <2>3. CASE \E stale \in {0, 2} : ApplyCandidate(w, stale) BY <2>3, CandidateStep
  <2>4. CASE ApplyFailure(w) BY <2>4, FailureStep
  <2> QED BY <1>6, <2>1, <2>2, <2>3, <2>4 DEF Apply
<1>7. CASE UNCHANGED captureVars
  <2> USE <1>7 DEF captureVars, CaptureInv
  <2>1. CaptureTypeOK' /\ PairIsOfOneRequest' BY DEF CaptureTypeOK, PairIsOfOneRequest
  <2>2. \A s \in CaptureSections : (HalfWaits(s)' <=> HalfWaits(s)) /\ (HalfWorks(s)' <=> HalfWorks(s))
    BY DEF HalfWaits, HalfWorks, WorksFor
  <2>3. OnePlace' BY <2>2 DEF OnePlace, WorksFor
  <2>4. HasPlace' /\ EndedRequestIsOver' BY <2>2 DEF HasPlace, EndedRequestIsOver, IsCurrent
  <2>5. BoundsHold' BY DEF BoundsHold, Slots
  <2> QED BY <2>1, <2>3, <2>4, <2>5
<1> QED BY <1>1, <1>2, <1>3, <1>4, <1>5, <1>6, <1>7 DEF CaptureNext

\* A set whose members are all the same one.
LEMMA OneMember ==
  ASSUME NEW S, NEW x \in S, \A y \in S : y = x
  PROVE  Cardinality(S) = 1
<1>1. S = {x} OBVIOUS
<1> QED BY <1>1, FS_Singleton

\* One place for each half is what RequestIsAccountedFor counts.
LEMMA PlacesAreCounted == CaptureInv => CaptureInvariant
<1> SUFFICES ASSUME CaptureInv PROVE RequestIsAccountedFor BY DEF CaptureInv, CaptureInvariant
<1> USE DEF CaptureInv
<1> SUFFICES ASSUME ends = {}, NEW s \in CaptureSections, captured[s] = Missing
             PROVE  Cardinality({w \in works : IsCurrent(w) /\ w.identity.section = s})
                      + Cardinality({n \in DOMAIN toSubmit : toSubmit[n].section = s}) = 1
  BY DEF RequestIsAccountedFor
<1> DEFINE Held == {w \in works : IsCurrent(w) /\ w.identity.section = s}
           Waiting == {n \in DOMAIN toSubmit : toSubmit[n].section = s}
<1>1. \A w \in works : w \in Held <=> WorksFor(w, s) BY DEF HasPlace, WorksFor, IsCurrent
<1>2. CASE HalfWaits(s)
  <2>1. Held = {} BY <1>1, <1>2 DEF OnePlace, HalfWorks
  <2>2. PICK n \in DOMAIN toSubmit : toSubmit[n].section = s BY <1>2 DEF HalfWaits
  <2>3. n \in Waiting /\ \A m \in Waiting : m = n BY <2>2 DEF OnePlace
  <2> HIDE DEF Held, Waiting
  <2>4. Cardinality(Held) = 0 /\ Cardinality(Waiting) = 1 BY <2>1, <2>3, OneMember, FS_EmptySet
  <2> QED BY <2>4 DEF Held, Waiting
<1>3. CASE HalfWorks(s)
  <2>1. Waiting = {} BY <1>3 DEF OnePlace, HalfWaits
  <2>2. PICK w \in works : WorksFor(w, s) BY <1>3 DEF HalfWorks
  <2>3. w \in Held /\ \A v \in Held : v = w BY <1>1, <2>2 DEF OnePlace
  <2> HIDE DEF Held, Waiting
  <2>4. Cardinality(Waiting) = 0 /\ Cardinality(Held) = 1 BY <2>1, <2>3, OneMember, FS_EmptySet
  <2> QED BY <2>4 DEF Held, Waiting
<1> QED BY <1>2, <1>3 DEF HasPlace

\* The inductive invariant holds of every behaviour.
THEOREM CaptureInvariance == ASSUME ReviewCaptureAssumption PROVE CaptureSpec => []CaptureInv
<1>1. CaptureInit => CaptureInv BY CaptureStarts
<1>2. CaptureInv /\ [CaptureNext]_captureVars => CaptureInv' BY CaptureSteps
<1> QED BY <1>1, <1>2, PTL DEF CaptureSpec

\* Every variable keeps its type, and no half takes more than StepsMax commands.
THEOREM CaptureTypeCorrect == ASSUME ReviewCaptureAssumption PROVE CaptureSpec => []CaptureTypeOK
<1>1. CaptureInv => CaptureTypeOK BY DEF CaptureInv
<1> QED BY <1>1, CaptureInvariance, PTL

\* Whatever the host requests, cancels, holds back and applies late, the pair on
\* the screen is of one request, each missing half has one place, an ended
\* request cannot end again, and the events and the runtime keep their bounds
\* (review.rs, apply and publish_pair_if_ready).
THEOREM CaptureCorrect == ASSUME ReviewCaptureAssumption PROVE CaptureSpec => []CaptureInvariant
<1>1. CaptureInv => CaptureInvariant BY PlacesAreCounted
<1> QED BY <1>1, CaptureInvariance, PTL

-----------------------------------------------------------------------------
(* HostCommands: the inductive invariant. *)

HostTypes ==
  /\ hostSession \in [id : Nat, open : BOOLEAN]
  /\ search \in [prompt : Nat, active : Nat, sequence : Nat]

\* A walk that the host asked for belongs to the newest request of the session
\* that is open, and once it is submitted it alone owns the slot.
WalkIsOwned ==
  \/ walk = Unasked
  \/ hostSession.open /\ walk = HostQueued(hostSession.id, requested)
  \/ /\ hostSession.open /\ current = requested
     /\ \E files \in {NoFiles, requested} : walk = HostTaken(hostSession.id, requested, files)

\* No search has an identity that was not given out yet.
SearchesWereBegun == search.prompt <= search.sequence /\ search.active <= search.sequence

HostInductive == HostTypes /\ WalkIsOwned /\ SearchesWereBegun /\ SearchHasItsOwner

LEMMA WalkPoints ==
  ASSUME NEW s, NEW r, NEW f
  PROVE  /\ Unasked.at = "unasked"
         /\ HostQueued(s, r).at = "queued" /\ HostQueued(s, r).session = s /\ HostQueued(s, r).request = r
         /\ HostTaken(s, r, f).at = "taken" /\ HostTaken(s, r, f).session = s
         /\ HostTaken(s, r, f).request = r /\ HostTaken(s, r, f).files = f
         /\ \A g : [HostTaken(s, r, f) EXCEPT !.files = g] = HostTaken(s, r, g)
BY DEF Unasked, HostQueued, HostTaken

LEMMA OwnedPoints ==
  ASSUME WalkIsOwned
  PROVE  /\ walk.at = "queued" => /\ hostSession.open /\ walk.session = hostSession.id
                                  /\ walk.request = requested
         /\ walk.at = "taken" => /\ hostSession.open /\ current = requested
                                 /\ walk.session = hostSession.id /\ walk.request = requested
                                 /\ \E files \in {NoFiles, requested} :
                                       walk = HostTaken(hostSession.id, requested, files)
BY WalkPoints DEF WalkIsOwned

LEMMA HostInit_Inductive == HostInit => HostInductive
BY DEF HostInit, HostInductive, HostTypes, WalkIsOwned, SearchesWereBegun, SearchHasItsOwner, sideVars

\* The record of the searches after the fields that a call sets.
LEMMA SearchBegun ==
  ASSUME NEW s \in [prompt : Nat, active : Nat, sequence : Nat], NEW n \in Nat,
         NEW t, t = [s EXCEPT !.sequence = n, !.prompt = n]
  PROVE  /\ t.sequence = n /\ t.prompt = n /\ t.active = s.active
         /\ t \in [prompt : Nat, active : Nat, sequence : Nat]
OBVIOUS

LEMMA HostLinesStep ==
  ASSUME HostInductive, [HostNext]_hostVars
  PROVE  HostInductive'
<1> USE DEF HostInductive
<1>u. CASE UNCHANGED hostVars
  BY <1>u DEF hostVars, HostTypes, WalkIsOwned, SearchesWereBegun, SearchHasItsOwner
<1>1. CASE OpenCommandLine
  BY <1>1 DEF OpenCommandLine, sideVars, HostTypes, WalkIsOwned, SearchesWereBegun, SearchHasItsOwner
<1>2. CASE SubmitCompletion
  <2>1. /\ hostSession.open /\ walk.session = hostSession.id /\ walk.request = requested
    BY <1>2, OwnedPoints DEF SubmitCompletion
  <2>2. walk' = HostTaken(hostSession.id, requested, NoFiles) /\ current' = requested
    BY <1>2, <2>1 DEF SubmitCompletion
  <2>3. WalkIsOwned'
    BY <1>2, <2>1, <2>2 DEF SubmitCompletion, WalkIsOwned
  <2> QED
    BY <1>2, <2>3 DEF SubmitCompletion, sideVars, HostTypes, SearchesWereBegun, SearchHasItsOwner
<1>3. CASE ApplyResult
  <2> DEFINE result == Head(results)
             files == Accepts(result.request) /\ result.outcome = "files"
  <2>1. CASE files /\ walk.at = "taken"
    <3>1. result.request = requested
      BY <2>1, OwnedPoints DEF Accepts
    <3>2. PICK f \in {NoFiles, requested} : walk = HostTaken(hostSession.id, requested, f)
      BY <2>1, OwnedPoints
    <3>3. walk' = HostTaken(hostSession.id, requested, requested)
      BY <1>3, <2>1, <3>1, <3>2, WalkPoints DEF ApplyResult
    <3>4. hostSession.open /\ current = requested
      BY <2>1, OwnedPoints
    <3>5. WalkIsOwned'
      BY <1>3, <3>3, <3>4 DEF ApplyResult, WalkIsOwned
    <3> QED
      BY <1>3, <3>5 DEF ApplyResult, sideVars, HostTypes, SearchesWereBegun, SearchHasItsOwner
  <2>2. CASE ~(files /\ walk.at = "taken")
    <3>1. walk' = walk
      BY <1>3, <2>2 DEF ApplyResult
    <3> QED
      BY <1>3, <3>1
      DEF ApplyResult, sideVars, HostTypes, WalkIsOwned, SearchesWereBegun, SearchHasItsOwner
  <2> QED
    BY <2>1, <2>2
<1>4. CASE TakeCompletion
  BY <1>4 DEF TakeCompletion, sideVars, HostTypes, WalkIsOwned, SearchesWereBegun, SearchHasItsOwner
<1>5. CASE OpenOrClosePrompt
  BY <1>5 DEF OpenOrClosePrompt, sideVars, HostTypes, WalkIsOwned, SearchesWereBegun, SearchHasItsOwner
<1>6. CASE BeginSearch
  <2>a. treeSearch' = treeSearch
        /\ search' = [search EXCEPT !.sequence = search.sequence + 1, !.prompt = search.sequence + 1]
    BY <1>6 DEF BeginSearch
  <2>b. search \in [prompt : Nat, active : Nat, sequence : Nat] /\ search.sequence + 1 \in Nat
    BY DEF HostTypes
  <2>1. /\ search'.sequence = search.sequence + 1 /\ search'.prompt = search.sequence + 1
        /\ search'.active = search.active /\ treeSearch' = treeSearch
        /\ search' \in [prompt : Nat, active : Nat, sequence : Nat]
    BY <2>a, <2>b, SearchBegun
  <2>2. SearchesWereBegun' /\ SearchHasItsOwner'
    BY <2>1 DEF HostTypes, SearchesWereBegun, SearchHasItsOwner
  <2>3. HostTypes' /\ WalkIsOwned'
    BY <1>6, <2>1 DEF BeginSearch, walkVars, HostTypes, WalkIsOwned
  <2> QED
    BY <2>2, <2>3
<1>7. ASSUME NEW s \in 1 .. SessionsMax, RequestCompletion(s) PROVE HostInductive'
  BY <1>7 DEF RequestCompletion, SessionIsCurrent, sideVars, HostTypes, WalkIsOwned, SearchesWereBegun,
              SearchHasItsOwner
<1>8. ASSUME NEW s \in 1 .. SessionsMax, CloseSession(s) PROVE HostInductive'
  BY <1>8 DEF CloseSession, sideVars, HostTypes, WalkIsOwned, SearchesWereBegun, SearchHasItsOwner
<1>9. ASSUME NEW r \in running, NEW outcome, EndWalk(r, outcome) PROVE HostInductive'
  BY <1>9 DEF EndWalk, sideVars, HostTypes, WalkIsOwned, SearchesWereBegun, SearchHasItsOwner
<1>10. ASSUME NEW id \in 1 .. SearchesMax, CancelSearchPrompt(id) PROVE HostInductive'
  BY <1>10 DEF CancelSearchPrompt, walkVars, HostTypes, WalkIsOwned, SearchesWereBegun, SearchHasItsOwner
<1>11. ASSUME NEW id \in 1 .. SearchesMax, EndSearch(id) PROVE HostInductive'
  BY <1>11 DEF EndSearch, walkVars, HostTypes, WalkIsOwned, SearchesWereBegun, SearchHasItsOwner
<1>12. ASSUME NEW id \in 1 .. SearchesMax, NEW query \in Queries, AcceptSearch(id, query)
       PROVE HostInductive'
  <2>a. /\ id # 0 /\ search.prompt = id /\ treeSearch' = query
        /\ search' = [search EXCEPT !.prompt = 0, !.active = IF query = 0 THEN 0 ELSE id]
    BY <1>12 DEF AcceptSearch
  <2>b. search \in [prompt : Nat, active : Nat, sequence : Nat]
    BY DEF HostTypes
  <2>1. /\ search'.sequence = search.sequence /\ search'.prompt = 0 /\ treeSearch' = query
        /\ search'.active = (IF query = 0 THEN 0 ELSE search.prompt) /\ search.prompt # 0
        /\ search' \in [prompt : Nat, active : Nat, sequence : Nat]
    BY <2>a, <2>b
  <2>2. SearchesWereBegun' /\ SearchHasItsOwner'
    BY <2>1 DEF HostTypes, SearchesWereBegun, SearchHasItsOwner
  <2>3. HostTypes' /\ WalkIsOwned'
    BY <1>12, <2>1 DEF AcceptSearch, walkVars, HostTypes, WalkIsOwned
  <2> QED
    BY <2>2, <2>3
<1>13. ASSUME NEW id \in 1 .. SearchesMax, NEW query \in Queries, UpdateSearch(id, query)
       PROVE HostInductive'
  BY <1>13 DEF UpdateSearch, walkVars, HostTypes, WalkIsOwned, SearchesWereBegun, SearchHasItsOwner
<1> QED
  BY <1>u, <1>1, <1>2, <1>3, <1>4, <1>5, <1>6, <1>7, <1>8, <1>9, <1>10, <1>11, <1>12, <1>13 DEF HostNext

\* The walk and the searches of the host keep the inductive invariant whatever
\* the order of its calls and of the results of the walks.
THEOREM HostInvariance == HostSpec => []HostInductive
<1>1. HostInductive /\ [HostNext]_hostVars => HostInductive'
  BY HostLinesStep
<1> QED
  BY HostInit_Inductive, <1>1, PTL DEF HostSpec

\* The files that the host can take answer its newest request in the session
\* that is open, and the tree searches exactly for the search that is active
\* (take_host_command_completion and require_active_search).
THEOREM HostCorrect == HostSpec => []HostInvariant
<1>1. HostInductive => HostInvariant
  <2> SUFFICES ASSUME HostInductive PROVE HostInvariant
    OBVIOUS
  <2>1. ASSUME walk.at = "taken"
        PROVE  /\ SessionIsCurrent(walk.session) /\ walk.request = requested
               /\ walk.files \in {NoFiles, walk.request}
    BY <2>1, OwnedPoints, WalkPoints DEF HostInductive, SessionIsCurrent
  <2> QED
    BY <2>1 DEF HostInductive, HostInvariant, FilesAnswerTheRequest
<1> QED
  BY HostInvariance, <1>1, PTL

-----------------------------------------------------------------------------
(* Facade: the inductive invariant. *)

Fates == {"none", "open", "closed", "answered", "delivered"}

IsHost(d) == d \in [open : {d.open}, answer : {d.answer}, generation : Nat]
IsDialog(o) == o \in [id : 1 .. DialogsMax, request : Requests, focused : {o.focused}, rendered : Nat]

\* A dialog that is open fits, waits for its answer behind no other one, and
\* was drawn in no generation but this one.
DialogIsSound ==
  dialog.open = NoDialog
  \/ /\ IsDialog(dialog.open) /\ dialog.answer = NoAnswer /\ fate[dialog.open.id] = "open"
     /\ dialog.open.rendered \in {0, dialog.generation}
     /\ RectContains(inner.area, dialog.open.request.body)

AnswerIsOfADialog == dialog.answer = NoAnswer \/ dialog.answer.id \in 1 .. DialogsMax

\* What the host took is no newer than what it read last, and of the same
\* editor and dialog when it is as new.
AddressedIsSeen ==
  addressed = NothingAddressed
  \/ /\ addressed \in [kind : {"decision", "cancel"}, generation : Nat, inner : Nat, dialog : Nat]
     /\ addressed.generation <= seen.facade
     /\ addressed.generation = seen.facade => addressed.inner = seen.inner /\ addressed.dialog = seen.dialog

FacadeShapes ==
  /\ inner \in [generation : Nat, waiting : BOOLEAN, area : Areas]
  /\ seen \in [facade : Nat, inner : Nat, dialog : Nat]
  /\ fate \in [1 .. DialogsMax -> Fates]
  /\ IsHost(dialog)

FacadeInductive == FacadeShapes /\ DialogIsSound /\ AnswerIsOfADialog /\ AddressedIsSeen /\ OneAnswerPerDialog

-----------------------------------------------------------------------------
(* The dialog, and what is published. *)

HostWith(d, o, a, n) == [d EXCEPT !.answer = a, !.open = o, !.generation = n]
DialogWith(o, at, n) == [o EXCEPT !.focused = at, !.rendered = n]

LEMMA HostFields ==
  ASSUME NEW d, IsHost(d), NEW o, NEW a, NEW n \in Nat
  PROVE  /\ IsHost(HostWith(d, o, a, n)) /\ HostWith(d, o, a, n).open = o
         /\ HostWith(d, o, a, n).answer = a /\ HostWith(d, o, a, n).generation = n
BY DEF IsHost, HostWith

LEMMA DialogFields ==
  ASSUME NEW o, IsDialog(o), NEW n \in Nat, NEW at
  PROVE  /\ IsDialog(DialogWith(o, at, n)) /\ DialogWith(o, at, n).id = o.id
         /\ DialogWith(o, at, n).request = o.request /\ DialogWith(o, at, n).rendered = n
BY DEF IsDialog, DialogWith

LEMMA DialogsDiffer ==
  ASSUME NEW o, IsDialog(o), DialogsMax \in Nat
  PROVE  o # NoDialog /\ o.id \in 1 .. DialogsMax /\ o.id # 0
BY DEF IsDialog, NoDialog

\* What input_context publishes is newer than what it published before, or the
\* same for the same editor and dialog.
LEMMA PublishedFacts ==
  ASSUME FacadeShapes
  PROVE  /\ Published \in [facade : Nat, inner : Nat, dialog : Nat]
         /\ Published.inner = inner.generation /\ Published.dialog = dialog.generation
         /\ Published = seen \/ Published.facade = seen.facade + 1
BY DEF FacadeShapes, Published, IsHost

LEMMA AddressedStays ==
  ASSUME FacadeShapes, AddressedIsSeen, addressed' = addressed, seen' \in {seen, Published}
  PROVE  AddressedIsSeen'
<1>1. /\ seen.facade \in Nat /\ (Published = seen \/ Published.facade = seen.facade + 1)
  BY PublishedFacts DEF FacadeShapes
<1> QED
  BY <1>1 DEF AddressedIsSeen

LEMMA FacadeInit_Inductive ==
  ASSUME FacadeAssumption, FacadeInit
  PROVE  FacadeInductive
<1>1. FacadeShapes
  <2>1. inner \in [generation : Nat, waiting : BOOLEAN, area : Areas]
    <3>1. inner \in [generation : {1}, waiting : {FALSE}, area : Areas]
      BY DEF FacadeInit
    <3>2. {1} \subseteq Nat /\ {FALSE} \subseteq BOOLEAN
      OBVIOUS
    <3> QED
      BY <3>1, <3>2, Zenon
  <2>2. seen \in [facade : Nat, inner : Nat, dialog : Nat]
    BY DEF FacadeInit
  <2>3. fate \in [1 .. DialogsMax -> Fates] /\ IsHost(dialog)
    BY DEF FacadeInit, NewDialogHost, Fates, IsHost
  <2> QED
    BY <2>1, <2>2, <2>3 DEF FacadeShapes
<1>2. dialog.open = NoDialog /\ dialog.answer = NoAnswer /\ dialog.answer.id = 0 /\ addressed = NothingAddressed
  BY DEF FacadeInit, NewDialogHost, NoAnswer
<1>3. {id \in DOMAIN fate : fate[id] = "answered"} = {}
  BY DEF FacadeInit
<1> QED
  BY <1>1, <1>2, <1>3 DEF FacadeInductive, DialogIsSound, AnswerIsOfADialog, AddressedIsSeen, OneAnswerPerDialog

-----------------------------------------------------------------------------
(* The steps of a dialog. *)

\* The answers that wait, by the dialogs that they are of.
AnsweredIn(f) == {id \in DOMAIN f : f[id] = "answered"}

\* The dialog stays open: another choice has the focus, or another frame shows it.
LEMMA OpenKeeps ==
  ASSUME FacadeInductive, IsOpen, IsHost(dialog'), IsDialog(dialog'.open),
         dialog'.open.id = dialog.open.id, dialog'.open.request = dialog.open.request,
         dialog'.open.rendered \in {0, dialog'.generation}, dialog'.answer = dialog.answer,
         inner' \in [generation : Nat, waiting : BOOLEAN, area : Areas],
         RectContains(inner'.area, dialog.open.request.body), UNCHANGED <<seen, addressed, fate>>
  PROVE  FacadeInductive'
<1>1. FacadeShapes' /\ AddressedIsSeen' /\ OneAnswerPerDialog' /\ AnswerIsOfADialog'
  BY DEF FacadeInductive, FacadeShapes, AddressedIsSeen, OneAnswerPerDialog, AnswerIsOfADialog, IsHost
<1>2. DialogIsSound'
  BY DEF FacadeInductive, DialogIsSound, IsOpen, IsDialog, RectContains
<1> QED
  BY <1>1, <1>2 DEF FacadeInductive

\* The dialog ends, with an answer or without.
LEMMA EndKeeps ==
  ASSUME FacadeAssumption, FacadeInductive, IsOpen, IsHost(dialog'), dialog'.open = NoDialog,
         \/ dialog'.answer = dialog.answer /\ fate' = [fate EXCEPT ![dialog.open.id] = "closed"]
         \/ dialog'.answer.id = dialog.open.id /\ fate' = [fate EXCEPT ![dialog.open.id] = "answered"],
         inner' \in [generation : Nat, waiting : BOOLEAN, area : Areas], UNCHANGED <<seen, addressed>>
  PROVE  FacadeInductive'
<1>1. /\ IsDialog(dialog.open) /\ dialog.answer = NoAnswer
      /\ fate \in [1 .. DialogsMax -> Fates] /\ AnsweredIn(fate) = {dialog.answer.id} \ {0}
  BY DEF FacadeInductive, FacadeShapes, DialogIsSound, IsOpen, OneAnswerPerDialog, AnsweredIn
<1>2. dialog.open.id \in 1 .. DialogsMax /\ dialog.open.id # 0
  BY <1>1, DialogsDiffer DEF FacadeAssumption
<1>3. AnsweredIn(fate) = {}
  BY <1>1 DEF NoAnswer
<1>4. dialog'.answer = NoAnswer \/ dialog'.answer.id \in 1 .. DialogsMax
  BY <1>1, <1>2
<1>5. fate' \in [1 .. DialogsMax -> Fates] /\ AnsweredIn(fate') = {dialog'.answer.id} \ {0}
  <2>1. CASE dialog'.answer = dialog.answer /\ fate' = [fate EXCEPT ![dialog.open.id] = "closed"]
    <3>1. fate' \in [1 .. DialogsMax -> Fates] /\ AnsweredIn(fate') = AnsweredIn(fate) \ {dialog.open.id}
      BY <1>1, <1>2, <2>1 DEF Fates, AnsweredIn
    <3> QED
      BY <3>1, <1>1, <1>3, <2>1
  <2>2. CASE dialog'.answer.id = dialog.open.id /\ fate' = [fate EXCEPT ![dialog.open.id] = "answered"]
    <3>1. fate' \in [1 .. DialogsMax -> Fates] /\ AnsweredIn(fate') = AnsweredIn(fate) \cup {dialog.open.id}
      BY <1>1, <1>2, <2>2 DEF Fates, AnsweredIn
    <3> QED
      BY <3>1, <1>2, <1>3, <2>2
  <2> QED
    BY <2>1, <2>2
<1>6. OneAnswerPerDialog'
  BY <1>5 DEF OneAnswerPerDialog, AnsweredIn
<1>7. FacadeShapes' /\ AddressedIsSeen'
  BY <1>5 DEF FacadeInductive, FacadeShapes, AddressedIsSeen
<1>8. DialogIsSound' /\ AnswerIsOfADialog'
  BY <1>4 DEF DialogIsSound, AnswerIsOfADialog
<1> QED
  BY <1>6, <1>7, <1>8 DEF FacadeInductive

\* The editor, or what the host took of it, changes beside the dialog.
LEMMA BesideKeeps ==
  ASSUME FacadeInductive, UNCHANGED <<dialog, fate>>,
         inner' \in [generation : Nat, waiting : BOOLEAN, area : {inner.area}],
         seen' \in [facade : Nat, inner : Nat, dialog : Nat], AddressedIsSeen'
  PROVE  FacadeInductive'
<1>1. inner'.area = inner.area /\ inner' \in [generation : Nat, waiting : BOOLEAN, area : Areas]
  BY DEF FacadeInductive, FacadeShapes
<1> QED
  BY <1>1 DEF FacadeInductive, FacadeShapes, DialogIsSound, AnswerIsOfADialog, OneAnswerPerDialog, IsHost, IsDialog

\* A record of the editor that changes keeps its shape.
LEMMA InnerFields ==
  ASSUME FacadeShapes, NEW n \in Nat, NEW w \in BOOLEAN, NEW e,
         e \in {inner, [inner EXCEPT !.generation = n, !.waiting = w]}
  PROVE  e \in [generation : Nat, waiting : BOOLEAN, area : {inner.area}]
<1>1. /\ inner \in [generation : Nat, waiting : BOOLEAN, area : {inner.area}]
      /\ [inner EXCEPT !.generation = n, !.waiting = w] \in [generation : Nat, waiting : BOOLEAN, area : {inner.area}]
  BY DEF FacadeShapes
<1> QED
  BY <1>1

-----------------------------------------------------------------------------
(* The steps of the facade. *)

\* The host of each step is the host of before with other fields.
LEMMA OpenHosts ==
  ASSUME IsHost(dialog), IsDialog(dialog.open), NEW n
  PROVE  /\ Focused(n) = HostWith(dialog, DialogWith(dialog.open, n, 0), dialog.answer, dialog.generation + 1)
         /\ Invalidated = HostWith(dialog, DialogWith(dialog.open, dialog.open.focused, 0), dialog.answer,
                                   dialog.generation + 1)
         /\ [dialog EXCEPT !.open.rendered = dialog.generation] =
              HostWith(dialog, DialogWith(dialog.open, dialog.open.focused, dialog.generation), dialog.answer,
                       dialog.generation)
<1>1. dialog = [open |-> dialog.open, answer |-> dialog.answer, generation |-> dialog.generation]
  BY DEF IsHost
<1>2. dialog.open = [id |-> dialog.open.id, request |-> dialog.open.request, focused |-> dialog.open.focused,
                     rendered |-> dialog.open.rendered]
  BY DEF IsDialog
<1>3. Focused(n) = HostWith(dialog, DialogWith(dialog.open, n, 0), dialog.answer, dialog.generation + 1)
  BY <1>1, <1>2 DEF Focused, HostWith, DialogWith
<1>4. Invalidated = HostWith(dialog, DialogWith(dialog.open, dialog.open.focused, 0), dialog.answer,
                             dialog.generation + 1)
  BY <1>1, <1>2 DEF Invalidated, HostWith, DialogWith
<1>5. [dialog EXCEPT !.open.rendered = dialog.generation] =
        HostWith(dialog, DialogWith(dialog.open, dialog.open.focused, dialog.generation), dialog.answer,
                 dialog.generation)
  BY <1>1, <1>2 DEF HostWith, DialogWith
<1> QED
  BY <1>3, <1>4, <1>5

LEMMA OtherHosts ==
  ASSUME IsHost(dialog), NEW x, NEW n
  PROVE  /\ AnsweredWith(x) = HostWith(dialog, NoDialog, DialogAnswer(dialog.open.id, x), dialog.generation + 1)
         /\ Closed = HostWith(dialog, NoDialog, dialog.answer, dialog.generation + 1)
         /\ [dialog EXCEPT !.open = x, !.generation = n] = HostWith(dialog, x, dialog.answer, n)
         /\ [dialog EXCEPT !.answer = x] = HostWith(dialog, dialog.open, x, dialog.generation)
<1>1. dialog = [open |-> dialog.open, answer |-> dialog.answer, generation |-> dialog.generation]
  BY DEF IsHost
<1>2. AnsweredWith(x) = HostWith(dialog, NoDialog, DialogAnswer(dialog.open.id, x), dialog.generation + 1)
  BY <1>1 DEF AnsweredWith, HostWith
<1>3. Closed = HostWith(dialog, NoDialog, dialog.answer, dialog.generation + 1)
  BY <1>1 DEF Closed, HostWith
<1>4. [dialog EXCEPT !.open = x, !.generation = n] = HostWith(dialog, x, dialog.answer, n)
  BY <1>1 DEF HostWith
<1>5. [dialog EXCEPT !.answer = x] = HostWith(dialog, dialog.open, x, dialog.generation)
  BY <1>1 DEF HostWith
<1> QED
  BY <1>2, <1>3, <1>4, <1>5

LEMMA FocusKeeps ==
  ASSUME FacadeInductive, IsOpen, NEW at, NEW n \in Nat, NEW g \in Nat, n \in {0, g},
         dialog' = HostWith(dialog, DialogWith(dialog.open, at, n), dialog.answer, g), UNCHANGED <<seen, addressed, fate>>,
         inner' \in [generation : Nat, waiting : BOOLEAN, area : Areas],
         RectContains(inner'.area, dialog.open.request.body)
  PROVE  FacadeInductive'
<1>1. IsHost(dialog) /\ IsDialog(dialog.open)
  BY DEF FacadeInductive, FacadeShapes, DialogIsSound, IsOpen
<1> DEFINE o == DialogWith(dialog.open, at, n)
<1>2. IsDialog(o) /\ o.id = dialog.open.id /\ o.request = dialog.open.request /\ o.rendered = n
  BY <1>1, DialogFields
<1> HIDE DEF o
<1>3. IsHost(dialog') /\ dialog'.open = o /\ dialog'.answer = dialog.answer /\ dialog'.generation = g
  BY <1>1, HostFields DEF o
<1> QED
  BY <1>2, <1>3, OpenKeeps

\* While a dialog is open, in the shapes that its steps rely on.
LEMMA OpenShapes ==
  ASSUME FacadeInductive, IsOpen
  PROVE  /\ IsHost(dialog) /\ IsDialog(dialog.open) /\ dialog.generation \in Nat /\ dialog.generation + 1 \in Nat
         /\ inner \in [generation : Nat, waiting : BOOLEAN, area : Areas]
         /\ RectContains(inner.area, dialog.open.request.body)
BY DEF FacadeInductive, FacadeShapes, DialogIsSound, IsOpen, IsHost

LEMMA RenderKeeps ==
  ASSUME FacadeInductive, Render
  PROVE  FacadeInductive'
<1>1. /\ IsOpen /\ UNCHANGED <<inner, seen, addressed, fate>>
      /\ dialog' = [dialog EXCEPT !.open.rendered = dialog.generation]
  BY DEF Render
<1>2. dialog' = HostWith(dialog, DialogWith(dialog.open, dialog.open.focused, dialog.generation), dialog.answer,
                         dialog.generation)
  BY <1>1, OpenShapes, OpenHosts
<1> QED
  BY <1>1, <1>2, OpenShapes, FocusKeeps

LEMMA AnswerKeeps ==
  ASSUME FacadeAssumption, FacadeInductive, IsOpen, NEW choice, Interact(TRUE, AnsweredWith(choice))
  PROVE  FacadeInductive'
<1>1. dialog' = HostWith(dialog, NoDialog, DialogAnswer(dialog.open.id, choice), dialog.generation + 1)
  BY OpenShapes, OtherHosts DEF Interact
<1>2. IsHost(dialog') /\ dialog'.open = NoDialog /\ dialog'.answer = DialogAnswer(dialog.open.id, choice)
  BY <1>1, OpenShapes, HostFields
<1>3. dialog'.answer.id = dialog.open.id
  BY <1>2 DEF DialogAnswer
<1>4. /\ fate' = [fate EXCEPT ![dialog.open.id] = "answered"] /\ UNCHANGED <<seen, addressed>>
      /\ inner' \in [generation : Nat, waiting : BOOLEAN, area : Areas]
  BY DEF Interact, FacadeInductive, FacadeShapes
<1> QED
  BY <1>2, <1>3, <1>4, EndKeeps

LEMMA ClosedFields ==
  ASSUME FacadeInductive
  PROVE  IsHost(Closed) /\ Closed.open = NoDialog /\ Closed.answer = dialog.answer
<1>1. IsHost(dialog) /\ dialog.generation + 1 \in Nat
  BY DEF FacadeInductive, FacadeShapes, IsHost
<1>2. Closed = HostWith(dialog, NoDialog, dialog.answer, dialog.generation + 1)
  BY <1>1, OtherHosts
<1> QED
  BY <1>1, <1>2, HostFields

LEMMA CloseKeeps ==
  ASSUME FacadeAssumption, FacadeInductive, IsOpen, dialog' = Closed,
         fate' = [fate EXCEPT ![dialog.open.id] = "closed"], UNCHANGED <<seen, addressed>>,
         inner' \in [generation : Nat, waiting : BOOLEAN, area : Areas]
  PROVE  FacadeInductive'
<1>1. IsHost(dialog') /\ dialog'.open = NoDialog /\ dialog'.answer = dialog.answer
  BY ClosedFields
<1> QED
  BY <1>1, EndKeeps

LEMMA KeyKeeps ==
  ASSUME FacadeAssumption, FacadeInductive, NEW key, Key(key)
  PROVE  FacadeInductive'
<1>1. CASE \E choice : Interact(TRUE, AnsweredWith(choice))
  BY <1>1, AnswerKeeps DEF Key
<1>2. CASE \E n : Interact(FALSE, Focused(n))
  <2>1. PICK n : Interact(FALSE, Focused(n))
    BY <1>2
  <2>2. dialog' = Focused(n) /\ UNCHANGED <<inner, seen, addressed, fate>> /\ IsOpen
    BY <2>1 DEF Interact, Key
  <2>3. dialog' = HostWith(dialog, DialogWith(dialog.open, n, 0), dialog.answer, dialog.generation + 1)
    BY <2>2, OpenShapes, OpenHosts
  <2> QED
    BY <2>2, <2>3, OpenShapes, FocusKeeps
<1> QED
  BY <1>1, <1>2 DEF Key

LEMMA PointerKeeps ==
  ASSUME FacadeAssumption, FacadeInductive, NEW place, NEW action, Pointer(place, action)
  PROVE  FacadeInductive'
<1>1. CASE \E choice : Interact(TRUE, AnsweredWith(choice))
  BY <1>1, AnswerKeeps DEF Pointer
<1>2. CASE \E n : Interact(FALSE, Focused(n))
  <2>1. PICK n : Interact(FALSE, Focused(n))
    BY <1>2
  <2>2. dialog' = Focused(n) /\ UNCHANGED <<inner, seen, addressed, fate>> /\ IsOpen
    BY <2>1 DEF Interact, Pointer
  <2>3. dialog' = HostWith(dialog, DialogWith(dialog.open, n, 0), dialog.answer, dialog.generation + 1)
    BY <2>2, OpenShapes, OpenHosts
  <2> QED
    BY <2>2, <2>3, OpenShapes, FocusKeeps
<1>3. CASE UNCHANGED <<inner, dialog, seen, addressed, fate>>
  BY <1>3 DEF FacadeInductive, FacadeShapes, DialogIsSound, AnswerIsOfADialog, AddressedIsSeen,
              OneAnswerPerDialog, IsHost, IsDialog
<1> QED
  BY <1>1, <1>2, <1>3 DEF Pointer

LEMMA ResizeKeeps ==
  ASSUME FacadeAssumption, FacadeInductive, NEW area, Resize(area)
  PROVE  FacadeInductive'
<1>1. inner' \in [generation : Nat, waiting : BOOLEAN, area : Areas] /\ inner'.area = area
  <2>1. /\ inner.generation \in Nat /\ inner.waiting \in BOOLEAN /\ area \in Areas
        /\ inner' \in [generation : {inner.generation, inner.generation + 1}, waiting : {inner.waiting}, area : {area}]
    BY DEF FacadeInductive, FacadeShapes, Resize
  <2> QED
    BY <2>1
<1>2. CASE ~IsOpen
  <2>1. UNCHANGED <<dialog, fate, seen, addressed>>
    BY <1>2 DEF Resize, AfterResize, IsOpen
  <2> QED
    BY <1>1, <1>2, <2>1 DEF FacadeInductive, FacadeShapes, DialogIsSound, AnswerIsOfADialog, AddressedIsSeen,
                            OneAnswerPerDialog, IsHost, IsOpen
<1>3. CASE IsOpen /\ RectContains(area, dialog.open.request.body)
  <2>1. dialog' = Invalidated /\ UNCHANGED <<seen, addressed>>
    BY <1>3 DEF Resize, AfterResize
  <2>2. dialog' = HostWith(dialog, DialogWith(dialog.open, dialog.open.focused, 0), dialog.answer,
                           dialog.generation + 1)
    BY <1>3, <2>1, OpenShapes, OpenHosts
  <2>4. dialog'.open # NoDialog
    BY <1>3, <2>2, OpenShapes, HostFields, DialogFields, DialogsDiffer DEF FacadeAssumption
  <2>3. fate' = fate
    BY <2>4 DEF Resize
  <2> QED
    BY <1>1, <1>3, <2>1, <2>2, <2>3, OpenShapes, FocusKeeps
<1>4. CASE IsOpen /\ ~RectContains(area, dialog.open.request.body)
  <2>1. dialog' = Closed /\ UNCHANGED <<seen, addressed>>
    BY <1>4 DEF Resize, AfterResize
  <2>2. dialog'.open = NoDialog
    BY <2>1, ClosedFields
  <2>3. fate' = [fate EXCEPT ![dialog.open.id] = "closed"]
    BY <1>4, <2>2 DEF Resize
  <2> QED
    BY <1>1, <1>4, <2>1, <2>3, CloseKeeps
<1> QED
  BY <1>2, <1>3, <1>4

\* The dialogs that were opened are numbered, and the next one has a number.
LEMMA NextDialogIsNumbered ==
  ASSUME FacadeAssumption, NextDialog <= DialogsMax
  PROVE  NextDialog \in 1 .. DialogsMax
<1> DEFINE opened == {id \in 1 .. DialogsMax : fate[id] # "none"}
<1>1. IsFiniteSet(1 .. DialogsMax) /\ opened \subseteq 1 .. DialogsMax
  BY FS_Interval DEF FacadeAssumption
<1>2. Cardinality(opened) \in Nat
  BY <1>1, FS_Subset, FS_CardinalityType
<1> HIDE DEF opened
<1>3. NextDialog = Cardinality(opened) + 1
  BY DEF NextDialog, opened
<1> QED
  BY <1>2, <1>3 DEF FacadeAssumption

LEMMA OpenDialogKeeps ==
  ASSUME FacadeAssumption, FacadeInductive, NEW r \in Requests, OpenDialog(r)
  PROVE  FacadeInductive'
<1> DEFINE id == NextDialog
           o == Opened(id, r)
<1>1. /\ IsHost(dialog) /\ dialog.generation + 1 \in Nat /\ dialog.answer = NoAnswer
      /\ dialog' = [dialog EXCEPT !.open = o, !.generation = dialog.generation + 1]
      /\ fate' = [fate EXCEPT ![id] = "open"] /\ UNCHANGED <<inner, seen, addressed>>
      /\ RectContains(inner.area, r.body)
  BY DEF OpenDialog, FacadeInductive, FacadeShapes, IsHost
<1>2. id \in 1 .. DialogsMax
  BY NextDialogIsNumbered DEF OpenDialog
<1> HIDE DEF id
<1>3. IsDialog(o) /\ o.id = id /\ o.request = r /\ o.rendered = 0
  BY <1>2 DEF Opened, IsDialog
<1> HIDE DEF o
<1>4. IsHost(dialog') /\ dialog'.open = o /\ dialog'.answer = dialog.answer
  <2>1. dialog' = HostWith(dialog, o, dialog.answer, dialog.generation + 1)
    BY <1>1, OtherHosts
  <2> QED
    BY <1>1, <2>1, HostFields
<1>5. /\ fate \in [1 .. DialogsMax -> Fates] /\ AnsweredIn(fate) = {dialog.answer.id} \ {0}
      /\ dialog.answer.id = 0
  BY <1>1 DEF FacadeInductive, FacadeShapes, OneAnswerPerDialog, AnsweredIn, NoAnswer
<1>6. fate' \in [1 .. DialogsMax -> Fates] /\ AnsweredIn(fate') = {} /\ fate'[id] = "open"
  <2>1. fate' \in [1 .. DialogsMax -> Fates] /\ fate'[id] = "open"
    BY <1>1, <1>2, <1>5 DEF Fates
  <2>2. AnsweredIn(fate') \subseteq AnsweredIn(fate)
    BY <1>1, <1>2, <1>5 DEF AnsweredIn
  <2> QED
    BY <2>1, <2>2, <1>5
<1>7. OneAnswerPerDialog' /\ AnswerIsOfADialog'
  BY <1>1, <1>4, <1>5, <1>6 DEF OneAnswerPerDialog, AnsweredIn, AnswerIsOfADialog
<1>8. FacadeShapes' /\ AddressedIsSeen'
  BY <1>1, <1>4, <1>6 DEF FacadeInductive, FacadeShapes, AddressedIsSeen
<1>9. DialogIsSound'
  BY <1>1, <1>3, <1>4, <1>6 DEF DialogIsSound
<1> QED
  BY <1>7, <1>8, <1>9 DEF FacadeInductive

LEMMA TakeAnswerKeeps ==
  ASSUME FacadeAssumption, FacadeInductive, TakeAnswer
  PROVE  FacadeInductive'
<1> DEFINE id == dialog.answer.id
<1>1. /\ IsHost(dialog) /\ dialog.answer # NoAnswer /\ id \in 1 .. DialogsMax /\ dialog.open = NoDialog
      /\ dialog' = [dialog EXCEPT !.answer = NoAnswer] /\ UNCHANGED <<inner, seen, addressed>>
      /\ fate' = [fate EXCEPT ![id] = "delivered"] /\ fate \in [1 .. DialogsMax -> Fates]
      /\ AnsweredIn(fate) = {id} \ {0}
  BY DEF FacadeInductive, FacadeShapes, DialogIsSound, AnswerIsOfADialog, OneAnswerPerDialog, TakeAnswer, AnsweredIn
<1> HIDE DEF id
<1>2. IsHost(dialog') /\ dialog'.open = NoDialog /\ dialog'.answer = NoAnswer
  BY <1>1, OtherHosts, HostFields DEF IsHost
<1>3. fate' \in [1 .. DialogsMax -> Fates] /\ AnsweredIn(fate') = {}
  <2>1. fate' \in [1 .. DialogsMax -> Fates] /\ AnsweredIn(fate') = AnsweredIn(fate) \ {id}
    BY <1>1 DEF Fates, AnsweredIn
  <2> QED
    BY <2>1, <1>1
<1>4. OneAnswerPerDialog' /\ AnswerIsOfADialog' /\ DialogIsSound'
  BY <1>2, <1>3 DEF OneAnswerPerDialog, AnsweredIn, AnswerIsOfADialog, DialogIsSound, NoAnswer
<1>5. FacadeShapes' /\ AddressedIsSeen'
  BY <1>1, <1>2, <1>3 DEF FacadeInductive, FacadeShapes, AddressedIsSeen
<1> QED
  BY <1>4, <1>5 DEF FacadeInductive

LEMMA ReadContextKeeps ==
  ASSUME FacadeInductive, ReadContext
  PROVE  FacadeInductive'
<1>1. FacadeShapes /\ AddressedIsSeen /\ seen' = Published /\ UNCHANGED <<inner, dialog, fate>>
  BY DEF FacadeInductive, ReadContext
<1>2. AddressedIsSeen'
  <2>1. CASE addressed' = addressed
    BY <1>1, <2>1, AddressedStays
  <2>2. CASE addressed' = AddressedFor("decision", Published)
    <3>1. /\ Published \in [facade : Nat, inner : Nat, dialog : Nat]
          /\ Published.inner = inner.generation /\ Published.dialog = dialog.generation
      BY <1>1, PublishedFacts
    <3> QED
      BY <1>1, <2>2, <3>1 DEF AddressedFor, AddressedIsSeen
  <2> QED
    BY <2>1, <2>2 DEF ReadContext
<1>3. seen' \in [facade : Nat, inner : Nat, dialog : Nat]
  BY <1>1, PublishedFacts
<1>4. inner' \in [generation : Nat, waiting : BOOLEAN, area : {inner.area}]
  BY <1>1 DEF FacadeShapes
<1> QED
  BY <1>1, <1>2, <1>3, <1>4, BesideKeeps

LEMMA AddressedChanges ==
  ASSUME FacadeShapes, AddressedIsSeen, seen'.facade \in Nat,
         \/ addressed' = NothingAddressed
         \/ addressed # NothingAddressed /\ addressed' = [addressed EXCEPT !.kind = "cancel"] /\ seen' = Published
  PROVE  AddressedIsSeen'
<1>1. /\ seen.facade \in Nat /\ (Published = seen \/ Published.facade = seen.facade + 1)
  BY PublishedFacts DEF FacadeShapes
<1> QED
  BY <1>1 DEF AddressedIsSeen

LEMMA SubmitDecisionKeeps ==
  ASSUME FacadeInductive, SubmitAddressed
  PROVE  FacadeInductive'
<1>1. /\ FacadeShapes /\ AddressedIsSeen /\ seen' = Published /\ UNCHANGED <<dialog, fate>>
      /\ addressed.kind = "decision" /\ inner.generation \in Nat /\ inner.generation + 1 \in Nat
  <2>1. addressed.kind = "decision" /\ seen' = Published /\ UNCHANGED <<dialog, fate>>
    BY DEF SubmitAddressed
  <2>2. FacadeShapes /\ AddressedIsSeen /\ inner.generation \in Nat
    BY DEF FacadeInductive, FacadeShapes
  <2> QED
    BY <2>1, <2>2
<1>2. seen' \in [facade : Nat, inner : Nat, dialog : Nat]
  BY <1>1, PublishedFacts
<1>3. addressed' = NothingAddressed \/ addressed' = [addressed EXCEPT !.kind = "cancel"]
  BY DEF SubmitAddressed
<1>4. AddressedIsSeen'
  BY <1>1, <1>2, <1>3, AddressedChanges DEF NothingAddressed
<1>5. CASE UNCHANGED inner
  BY <1>1, <1>2, <1>4, <1>5, InnerFields, BesideKeeps
<1>6. CASE \E waiting \in BOOLEAN : inner' = [inner EXCEPT !.generation = @ + 1, !.waiting = waiting]
  <2>1. PICK waiting \in BOOLEAN : inner' = [inner EXCEPT !.generation = inner.generation + 1, !.waiting = waiting]
    BY <1>6
  <2>2. inner' \in [generation : Nat, waiting : BOOLEAN, area : {inner.area}]
    BY <1>1, <2>1, InnerFields
  <2> QED
    BY <1>1, <1>2, <1>4, <2>2, BesideKeeps
<1> QED
  BY <1>5, <1>6 DEF SubmitAddressed

LEMMA SubmitCancelKeeps ==
  ASSUME FacadeInductive, CancelAddressed
  PROVE  FacadeInductive'
<1>1. /\ FacadeShapes /\ AddressedIsSeen /\ addressed' = NothingAddressed /\ UNCHANGED <<dialog, fate>> /\ inner.generation + 1 \in Nat
      /\ Published \in [facade : Nat, inner : Nat, dialog : Nat]
  BY PublishedFacts DEF FacadeInductive, CancelAddressed, FacadeShapes
<1>2. AddressedIsSeen'
  BY <1>1 DEF AddressedIsSeen
<1>3. CASE seen' = Published /\ UNCHANGED inner
  BY <1>1, <1>2, <1>3, InnerFields, BesideKeeps
<1>4. CASE /\ inner' = [inner EXCEPT !.generation = @ + 1, !.waiting = FALSE]
           /\ seen' = [Published EXCEPT !.facade = @ + 1, !.inner = @ + 1]
  <2>1. seen' \in [facade : Nat, inner : Nat, dialog : Nat]
    <3>1. /\ Published.facade + 1 \in Nat /\ Published.inner + 1 \in Nat /\ Published.dialog \in Nat
          /\ Published = [facade |-> Published.facade, inner |-> Published.inner, dialog |-> Published.dialog]
      BY <1>1
    <3>2. seen' = [facade |-> Published.facade + 1, inner |-> Published.inner + 1, dialog |-> Published.dialog]
      BY <1>4, <3>1
    <3> QED
      BY <3>1, <3>2
  <2>2. inner' \in [generation : Nat, waiting : BOOLEAN, area : {inner.area}]
    BY <1>1, <1>4, InnerFields
  <2> QED
    BY <1>1, <1>2, <2>1, <2>2, BesideKeeps
<1> QED
  BY <1>3, <1>4 DEF CancelAddressed

LEMMA InnerMovesKeeps ==
  ASSUME FacadeInductive, InnerMoves
  PROVE  FacadeInductive'
<1>1. /\ FacadeShapes /\ AddressedIsSeen /\ UNCHANGED <<dialog, seen, addressed, fate>> /\ inner.generation + 1 \in Nat
      /\ seen \in [facade : Nat, inner : Nat, dialog : Nat]
  BY DEF FacadeInductive, InnerMoves, FacadeShapes
<1>2. PICK waiting \in BOOLEAN : inner' = [inner EXCEPT !.generation = inner.generation + 1, !.waiting = waiting]
  BY DEF InnerMoves
<1>3. inner' \in [generation : Nat, waiting : BOOLEAN, area : {inner.area}]
  BY <1>1, <1>2, InnerFields
<1>4. AddressedIsSeen'
  BY <1>1, AddressedStays
<1> QED
  BY <1>1, <1>3, <1>4, BesideKeeps

LEMMA FacadeStep ==
  ASSUME FacadeAssumption, FacadeInductive, [FacadeNext]_facadeVars
  PROVE  FacadeInductive'
<1>1. CASE UNCHANGED facadeVars
  BY <1>1 DEF facadeVars, FacadeInductive, FacadeShapes, DialogIsSound, AnswerIsOfADialog, AddressedIsSeen,
              OneAnswerPerDialog, IsHost, IsDialog
<1>2. CASE CloseDialog
  <2>1. /\ IsOpen /\ dialog' = Closed /\ fate' = [fate EXCEPT ![dialog.open.id] = "closed"]
        /\ UNCHANGED <<seen, addressed>> /\ inner' \in [generation : Nat, waiting : BOOLEAN, area : Areas]
    BY <1>2 DEF CloseDialog, FacadeInductive, FacadeShapes
  <2> QED
    BY <2>1, CloseKeeps
<1>3. CASE FacadeNext
  BY <1>2, <1>3, InnerMovesKeeps, RenderKeeps, TakeAnswerKeeps, ReadContextKeeps, SubmitDecisionKeeps,
     SubmitCancelKeeps, OpenDialogKeeps, KeyKeeps, PointerKeeps, ResizeKeeps DEF FacadeNext
<1> QED
  BY <1>1, <1>3

-----------------------------------------------------------------------------
(* The theorems of the facade. *)

THEOREM FacadeInvariance ==
  ASSUME FacadeAssumption
  PROVE  FacadeSpec => []FacadeInductive
<1>1. FacadeInit => FacadeInductive
  BY FacadeInit_Inductive
<1>2. FacadeInductive /\ [FacadeNext]_facadeVars => FacadeInductive'
  BY FacadeStep
<1> QED
  BY <1>1, <1>2, PTL DEF FacadeSpec

LEMMA InductiveIsEnough ==
  ASSUME FacadeInductive
  PROVE  FacadeInvariant
<1>1. DecisionIsForThisContext
  <2>1. /\ Published = seen \/ Published.facade = seen.facade + 1
        /\ Published.inner = inner.generation /\ Published.dialog = dialog.generation
        /\ seen.facade \in Nat
    BY PublishedFacts DEF FacadeInductive, FacadeShapes
  <2> QED
    BY <2>1 DEF DecisionIsForThisContext, FacadeInductive, AddressedIsSeen
<1>2. PlacementIsCurrent /\ OpenDialogFits
  BY DEF FacadeInductive, DialogIsSound, IsOpen, PlacementIsCurrent, OpenDialogFits
<1> QED
  BY <1>1, <1>2 DEF FacadeInvariant, FacadeInductive

THEOREM FacadeCorrect ==
  ASSUME FacadeAssumption
  PROVE  FacadeSpec => []FacadeInvariant
<1>1. FacadeInductive => FacadeInvariant
  BY InductiveIsEnough
<1> QED
  BY <1>1, FacadeInvariance, PTL

=============================================================================
