----------------------------- MODULE LanguageSync -----------------------------
(***************************************************************************)
(* One document, the editor that changes it, and the language servers that *)
(* hold a copy of it: the editor's side (src/crates/kvim-tui/src/          *)
(* language.rs, session.rs, driver.rs), the client session that serves one *)
(* server and survives its restarts (src/crates/kvim-language/src/editor/  *)
(* session.rs, services.rs), and a server that answers late or never.      *)
(*                                                                         *)
(* A text is named by the buffer revision that produced it.  Requests and  *)
(* answers carry the text they were computed from, so that a property can  *)
(* compare it with the revision the code believes it describes.  Left out: *)
(* positions, markup, progress and configuration messages, reports for the *)
(* log, and the process below the session (LspProject).  A server names    *)
(* the version it publishes diagnostics for, publishes none where the      *)
(* session pulls them, and reads a client frame at once; its own frames    *)
(* wait in the wire.                                                       *)
(***************************************************************************)
EXTENDS Integers, FiniteSets, Sequences, FiniteSetsExt

CONSTANTS
  ServerCount,   \* the servers of the document's language, in declaration order
  QueueMax,      \* LSP_REQUEST_QUEUE_CAPACITY
  EventsMax,     \* LSP_EVENT_QUEUE_CAPACITY
  RestartsMax,   \* LSP_RESTARTS_MAX
  WireMax,       \* bound of the model: unread frames of one server
  RevisionMax,   \* bound of the model: revisions of the document
  QuestionsMax   \* bound of the model: questions that the user asks

ASSUME LanguageAssumption ==
  /\ {ServerCount, QueueMax, EventsMax, WireMax, RevisionMax} \subseteq Nat \ {0}
  /\ {RestartsMax, QuestionsMax} \subseteq Nat

VARIABLES
  doc,       \* the buffer: its revision, and whether it is loaded
  lang,      \* LanguageState: outbox, resync mark, question
  passes,    \* dispatch passes left in this loop iteration; 0: it waits
  running,   \* the servers whose LanguageService is Running
  shown,     \* the diagnostics of each server that the buffer shows
  session,   \* the client session of each server, and the server behind it
  queue,     \* its request queue
  wire,      \* the frames that the server wrote and the session did not read
  events,    \* the result queue that every session shares
  asked,     \* how many questions were asked
  issued,    \* next_id of each LanguageServerHandle
  orphaned,  \* history: a session dropped a request of the open question
  applied    \* history: the texts this iteration applied, and the text below

vars == <<doc, lang, passes, running, shown, session, queue, wire, events, asked,
          issued, orphaned, applied>>

Servers == 1 .. ServerCount
Formatter == 1           \* at most one declared server of a language formats
DISPATCH_PASSES_MAX == 2

-----------------------------------------------------------------------------
(* The values that travel. *)

Open(rev) == [kind |-> "open", rev |-> rev]
Change(from, to) == [kind |-> "change", from |-> from, rev |-> to]
Close == [kind |-> "close"]
Query(purpose, rev, req) ==
  [kind |-> "query", purpose |-> purpose, rev |-> rev, req |-> req]

\* LanguageOutcome, sent by server s.  req 0: the failure of a session.
Diagnostics(s, rev, text, pulled) ==
  [kind |-> "diagnostics", server |-> s, rev |-> rev, text |-> text, pulled |-> pulled]
Answer(s, p, text) ==
  [kind |-> "answer", server |-> s, req |-> p.req, purpose |-> p.purpose,
   rev |-> p.rev, text |-> text]
Failed(s, req) == [kind |-> "failed", server |-> s, req |-> req]
Restarted(s) == [kind |-> "restarted", server |-> s]
Gone(s) == [kind |-> "gone", server |-> s]     \* Unavailable or Stopped

NoQuestion == [state |-> "none"]
Queued(purpose, rev) ==
  [state |-> "queued", purpose |-> purpose, rev |-> rev, slots |-> <<>>]

\* A slot holds Unanswered, Empty, or the text that its answer describes.
Unanswered == -1
Empty == 0
Garbled == -2            \* what a server holds after a change of another text

NoCopy == [rev |-> 0, version |-> 0]
NoPeer == [text |-> 0, version |-> 0]
NothingApplied == [texts |-> {}, onto |-> 0]
NoSet == [rev |-> 0, text |-> 0, pulled |-> FALSE]

Starting(restarts) ==
  [state |-> "starting", restarts |-> restarts, sync |-> FALSE, pulls |-> FALSE,
   copy |-> NoCopy, pending |-> {}, due |-> "no", pulling |-> FALSE, peer |-> NoPeer]

Init ==
  /\ doc = [rev |-> 1, loaded |-> TRUE]
  /\ lang = [outbox |-> <<>>, resync |-> TRUE, question |-> NoQuestion]
  /\ passes = DISPATCH_PASSES_MAX
  /\ running = Servers
  /\ shown = [s \in Servers |-> NoSet]
  /\ session = [s \in Servers |-> Starting(0)]
  /\ queue = [s \in Servers |-> <<>>]
  /\ wire = [s \in Servers |-> <<>>]
  /\ events = <<>>
  /\ asked = 0
  /\ issued = [s \in Servers |-> 0]
  /\ orphaned = FALSE
  /\ applied = NothingApplied

-----------------------------------------------------------------------------
(* The editor's transitions.  Each ends with a dispatch of the outbox. *)

clients == <<session, queue, wire>>

\* The n-th smallest member of a set of numbers.
Nth(S, n) == CHOOSE m \in S : Cardinality({k \in S : k <= m}) = n

\* LanguageState::mark_resync, forget (without the diagnostics), resync_all
WithoutChanges(outbox) ==
  LET kept == {i \in DOMAIN outbox : outbox[i].kind # "change"}
  IN [n \in 1 .. Cardinality(kept) |-> outbox[Nth(kept, n)]]
MarkResync(l) == [l EXCEPT !.outbox = WithoutChanges(@), !.resync = TRUE]
Forget(l) == [l EXCEPT !.outbox = WithoutChanges(@), !.resync = FALSE]
\* Mutant: a restart keeps the queued requests.
KeepOutbox(l) == [l EXCEPT !.resync = doc.loaded]
ResyncAll(l) == [l EXCEPT !.outbox = <<>>, !.resync = doc.loaded]

Enqueue(l, request) == [l EXCEPT !.outbox = Append(@, request)]

Synchronize(l, from, to) == IF l.resync THEN l ELSE Enqueue(l, Change(from, to))

Iterate ==
  /\ passes = 0
  /\ passes' = DISPATCH_PASSES_MAX
UserStep ==
  /\ Iterate /\ applied' = NothingApplied
  /\ UNCHANGED <<clients, events, running, issued, orphaned>>

MayEdit == doc.loaded /\ doc.rev < RevisionMax

Edit ==
  /\ MayEdit /\ UserStep
  /\ doc' = [doc EXCEPT !.rev = @ + 1]
  /\ lang' = Synchronize(lang, doc.rev, doc.rev + 1)
  /\ UNCHANGED <<shown, asked>>

\* An undo or a redo, which no protocol change describes, or (forget) a reload.
Rewrite(forget) ==
  /\ MayEdit /\ UserStep
  /\ doc' = [doc EXCEPT !.rev = @ + 1]
  /\ lang' = IF lang.resync /\ ~forget THEN lang ELSE MarkResync(lang)
  /\ shown' = IF forget THEN [s \in Servers |-> NoSet] ELSE shown
  /\ UNCHANGED asked

CloseBuffer ==
  /\ doc.loaded /\ UserStep
  /\ doc' = [doc EXCEPT !.loaded = FALSE]
  /\ lang' = Enqueue(Forget(lang), Close)
  /\ shown' = [s \in Servers |-> NoSet]
  /\ UNCHANGED asked

\* A load creates a new buffer, so its revision was never used before.
Load ==
  /\ ~doc.loaded /\ doc.rev < RevisionMax /\ UserStep
  /\ doc' = [rev |-> doc.rev + 1, loaded |-> TRUE]
  /\ lang' = MarkResync(lang)
  /\ UNCHANGED <<shown, asked>>

\* One question at a time: a second one is refused, and a save that may not ask
\* is not part of this module.
Ask(purpose) ==
  /\ doc.loaded /\ asked < QuestionsMax /\ lang.question = NoQuestion /\ UserStep
  /\ asked' = asked + 1
  /\ lang' = Enqueue([lang EXCEPT !.question = Queued(purpose, doc.rev)],
                     Query(purpose, doc.rev, 0))
  /\ UNCHANGED <<doc, shown>>
AskAtCursor == Ask("hover")
RequestFormat == Ask("format")

\* Any other outcome of the loop: nothing of this module, and a dispatch.
OtherOutcome ==
  /\ (lang.resync \/ lang.outbox # <<>>) /\ UserStep
  /\ UNCHANGED <<doc, lang, shown, asked>>

-----------------------------------------------------------------------------
(* The dispatch: submit_language_work, send_request, apply_language_dispatch. *)

Request == IF lang.resync THEN Open(doc.rev) ELSE Head(lang.outbox)
Taken == IF lang.resync THEN [lang EXCEPT !.resync = FALSE]
                        ELSE [lang EXCEPT !.outbox = Tail(@)]

Ended(s) == session[s].state = "ended"
Targets(r) ==
  {s \in running : r.kind = "query" /\ r.purpose = "format" => s = Formatter}
Takers(r) == {s \in Targets(r) : ~Ended(s) /\ Len(queue[s]) < QueueMax}
\* The first refusal, in declaration order, is the answer when nobody took it.
Drifted(r) == Targets(r) # {} /\ ~Ended(Min(Targets(r)))

\* PendingQuery::accept, with the identity that each handle issued.
Accepted(q, r, ids) ==
  IF r.kind # "query" \/ q = NoQuestion THEN q
  ELSE [q EXCEPT !.state = "accepted",
                 !.slots = [i \in 1 .. Cardinality(Takers(r)) |->
                   LET s == Nth(Takers(r), i)
                   IN [server |-> s, req |-> ids[s], answer |-> Unanswered]]]

\* Mutant: a refused change opens nothing again.
RefuseOnly(l, r) == IF r.kind = "query" THEN [l EXCEPT !.question = NoQuestion] ELSE l
\* apply_language_dispatch after a refusal: abandon_query, or repair_document.
Refused(l, r) ==
  CASE r.kind = "query" -> [l EXCEPT !.question = NoQuestion]
    [] r.kind \in {"open", "change"} /\ Drifted(r) -> MarkResync(l)
    [] OTHER -> l

Dispatch ==
  /\ passes > 0
  /\ lang.resync \/ lang.outbox # <<>>
  /\ LET r == Request
         ids == [s \in Servers |-> IF r.kind = "query" /\ s \in Targets(r)
                                   THEN issued[s] + 1 ELSE issued[s]]
         Sent(s) == IF r.kind = "query" THEN [r EXCEPT !.req = ids[s]] ELSE r
     IN /\ issued' = ids
        /\ queue' = [s \in Servers |->
             IF s \in Takers(r) THEN Append(queue[s], Sent(s)) ELSE queue[s]]
        /\ \/ /\ Takers(r) # {}
              /\ lang' = [Taken EXCEPT !.question = Accepted(@, r, ids)]
              /\ UNCHANGED passes
           \/ /\ Takers(r) = {}
              /\ lang' = Refused(Taken, r)
              \* A full queue refuses the rest of the pass as well.
              /\ passes' = IF Drifted(r) THEN passes - 1 ELSE passes
  /\ UNCHANGED <<doc, running, shown, session, wire, events, asked, orphaned, applied>>

DispatchEnds ==
  /\ passes > 0 /\ ~lang.resync /\ lang.outbox = <<>>
  /\ passes' = 0 /\ applied' = NothingApplied
  /\ UNCHANGED <<doc, lang, running, shown, clients, events, asked, issued, orphaned>>

-----------------------------------------------------------------------------
(* The results of the sessions: LanguageServices::recv, apply_language_event. *)

Result(kind) ==
  /\ events # <<>> /\ Head(events).kind = kind
  /\ Iterate
  /\ events' = Tail(events)
  /\ UNCHANGED <<clients, asked, issued>>
Result1 == Head(events)

SetIsCurrent(e) == doc.loaded /\ e.rev = doc.rev

Nothing == applied' = NothingApplied /\ UNCHANGED doc

ApplyDiagnostics ==
  /\ Result("diagnostics")
  /\ LET e == Result1
     IN shown' = IF SetIsCurrent(e)
                 THEN [shown EXCEPT ![e.server] =
                         [rev |-> e.rev, text |-> e.text, pulled |-> e.pulled]]
                 ELSE shown
  /\ Nothing /\ UNCHANGED <<lang, running>>

Complete(q) == \A i \in DOMAIN q.slots : q.slots[i].answer # Unanswered
Texts(q) == {q.slots[i].answer : i \in DOMAIN q.slots} \ {Empty}

\* FormatEdits::transaction: the edits of an obsolete revision are discarded.
Formats(q) == q.purpose = "format" /\ Texts(q) # {} /\ doc.loaded /\ q.rev = doc.rev

\* complete_query: the float shows the merged hover, or the edits are applied as
\* one transaction; a save starts either way.
Finish(q) ==
  LET released == [lang EXCEPT !.question = NoQuestion]
  IN /\ applied' = IF Texts(q) # {} /\ (q.purpose = "hover" \/ Formats(q))
                   THEN [texts |-> Texts(q), onto |-> doc.rev] ELSE NothingApplied
     /\ \/ /\ Formats(q) /\ MayEdit
           /\ doc' = [doc EXCEPT !.rev = @ + 1]
           /\ lang' = Synchronize(released, doc.rev, doc.rev + 1)
        \/ /\ lang' = released      \* no edits, or the text already matches them
           /\ UNCHANGED doc

Settled(q) ==
  IF Complete(q) THEN Finish(q)
  ELSE lang' = [lang EXCEPT !.question = q] /\ Nothing

\* PendingQuery::resolve: the first slot with that identity.
Resolve(q, req, answer) ==
  LET n == Min({i \in DOMAIN q.slots : q.slots[i].req = req})
      slot == q.slots[n]
      answered == [slot EXCEPT !.answer = answer]
  IN IF slot.answer = Unanswered
     THEN [q EXCEPT !.slots = [q.slots EXCEPT ![n] = answered]] ELSE q
Abandon(q, server) ==
  [q EXCEPT !.slots = [i \in DOMAIN @ |->
     IF @[i].server = server /\ @[i].answer = Unanswered
     THEN [@[i] EXCEPT !.answer = Empty] ELSE @[i]]]

Owns(q, req) == q.state = "accepted" /\ \E i \in DOMAIN q.slots : q.slots[i].req = req

AnswerIsCurrent(q, e) == doc.loaded /\ e.rev = q.rev /\ e.rev = doc.rev

ApplyAnswer ==
  /\ Result("answer")
  /\ LET e == Result1  q == lang.question
     IN IF ~Owns(q, e.req) THEN Nothing /\ UNCHANGED lang
        ELSE IF e.purpose = "hover" /\ ~AnswerIsCurrent(q, e)
        THEN /\ lang' = [lang EXCEPT !.question = NoQuestion]
             /\ Nothing
        ELSE Settled(Resolve(q, e.req, e.text))
  /\ UNCHANGED <<running, shown>>

ApplyFailure ==
  /\ Result("failed")
  /\ LET e == Result1  q == lang.question
     IN IF q.state # "accepted" \/ (e.req # 0 /\ ~Owns(q, e.req))
        THEN Nothing /\ UNCHANGED lang
        ELSE Settled(IF e.req = 0 THEN Abandon(q, e.server)
                                  ELSE Resolve(q, e.req, Empty))
  /\ UNCHANGED <<running, shown>>

\* reopen_documents
ApplyRestarted ==
  /\ Result("restarted")
  /\ lang' = [ResyncAll(lang) EXCEPT !.question = NoQuestion]
  /\ shown' = [s \in Servers |-> NoSet]
  /\ Nothing /\ UNCHANGED running

ApplyGone ==
  /\ Result("gone")
  /\ running' = running \ {Result1.server}
  /\ IF lang.question.state # "accepted" THEN Nothing /\ UNCHANGED lang
     ELSE Settled(Abandon(lang.question, Result1.server))
  /\ UNCHANGED shown

-----------------------------------------------------------------------------
(* The session (kvim-language): one attempt serves one server. *)

editor == <<doc, lang, passes, running, shown, asked, issued, applied>>

Serving(s) == session[s].state = "serving"

\* publish, record: a report waits for room in the result queue, and the session
\* with it.
Send(reports) ==
  /\ Len(events \o reports) <= EventsMax
  /\ events' = events \o reports

\* An identity that no request and no frame uses: the counter of the protocol
\* writer, bounded.
InFlight(s) == {wire[s][i].id : i \in {j \in DOMAIN wire[s] : wire[s][j].kind = "reply"}}
FreeId(c, s) ==
  LET used == {p.id : p \in c.pending} \cup InFlight(s)
  IN Min({n \in 1 .. Cardinality(used) + 1 : n \notin used})

\* One request of the protocol, for the editor (req) or a pull (req 0).
Requested(c, s, req, purpose) ==
  [c EXCEPT !.pending = @ \cup {[id |-> FreeId(c, s), req |-> req, purpose |-> purpose,
                                 rev |-> c.copy.rev]}]

\* fire_pulls, after every step: one pull at a time.
FirePulls(c, s) ==
  IF c.due = "now" /\ ~c.pulling
  THEN [Requested(c, s, 0, "pull") EXCEPT !.due = "no", !.pulling = TRUE]
  ELSE c

\* One step of the session: its new state, and what it reports to the editor.
SessionStep(s, c, reports) ==
  /\ session' = [session EXCEPT ![s] = FirePulls(c, s)]
  /\ Send(reports)
  /\ UNCHANGED editor

Asks(c) == {p \in c.pending : p.req # 0}

\* LanguageServerHandle's queue: the requests in the order of the dispatch.
Handle(s, kind) ==
  /\ Serving(s) /\ queue[s] # <<>> /\ Head(queue[s]).kind = kind
  /\ queue' = [queue EXCEPT ![s] = Tail(@)]
  /\ UNCHANGED wire

\* close: the copy goes, and every request about it.
Closed(c) ==
  [c EXCEPT !.copy = NoCopy, !.due = "no", !.pulling = FALSE, !.pending = {},
            !.peer.text = 0]
Orphans(c) ==
  orphaned' = \/ orphaned
              \/ c.copy # NoCopy /\ \E p \in Asks(c) : Owns(lang.question, p.req)

HandleOpen(s) ==
  /\ Handle(s, "open")
  /\ LET c == session[s]
         base == IF c.copy = NoCopy THEN c ELSE Closed(c)
         rev == Head(queue[s]).rev
     IN SessionStep(s, [base EXCEPT !.copy = [rev |-> rev, version |-> 1],
                                    !.due = IF c.pulls THEN "now" ELSE "no",
                                    !.pulling = FALSE,
                                    !.peer = [text |-> rev, version |-> 1]], <<>>)
  /\ Orphans(session[s])

Changed(c, r) ==
  LET version == c.copy.version + 1
      text == IF c.peer.text = r.from THEN r.rev ELSE Garbled
  IN [c EXCEPT !.copy = [rev |-> r.rev, version |-> version],
               !.due = IF c.pulls THEN "settling" ELSE "no",
               !.peer = [text |-> text, version |-> version]]
\* The mirror refuses a change of another text, and the session drops the
\* document without a didClose; or the ranges happen to fit.
Dropped(c) == [c EXCEPT !.copy = NoCopy, !.due = "no", !.pulling = FALSE]

HandleChange(s) ==
  /\ Handle(s, "change")
  /\ LET c == session[s]  r == Head(queue[s])
     IN IF c.copy = NoCopy THEN SessionStep(s, c, <<Failed(s, 0)>>)
        ELSE IF ~c.sync THEN SessionStep(s, c, <<>>)
        ELSE LET next == Changed(c, r)
             IN \E mirrored \in IF next.peer.text = Garbled THEN BOOLEAN ELSE {TRUE} :
                  SessionStep(s, IF mirrored THEN next ELSE Dropped(next),
                                 IF mirrored THEN <<>> ELSE <<Failed(s, 0)>>)
  /\ UNCHANGED orphaned

HandleClose(s) ==
  /\ Handle(s, "close")
  /\ LET c == session[s]
     IN IF c.copy = NoCopy THEN SessionStep(s, c, <<Failed(s, 0)>>)
        ELSE SessionStep(s, Closed(c), <<>>)
  /\ Orphans(session[s])

DescribesCopy(c, r) == c.copy # NoCopy /\ c.copy.rev = r.rev

HandleQuery(s) ==
  /\ Handle(s, "query")
  /\ LET c == session[s]  r == Head(queue[s])
     IN IF DescribesCopy(c, r) THEN SessionStep(s, Requested(c, s, r.req, r.purpose), <<>>)
        ELSE SessionStep(s, c, <<Failed(s, r.req)>>)
  /\ UNCHANGED orphaned

Read(s, kind) ==
  /\ Serving(s) /\ wire[s] # <<>> /\ Head(wire[s]).kind = kind
  /\ wire' = [wire EXCEPT ![s] = Tail(@)]
  /\ UNCHANGED <<queue, orphaned>>

ReadDiagnostics(s) ==
  /\ Read(s, "diagnostics")
  /\ LET c == session[s]  f == Head(wire[s])
     IN SessionStep(s, c, IF c.copy # NoCopy /\ f.version = c.copy.version
                          THEN <<Diagnostics(s, c.copy.rev, f.text, FALSE)>> ELSE <<>>)

\* Mutant: an answer is used after the copy moved on.
AnyText(c, p) == c.copy # NoCopy
StillDescribes(c, p) == c.copy # NoCopy /\ c.copy.rev = p.rev

\* The pending request that a reply answers; others are ignored.
Answered(s) == {p \in session[s].pending : p.id = Head(wire[s]).id}
Good(s, p) == Head(wire[s]).text # Empty /\ StillDescribes(session[s], p)

ReadStray(s) ==
  /\ Read(s, "reply") /\ Answered(s) = {} /\ SessionStep(s, session[s], <<>>)

ReadAnswer(s) ==
  /\ Read(s, "reply")
  /\ \E p \in Answered(s) :
       /\ p.req # 0
       /\ SessionStep(s, [session[s] EXCEPT !.pending = @ \ {p}],
                      <<IF Good(s, p) THEN Answer(s, p, Head(wire[s]).text)
                                      ELSE Failed(s, p.req)>>)

\* A report may say that nothing changed, and shows nothing.
ReadPulled(s) ==
  /\ Read(s, "reply")
  /\ \E p \in Answered(s), full \in BOOLEAN :
       /\ p.req = 0
       /\ SessionStep(s, [session[s] EXCEPT !.pending = @ \ {p}, !.pulling = FALSE],
                      IF Good(s, p) /\ full
                      THEN <<Diagnostics(s, session[s].copy.rev, Head(wire[s]).text, TRUE)>> ELSE <<>>)

\* schedule_every_pull: the server asked for it, behind its earlier frames.
ReadRefresh(s) ==
  /\ Serving(s) /\ wire[s] = <<>> /\ session[s].pulls /\ session[s].copy # NoCopy
  /\ SessionStep(s, [session[s] EXCEPT !.due = "now"], <<>>)
  /\ UNCHANGED <<queue, wire, orphaned>>

\* Mutant: a timeout tells the editor nothing.
ExpireSilently(s, p) == <<>>
ExpiryReport(s, p) == IF p.req # 0 THEN <<Failed(s, p.req)>> ELSE <<>>

\* expire: the deadline of one question, or of one pull, passed; an answer may
\* be under way.
Expire(s, question) ==
  /\ Serving(s)
  /\ \E p \in session[s].pending :
       /\ question = (p.req # 0)
       /\ SessionStep(s, [session[s] EXCEPT !.pending = @ \ {p},
                                            !.pulling = IF p.req = 0 THEN FALSE ELSE @],
                      ExpiryReport(s, p))
  /\ UNCHANGED <<queue, wire, orphaned>>

\* The settle delay of the next pull passed.
SettleDelay(s) ==
  /\ Serving(s) /\ session[s].due = "settling" /\ ~session[s].pulling
  /\ SessionStep(s, [session[s] EXCEPT !.due = "now"], <<>>)
  /\ UNCHANGED <<queue, wire, orphaned>>

-----------------------------------------------------------------------------
(* The supervisor: handshake, failure and the bounded restarts. *)

Supervise(s, c, reports) ==
  /\ session' = [session EXCEPT ![s] = c]
  /\ wire' = [wire EXCEPT ![s] = <<>>]
  \* The supervisor that ends drops the request queue.
  /\ queue' = IF c.state = "ended" THEN [queue EXCEPT ![s] = <<>>] ELSE queue
  /\ Send(reports)
  /\ UNCHANGED <<editor, orphaned>>

\* The server chooses its change notification and its diagnostic model: one
\* that takes no changes pushes its diagnostics.
Handshake(s) ==
  /\ session[s].state = "starting"
  /\ \E sync, pulls \in BOOLEAN :
       /\ pulls => sync
       /\ Supervise(s, [session[s] EXCEPT !.state = "serving", !.sync = sync,
                                          !.pulls = pulls], <<>>)

NotInstalled(s) ==
  /\ session[s].state = "starting"
  /\ Supervise(s, [session[s] EXCEPT !.state = "ended"], <<Gone(s)>>)

\* The server exits, closes a pipe, writes a broken frame, or starts too slowly.
AttemptFails(s) ==
  /\ session[s].state \in {"starting", "serving"}
  /\ Supervise(s, [Starting(session[s].restarts) EXCEPT !.state = "failed"],
                  <<Failed(s, 0)>>)

Restart(s) ==
  LET n == session[s].restarts
  IN /\ session[s].state = "failed"
     /\ \/ /\ n < RestartsMax
           /\ Supervise(s, Starting(n + 1), <<Restarted(s)>>)
        \/ /\ n = RestartsMax
           /\ Supervise(s, [Starting(n) EXCEPT !.state = "ended"], <<Gone(s)>>)

-----------------------------------------------------------------------------
(* The server. *)

Write(s, frame) ==
  /\ session[s].state = "serving" /\ Len(wire[s]) < WireMax
  /\ wire' = [wire EXCEPT ![s] = Append(@, frame)]
  /\ UNCHANGED <<editor, queue, events, orphaned>>

PublishDiagnostics(s) ==
  LET peer == session[s].peer
  IN /\ peer.text # 0 /\ ~session[s].pulls
     /\ Write(s, [kind |-> "diagnostics", version |-> peer.version, text |-> peer.text])
     /\ UNCHANGED session

\* A reply to a request that the session no longer holds is read and ignored, so
\* the server answers only what is pending.
Reply(s) ==
  \E p \in session[s].pending :
  \E text \in {session[s].peer.text} \cup (IF p.req = 0 THEN {} ELSE {Empty}) :
    /\ p.id \notin InFlight(s)
    /\ Write(s, [kind |-> "reply", id |-> p.id, text |-> text])
    /\ UNCHANGED session

-----------------------------------------------------------------------------
UserAction ==
  \/ Edit \/ CloseBuffer \/ Load \/ OtherOutcome
  \/ \E forget \in BOOLEAN : Rewrite(forget)
  \/ AskAtCursor \/ RequestFormat

Apply ==
  /\ ApplyDiagnostics \/ ApplyAnswer \/ ApplyFailure \/ ApplyRestarted \/ ApplyGone
  /\ orphaned' = (orphaned /\ lang'.question # NoQuestion)

Serve(s) == HandleOpen(s) \/ HandleChange(s) \/ HandleClose(s) \/ HandleQuery(s)
Receive(s) == ReadDiagnostics(s) \/ ReadStray(s) \/ ReadAnswer(s) \/ ReadPulled(s)
Start(s) == Handshake(s) \/ NotInstalled(s)

SessionAction(s) ==
  \/ Serve(s) \/ Receive(s) \/ ReadRefresh(s) \/ SettleDelay(s)
  \/ \E question \in BOOLEAN : Expire(s, question)
  \/ Start(s) \/ AttemptFails(s) \/ Restart(s)
ServerAction(s) == PublishDiagnostics(s) \/ Reply(s)

Next ==
  \/ UserAction \/ Dispatch \/ DispatchEnds \/ Apply
  \/ \E s \in Servers : SessionAction(s) \/ ServerAction(s)

Spec == Init /\ [][Next]_vars

\* The loop drains its outbox and takes from all its sources (an unbiased
\* select).  The task of a session keeps running: it starts or gives up, works
\* its queue off and lets deadlines pass while the server does not flood it (a
\* biased select).  Nothing makes the user act, or the server write or fail.
Progress(s) == Start(s) \/ Restart(s) \/ Serve(s) \/ Expire(s, TRUE)
FairSpec ==
  /\ Spec /\ WF_vars(Dispatch \/ DispatchEnds) /\ SF_vars(Apply)
  /\ \A s \in Servers : SF_vars(Progress(s))

-----------------------------------------------------------------------------
(* Properties *)

TypeOK ==
  /\ doc \in [rev : 1 .. RevisionMax, loaded : BOOLEAN]
  /\ lang.resync \in BOOLEAN /\ lang.question.state \in {"none", "queued", "accepted"}
  /\ passes \in 0 .. DISPATCH_PASSES_MAX /\ running \subseteq Servers
  /\ \A s \in Servers :
       /\ session[s].state \in {"starting", "serving", "failed", "ended"}
       /\ session[s].restarts \in 0 .. RestartsMax
       /\ session[s].copy.rev \in 0 .. RevisionMax
       /\ Len(queue[s]) <= QueueMax /\ Len(wire[s]) <= WireMax
  /\ Len(events) <= EventsMax

IsSync(r) == r.kind \in {"open", "change"}

\* The synchronizations of a sequence bring a copy of rev to target.
Reaches(rev, requests, target) ==
  /\ (\A i \in DOMAIN requests : ~IsSync(requests[i])) => rev = target
  /\ \A i \in DOMAIN requests :
       /\ IsSync(requests[i])
       /\ \A j \in DOMAIN requests : IsSync(requests[j]) => j <= i
       => requests[i].rev = target

RestartQueued ==
  \E i \in DOMAIN events : events[i].kind = "restarted"

\* The copy that a serving session holds of a loaded document is the current
\* text, or the editor still owes the synchronization that makes it so: a
\* queued request, the resync mark, or a restart it has not heard of.  A server
\* without change notifications keeps the text of its open.
CopyIsCurrentOrOwed ==
  \A s \in running :
    LET c == session[s]
    IN c.state = "serving" /\ doc.loaded =>
         \/ lang.resync \/ RestartQueued
         \/ c.copy # NoCopy /\ ~c.sync
         \/ /\ Reaches(c.copy.rev, queue[s] \o lang.outbox, doc.rev)
            /\ c.copy # NoCopy => c.peer.text = c.copy.rev

\* Every text the editor uses is the text it believes it is: the edits and the
\* float of a merged answer describe the buffer they were applied to, and a
\* pulled set describes the revision that it names.
AnswersDescribeTheirText ==
  /\ applied.texts \subseteq {applied.onto}
  /\ \A s \in Servers : shown[s].pulled => shown[s].text = shown[s].rev

\* What still brings the answer of a slot: the request in the queue or at the
\* server, its answer or the end of its session in the result queue, or a
\* supervisor that is about to report.
UnderWay(slot) ==
  \/ \E i \in DOMAIN queue[slot.server] :
       LET r == queue[slot.server][i] IN r.kind = "query" /\ r.req = slot.req
  \/ \E p \in session[slot.server].pending : p.req = slot.req
  \/ session[slot.server].state = "failed"
  \/ RestartQueued
  \/ \E i \in DOMAIN events :
       /\ events[i].server = slot.server
       /\ \/ events[i].kind = "gone"
          \/ events[i].kind \in {"answer", "failed"} /\ events[i].req \in {0, slot.req}

\* The open question is accounted for.  Until the dispatch, and only then, its
\* request is in the outbox; from then on each answer that is missing is under
\* way, unless a session dropped the request together with its copy.
QuestionIsAccountedFor ==
  /\ Cardinality({i \in DOMAIN lang.outbox : lang.outbox[i].kind = "query"})
       = IF lang.question.state = "queued" THEN 1 ELSE 0
  /\ lang.question.state = "accepted" /\ ~orphaned =>
       \A i \in DOMAIN lang.question.slots :
         \/ lang.question.slots[i].answer # Unanswered
         \/ UnderWay(lang.question.slots[i])

\* Copies are current or owed, and open questions accounted for.
SyncInvariant == TypeOK /\ CopyIsCurrentOrOwed /\ QuestionIsAccountedFor

\* A question that a server took is released: by answers, a timeout, a failure,
\* a restart or a stop; or a session dropped its request with the copy.
QuestionIsReleased ==
  lang.question.state = "accepted" ~> (lang.question.state # "accepted" \/ orphaned)

\* What the documentation says: no question waits for ever.
QuestionIsAlwaysReleased ==
  lang.question.state = "accepted" ~> lang.question.state # "accepted"
=============================================================================
