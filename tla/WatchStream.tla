---------------------------- MODULE WatchStream ----------------------------
(***************************************************************************)
(* The event path of the filesystem watcher of kvim-runtime                *)
(* (src/crates/kvim-runtime/src/watch.rs): the platform callback, its      *)
(* bounded queue and drop counter, the coalescing task, the bounded queue  *)
(* of published bursts, and a consumer that reads what a burst names.      *)
(*                                                                         *)
(* Both queues are lossy.  A loss is to be reported as                     *)
(* WatchFidelity::Dropped, which makes the consumer read everything again. *)
(* The variable unseen is a history variable: the directories whose        *)
(* listing changed since the consumer last read them.  Paths below a       *)
(* directory, ignored names and the placement of watches are left out      *)
(* (see WatchRegistration for the last).                                   *)
(***************************************************************************)
EXTENDS Integers, Sequences, FiniteSets

CONSTANTS
  Dirs,      \* the directories of the workspace
  RawMax,    \* WATCH_EVENT_QUEUE_MAX
  BatchMax,  \* WATCH_BATCH_QUEUE_MAX
  NamesMax,  \* WATCH_BATCH_DIRECTORIES_MAX
  BurstMax,  \* WATCH_BURST_EVENTS_MAX
  StreamChanges  \* bound of the model: how many changes the filesystem makes

\* What MCServices assumes of the constants.
WatchAssumption ==
  /\ IsFiniteSet(Dirs)
  /\ {RawMax, BatchMax, NamesMax, BurstMax} \subseteq Nat \ {0}
  /\ StreamChanges \in Nat

VARIABLES
  changes,   \* changes made so far
  unseen,    \* directories changed since the consumer last read them
  callback,  \* what the platform callback is doing
  raw,       \* the queue from the callback to the coalescing task
  dropped,   \* the shared counter of events lost before that queue
  task,      \* where the coalescing task stands
  burst,     \* the events of the open window
  batch,     \* the burst about to be published
  carried,   \* the fidelity that the next burst starts with
  batches,   \* the queue of published bursts
  gaps       \* watch refusals the consumer has not been told of

streamVars == <<changes, unseen, callback, raw, dropped, task, burst, batch, carried,
                batches, gaps>>

\* A raw event changes one listing, changes content only, or reports a loss.
Events == [kind : {"listing"}, dir : Dirs] \cup [kind : {"content", "dropped"}]
Batch == [dirs : SUBSET Dirs, lossy : BOOLEAN, gap : BOOLEAN]
NoBatch == [dirs |-> {}, lossy |-> FALSE, gap |-> FALSE]
Idle == [step |-> "idle"]
Content == [kind |-> "content"]
Loss == [kind |-> "dropped"]
Listing(d) == [kind |-> "listing", dir |-> d]

StreamInit ==
  /\ changes = 0
  /\ unseen = {}
  /\ callback = Idle
  /\ raw = <<>>
  /\ dropped = 0
  /\ task = "registering"
  /\ burst = <<>>
  /\ batch = NoBatch
  /\ carried = FALSE
  /\ batches = <<>>
  /\ gaps = FALSE

-----------------------------------------------------------------------------
(* The filesystem and the platform callback. *)

\* A change that a watch reports.  The platform may report its own loss instead.
Change(event) ==
  /\ changes < StreamChanges
  /\ callback = Idle
  /\ task # "ended"
  /\ changes' = changes + 1
  /\ unseen' = IF event.kind = "listing" THEN unseen \cup {event.dir} ELSE unseen
  /\ callback' \in {[step |-> "send", event |-> event], [step |-> "error"]}
  /\ UNCHANGED <<raw, dropped, task, burst, batch, carried, batches, gaps>>

\* No watch covers a directory before the registration reaches it.
UnwatchedChange(d) ==
  /\ changes < StreamChanges
  /\ task = "registering"
  /\ changes' = changes + 1
  /\ unseen' = unseen \cup {d}
  /\ UNCHANGED <<callback, raw, dropped, task, burst, batch, carried, batches, gaps>>

\* The two halves of enqueue_notify_result for one path: try_send, and the
\* count of a refused event.
Send ==
  /\ callback.step = "send"
  /\ IF Len(raw) < RawMax
       THEN /\ raw' = Append(raw, callback.event)
            /\ callback' = Idle
       ELSE /\ callback' = [step |-> "count"]
            /\ UNCHANGED raw
  /\ UNCHANGED <<changes, unseen, dropped, task, burst, batch, carried, batches, gaps>>

Count ==
  /\ callback.step = "count"
  /\ dropped' = dropped + 1
  /\ callback' = Idle
  /\ UNCHANGED <<changes, unseen, raw, task, burst, batch, carried, batches, gaps>>

\* An error of the platform is counted first and then sent; a refused send is
\* not counted again.
CountError ==
  /\ callback.step = "error"
  /\ dropped' = dropped + 1
  /\ callback' = [step |-> "report"]
  /\ UNCHANGED <<changes, unseen, raw, task, burst, batch, carried, batches, gaps>>

SendError ==
  /\ callback.step = "report"
  /\ raw' = IF Len(raw) < RawMax THEN Append(raw, Loss) ELSE raw
  /\ callback' = Idle
  /\ UNCHANGED <<changes, unseen, dropped, task, burst, batch, carried, batches, gaps>>

-----------------------------------------------------------------------------
(* The coalescing task. *)

\* The registration is complete: the opening burst asks for a full read and
\* carries the coverage of the first walk.
OpenStream ==
  /\ task = "registering"
  /\ \E gap \in BOOLEAN :
       /\ batches' = <<[dirs |-> {}, lossy |-> TRUE, gap |-> gap]>>
       /\ gaps' = gap
  /\ task' = "waiting"
  /\ UNCHANGED <<changes, unseen, callback, raw, dropped, burst, batch, carried>>

\* The platform refused the root, or the watch was cancelled.
EndStream ==
  /\ task \in {"registering", "waiting", "collecting"}
  /\ task' = "ended"
  /\ UNCHANGED <<changes, unseen, callback, raw, dropped, burst, batch, carried,
                 batches, gaps>>

\* Mutant: the window is closed by its deadline alone.
CollectUnbounded ==
  /\ task \in {"waiting", "collecting"}
  /\ raw # <<>>
  /\ burst' = Append(burst, Head(raw))
  /\ raw' = Tail(raw)
  /\ task' = "collecting"
  /\ UNCHANGED <<changes, unseen, callback, dropped, batch, carried, batches, gaps>>

\* The first event of a window opens it; later ones join while it is open.
Collect ==
  /\ task \in {"waiting", "collecting"}
  /\ raw # <<>>
  /\ Len(burst) < BurstMax
  /\ burst' = Append(burst, Head(raw))
  /\ raw' = Tail(raw)
  /\ task' = "collecting"
  /\ UNCHANGED <<changes, unseen, callback, dropped, batch, carried, batches, gaps>>

BurstEvents == {burst[i] : i \in DOMAIN burst}
BurstDirs == {d \in Dirs : Listing(d) \in BurstEvents}

\* Mutant: the counter is reset without looking at what it counted.
LossyBurstUncounted(invalid) == carried \/ invalid \/ Loss \in BurstEvents

\* validate_events: a carried loss, a counted loss, a reported loss, or an
\* event whose path does not validate below the root.
LossyBurst(invalid) == carried \/ invalid \/ dropped > 0 \/ Loss \in BurstEvents

\* The window closes at its deadline or its bound.  The counter is swapped,
\* the events are validated, at most NamesMax directories are named, and the
\* new directories below them get their watches, which the host can refuse.
CloseWindow ==
  /\ task = "collecting"
  /\ \E invalid, gap \in BOOLEAN, named \in SUBSET BurstDirs :
       /\ Cardinality(named) <= NamesMax
       /\ invalid \/ named = BurstDirs \/ Cardinality(named) = NamesMax
       /\ gap => named # {}
       /\ batch' = [dirs |-> named, gap |-> gap,
                    lossy |-> LossyBurst(invalid) \/ named # BurstDirs]
       /\ gaps' = (gaps \/ gap)
  /\ dropped' = 0
  /\ carried' = FALSE
  /\ burst' = <<>>
  /\ task' = "publishing"
  /\ UNCHANGED <<changes, unseen, callback, raw, batches>>

\* Mutant: a displaced burst is forgotten.
PublishForgetting ==
  /\ task = "publishing"
  /\ batches' = IF Len(batches) < BatchMax THEN Append(batches, batch) ELSE batches
  /\ batch' = NoBatch
  /\ task' = "waiting"
  /\ UNCHANGED <<changes, unseen, callback, raw, dropped, burst, carried, gaps>>

\* try_send: a full queue displaces the burst, and the next one reports it.
Publish ==
  /\ task = "publishing"
  /\ IF Len(batches) < BatchMax
       THEN /\ batches' = Append(batches, batch)
            /\ UNCHANGED carried
       ELSE /\ carried' = TRUE
            /\ UNCHANGED batches
  /\ batch' = NoBatch
  /\ task' = "waiting"
  /\ UNCHANGED <<changes, unseen, callback, raw, dropped, burst, gaps>>

-----------------------------------------------------------------------------
(* The consumer: FileWatcher::recv, then the reads that the burst asks for. *)

Receive ==
  /\ batches # <<>>
  /\ unseen' = IF Head(batches).lossy THEN {} ELSE unseen \ Head(batches).dirs
  /\ gaps' = (gaps /\ ~Head(batches).gap)
  /\ batches' = Tail(batches)
  /\ UNCHANGED <<changes, callback, raw, dropped, task, burst, batch, carried>>

CallbackStep == Send \/ Count \/ CountError \/ SendError
TaskStep == OpenStream \/ Collect \/ CloseWindow \/ Publish

StreamNext ==
  \/ \E d \in Dirs : Change(Listing(d)) \/ UnwatchedChange(d)
  \/ Change(Content)
  \/ CallbackStep
  \/ TaskStep
  \/ EndStream
  \/ Receive

StreamSpec == StreamInit /\ [][StreamNext]_streamVars

\* The platform thread, the task (whose window has a deadline) and the
\* consumer each go on.
FairStreamSpec ==
  /\ StreamSpec
  /\ WF_streamVars(CallbackStep)
  /\ WF_streamVars(TaskStep)
  /\ WF_streamVars(CloseWindow)
  /\ WF_streamVars(Receive)

-----------------------------------------------------------------------------
(* Correctness. *)

StreamTypeOK ==
  /\ changes \in 0 .. StreamChanges
  /\ unseen \in SUBSET Dirs
  /\ callback \in {Idle, [step |-> "count"], [step |-> "error"], [step |-> "report"]}
                    \cup [step : {"send"}, event : Events]
  /\ raw \in Seq(Events) /\ Len(raw) <= RawMax
  /\ dropped \in 0 .. StreamChanges
  /\ task \in {"registering", "waiting", "collecting", "publishing", "ended"}
  /\ burst \in Seq(Events) /\ Len(burst) <= BurstMax
  /\ batch \in Batch
  /\ carried \in BOOLEAN
  /\ batches \in Seq(Batch) /\ Len(batches) <= BatchMax
  /\ gaps \in BOOLEAN

\* A loss is on record somewhere: a counter, a queue or the carried fidelity.
LossOnRecord ==
  \/ task = "registering"
  \/ callback.step \in {"count", "error", "report"}
  \/ dropped > 0
  \/ Loss \in BurstEvents \/ \E i \in DOMAIN raw : raw[i] = Loss
  \/ carried \/ batch.lossy
  \/ \E i \in DOMAIN batches : batches[i].lossy

\* The change of d itself is under way.
ChangeUnderWay(d) ==
  \/ callback = [step |-> "send", event |-> Listing(d)]
  \/ \E i \in DOMAIN raw : raw[i] = Listing(d)
  \/ d \in BurstDirs \/ d \in batch.dirs
  \/ \E i \in DOMAIN batches : d \in batches[i].dirs

\* No change is forgotten: while the stream lives, a directory that the
\* consumer has not read again is named by an event or a burst on its way, or
\* a loss that covers it is on record.  Neither the bounded queues, the bound
\* of a burst, the counter nor the start may lose both.
NoChangeForgotten ==
  task # "ended" => \A d \in unseen : ChangeUnderWay(d) \/ LossOnRecord

StreamInvariant == StreamTypeOK /\ NoChangeForgotten

\* The consumer catches up with every change, unless the stream ended or the
\* report of a loss waits for an event of another change: a displaced burst
\* and a late count are reported by the next burst only.
ReportOwed == carried \/ (dropped > 0 /\ raw = <<>>)
SeenOrOwed ==
  \A d \in Dirs : (d \in unseen) ~> (d \notin unseen \/ ReportOwed \/ task = "ended")

-----------------------------------------------------------------------------
(* Sentences of the documentation that the code does not keep. *)

\* "A full queue drops events and reports the drop as WatchFidelity::Dropped,
\* so the consumer knows that its knowledge of the change is incomplete"
\* (watch.rs, module comment): without any further change as well.
EveryChangeSeen ==
  \A d \in Dirs : (d \in unseen) ~> (d \notin unseen \/ task = "ended")

\* "The burst carries the coverage of that batch, so a later registration that
\* the host refuses reaches the consumer as the first one does" (coalesce): a
\* gap the consumer does not know of is in a burst on its way.
GapOnItsWay ==
  gaps => batch.gap \/ \E i \in DOMAIN batches : batches[i].gap
=============================================================================
