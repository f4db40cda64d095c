---------------------------- MODULE ServicesProofs -----------------------------
(***************************************************************************)
(* Proofs about the services that run beside an editor: WatchStream, for   *)
(* any directories, any lengths of the two queues, any bounds of a burst   *)
(* and any number of changes, WatchRegistration, for any tree, any limit   *)
(* of the watches and any number of changes, and LspProject, for any       *)
(* projects, openings and servers, any limits of the manager, any length   *)
(* of the queue and any restart budget.                                    *)
(***************************************************************************)
EXTENDS LspProject, WatchStream, WatchRegistration, FiniteSetTheorems, TLAPS

-----------------------------------------------------------------------------
(* The stream: its inductive invariant. *)

CallbackType ==
  {Idle, [step |-> "count"], [step |-> "error"], [step |-> "report"]}
    \cup [step : {"send"}, event : Events]

\* Every change is counted once at most, so the counter stays below them.
Counted ==
  dropped + (IF callback.step \in {"send", "count", "error"} THEN 1 ELSE 0) <= changes

\* A burst waits for its publication only.
BatchInTime == task # "publishing" => batch = NoBatch

\* The loss that the platform reports is on record before its event is sent:
\* that event may find the queue full, and nothing counts it a second time.
Recorded ==
  \/ task = "registering"
  \/ callback.step \in {"count", "error"}
  \/ dropped > 0
  \/ Loss \in BurstEvents \/ \E i \in DOMAIN raw : raw[i] = Loss
  \/ carried \/ batch.lossy
  \/ \E i \in DOMAIN batches : batches[i].lossy

Accounted(d) == ChangeUnderWay(d) \/ Recorded
AllAccounted == task # "ended" => \A d \in unseen : Accounted(d)

Inv == StreamTypeOK /\ Counted /\ BatchInTime /\ AllAccounted

-----------------------------------------------------------------------------
(* Queues and events. *)

LEMMA AppendFacts ==
  ASSUME NEW T, NEW s \in Seq(T), NEW x \in T
  PROVE  /\ Append(s, x) \in Seq(T)
         /\ Len(Append(s, x)) = Len(s) + 1
         /\ \A i \in DOMAIN s : i \in DOMAIN Append(s, x) /\ Append(s, x)[i] = s[i]
         /\ Len(s) + 1 \in DOMAIN Append(s, x) /\ Append(s, x)[Len(s) + 1] = x
OBVIOUS

LEMMA TailFacts ==
  ASSUME NEW T, NEW s \in Seq(T), s # <<>>
  PROVE  /\ Tail(s) \in Seq(T) /\ Head(s) \in T
         /\ Len(Tail(s)) = Len(s) - 1 /\ Len(s) > 0
         /\ \A i \in DOMAIN s : s[i] = Head(s) \/ \E j \in DOMAIN Tail(s) : Tail(s)[j] = s[i]
<1>1. /\ Tail(s) \in Seq(T) /\ Head(s) \in T
      /\ Len(Tail(s)) = Len(s) - 1 /\ Len(s) > 0
  OBVIOUS
<1>2. ASSUME NEW i \in DOMAIN s, s[i] # Head(s)
      PROVE  i - 1 \in DOMAIN Tail(s) /\ Tail(s)[i - 1] = s[i]
  BY <1>2
<1> QED BY <1>1, <1>2

LEMMA EventFacts ==
  /\ Content \in Events /\ Loss \in Events /\ \A d \in Dirs : Listing(d) \in Events
  /\ Content # Loss /\ \A d : Listing(d) # Loss /\ Listing(d) # Content
  /\ \A d, e : Listing(d) = Listing(e) => d = e
  /\ \A event \in Events : event = Content \/ event = Loss \/ \E d \in Dirs : event = Listing(d)
  /\ Content.kind # "listing" /\ Loss.kind # "listing"
  /\ \A d \in Dirs : Listing(d).kind = "listing" /\ Listing(d).dir = d
<1>1. \A d : Listing(d) # Loss /\ Listing(d) # Content
  BY DEF Content, Loss, Listing
<1>2. \A d, e : Listing(d) = Listing(e) => d = e
  BY DEF Listing
<1>3. \A event \in Events : event = Content \/ event = Loss \/ \E d \in Dirs : event = Listing(d)
  BY DEF Events, Content, Loss, Listing
<1>4. Content \in Events /\ Loss \in Events /\ \A d \in Dirs : Listing(d) \in Events
  BY DEF Events, Content, Loss, Listing
<1>5. Content # Loss /\ Content.kind # "listing" /\ Loss.kind # "listing"
  BY DEF Content, Loss
<1>6. \A d \in Dirs : Listing(d).kind = "listing" /\ Listing(d).dir = d
  BY DEF Listing
<1> QED BY <1>1, <1>2, <1>3, <1>4, <1>5, <1>6

LEMMA CallbackFacts ==
  /\ Idle \in CallbackType /\ Idle.step = "idle"
  /\ \A at \in {"count", "error", "report"} : [step |-> at] \in CallbackType /\ [step |-> at].step = at
  /\ \A event \in Events :
       /\ [step |-> "send", event |-> event] \in CallbackType
       /\ [step |-> "send", event |-> event].step = "send"
       /\ [step |-> "send", event |-> event].event = event
  /\ \A c \in CallbackType :
       /\ c.step \in {"idle", "send", "count", "error", "report"}
       /\ c.step = "send" => c.event \in Events /\ c = [step |-> "send", event |-> c.event]
<1>1. /\ Idle \in CallbackType /\ Idle.step = "idle"
      /\ \A at \in {"count", "error", "report"} :
           [step |-> at] \in CallbackType /\ [step |-> at].step = at
  BY DEF CallbackType, Idle
<1>2. ASSUME NEW event \in Events
      PROVE  /\ [step |-> "send", event |-> event] \in CallbackType
             /\ [step |-> "send", event |-> event].step = "send"
             /\ [step |-> "send", event |-> event].event = event
  BY DEF CallbackType
<1>3. ASSUME NEW c \in CallbackType
      PROVE  /\ c.step \in {"idle", "send", "count", "error", "report"}
             /\ c.step = "send" => c.event \in Events /\ c = [step |-> "send", event |-> c.event]
  BY DEF CallbackType, Idle
<1> QED BY <1>1, <1>2, <1>3

LEMMA TypeFacts ==
  ASSUME WatchAssumption, StreamTypeOK
  PROVE  /\ changes \in Nat /\ StreamChanges \in Nat /\ changes <= StreamChanges
         /\ unseen \in SUBSET Dirs /\ callback \in CallbackType
         /\ raw \in Seq(Events) /\ burst \in Seq(Events) /\ batches \in Seq(Batch)
         /\ Len(raw) <= RawMax /\ Len(burst) <= BurstMax /\ Len(batches) <= BatchMax
         /\ RawMax \in Nat /\ BurstMax \in Nat /\ BatchMax \in Nat /\ BatchMax > 0
         /\ dropped \in Nat /\ dropped <= StreamChanges
         /\ task \in {"registering", "waiting", "collecting", "publishing", "ended"}
         /\ batch \in Batch /\ carried \in BOOLEAN /\ gaps \in BOOLEAN
<1>1. RawMax \in Nat \ {0} /\ BurstMax \in Nat \ {0} /\ BatchMax \in Nat \ {0} /\ StreamChanges \in Nat
  BY DEF WatchAssumption
<1>2. changes \in 0 .. StreamChanges /\ dropped \in 0 .. StreamChanges
  BY DEF StreamTypeOK
<1> QED BY <1>1, <1>2 DEF StreamTypeOK, CallbackType

LEMMA BatchFacts ==
  /\ NoBatch \in Batch /\ NoBatch.dirs = {} /\ ~NoBatch.lossy
  /\ \A dirs \in SUBSET Dirs, lossy, open \in BOOLEAN :
       [dirs |-> dirs, gap |-> open, lossy |-> lossy] \in Batch
  /\ \A b \in Batch : b.dirs \in SUBSET Dirs /\ b.lossy \in BOOLEAN /\ b.gap \in BOOLEAN
BY DEF Batch, NoBatch

-----------------------------------------------------------------------------
(* The steps. *)

\* The steps that do not change what is known of a loss, of the raw queue and
\* of the bursts carry every account over.
LEMMA ChangeStep ==
  ASSUME WatchAssumption, Inv, NEW event \in Events, Change(event)
  PROVE  Inv'
<1>1. /\ changes < StreamChanges /\ callback = Idle /\ callback.step = "idle" /\ task # "ended"
      /\ changes' = changes + 1
      /\ unseen' = IF event.kind = "listing" THEN unseen \cup {event.dir} ELSE unseen
      /\ \/ callback' = [step |-> "send", event |-> event] /\ callback'.step = "send"
         \/ callback' = [step |-> "error"] /\ callback'.step = "error"
      /\ callback' \in CallbackType
      /\ UNCHANGED <<raw, dropped, task, burst, batch, carried, batches, gaps>>
  BY CallbackFacts DEF Change
<1>2. event.kind = "listing" => event.dir \in Dirs /\ event = Listing(event.dir)
  BY EventFacts
<1>3. StreamTypeOK'
  BY <1>1, <1>2, TypeFacts DEF Inv, StreamTypeOK, CallbackType
<1>4. Counted' /\ BatchInTime'
  BY <1>1, TypeFacts DEF Inv, Counted, BatchInTime
<1>5. ASSUME NEW d \in unseen' PROVE Accounted(d)'
  <2>1. CASE d \in unseen
    <3>1. Accounted(d)
      BY <1>1, <2>1 DEF Inv, AllAccounted
    <3>2. callback # [step |-> "send", event |-> Listing(d)]
      BY <1>1, CallbackFacts
    <3> QED BY <1>1, <3>1, <3>2 DEF Accounted, ChangeUnderWay, Recorded, BurstEvents, BurstDirs
  <2>2. CASE d \notin unseen
    <3>1. event = Listing(d)
      BY <1>1, <1>2, <2>2
    <3> QED BY <1>1, <3>1 DEF Accounted, ChangeUnderWay, Recorded
  <2> QED BY <2>1, <2>2
<1> QED BY <1>3, <1>4, <1>5 DEF Inv, AllAccounted

LEMMA UnwatchedStep ==
  ASSUME WatchAssumption, Inv, NEW d \in Dirs, UnwatchedChange(d)
  PROVE  Inv'
<1>1. StreamTypeOK' /\ Counted' /\ BatchInTime'
  BY TypeFacts DEF Inv, UnwatchedChange, StreamTypeOK, Counted, BatchInTime
<1>2. AllAccounted'
  BY DEF UnwatchedChange, AllAccounted, Accounted, Recorded
<1> QED BY <1>1, <1>2 DEF Inv

LEMMA SendStep ==
  ASSUME WatchAssumption, Inv, Send
  PROVE  Inv'
<1>1. /\ callback.step = "send" /\ callback.event \in Events
      /\ callback = [step |-> "send", event |-> callback.event]
      /\ \/ Len(raw) < RawMax /\ raw' = Append(raw, callback.event) /\ callback' = Idle
         \/ raw' = raw /\ callback' = [step |-> "count"]
      /\ UNCHANGED <<changes, unseen, dropped, task, burst, batch, carried, batches, gaps>>
  BY CallbackFacts, TypeFacts DEF Inv, Send
<1>2. /\ callback' \in CallbackType
      /\ \/ callback'.step = "idle" /\ raw' = Append(raw, callback.event) /\ Len(raw) < RawMax
         \/ callback'.step = "count" /\ raw' = raw
  BY <1>1, CallbackFacts
<1>3. /\ raw' \in Seq(Events) /\ Len(raw') <= RawMax
      /\ \A i \in DOMAIN raw : i \in DOMAIN raw' /\ raw'[i] = raw[i]
      /\ callback'.step = "count" \/ \E i \in DOMAIN raw' : raw'[i] = callback.event
  <2>1. raw \in Seq(Events) /\ callback.event \in Events
    BY <1>1, TypeFacts DEF Inv
  <2>2. /\ Append(raw, callback.event) \in Seq(Events)
        /\ Len(Append(raw, callback.event)) = Len(raw) + 1
        /\ \A i \in DOMAIN raw :
             i \in DOMAIN Append(raw, callback.event) /\ Append(raw, callback.event)[i] = raw[i]
        /\ Len(raw) + 1 \in DOMAIN Append(raw, callback.event)
        /\ Append(raw, callback.event)[Len(raw) + 1] = callback.event
    BY <2>1, AppendFacts
  <2>3. Len(raw) \in Nat /\ Len(raw) <= RawMax /\ RawMax \in Nat
    BY TypeFacts DEF Inv
  <2>4. CASE callback'.step = "idle" /\ raw' = Append(raw, callback.event) /\ Len(raw) < RawMax
    BY <2>2, <2>3, <2>4
  <2>5. CASE callback'.step = "count" /\ raw' = raw
    BY <2>1, <2>3, <2>5
  <2> QED BY <1>2, <2>4, <2>5
<1>4. StreamTypeOK'
  BY <1>1, <1>2, <1>3, TypeFacts DEF Inv, StreamTypeOK, CallbackType
<1>5. Counted' /\ BatchInTime'
  BY <1>1, <1>2, TypeFacts DEF Inv, Counted, BatchInTime
<1>6. ASSUME NEW d \in unseen, task # "ended" PROVE Accounted(d)'
  <2>1. CASE callback'.step = "count"
    BY <2>1 DEF Accounted, Recorded
  <2>2. CASE \E i \in DOMAIN raw' : raw'[i] = callback.event
    <3>1. Accounted(d)
      BY <1>6 DEF Inv, AllAccounted
    <3>2. callback = [step |-> "send", event |-> Listing(d)] => callback.event = Listing(d)
      OBVIOUS
    <3> QED BY <1>1, <1>3, <2>2, <3>1, <3>2
        DEF Accounted, ChangeUnderWay, Recorded, BurstEvents, BurstDirs
  <2> QED BY <1>3, <2>1, <2>2
<1> QED BY <1>1, <1>4, <1>5, <1>6 DEF Inv, AllAccounted

LEMMA CountSteps ==
  ASSUME WatchAssumption, Inv, Count \/ CountError
  PROVE  Inv'
<1>1. /\ callback.step \in {"count", "error"} /\ dropped' = dropped + 1
      /\ callback' \in CallbackType /\ callback'.step \in {"idle", "report"}
      /\ UNCHANGED <<changes, unseen, raw, task, burst, batch, carried, batches, gaps>>
  BY CallbackFacts DEF Count, CountError
<1>2. dropped + 1 <= changes
  BY <1>1 DEF Inv, Counted
<1>3. StreamTypeOK'
  <2>1. dropped' \in 0 .. StreamChanges
    BY <1>1, <1>2, TypeFacts DEF Inv
  <2> QED BY <1>1, <2>1 DEF Inv, StreamTypeOK, CallbackType
<1>4. Counted' /\ BatchInTime'
  BY <1>1, <1>2, TypeFacts DEF Inv, Counted, BatchInTime
<1>5. AllAccounted'
  BY <1>1, TypeFacts DEF Inv, AllAccounted, Accounted, Recorded
<1> QED BY <1>3, <1>4, <1>5 DEF Inv

LEMMA SendErrorStep ==
  ASSUME WatchAssumption, Inv, SendError
  PROVE  Inv'
<1>1. /\ callback.step = "report" /\ callback' = Idle /\ callback' \in CallbackType
      /\ callback'.step = "idle"
      /\ \/ Len(raw) < RawMax /\ raw' = Append(raw, Loss)
         \/ raw' = raw
      /\ UNCHANGED <<changes, unseen, dropped, task, burst, batch, carried, batches, gaps>>
  BY CallbackFacts DEF SendError
<1>2. /\ raw' \in Seq(Events) /\ Len(raw') <= RawMax
      /\ \A i \in DOMAIN raw : i \in DOMAIN raw' /\ raw'[i] = raw[i]
  <2>1. raw \in Seq(Events) /\ Loss \in Events
    BY TypeFacts, EventFacts DEF Inv
  <2>2. /\ Append(raw, Loss) \in Seq(Events)
        /\ Len(Append(raw, Loss)) = Len(raw) + 1
        /\ \A i \in DOMAIN raw :
             i \in DOMAIN Append(raw, Loss) /\ Append(raw, Loss)[i] = raw[i]
        /\ Len(raw) + 1 \in DOMAIN Append(raw, Loss)
        /\ Append(raw, Loss)[Len(raw) + 1] = Loss
    BY <2>1, AppendFacts
  <2>3. Len(raw) \in Nat /\ Len(raw) <= RawMax /\ RawMax \in Nat
    BY TypeFacts DEF Inv
  <2> QED BY <1>1, <2>1, <2>2, <2>3
<1>3. StreamTypeOK'
  BY <1>1, <1>2, TypeFacts DEF Inv, StreamTypeOK, CallbackType
<1>4. Counted' /\ BatchInTime'
  BY <1>1, TypeFacts DEF Inv, Counted, BatchInTime
<1>5. ASSUME NEW d \in unseen, task # "ended" PROVE Accounted(d)'
  <2>1. Accounted(d)
    BY <1>5 DEF Inv, AllAccounted
  <2>2. callback # [step |-> "send", event |-> Listing(d)]
    BY <1>1
  <2> QED BY <1>1, <1>2, <2>1, <2>2 DEF Accounted, ChangeUnderWay, Recorded, BurstEvents, BurstDirs
<1> QED BY <1>1, <1>3, <1>4, <1>5 DEF Inv, AllAccounted

LEMMA OpenStep ==
  ASSUME WatchAssumption, Inv, OpenStream
  PROVE  Inv'
<1>1. PICK open \in BOOLEAN : /\ batches' = <<[dirs |-> {}, lossy |-> TRUE, gap |-> open]>>
                             /\ gaps' = open
  BY DEF OpenStream
<1>2. /\ task = "registering" /\ task' = "waiting"
      /\ UNCHANGED <<changes, unseen, callback, raw, dropped, burst, batch, carried>>
  BY DEF OpenStream
<1>3. [dirs |-> {}, lossy |-> TRUE, gap |-> open] \in Batch
  BY DEF Batch
<1>4. batches' \in Seq(Batch) /\ Len(batches') = 1 /\ 1 \in DOMAIN batches' /\ batches'[1].lossy
  BY <1>1, <1>3
<1>5. StreamTypeOK'
  BY <1>1, <1>2, <1>4, TypeFacts DEF Inv, StreamTypeOK
<1>6. Counted' /\ BatchInTime'
  BY <1>2 DEF Inv, Counted, BatchInTime
<1>7. AllAccounted'
  BY <1>4 DEF AllAccounted, Accounted, Recorded
<1> QED BY <1>5, <1>6, <1>7 DEF Inv

LEMMA EndStep ==
  ASSUME WatchAssumption, Inv, EndStream
  PROVE  Inv'
BY DEF Inv, EndStream, StreamTypeOK, Counted, BatchInTime, AllAccounted

LEMMA CollectStep ==
  ASSUME WatchAssumption, Inv, Collect
  PROVE  Inv'
<1>1. /\ task \in {"waiting", "collecting"} /\ task' = "collecting" /\ raw # <<>>
      /\ Len(burst) < BurstMax /\ burst' = Append(burst, Head(raw)) /\ raw' = Tail(raw)
      /\ UNCHANGED <<changes, unseen, callback, dropped, batch, carried, batches, gaps>>
  BY DEF Collect
<1>2. /\ raw' \in Seq(Events) /\ Head(raw) \in Events /\ Len(raw') <= RawMax
      /\ \A i \in DOMAIN raw : raw[i] = Head(raw) \/ \E j \in DOMAIN raw' : raw'[j] = raw[i]
  <2>1. raw \in Seq(Events)
    BY TypeFacts DEF Inv
  <2>2. /\ Tail(raw) \in Seq(Events) /\ Head(raw) \in Events
        /\ Len(Tail(raw)) = Len(raw) - 1 /\ Len(raw) > 0
        /\ \A i \in DOMAIN raw :
             raw[i] = Head(raw) \/ \E j \in DOMAIN Tail(raw) : Tail(raw)[j] = raw[i]
    BY <1>1, <2>1, TailFacts, ZenonT(30)
  <2>3. Len(raw) \in Nat /\ Len(raw) <= RawMax /\ RawMax \in Nat
    BY TypeFacts DEF Inv
  <2> QED BY <1>1, <2>1, <2>2, <2>3
<1>3. /\ burst' \in Seq(Events) /\ Len(burst') <= BurstMax
      /\ \A i \in DOMAIN burst : i \in DOMAIN burst' /\ burst'[i] = burst[i]
      /\ \E i \in DOMAIN burst' : burst'[i] = Head(raw)
  <2>1. burst \in Seq(Events) /\ BurstMax \in Nat
    BY TypeFacts DEF Inv
  <2>2. /\ burst' \in Seq(Events) /\ Len(burst') = Len(burst) + 1 /\ Len(burst) \in Nat
        /\ \A i \in DOMAIN burst : i \in DOMAIN burst' /\ burst'[i] = burst[i]
        /\ \E i \in DOMAIN burst' : burst'[i] = Head(raw)
    BY <1>1, <1>2, <2>1, AppendFacts
  <2> QED BY <1>1, <2>1, <2>2
<1>4. BurstEvents \subseteq BurstEvents' /\ Head(raw) \in BurstEvents'
  BY <1>3 DEF BurstEvents
<1>5. StreamTypeOK'
  BY <1>1, <1>2, <1>3, TypeFacts DEF Inv, StreamTypeOK
<1>6. Counted' /\ BatchInTime'
  BY <1>1 DEF Inv, Counted, BatchInTime
<1>7. ASSUME NEW d \in unseen PROVE Accounted(d)'
  <2>1. Accounted(d) /\ d \in Dirs
    BY <1>1, TypeFacts DEF Inv, AllAccounted
  <2>2. CASE \E i \in DOMAIN raw : raw[i] \in {Listing(d), Loss}
    <3>1. PICK i \in DOMAIN raw : raw[i] \in {Listing(d), Loss}
      BY <2>2
    <3>2. CASE raw[i] = Head(raw)
      BY <1>4, <2>1, <3>1, <3>2 DEF Accounted, ChangeUnderWay, Recorded, BurstDirs
    <3>3. CASE \E j \in DOMAIN raw' : raw'[j] = raw[i]
      BY <3>1, <3>3 DEF Accounted, ChangeUnderWay, Recorded
    <3> QED BY <1>2, <3>2, <3>3
  <2>3. CASE Loss \in BurstEvents \/ d \in BurstDirs
    BY <1>4, <2>1, <2>3 DEF Accounted, ChangeUnderWay, Recorded, BurstDirs
  <2>4. CASE \/ callback = [step |-> "send", event |-> Listing(d)]
             \/ d \in batch.dirs \/ \E i \in DOMAIN batches : d \in batches[i].dirs
             \/ callback.step \in {"count", "error"} \/ dropped > 0 \/ carried \/ batch.lossy
             \/ \E i \in DOMAIN batches : batches[i].lossy
    BY <1>1, <2>4 DEF Accounted, ChangeUnderWay, Recorded
  <2> QED BY <1>1, <2>1, <2>2, <2>3, <2>4 DEF Accounted, ChangeUnderWay, Recorded
<1> QED BY <1>1, <1>5, <1>6, <1>7 DEF Inv, AllAccounted

LEMMA CloseStep ==
  ASSUME WatchAssumption, Inv, CloseWindow
  PROVE  Inv'
<1>1. PICK invalid \in BOOLEAN, open \in BOOLEAN, read \in SUBSET BurstDirs :
        /\ batch' = [dirs |-> read, gap |-> open, lossy |-> LossyBurst(invalid) \/ read # BurstDirs]
        /\ gaps' = (gaps \/ open)
  BY DEF CloseWindow
<1>2. /\ task = "collecting" /\ task' = "publishing"
      /\ dropped' = 0 /\ carried' = FALSE /\ burst' = <<>>
      /\ UNCHANGED <<changes, unseen, callback, raw, batches>>
  BY DEF CloseWindow
<1>3. DEFINE lossy == LossyBurst(invalid) \/ read # BurstDirs
<1>4. /\ batch' \in Batch /\ batch'.dirs = read /\ (batch'.lossy <=> lossy)
  <2>1. lossy \in BOOLEAN /\ read \in SUBSET Dirs
    BY DEF BurstDirs, LossyBurst
  <2> QED BY <1>1, <2>1, BatchFacts
<1>5. StreamTypeOK'
  <2>1. gaps' \in BOOLEAN /\ burst' \in Seq(Events) /\ Len(burst') = 0
    BY <1>1, <1>2
  <2>2. dropped' \in 0 .. StreamChanges
    BY <1>2, TypeFacts DEF Inv
  <2>3. Len(burst') <= BurstMax
    BY <2>1, TypeFacts DEF Inv
  <2>4. carried' \in BOOLEAN
    BY <1>2
  <2> QED BY <1>2, <1>4, <2>1, <2>2, <2>3, <2>4 DEF Inv, StreamTypeOK
<1>6. Counted' /\ BatchInTime'
  BY <1>2, TypeFacts DEF Inv, Counted, BatchInTime
<1>7. ASSUME NEW d \in unseen PROVE Accounted(d)'
  <2>1. Accounted(d) /\ batch = NoBatch
    BY <1>2 DEF Inv, AllAccounted, BatchInTime
  <2>2. CASE lossy
    BY <1>4, <2>2 DEF Accounted, Recorded
  <2>3. CASE ~lossy
    <3>1. read = BurstDirs /\ ~carried /\ ~(dropped > 0) /\ Loss \notin BurstEvents
      BY <2>3 DEF LossyBurst
    <3> QED BY <1>2, <1>4, <2>1, <3>1, BatchFacts DEF Accounted, ChangeUnderWay, Recorded
  <2> QED BY <2>2, <2>3
<1> QED BY <1>2, <1>5, <1>6, <1>7 DEF Inv, AllAccounted

LEMMA PublishStep ==
  ASSUME WatchAssumption, Inv, Publish
  PROVE  Inv'
<1>1. /\ task = "publishing" /\ task' = "waiting" /\ batch' = NoBatch
      /\ \/ Len(batches) < BatchMax /\ batches' = Append(batches, batch) /\ carried' = carried
         \/ carried' = TRUE /\ batches' = batches
      /\ UNCHANGED <<changes, unseen, callback, raw, dropped, burst, gaps>>
  BY DEF Publish
<1>2. /\ batches' \in Seq(Batch) /\ Len(batches') <= BatchMax
      /\ \A i \in DOMAIN batches : i \in DOMAIN batches' /\ batches'[i] = batches[i]
      /\ carried' = TRUE \/ \E i \in DOMAIN batches' : batches'[i] = batch
  <2>1. batches \in Seq(Batch) /\ batch \in Batch
    BY TypeFacts DEF Inv
  <2>2. /\ Append(batches, batch) \in Seq(Batch)
        /\ Len(Append(batches, batch)) = Len(batches) + 1
        /\ \A i \in DOMAIN batches :
             i \in DOMAIN Append(batches, batch) /\ Append(batches, batch)[i] = batches[i]
        /\ Len(batches) + 1 \in DOMAIN Append(batches, batch)
        /\ Append(batches, batch)[Len(batches) + 1] = batch
    BY <2>1, AppendFacts
  <2>3. Len(batches) \in Nat /\ Len(batches) <= BatchMax /\ BatchMax \in Nat
    BY TypeFacts DEF Inv
  <2> QED BY <1>1, <2>1, <2>2, <2>3
<1>3. StreamTypeOK'
  BY <1>1, <1>2, TypeFacts, BatchFacts DEF Inv, StreamTypeOK
<1>4. Counted' /\ BatchInTime'
  BY <1>1 DEF Inv, Counted, BatchInTime
<1>5. ASSUME NEW d \in unseen PROVE Accounted(d)'
  <2>1. Accounted(d)
    BY <1>1 DEF Inv, AllAccounted
  <2>2. CASE carried' = TRUE
    BY <2>2 DEF Accounted, Recorded
  <2>3. CASE carried' = carried /\ \E i \in DOMAIN batches' : batches'[i] = batch
    BY <1>1, <1>2, <2>1, <2>3
    DEF Accounted, ChangeUnderWay, Recorded, BurstEvents, BurstDirs
  <2> QED BY <1>1, <1>2, <2>2, <2>3
<1> QED BY <1>1, <1>3, <1>4, <1>5 DEF Inv, AllAccounted

LEMMA ReceiveStep ==
  ASSUME WatchAssumption, Inv, Receive
  PROVE  Inv'
<1>1. /\ batches # <<>> /\ batches' = Tail(batches)
      /\ unseen' = IF Head(batches).lossy THEN {} ELSE unseen \ Head(batches).dirs
      /\ gaps' = (gaps /\ ~Head(batches).gap)
      /\ UNCHANGED <<changes, callback, raw, dropped, task, burst, batch, carried>>
  BY DEF Receive
<1>2. /\ batches' \in Seq(Batch) /\ Len(batches') <= BatchMax
      /\ \A i \in DOMAIN batches :
           batches[i] = Head(batches) \/ \E j \in DOMAIN batches' : batches'[j] = batches[i]
  <2>1. batches \in Seq(Batch)
    BY TypeFacts DEF Inv
  <2>2. /\ Tail(batches) \in Seq(Batch) /\ Head(batches) \in Batch
        /\ Len(Tail(batches)) = Len(batches) - 1 /\ Len(batches) > 0
        /\ \A i \in DOMAIN batches :
             batches[i] = Head(batches) \/ \E j \in DOMAIN Tail(batches) : Tail(batches)[j] = batches[i]
    BY <1>1, <2>1, TailFacts, ZenonT(30)
  <2>3. Len(batches) \in Nat /\ Len(batches) <= BatchMax /\ BatchMax \in Nat
    BY TypeFacts DEF Inv
  <2> QED BY <1>1, <2>1, <2>2, <2>3
<1>3. StreamTypeOK'
  <2>1. gaps' \in BOOLEAN /\ unseen' \in SUBSET Dirs
    BY <1>1, TypeFacts DEF Inv
  <2> QED BY <1>1, <1>2, <2>1 DEF Inv, StreamTypeOK
<1>4. Counted' /\ BatchInTime'
  BY <1>1 DEF Inv, Counted, BatchInTime
<1>5. ASSUME NEW d \in unseen', task # "ended" PROVE Accounted(d)'
  <2>1. d \in unseen /\ ~Head(batches).lossy /\ d \notin Head(batches).dirs
    BY <1>1, <1>5
  <2>2. Accounted(d)
    BY <1>5, <2>1 DEF Inv, AllAccounted
  <2> QED BY <1>1, <1>2, <2>1, <2>2
      DEF Accounted, ChangeUnderWay, Recorded, BurstEvents, BurstDirs
<1> QED BY <1>1, <1>3, <1>4, <1>5 DEF Inv, AllAccounted

-----------------------------------------------------------------------------
(* The theorems. *)

LEMMA InitHolds == WatchAssumption /\ StreamInit => Inv
<1> SUFFICES ASSUME WatchAssumption, StreamInit
             PROVE  Inv
  OBVIOUS
<1>1. StreamChanges \in Nat /\ RawMax \in Nat /\ BurstMax \in Nat /\ BatchMax \in Nat
  BY DEF WatchAssumption
<1>2. StreamTypeOK
  <2>1. <<>> \in Seq(Events) /\ <<>> \in Seq(Batch) /\ Len(<<>>) = 0 /\ 0 \in 0 .. StreamChanges
    BY <1>1
  <2>2. /\ changes \in 0 .. StreamChanges /\ dropped \in 0 .. StreamChanges
        /\ raw \in Seq(Events) /\ Len(raw) <= RawMax /\ burst \in Seq(Events)
        /\ Len(burst) <= BurstMax /\ batches \in Seq(Batch) /\ Len(batches) <= BatchMax
    BY <1>1, <2>1 DEF StreamInit
  <2>3. callback \in CallbackType /\ batch \in Batch /\ unseen \in SUBSET Dirs
    BY BatchFacts, CallbackFacts DEF StreamInit
  <2> QED BY <2>2, <2>3 DEF StreamInit, StreamTypeOK, CallbackType
<1> QED BY <1>2, CallbackFacts DEF StreamInit, Inv, Counted, BatchInTime, AllAccounted

LEMMA StepHolds == WatchAssumption /\ Inv /\ [StreamNext]_streamVars => Inv'
<1> SUFFICES ASSUME WatchAssumption, Inv, [StreamNext]_streamVars
             PROVE  Inv'
  OBVIOUS
<1>1. CASE \E d \in Dirs : Change(Listing(d)) \/ UnwatchedChange(d)
  BY <1>1, ChangeStep, UnwatchedStep, EventFacts
<1>2. CASE Change(Content)
  BY <1>2, ChangeStep, EventFacts
<1>3. CASE CallbackStep
  BY <1>3, SendStep, CountSteps, SendErrorStep DEF CallbackStep
<1>4. CASE TaskStep
  BY <1>4, OpenStep, CollectStep, CloseStep, PublishStep DEF TaskStep
<1>5. CASE EndStream \/ Receive
  BY <1>5, EndStep, ReceiveStep
<1>6. CASE UNCHANGED streamVars
  BY <1>6 DEF Inv, streamVars, StreamTypeOK, Counted, BatchInTime, AllAccounted, Accounted,
      ChangeUnderWay,
              Recorded, BurstDirs, BurstEvents
<1> QED BY <1>1, <1>2, <1>3, <1>4, <1>5, <1>6 DEF StreamNext

\* The inductive invariant holds of every behaviour: it follows a change from the
\* callback through both bounded queues (watch.rs, try_send) to the consumer.
THEOREM Invariance == ASSUME WatchAssumption PROVE StreamSpec => []Inv
BY InitHolds, StepHolds, PTL DEF StreamSpec

\* The queues, the burst and the counter of lost events stay within their
\* bounds, and every variable keeps its type.
THEOREM TypeCorrect == ASSUME WatchAssumption PROVE StreamSpec => []StreamTypeOK
<1>1. Inv => StreamTypeOK
  BY DEF Inv
<1> QED BY <1>1, Invariance, PTL

LEMMA InvNothingForgotten == Inv => NoChangeForgotten
BY DEF Inv, AllAccounted, Accounted, Recorded, LossOnRecord, NoChangeForgotten

\* While the stream lives, every directory the consumer has not read again is
\* named by an event or a burst on its way, or a loss that covers it is on
\* record.
THEOREM NothingForgotten == ASSUME WatchAssumption PROVE StreamSpec => []NoChangeForgotten
BY Invariance, InvNothingForgotten, PTL

\* The stream's half of the watcher's invariant in MCServices.
THEOREM StreamCorrect == ASSUME WatchAssumption PROVE StreamSpec => []StreamInvariant
<1>1. Inv => StreamInvariant
  BY InvNothingForgotten DEF Inv, StreamInvariant
<1> QED BY <1>1, Invariance, PTL

-----------------------------------------------------------------------------
(* The registration of the watches: its inductive invariant. *)

\* A directory exists with the directory that holds it.
TreeIsClosed == \A d \in exists \ {Root} : Parent[d] \in exists

KnownFits == Cardinality(Known) <= Limit

\* The walk, the adds and the rest follow each other.
BatchInOrder ==
  /\ walker # "reading" => named = {} /\ toRead = {}
  /\ walker \in {"idle", "reading"} => toAdd = {} /\ recorded = {}
  /\ walker = "idle" => found = {}

\* The directories that the walk still has to find, or has found and not watched.
Unwatched == (exists \ watched) \ lapsed

\* The batch has the directory.
InBatch(d) == d \in found /\ (walker = "reading" \/ d \in toAdd)

\* Nothing has the directory yet: a listing that is still to be read reports it,
\* or its parent is as unknown as it is, and the walk goes on below its parent.
StillToFind(d) ==
  /\ d \notin Known /\ d # Root
  /\ \/ Parent[d] \in pending \cup named \cup toRead
     \/ Parent[d] \in Unwatched \ Known

AllCovered ==
  gap \/ walker = "ended" \/ \A d \in Unwatched : InBatch(d) \/ StillToFind(d)

RegistrationInv ==
  /\ RegistrationTypeOK /\ TreeIsClosed /\ KnownFits /\ BatchInOrder /\ AllCovered

LEMMA TreeFacts ==
  ASSUME TreeAssumption
  PROVE  /\ IsFiniteSet(Tree) /\ Root \in Tree /\ Limit \in Nat \ {0} /\ TreeChanges \in Nat
         /\ \A d \in Tree \ {Root} : Parent[d] \in Tree
BY DEF TreeAssumption

\* Counting the directories that are known.
LEMMA KnownFacts ==
  ASSUME TreeAssumption, NEW S \in SUBSET Tree
  PROVE  /\ IsFiniteSet(S) /\ Cardinality(S) \in Nat
         /\ \A T \in SUBSET S : Cardinality(T) <= Cardinality(S)
         /\ \A T \in SUBSET Tree : Cardinality(S \cup T) <= Cardinality(S) + Cardinality(T)
<1>1. IsFiniteSet(S) /\ Cardinality(S) \in Nat
  BY TreeFacts, FS_Subset, FS_CardinalityType
<1>2. ASSUME NEW T \in SUBSET S PROVE Cardinality(T) <= Cardinality(S)
  BY <1>1, FS_Subset
<1>3. ASSUME NEW T \in SUBSET Tree
      PROVE  Cardinality(S \cup T) <= Cardinality(S) + Cardinality(T)
  <2>1. IsFiniteSet(T) /\ Cardinality(T) \in Nat
    BY TreeFacts, FS_Subset, FS_CardinalityType
  <2>2. IsFiniteSet(S \cap T) /\ Cardinality(S \cap T) \in Nat
    BY <1>1, FS_Subset, FS_CardinalityType
  <2>3. Cardinality(S \cup T) = Cardinality(S) + Cardinality(T) - Cardinality(S \cap T)
    BY <1>1, <2>1, FS_Union
  <2> QED BY <1>1, <2>1, <2>2, <2>3
<1> QED BY <1>1, <1>2, <1>3

LEMMA OneKnown == Cardinality({}) = 0 /\ \A d : Cardinality({d}) = 1
BY FS_EmptySet, FS_Singleton

LEMMA KnownType ==
  ASSUME TreeAssumption, RegistrationTypeOK
  PROVE  /\ Known \in SUBSET Tree /\ Cardinality(Known) \in Nat
         /\ Limit \in Nat /\ Room = Limit - Cardinality(Known)
<1>1. Known \in SUBSET Tree
  BY DEF RegistrationTypeOK, Known
<1> QED BY <1>1, KnownFacts, TreeFacts DEF Room

\* What a batch finds fits when it fits into the room that is left.
LEMMA FoundFits ==
  ASSUME TreeAssumption, RegistrationTypeOK, NEW S \in SUBSET Tree,
         Cardinality(S) <= Room, found' = found \cup S, UNCHANGED registered
  PROVE  KnownFits'
<1>1. Known' = Known \cup S
  BY DEF Known
<1>2. Cardinality(Known \cup S) <= Cardinality(Known) + Cardinality(S)
  BY KnownType, KnownFacts
<1>3. Cardinality(Known \cup S) \in Nat /\ Cardinality(S) \in Nat
  <2>1. Known \cup S \in SUBSET Tree
    BY KnownType
  <2> QED BY <2>1, KnownFacts
<1>4. Cardinality(Known \cup S) <= Limit
  BY <1>2, <1>3, KnownType
<1> QED BY <1>1, <1>4 DEF KnownFits

LEMMA LessKnown ==
  ASSUME TreeAssumption, RegistrationTypeOK, KnownFits, Known' \subseteq Known
  PROVE  KnownFits' /\ \A T \in SUBSET Known : Cardinality(T) <= Limit
<1>1. ASSUME NEW T \in SUBSET Known PROVE Cardinality(T) <= Limit
  <2>1. Cardinality(T) <= Cardinality(Known)
    BY KnownType, KnownFacts
  <2>2. T \in SUBSET Tree
    BY KnownType
  <2>3. Cardinality(T) \in Nat
    BY <2>2, KnownFacts
  <2> QED BY <2>1, <2>3, KnownType DEF KnownFits
<1>2. Cardinality(Known') <= Limit
  BY <1>1
<1> QED BY <1>1, <1>2 DEF KnownFits

-----------------------------------------------------------------------------
(* Other programs. *)

LEMMA MakeStep ==
  ASSUME TreeAssumption, RegistrationInv, NEW d \in Tree \ {Root}, MakeDirectory(d)
  PROVE  RegistrationInv'
<1> USE DEF RegistrationInv
<1>1. /\ d \notin exists /\ Parent[d] \in exists /\ exists' = exists \cup {d}
      /\ treeChanges < TreeChanges /\ treeChanges' = treeChanges + 1
      /\ UNCHANGED <<watched, registered, walker, named, toRead, found, toAdd, recorded, gap>>
      /\ Known' = Known
  BY DEF MakeDirectory, Known
<1>2. /\ lapsed' \in {lapsed \cup {d}, lapsed \ {d}}
      /\ d \notin lapsed' => d \notin Known /\ ~InWindow(Parent[d]) /\ Parent[d] \notin lapsed \ watched
  BY DEF MakeDirectory
<1>3. /\ pending \subseteq pending' /\ pending' \subseteq pending \cup {Parent[d]}
      /\ Parent[d] \in watched => Parent[d] \in pending'
  BY DEF MakeDirectory, Notify
<1>4. RegistrationTypeOK'
  BY <1>1, <1>2, <1>3, TreeFacts DEF RegistrationTypeOK
<1>5. TreeIsClosed' /\ KnownFits' /\ BatchInOrder'
  BY <1>1 DEF TreeIsClosed, KnownFits, BatchInOrder
<1>6. AllCovered'
  <2> SUFFICES ASSUME ~gap, walker # "ended", NEW e \in Unwatched'
               PROVE  InBatch(e)' \/ StillToFind(e)'
    BY <1>1 DEF AllCovered
  <2>1. \A c \in exists \ {d} : c \in Unwatched' <=> c \in Unwatched
    BY <1>1, <1>2 DEF Unwatched
  <2>2. CASE e = d
    <3>1. d \notin lapsed' /\ d \notin Known /\ d # Root
      BY <1>2, <2>2 DEF Unwatched
    <3>2. ~InWindow(Parent[d]) /\ Parent[d] \notin lapsed \ watched
      BY <1>2, <3>1
    <3>3. CASE Parent[d] \in watched
      BY <1>1, <1>3, <2>2, <3>1, <3>3 DEF StillToFind
    <3>4. CASE Parent[d] \notin watched
      <4>1. Parent[d] \in Unwatched /\ Parent[d] \in Unwatched'
        BY <1>1, <2>1, <3>2, <3>4 DEF Unwatched
      <4>2. CASE Parent[d] \in found
        BY <1>1, <2>2, <3>1, <3>2, <3>4, <4>2 DEF InWindow, StillToFind
      <4>3. CASE Parent[d] \notin found
        <5>1. Parent[d] \notin Known
          BY <4>1, <4>3 DEF AllCovered, InBatch, StillToFind
        <5> QED BY <1>1, <2>2, <3>1, <4>1, <5>1 DEF StillToFind
      <4> QED BY <4>2, <4>3
    <3> QED BY <3>3, <3>4
  <2>3. CASE e # d
    <3>1. e \in Unwatched /\ e \in exists
      BY <1>1, <2>1, <2>3 DEF Unwatched
    <3>2. CASE InBatch(e)
      BY <1>1, <3>2 DEF InBatch
    <3>3. CASE StillToFind(e)
      <4>1. Parent[e] # d
        BY <1>1, <3>1, <3>3 DEF TreeIsClosed, StillToFind
      <4>2. Parent[e] \in Unwatched => Parent[e] \in Unwatched'
        BY <2>1, <4>1 DEF Unwatched
      <4> QED BY <1>1, <1>3, <3>3, <4>2 DEF StillToFind
    <3> QED BY <3>1, <3>2, <3>3 DEF AllCovered
  <2> QED BY <2>2, <2>3
<1> QED BY <1>4, <1>5, <1>6

LEMMA RemoveStep ==
  ASSUME TreeAssumption, RegistrationInv, NEW d \in Tree \ {Root}, RemoveDirectory(d)
  PROVE  RegistrationInv'
<1> USE DEF RegistrationInv
<1>1. /\ d \in exists /\ exists' = exists \ {d} /\ watched' = watched \ {d}
      /\ \A c \in exists \ {Root} : Parent[c] # d
      /\ treeChanges < TreeChanges /\ treeChanges' = treeChanges + 1
      /\ pending \subseteq pending' /\ pending' \subseteq pending \cup {Parent[d]}
      /\ UNCHANGED <<registered, walker, named, toRead, found, toAdd, recorded, gap, lapsed>>
      /\ Known' = Known
  BY DEF RemoveDirectory, Known, Notify
<1>2. RegistrationTypeOK'
  BY <1>1, TreeFacts DEF RegistrationTypeOK
<1>3. TreeIsClosed' /\ KnownFits' /\ BatchInOrder'
  BY <1>1 DEF TreeIsClosed, KnownFits, BatchInOrder
<1>4. \A e : e \in Unwatched' <=> e \in Unwatched /\ e # d
  BY <1>1 DEF Unwatched
<1>5. AllCovered'
  <2> SUFFICES ASSUME ~gap, walker # "ended", NEW e \in Unwatched'
               PROVE  InBatch(e)' \/ StillToFind(e)'
    BY <1>1 DEF AllCovered
  <2>1. e \in Unwatched /\ e \in exists
    BY <1>4 DEF Unwatched
  <2>2. CASE InBatch(e)
    BY <1>1, <2>2 DEF InBatch
  <2>3. CASE StillToFind(e)
    <3>1. Parent[e] # d
      BY <1>1, <2>1, <2>3 DEF StillToFind
    <3> QED BY <1>1, <1>4, <2>3, <3>1 DEF StillToFind
  <2> QED BY <2>1, <2>2, <2>3 DEF AllCovered
<1> QED BY <1>2, <1>3, <1>5

-----------------------------------------------------------------------------
(* The walk and the adds. *)

LEMMA StartBatchStep ==
  ASSUME TreeAssumption, RegistrationInv, StartBatch
  PROVE  RegistrationInv'
<1> USE DEF RegistrationInv
<1>1. /\ walker = "idle" /\ named' = pending /\ pending' = {} /\ walker' = "reading"
      /\ UNCHANGED <<treeChanges, exists, watched, registered, toRead, found, toAdd,
                     recorded, gap, lapsed>>
      /\ Known' = Known /\ Unwatched' = Unwatched
  BY DEF StartBatch, Known, Unwatched
<1>2. RegistrationTypeOK' /\ TreeIsClosed' /\ KnownFits' /\ BatchInOrder'
  BY <1>1 DEF RegistrationTypeOK, TreeIsClosed, KnownFits, BatchInOrder
<1>3. AllCovered'
  BY <1>1 DEF AllCovered, InBatch, StillToFind, BatchInOrder
<1> QED BY <1>2, <1>3

LEMMA StartWalkStep ==
  ASSUME TreeAssumption, RegistrationInv, NEW d \in Tree, StartWalk(d)
  PROVE  RegistrationInv'
<1> USE DEF RegistrationInv
<1>1. /\ toRead = {} /\ d \in named /\ walker = "reading"
      /\ UNCHANGED <<treeChanges, exists, watched, pending, lapsed, registered, walker, toAdd,
                     recorded>>
      /\ Unwatched' = Unwatched
  BY DEF StartWalk, tree, Unwatched, BatchInOrder
<1>2. TreeIsClosed'
  BY <1>1 DEF TreeIsClosed
<1>3. CASE /\ Room > 0 /\ named' = named \ {d} /\ toRead' = {d}
           /\ found' = found \cup ({d} \ registered) /\ UNCHANGED gap
  <2>1. RegistrationTypeOK' /\ BatchInOrder'
    BY <1>1, <1>3 DEF RegistrationTypeOK, BatchInOrder
  <2>2. KnownFits'
    <3>1. {d} \ registered \in SUBSET Tree /\ Cardinality({d} \ registered) <= 1
      <4>1. {d} \in SUBSET Tree /\ {d} \ registered \in SUBSET {d}
        OBVIOUS
      <4> QED BY <4>1, KnownFacts, OneKnown
    <3>2. Cardinality({d} \ registered) \in Nat /\ Room \in Int
      BY <3>1, KnownFacts, KnownType
    <3>3. Cardinality({d} \ registered) <= Room
      BY <1>3, <3>1, <3>2
    <3> QED BY <1>1, <1>3, <3>1, <3>3, FoundFits
  <2>3. AllCovered'
    <3> SUFFICES ASSUME ~gap, NEW e \in Unwatched
                 PROVE  InBatch(e)' \/ StillToFind(e)'
      BY <1>1, <1>3 DEF AllCovered
    <3>1. Known' = Known \cup {d}
      BY <1>1, <1>3 DEF Known
    <3>2. CASE InBatch(e)
      BY <1>1, <1>3, <3>2 DEF InBatch
    <3>3. CASE StillToFind(e) /\ e = d
      BY <1>1, <1>3, <3>3 DEF InBatch, StillToFind, Known
    <3>4. CASE StillToFind(e) /\ e # d
      BY <1>1, <1>3, <3>1, <3>4 DEF StillToFind
    <3> QED BY <1>1, <3>2, <3>3, <3>4 DEF AllCovered
  <2> QED BY <1>2, <2>1, <2>2, <2>3
<1>4. CASE /\ named' = {} /\ gap' = TRUE /\ UNCHANGED <<toRead, found>>
  <2>1. RegistrationTypeOK' /\ BatchInOrder' /\ AllCovered'
    BY <1>1, <1>4 DEF RegistrationTypeOK, BatchInOrder, AllCovered
  <2>2. KnownFits'
    BY <1>1, <1>4 DEF KnownFits, Known
  <2> QED BY <1>2, <2>1, <2>2
<1> QED BY <1>3, <1>4 DEF StartWalk

LEMMA ReadDirectoryStep ==
  ASSUME TreeAssumption, RegistrationInv, NEW d \in Tree, ReadDirectory(d)
  PROVE  RegistrationInv'
<1> USE DEF RegistrationInv
<1>1. /\ d \in toRead /\ walker = "reading"
      /\ UNCHANGED <<treeChanges, exists, watched, pending, lapsed, registered, walker, named,
                     toAdd, recorded>>
      /\ Unwatched' = Unwatched
  BY DEF ReadDirectory, tree, Unwatched, BatchInOrder
<1>2. TreeIsClosed'
  BY <1>1 DEF TreeIsClosed
<1>3. Fresh(d) \in SUBSET Tree /\ IsFiniteSet(Fresh(d)) /\ Cardinality(Fresh(d)) \in Nat
  <2>1. Fresh(d) \in SUBSET Tree
    BY DEF RegistrationTypeOK, Fresh
  <2> QED BY <2>1, KnownFacts
<1>4. CASE /\ Cardinality(Fresh(d)) <= Room /\ toRead' = (toRead \ {d}) \cup Fresh(d)
           /\ found' = found \cup Fresh(d) /\ UNCHANGED gap
  <2>1. RegistrationTypeOK' /\ BatchInOrder'
    BY <1>1, <1>3, <1>4 DEF RegistrationTypeOK, BatchInOrder
  <2>2. KnownFits'
    BY <1>1, <1>3, <1>4, FoundFits
  <2>3. Known' = Known \cup Fresh(d)
    BY <1>1, <1>4 DEF Known
  <2>4. AllCovered'
    <3> SUFFICES ASSUME ~gap, NEW e \in Unwatched
                 PROVE  InBatch(e)' \/ StillToFind(e)'
      BY <1>1, <1>4 DEF AllCovered
    <3>1. CASE InBatch(e) \/ e \in Fresh(d)
      BY <1>1, <1>4, <3>1 DEF InBatch
    <3>2. CASE StillToFind(e) /\ e \notin Fresh(d)
      <4>1. Parent[e] # d
        BY <3>2 DEF StillToFind, Fresh, Unwatched
      <4>2. e \notin Known' /\ e # Root
        BY <2>3, <3>2 DEF StillToFind
      <4>3. CASE Parent[e] \in pending \cup named \cup toRead
        BY <1>1, <1>4, <4>1, <4>2, <4>3 DEF StillToFind
      <4>4. CASE Parent[e] \in Unwatched \ Known
        BY <1>1, <1>4, <2>3, <4>2, <4>4 DEF StillToFind
      <4> QED BY <3>2, <4>3, <4>4 DEF StillToFind
    <3> QED BY <1>1, <3>1, <3>2 DEF AllCovered
  <2> QED BY <1>2, <2>1, <2>2, <2>4
<1>5. CASE /\ \E kept \in SUBSET Fresh(d) :
                Cardinality(kept) = Room /\ found' = found \cup kept
           /\ toRead' = {} /\ gap' = TRUE
  <2>1. PICK kept \in SUBSET Fresh(d) : Cardinality(kept) = Room /\ found' = found \cup kept
    BY <1>5
  <2>2. kept \in SUBSET Tree /\ Cardinality(kept) \in Nat
    BY <1>3, KnownFacts
  <2>3. RegistrationTypeOK' /\ BatchInOrder' /\ AllCovered'
    BY <1>1, <1>5, <2>1, <2>2 DEF RegistrationTypeOK, BatchInOrder, AllCovered
  <2>4. Cardinality(kept) <= Room
    BY <2>1, <2>2
  <2>5. KnownFits'
    BY <1>1, <2>1, <2>2, <2>4, FoundFits
  <2> QED BY <1>2, <2>3, <2>5
<1> QED BY <1>4, <1>5 DEF ReadDirectory

LEMMA StartAddingStep ==
  ASSUME TreeAssumption, RegistrationInv, StartAdding
  PROVE  RegistrationInv'
<1> USE DEF RegistrationInv
<1>1. /\ walker = "reading" /\ named = {} /\ toRead = {} /\ walker' = "adding" /\ toAdd' = found
      /\ UNCHANGED <<treeChanges, exists, watched, pending, lapsed, registered, named, toRead,
                     found, recorded, gap>>
      /\ Known' = Known /\ Unwatched' = Unwatched
  BY DEF StartAdding, tree, Known, Unwatched
<1>2. RegistrationTypeOK' /\ TreeIsClosed' /\ KnownFits' /\ BatchInOrder'
  BY <1>1 DEF RegistrationTypeOK, TreeIsClosed, KnownFits, BatchInOrder
<1>3. AllCovered'
  BY <1>1 DEF AllCovered, InBatch, StillToFind
<1> QED BY <1>2, <1>3

LEMMA AddWatchStep ==
  ASSUME TreeAssumption, RegistrationInv, NEW d \in Tree, AddWatch(d)
  PROVE  RegistrationInv'
<1> USE DEF RegistrationInv
<1>1. /\ walker = "adding" /\ d \in toAdd /\ toAdd' = toAdd \ {d} /\ d \in found
      /\ UNCHANGED <<treeChanges, exists, pending, registered, named, toRead, found, lapsed>>
      /\ Known' = Known
  BY DEF AddWatch, Known, RegistrationTypeOK
<1>2. TreeIsClosed' /\ KnownFits'
  BY <1>1 DEF TreeIsClosed, KnownFits
<1>3. CASE /\ watched' = IF d \in exists THEN watched \cup {d} ELSE watched
           /\ recorded' \in {recorded, recorded \cup {d}} /\ UNCHANGED <<gap, walker>>
  <2>1. RegistrationTypeOK' /\ BatchInOrder'
    BY <1>1, <1>3 DEF RegistrationTypeOK, BatchInOrder
  <2>2. Unwatched' = Unwatched \ {d}
    BY <1>1, <1>3 DEF Unwatched
  <2>3. d \in Known
    BY <1>1 DEF Known
  <2>4. AllCovered'
    BY <1>1, <1>3, <2>2, <2>3 DEF AllCovered, InBatch, StillToFind
  <2> QED BY <1>2, <2>1, <2>4
<1>4. CASE gap' = TRUE /\ recorded' \in {recorded, recorded \cup {d}} /\ UNCHANGED <<watched, walker>>
  BY <1>1, <1>2, <1>4 DEF RegistrationTypeOK, BatchInOrder, AllCovered
<1>5. CASE walker' = "ended" /\ watched' = {} /\ UNCHANGED <<recorded, gap>>
  BY <1>1, <1>2, <1>5 DEF RegistrationTypeOK, BatchInOrder, AllCovered
<1> QED BY <1>3, <1>4, <1>5 DEF AddWatch

LEMMA CommitStep ==
  ASSUME TreeAssumption, RegistrationInv, Commit
  PROVE  RegistrationInv'
<1> USE DEF RegistrationInv
<1>1. /\ walker = "adding" /\ toAdd = {} /\ found' = {} /\ recorded' = {}
      /\ registered' \in {registered, registered \cup recorded} /\ walker' \in {"idle", "ended"}
      /\ watched' \in {watched, {}}
      /\ UNCHANGED <<treeChanges, exists, pending, named, toRead, toAdd, lapsed>>
  BY DEF Commit
<1>2. Known' \subseteq Known /\ registered' \subseteq Known
  BY <1>1 DEF Known, RegistrationTypeOK
<1>3. KnownFits' /\ Cardinality(registered') <= Limit
  BY <1>2, LessKnown
<1>4. RegistrationTypeOK'
  <2>1. gap' \in BOOLEAN
    BY DEF Commit, RegistrationTypeOK
  <2> QED BY <1>1, <1>3, <2>1 DEF RegistrationTypeOK
<1>5. TreeIsClosed' /\ BatchInOrder'
  BY <1>1 DEF TreeIsClosed, BatchInOrder
<1>6. AllCovered'
  <2>1. CASE walker' = "idle" /\ UNCHANGED <<watched, gap>>
    <3>1. Unwatched' = Unwatched
      BY <1>1, <2>1 DEF Unwatched
    <3> QED BY <1>1, <1>2, <2>1, <3>1 DEF AllCovered, InBatch, StillToFind
  <2>2. CASE gap' = TRUE \/ walker' = "ended"
    BY <2>2 DEF AllCovered
  <2> QED BY <2>1, <2>2 DEF Commit
<1> QED BY <1>3, <1>4, <1>5, <1>6

LEMMA RegistrationInitHolds == TreeAssumption /\ RegistrationInit => RegistrationInv
<1> SUFFICES ASSUME TreeAssumption, RegistrationInit
             PROVE  RegistrationInv
  OBVIOUS
<1>1. RegistrationTypeOK
  <2>1. Cardinality(registered) <= Limit
    BY OneKnown, TreeFacts DEF RegistrationInit
  <2>2. Root \in exists /\ exists \subseteq Tree
    BY DEF RegistrationInit
  <2>3. treeChanges \in 0 .. TreeChanges
    BY TreeFacts DEF RegistrationInit
  <2>4. registered = {} /\ walker = "reading" /\ gap = FALSE
    BY DEF RegistrationInit
  <2>5. /\ {watched, pending, named, toAdd, recorded, lapsed} = {{}}
        /\ toRead = {Root} /\ found = {Root}
    BY DEF RegistrationInit
  <2> QED BY <2>1, <2>2, <2>3, <2>4, <2>5, TreeFacts DEF RegistrationTypeOK
<1>2. TreeIsClosed /\ BatchInOrder
  BY DEF RegistrationInit, TreeIsClosed, BatchInOrder
<1>3. KnownFits
  <2>1. Known = {Root}
    BY DEF RegistrationInit, Known
  <2>2. Cardinality({Root}) = 1
    BY OneKnown
  <2> QED BY <2>1, <2>2, TreeFacts DEF KnownFits
<1>4. AllCovered
  BY DEF RegistrationInit, AllCovered, InBatch, StillToFind, Unwatched, Known
<1> QED BY <1>1, <1>2, <1>3, <1>4 DEF RegistrationInv

LEMMA RegistrationStepHolds ==
  TreeAssumption /\ RegistrationInv /\ [RegistrationNext]_registrationVars => RegistrationInv'
<1> SUFFICES ASSUME TreeAssumption, RegistrationInv, [RegistrationNext]_registrationVars
             PROVE  RegistrationInv'
  OBVIOUS
<1>1. CASE \E d \in Tree \ {Root} : MakeDirectory(d) \/ RemoveDirectory(d)
  BY <1>1, MakeStep, RemoveStep
<1>2. CASE StartBatch \/ StartAdding \/ Commit
  BY <1>2, StartBatchStep, StartAddingStep, CommitStep
<1>3. CASE \E d \in Tree : StartWalk(d) \/ ReadDirectory(d) \/ AddWatch(d)
  BY <1>3, StartWalkStep, ReadDirectoryStep, AddWatchStep
<1>4. CASE UNCHANGED registrationVars
  BY <1>4 DEF registrationVars, RegistrationInv, RegistrationTypeOK, TreeIsClosed, KnownFits,
      BatchInOrder, AllCovered, InBatch, StillToFind, Unwatched, Known
<1> QED BY <1>1, <1>2, <1>3, <1>4 DEF RegistrationNext, WalkerStep

\* The inductive invariant holds of every behaviour: a directory without a watch
\* is in the batch, or below a directory that the walk (watch.rs,
\* unregistered_directories) still has to read.
THEOREM RegistrationInvariance == ASSUME TreeAssumption PROVE RegistrationSpec => []RegistrationInv
BY RegistrationInitHolds, RegistrationStepHolds, PTL DEF RegistrationSpec

\* At rest nothing is left to read, so an unwatched directory would have an
\* unwatched parent, and that one too, up to a root that has no parent.
LEMMA NothingIsLeftOut ==
  ASSUME TreeAssumption, RegistrationInv
  PROVE  WatchedWhenIdle
<1> SUFFICES ASSUME walker = "idle", pending = {}, ~gap, Unwatched # {}
             PROVE  FALSE
  BY DEF WatchedWhenIdle, Unwatched
<1>1. named = {} /\ toRead = {} /\ found = {}
  BY DEF RegistrationInv, BatchInOrder
<1>2. \A d \in Unwatched : d # Root /\ Parent[d] \in Unwatched
  BY <1>1 DEF RegistrationInv, AllCovered, InBatch, StillToFind
<1>3. Unwatched \in (SUBSET (Tree \ {Root})) \ {{}}
  BY <1>2 DEF RegistrationInv, RegistrationTypeOK, Unwatched
<1> QED BY <1>2, <1>3 DEF TreeAssumption

\* The watches' half of the watcher's invariant in MCServices, for every tree,
\* every limit of the watches and any number of changes.
THEOREM RegistrationCorrect ==
  ASSUME TreeAssumption PROVE RegistrationSpec => []RegistrationInvariant
<1>1. RegistrationInv => RegistrationInvariant
  BY NothingIsLeftOut DEF RegistrationInv, RegistrationInvariant
<1> QED BY <1>1, RegistrationInvariance, PTL

-----------------------------------------------------------------------------
(* The inductive invariant. *)

\* The openings that hold a reservation.
Held == {d \in Drivers : handle[d].state \in {"held", "closing"}}

\* Two openings of one project never hold a reservation at the same time: the
\* lease of the one would take the project from the other.
OneEach == \A d, e \in Held : handle[d].project = handle[e].project => d = e

\* A server restarts only while its budget lasts.
RestartsLeft ==
  \A d \in Drivers, s \in Servers :
    super[d][s].pc = "record restarted" => super[d][s].generation < RestartsMax

\* An opening that has not happened has no driver.
Unopened == \A d \in Drivers : handle[d].state = "none" => driver[d] = "none"

ProjectInductive ==
  TypeOK /\ BudgetIsHeld /\ OneEach /\ ChildrenAreOwned /\ RestartsLeft /\ Unopened

-----------------------------------------------------------------------------
(* Sets, products and records. *)

LEMMA Limits ==
  ASSUME ProjectAssumption
  PROVE  /\ ProjectsMax \in Nat /\ ProcessesMax \in Nat /\ QueueMax \in Nat /\ QueueMax > 0
         /\ RestartsMax \in Nat /\ Cardinality(Servers) \in Nat /\ IsFiniteSet(Drivers)
BY FS_CardinalityType DEF ProjectAssumption

LEMMA HeldIsFinite ==
  ASSUME ProjectAssumption
  PROVE  IsFiniteSet(Held) /\ Cardinality(Held) \in Nat
<1>1. Held \subseteq Drivers
  BY DEF Held
<1> QED BY <1>1, Limits, FS_Subset, FS_CardinalityType

LEMMA Product ==
  ASSUME NEW n \in Nat, NEW m \in Nat
  PROVE  n * m \in Nat /\ (n + 1) * m = n * m + m
OBVIOUS

LEMMA Below ==
  \A n, m \in Nat : ~(n >= m) => n < m
OBVIOUS

LEMMA Removing ==
  ASSUME NEW S, IsFiniteSet(S), NEW x \in S, NEW T, T = S \ {x}
  PROVE  Cardinality(T) = Cardinality(S) - 1
BY FS_RemoveElement

LEMMA BegunFacts ==
  \A n \in Generations : Begun(n) \in Supervisor /\ Begun(n).pc = "attempt"
BY DEF Begun, Supervisor, Points

\* What the model calls the budget, in terms of Held.
LEMMA BudgetFacts ==
  BudgetIsHeld <=> /\ manager.open = {handle[d].project : d \in Held}
                   /\ Cardinality(manager.open) = Cardinality(Held)
                   /\ Cardinality(Held) <= ProjectsMax
                   /\ manager.processes = Cardinality(Held) * Cardinality(Servers)
BY DEF BudgetIsHeld, Held

LEMMA ProjectTypeFacts ==
  ASSUME ProjectAssumption, TypeOK
  PROVE  /\ manager.open \in SUBSET Projects /\ manager.processes \in 0 .. ProcessesMax
         /\ manager.processes \in Nat
         /\ \A d \in Drivers :
              /\ handle[d] \in [state : States, project : Projects \cup {"none"}]
              /\ handle[d].state \in States /\ handle[d].project \in Projects \cup {"none"}
              /\ driver[d] \in Futures
              /\ results[d] \in Queue /\ Len(results[d]) <= QueueMax /\ Len(results[d]) \in Nat
              /\ super[d] \in [Servers -> Supervisor] /\ child[d] \in [Servers -> Child]
              /\ leftover[d] \in Nat
              /\ \A s \in Servers :
                   /\ super[d][s] \in Supervisor /\ super[d][s].pc \in Points
                   /\ super[d][s].generation \in Generations /\ super[d][s].stops \in BOOLEAN
                   /\ child[d][s] \in Child
<1>1. manager.open \in SUBSET Projects /\ manager.processes \in 0 .. ProcessesMax
  BY DEF TypeOK
<1>2. ASSUME NEW d \in Drivers
      PROVE  /\ handle[d] \in [state : States, project : Projects \cup {"none"}]
             /\ handle[d].state \in States /\ handle[d].project \in Projects \cup {"none"}
             /\ driver[d] \in Futures
             /\ results[d] \in Queue /\ Len(results[d]) <= QueueMax
             /\ super[d] \in [Servers -> Supervisor] /\ child[d] \in [Servers -> Child]
             /\ leftover[d] \in Nat
  BY DEF TypeOK
<1>3. ASSUME NEW d \in Drivers PROVE Len(results[d]) \in Nat
  BY <1>2 DEF Queue
<1>4. ASSUME NEW d \in Drivers, NEW s \in Servers
      PROVE  /\ super[d][s] \in Supervisor /\ super[d][s].pc \in Points
             /\ super[d][s].generation \in Generations /\ super[d][s].stops \in BOOLEAN
             /\ child[d][s] \in Child
  <2>1. super[d][s] \in Supervisor /\ child[d][s] \in Child
    BY <1>2
  <2> QED BY <2>1 DEF Supervisor
<1>5. manager.processes \in Nat
  BY <1>1, Limits
<1> QED BY <1>1, <1>2, <1>3, <1>4, <1>5

-----------------------------------------------------------------------------
(* The host: the budget. *)

LEMMA ProjectOpenStep ==
  ASSUME ProjectAssumption, ProjectInductive, NEW d \in Drivers, NEW p \in Projects, Open(d, p)
  PROVE  ProjectInductive'
<1> USE DEF ProjectInductive
<1>1. /\ handle[d].state = "none" /\ p \notin manager.open
      /\ Cardinality(manager.open) + 1 <= ProjectsMax
      /\ manager.processes + Cardinality(Servers) <= ProcessesMax
      /\ manager' = [open |-> manager.open \cup {p},
                     processes |-> manager.processes + Cardinality(Servers)]
      /\ handle' = [handle EXCEPT ![d] = [state |-> "held", project |-> p]]
      /\ driver' = [driver EXCEPT ![d] = "ready"]
      /\ UNCHANGED <<cancelled, results, super, child, leftover>>
  BY DEF Open, MayReserve, processes
<1>2. d \notin Held /\ Held' = Held \cup {d}
  BY <1>1 DEF Held, TypeOK
<1>3. \A e \in Held : handle'[e] = handle[e]
  BY <1>1, <1>2 DEF Held, TypeOK
<1>4. handle'[d].project = p
  BY <1>1 DEF TypeOK
<1>5. Cardinality(Held') = Cardinality(Held) + 1
  BY <1>2, HeldIsFinite, FS_AddElement
<1>6. BudgetIsHeld'
  <2>1. manager'.open = {handle'[e].project : e \in Held'}
    BY <1>1, <1>2, <1>3, <1>4, BudgetFacts
  <2>2. IsFiniteSet(manager.open)
    <3> DEFINE f == [e \in Held |-> handle[e].project]
    <3>1. f \in Surjection(Held, manager.open)
      BY BudgetFacts DEF Surjection
    <3> QED BY <3>1, HeldIsFinite, FS_Surjection
  <2>3. Cardinality(manager'.open) = Cardinality(manager.open) + 1
    <3>1. manager'.open = manager.open \cup {p}
      BY <1>1
    <3> QED BY <1>1, <2>2, <3>1, FS_AddElement
  <2>4. /\ Cardinality(manager'.open) = Cardinality(Held')
        /\ Cardinality(Held') <= ProjectsMax
    BY <1>1, <1>5, <2>3, BudgetFacts
  <2>5. manager'.processes = Cardinality(Held') * Cardinality(Servers)
    <3>1. manager'.processes = manager.processes + Cardinality(Servers)
      BY <1>1
    <3>2. manager.processes = Cardinality(Held) * Cardinality(Servers)
      BY BudgetFacts
    <3>3. (Cardinality(Held) + 1) * Cardinality(Servers)
            = Cardinality(Held) * Cardinality(Servers) + Cardinality(Servers)
      BY HeldIsFinite, Limits, Product
    <3> QED BY <1>5, <3>1, <3>2, <3>3
  <2> QED BY <2>1, <2>4, <2>5 DEF BudgetIsHeld, Held
<1>7. OneEach'
  <2>1. \A e \in Held : handle[e].project # p
    BY <1>1, BudgetFacts
  <2> QED BY <1>2, <1>3, <1>4, <2>1 DEF OneEach
<1>8. TypeOK'
  <2>1. manager' \in [open : SUBSET Projects, processes : 0 .. ProcessesMax]
    <3>1. manager.open \cup {p} \in SUBSET Projects
      BY ProjectTypeFacts
    <3>2. manager.processes + Cardinality(Servers) \in 0 .. ProcessesMax
      BY <1>1, ProjectTypeFacts, Limits
    <3> QED BY <1>1, <3>1, <3>2
  <2>2. handle' \in [Drivers -> [state : States, project : Projects \cup {"none"}]]
    <3>1. [state |-> "held", project |-> p] \in [state : States, project : Projects \cup {"none"}]
      BY DEF States
    <3> QED BY <1>1, <3>1 DEF TypeOK
  <2>3. driver' \in [Drivers -> Futures]
    BY <1>1 DEF TypeOK, Futures
  <2> QED BY <1>1, <2>1, <2>2, <2>3 DEF TypeOK
<1>9. driver[d] = "none"
  BY <1>1 DEF Unopened
<1>10. ChildrenAreOwned'
  <2>1. \A e \in Drivers : driver[e] = "running" => driver'[e] = "running"
    BY <1>1, <1>9 DEF TypeOK
  <2> QED BY <1>1, <2>1 DEF ChildrenAreOwned
<1>11. RestartsLeft'
  BY <1>1 DEF RestartsLeft
<1>12. Unopened'
  BY <1>1, <1>8 DEF Unopened, TypeOK
<1> QED BY <1>6, <1>7, <1>8, <1>10, <1>11, <1>12

\* A step that leaves the budget, the supervisors and the processes alone.
LEMMA HandleStep ==
  ASSUME ProjectAssumption, ProjectInductive, TypeOK', UNCHANGED <<manager, super, child>>,
         \A d \in Drivers : handle'[d].project = handle[d].project
                            /\ (handle'[d].state \in {"held", "closing"}
                                  <=> handle[d].state \in {"held", "closing"}),
         \A d \in Drivers : handle'[d].state = "none" => driver'[d] = "none",
         \A d \in Drivers : driver[d] = "running" => 
           driver'[d] = "running" \/ \A s \in Servers : child[d][s] # "running"
  PROVE  ProjectInductive'
<1> USE DEF ProjectInductive
<1>1. Held' = Held /\ \A d \in Held : handle'[d].project = handle[d].project
  BY DEF Held
<1>2. BudgetIsHeld'
  <2>1. {handle'[d].project : d \in Held'} = {handle[d].project : d \in Held}
    BY <1>1
  <2> QED BY <1>1, <2>1, BudgetFacts DEF BudgetIsHeld, Held
<1>3. OneEach'
  BY <1>1 DEF OneEach
<1>4. ChildrenAreOwned'
  BY DEF ChildrenAreOwned
<1>5. RestartsLeft'
  BY DEF RestartsLeft
<1>6. Unopened'
  BY DEF Unopened
<1> QED BY <1>2, <1>3, <1>4, <1>5, <1>6

LEMMA ReleasedStep ==
  ASSUME ProjectAssumption, ProjectInductive, NEW d \in Drivers,
         handle[d].state \in {"held", "closing"}, Released(d),
         cancelled' \in SUBSET Drivers, UNCHANGED <<driver, super, child, leftover>>
  PROVE  ProjectInductive'
<1> USE DEF ProjectInductive
<1>1. /\ handle' = [handle EXCEPT ![d].state = "gone"]
      /\ manager' = [open |-> manager.open \ {handle[d].project},
                     processes |-> manager.processes - Cardinality(Servers)]
      /\ results' = [results EXCEPT ![d] = <<>>]
  BY DEF Released
<1>2. d \in Held /\ Held' = Held \ {d}
  BY <1>1 DEF Held, TypeOK
<1>3. \A e \in Held' : handle'[e] = handle[e]
  BY <1>1, <1>2 DEF Held, TypeOK
<1>4. Cardinality(Held') \in Nat /\ Cardinality(Held) = Cardinality(Held') + 1
  <2>1. Cardinality(Held') = Cardinality(Held) - 1
    BY <1>2, HeldIsFinite, FS_RemoveElement
  <2>2. IsFiniteSet(Held')
    BY <1>2, HeldIsFinite, FS_Subset
  <2> QED BY <2>1, <2>2, HeldIsFinite, FS_CardinalityType
<1>5. manager'.processes = Cardinality(Held') * Cardinality(Servers)
      /\ manager'.processes \in 0 .. ProcessesMax
  <2>1. manager'.processes = manager.processes - Cardinality(Servers)
    BY <1>1
  <2>2. manager.processes = Cardinality(Held) * Cardinality(Servers)
    BY BudgetFacts
  <2>3. /\ (Cardinality(Held') + 1) * Cardinality(Servers)
              = Cardinality(Held') * Cardinality(Servers) + Cardinality(Servers)
        /\ Cardinality(Held') * Cardinality(Servers) \in Nat
    BY <1>4, Limits, Product
  <2>4. manager.processes = Cardinality(Held') * Cardinality(Servers) + Cardinality(Servers)
    BY <1>4, <2>2, <2>3
  <2>5. manager.processes <= ProcessesMax
    BY ProjectTypeFacts, Limits
  <2> QED BY <2>1, <2>3, <2>4, <2>5, Limits
<1>6. BudgetIsHeld'
  <2>1. manager'.open = {handle'[e].project : e \in Held'}
    <3>1. manager'.open = {handle[e].project : e \in Held} \ {handle[d].project}
      BY <1>1, BudgetFacts
    <3>2. \A e \in Held : e # d => handle[e].project # handle[d].project
      BY <1>2 DEF OneEach
    <3>3. manager'.open = {handle[e].project : e \in Held'}
      BY <1>2, <3>1, <3>2
    <3> QED BY <1>3, <3>3
  <2>2. Cardinality(manager'.open) = Cardinality(Held')
    <3>1. IsFiniteSet(manager.open)
      <4> DEFINE f == [e \in Held |-> handle[e].project]
      <4>1. f \in Surjection(Held, manager.open)
        BY BudgetFacts DEF Surjection
      <4> QED BY <4>1, HeldIsFinite, FS_Surjection
    <3>2. handle[d].project \in manager.open
      BY <1>2, BudgetFacts
    <3>3. Cardinality(manager'.open) = Cardinality(manager.open) - 1
      <4>1. manager'.open = manager.open \ {handle[d].project}
        BY <1>1
      <4>2. manager'.open = manager.open \ {handle[d].project}
        BY <4>1
      <4> QED BY <3>1, <3>2, <4>2, Removing
    <3> QED BY <1>4, <3>3, BudgetFacts
  <2>3. Cardinality(Held') <= ProjectsMax
    BY <1>4, BudgetFacts, Limits
  <2> QED BY <1>5, <2>1, <2>2, <2>3 DEF BudgetIsHeld, Held
<1>7. OneEach'
  BY <1>2, <1>3 DEF OneEach
<1>8. TypeOK'
  <2>1. manager' \in [open : SUBSET Projects, processes : 0 .. ProcessesMax]
    <3>1. manager.open \ {handle[d].project} \in SUBSET Projects
      BY ProjectTypeFacts
    <3> QED BY <1>1, <1>5, <3>1
  <2>2. handle' \in [Drivers -> [state : States, project : Projects \cup {"none"}]]
    <3>1. [handle[d] EXCEPT !.state = "gone"] \in [state : States, project : Projects \cup {"none"}]
      BY ProjectTypeFacts DEF States
    <3> QED BY <1>1, <3>1 DEF TypeOK
  <2>3. results' \in [Drivers -> Queue] /\ \A e \in Drivers : Len(results'[e]) <= QueueMax
    <3>1. <<>> \in Queue /\ Len(<<>>) <= QueueMax
      BY Limits DEF Queue
    <3> QED BY <1>1, <3>1 DEF TypeOK
  <2> QED BY <2>1, <2>2, <2>3 DEF TypeOK
<1>9. ChildrenAreOwned'
  BY DEF ChildrenAreOwned
<1>10. RestartsLeft'
  BY DEF RestartsLeft
<1>11. Unopened'
  BY <1>1 DEF Unopened, TypeOK
<1> QED BY <1>6, <1>7, <1>8, <1>9, <1>10, <1>11

-----------------------------------------------------------------------------
(* The host: handle and driver. *)

LEMMA RunStep ==
  ASSUME ProjectAssumption, ProjectInductive, NEW d \in Drivers, Run(d)
  PROVE  ProjectInductive'
<1> USE DEF ProjectInductive
<1> DEFINE attempts == [s \in Servers |-> Begun(0)]
<1>1. /\ driver[d] = "ready" /\ driver' = [driver EXCEPT ![d] = "running"]
      /\ super' = [super EXCEPT ![d] = attempts]
      /\ UNCHANGED <<manager, handle, cancelled, results, child, leftover>>
  BY DEF Run
<1>2. attempts \in [Servers -> Supervisor] /\ \A s \in Servers : attempts[s].pc = "attempt"
  BY Limits, BegunFacts DEF Generations
<1> HIDE DEF attempts
<1>3. TypeOK'
  <2>1. driver' \in [Drivers -> Futures] /\ super' \in [Drivers -> [Servers -> Supervisor]]
    BY <1>1, <1>2 DEF TypeOK, Futures
  <2> QED BY <1>1, <2>1 DEF TypeOK
<1>4. Held' = Held
  BY <1>1 DEF Held
<1>5. BudgetIsHeld' /\ OneEach'
  <2>1. BudgetIsHeld'
    BY <1>1, <1>4 DEF BudgetIsHeld
  <2>2. OneEach'
    BY <1>1, <1>4 DEF OneEach
  <2> QED BY <2>1, <2>2
<1>6. \A s \in Servers : child[d][s] # "running"
  BY <1>1 DEF ChildrenAreOwned
<1>7. ChildrenAreOwned'
  <2>1. \A e \in Drivers : e # d => driver'[e] = driver[e] /\ super'[e] = super[e]
    BY <1>1 DEF TypeOK
  <2> SUFFICES ASSUME NEW e \in Drivers, NEW s \in Servers, child'[e][s] = "running"
               PROVE  /\ driver'[e] = "running"
                      /\ super'[e][s].pc \in {"handshake", "record started", "serve", "close"}
    BY DEF ChildrenAreOwned
  <2>2. e # d
    BY <1>1, <1>6
  <2> QED BY <1>1, <2>1, <2>2 DEF ChildrenAreOwned
<1>8. RestartsLeft'
  <2>1. \A e \in Drivers : super'[e] = IF e = d THEN attempts ELSE super[e]
    BY <1>1 DEF TypeOK
  <2> QED BY <1>2, <2>1 DEF RestartsLeft
<1>9. Unopened'
  BY <1>1 DEF Unopened, TypeOK
<1> QED BY <1>3, <1>5, <1>7, <1>8, <1>9

LEMMA DropDriverStep ==
  ASSUME ProjectAssumption, ProjectInductive, NEW d \in Drivers, DropDriver(d)
  PROVE  ProjectInductive'
<1> USE DEF ProjectInductive
<1> DEFINE ended == [s \in Servers |-> Ended]
           killed == [s \in Servers |-> Kill(child[d][s])]
<1>1. /\ driver[d] \in {"ready", "running"} /\ driver' = [driver EXCEPT ![d] = "dropped"]
      /\ super' = [super EXCEPT ![d] = ended]
      /\ child' = [child EXCEPT ![d] = killed]
      /\ UNCHANGED <<manager, handle, cancelled, results, leftover>>
  BY DEF DropDriver
<1>2. ended \in [Servers -> Supervisor] /\ \A s \in Servers : ended[s].pc = "ended"
  BY Limits DEF Ended, Supervisor, Points, Generations
<1>3. killed \in [Servers -> Child] /\ \A s \in Servers : killed[s] # "running"
  <2>1. \A s \in Servers : Kill(child[d][s]) \in Child /\ Kill(child[d][s]) # "running"
    BY ProjectTypeFacts DEF Kill, Child
  <2> QED BY <2>1
<1> HIDE DEF ended, killed
<1>4. TypeOK'
  <2>1. /\ driver' \in [Drivers -> Futures] /\ super' \in [Drivers -> [Servers -> Supervisor]]
        /\ child' \in [Drivers -> [Servers -> Child]]
    BY <1>1, <1>2, <1>3 DEF TypeOK, Futures
  <2> QED BY <1>1, <2>1 DEF TypeOK
<1>5. Held' = Held
  BY <1>1 DEF Held
<1>6. BudgetIsHeld' /\ OneEach'
  <2>1. BudgetIsHeld'
    BY <1>1, <1>5 DEF BudgetIsHeld
  <2>2. OneEach'
    BY <1>1, <1>5 DEF OneEach
  <2> QED BY <2>1, <2>2
<1>7. \A e \in Drivers : /\ super'[e] = IF e = d THEN ended ELSE super[e]
                         /\ child'[e] = IF e = d THEN killed ELSE child[e]
                         /\ e # d => driver'[e] = driver[e]
  BY <1>1 DEF TypeOK
<1>8. ChildrenAreOwned'
  BY <1>3, <1>7 DEF ChildrenAreOwned
<1>9. RestartsLeft'
  BY <1>2, <1>7 DEF RestartsLeft
<1>10. Unopened'
  BY <1>1 DEF Unopened, TypeOK
<1> QED BY <1>4, <1>6, <1>8, <1>9, <1>10

LEMMA HostStep ==
  ASSUME ProjectAssumption, ProjectInductive, NEW d \in Drivers,
         Host(d) \/ CloseReturns(d) \/ DriverEnds(d) \/ LeftoverExits(d)
  PROVE  ProjectInductive'
<1> USE DEF ProjectInductive
<1>1. ASSUME NEW p \in Projects, Open(d, p) PROVE ProjectInductive'
  BY <1>1, ProjectOpenStep
<1>2. CASE Run(d)
  BY <1>2, RunStep
<1>3. CASE DropDriver(d)
  BY <1>3, DropDriverStep
<1>4. CASE DropHandle(d)
  <2>1. cancelled' \in SUBSET Drivers
    BY <1>4 DEF DropHandle, TypeOK
  <2> QED BY <1>4, <2>1, ReleasedStep DEF DropHandle, processes
<1>5. CASE CloseReturns(d)
  <2>1. cancelled' \in SUBSET Drivers
    BY <1>5 DEF CloseReturns, TypeOK
  <2> QED BY <1>5, <2>1, ReleasedStep DEF CloseReturns, processes
<1>6. CASE Close(d)
  <2>1. /\ handle[d].state = "held" /\ handle' = [handle EXCEPT ![d].state = "closing"]
        /\ cancelled' = cancelled \cup {d}
        /\ UNCHANGED <<manager, driver, results, super, child, leftover>>
    BY <1>6 DEF Close, processes
  <2>2. TypeOK'
    BY <2>1 DEF TypeOK, States
  <2>3. \A e \in Drivers : /\ handle'[e].project = handle[e].project
                           /\ handle'[e].state = IF e = d THEN "closing" ELSE handle[e].state
    BY <2>1 DEF TypeOK
  <2>4. \A e \in Drivers : handle'[e].state = "none" => driver'[e] = "none"
    BY <2>1, <2>3 DEF Unopened
  <2> QED BY <2>1, <2>2, <2>3, <2>4, HandleStep
<1>7. CASE Cancel(d)
  <2>1. cancelled' = cancelled \cup {d}
        /\ UNCHANGED <<manager, handle, driver, results, super, child, leftover>>
    BY <1>7 DEF Cancel, processes
  <2>2. TypeOK'
    BY <2>1 DEF TypeOK
  <2> QED BY <2>1, <2>2, HandleStep DEF Unopened
<1>8. CASE Recv(d)
  <2>1. /\ results[d] # <<>> /\ results' = [results EXCEPT ![d] = Tail(results[d])]
        /\ UNCHANGED <<manager, handle, cancelled, driver, super, child, leftover>>
    BY <1>8 DEF Recv, processes
  <2>2. Tail(results[d]) \in Queue /\ Len(Tail(results[d])) <= QueueMax
    <3>1. results[d] \in Queue /\ Len(results[d]) <= QueueMax /\ Len(results[d]) \in Nat
      BY ProjectTypeFacts
    <3>2. Tail(results[d]) \in Queue /\ Len(Tail(results[d])) = Len(results[d]) - 1
      BY <2>1, <3>1, TailFacts DEF Queue
    <3> QED BY <3>1, <3>2, Limits
  <2>3. TypeOK'
    BY <2>1, <2>2 DEF TypeOK
  <2> QED BY <2>1, <2>3, HandleStep DEF Unopened
<1>9. CASE DriverEnds(d)
  <2>1. /\ driver[d] = "running" /\ \A s \in Servers : super[d][s].pc = "ended"
        /\ driver' = [driver EXCEPT ![d] = "finished"]
        /\ UNCHANGED <<manager, handle, cancelled, results, super, child, leftover>>
    BY <1>9 DEF DriverEnds, processes
  <2>2. TypeOK'
    BY <2>1 DEF TypeOK, Futures
  <2>3. \A s \in Servers : child[d][s] # "running"
    BY <2>1 DEF ChildrenAreOwned
  <2>4. \A e \in Drivers : driver'[e] = IF e = d THEN "finished" ELSE driver[e]
    BY <2>1 DEF TypeOK
  <2>5. \A e \in Drivers : handle'[e].state = "none" => driver'[e] = "none"
    BY <2>1, <2>4 DEF Unopened
  <2> QED BY <2>1, <2>2, <2>3, <2>4, <2>5, HandleStep
<1>10. CASE LeftoverExits(d)
  <2>1. /\ leftover[d] > 0 /\ leftover' = [leftover EXCEPT ![d] = leftover[d] - 1]
        /\ UNCHANGED <<manager, handle, cancelled, driver, results, super, child>>
    BY <1>10 DEF LeftoverExits, host
  <2>2. leftover[d] - 1 \in Nat
    BY <2>1, ProjectTypeFacts
  <2>3. TypeOK'
    BY <2>1, <2>2 DEF TypeOK
  <2> QED BY <2>1, <2>3, HandleStep DEF Unopened
<1> QED BY <1>1, <1>2, <1>3, <1>4, <1>5, <1>6, <1>7, <1>8, <1>9, <1>10 DEF Host

-----------------------------------------------------------------------------
(* The supervisor: every step of it gives one server a new point and its   *)
(* process a new state, and never leaves a process without an attempt.     *)

Attempted == {"handshake", "record started", "serve", "close"}

SupervisorStep(d, s, r, c) ==
  /\ r \in Supervisor /\ c \in Child
  /\ super' = [super EXCEPT ![d][s] = r] /\ child' = [child EXCEPT ![d][s] = c]
  /\ c = "running" => driver[d] = "running" /\ r.pc \in Attempted
  /\ r.pc = "record restarted" => r.generation < RestartsMax

QueuesStay ==
  /\ results' \in [Drivers -> Queue] /\ \A d \in Drivers : Len(results'[d]) <= QueueMax
  /\ leftover' \in [Drivers -> Nat]

LEMMA SupervisorKeeps ==
  ASSUME ProjectAssumption, ProjectInductive, NEW d \in Drivers, NEW s \in Servers, NEW r, NEW c,
         SupervisorStep(d, s, r, c), QueuesStay, UNCHANGED host
  PROVE  ProjectInductive'
<1> USE DEF ProjectInductive
<1>1. UNCHANGED <<manager, handle, cancelled, driver>>
  BY DEF host
<1>2. /\ super' \in [Drivers -> [Servers -> Supervisor]]
      /\ child' \in [Drivers -> [Servers -> Child]]
  BY DEF TypeOK, SupervisorStep
<1>3. \A e \in Drivers, t \in Servers :
        IF e = d /\ t = s THEN super'[e][t] = r /\ child'[e][t] = c
                          ELSE super'[e][t] = super[e][t] /\ child'[e][t] = child[e][t]
  BY DEF TypeOK, SupervisorStep
<1>4. TypeOK'
  BY <1>1, <1>2 DEF TypeOK, QueuesStay
<1>5. Held' = Held
  BY <1>1 DEF Held
<1>6. BudgetIsHeld' /\ OneEach'
  <2>1. BudgetIsHeld'
    BY <1>1, <1>5 DEF BudgetIsHeld
  <2>2. OneEach'
    BY <1>1, <1>5 DEF OneEach
  <2> QED BY <2>1, <2>2
<1>7. ChildrenAreOwned'
  <2> SUFFICES ASSUME NEW e \in Drivers, NEW t \in Servers, child'[e][t] = "running"
               PROVE  driver'[e] = "running" /\ super'[e][t].pc \in Attempted
    BY DEF ChildrenAreOwned, Attempted
  <2>1. CASE e = d /\ t = s
    BY <1>1, <1>3, <2>1 DEF SupervisorStep
  <2>2. CASE ~(e = d /\ t = s)
    BY <1>1, <1>3, <2>2 DEF ChildrenAreOwned, Attempted
  <2> QED BY <2>1, <2>2
<1>8. RestartsLeft'
  BY <1>3 DEF RestartsLeft, SupervisorStep
<1>9. Unopened'
  BY <1>1 DEF Unopened
<1> QED BY <1>4, <1>6, <1>7, <1>8, <1>9

\* A step of the supervisor to another point of the same attempt.
Moved(d, s, pc) == [super[d][s] EXCEPT !.pc = pc]

LEMMA MovedFacts ==
  ASSUME ProjectAssumption, TypeOK, NEW d \in Drivers, NEW s \in Servers, NEW pc \in Points
  PROVE  /\ Moved(d, s, pc) \in Supervisor /\ Moved(d, s, pc).pc = pc
         /\ Moved(d, s, pc).generation = super[d][s].generation
<1>1. super[d][s] \in Supervisor
  BY ProjectTypeFacts
<1> QED BY <1>1 DEF Moved, Supervisor

\* The child of a server stays when the step leaves it alone.
LEMMA SameChild ==
  ASSUME TypeOK, UNCHANGED child, NEW d \in Drivers, NEW s \in Servers
  PROVE  child' = [child EXCEPT ![d][s] = child[d][s]]
BY DEF TypeOK

LEMMA SameQueues ==
  ASSUME TypeOK, UNCHANGED <<results, leftover>>
  PROVE  QueuesStay
BY DEF TypeOK, QueuesStay

LEMMA ProjectEventFacts ==
  ASSUME NEW s \in Servers, NEW kind \in Kinds, NEW generation \in Generations
  PROVE  Event(s, kind, generation) \in [server : Servers, kind : Kinds, generation : Generations]
BY DEF Event

LEMMA Appended ==
  ASSUME ProjectAssumption, TypeOK, NEW d \in Drivers, Len(results[d]) < QueueMax,
         NEW e \in [server : Servers, kind : Kinds, generation : Generations],
         results' = [results EXCEPT ![d] = Append(results[d], e)]
  PROVE  results' \in [Drivers -> Queue] /\ \A f \in Drivers : Len(results'[f]) <= QueueMax
<1>1. results[d] \in Queue /\ Len(results[d]) \in Nat
  BY ProjectTypeFacts
<1>2. Append(results[d], e) \in Queue /\ Len(Append(results[d], e)) = Len(results[d]) + 1
  BY <1>1, AppendFacts DEF Queue
<1>3. Len(Append(results[d], e)) <= QueueMax
  BY <1>1, <1>2, Limits
<1> QED BY <1>2, <1>3 DEF TypeOK

LEMMA ProjectRecorded ==
  ASSUME ProjectAssumption, TypeOK, NEW d \in Drivers,
         NEW e \in [server : Servers, kind : Kinds, generation : Generations],
         Record(d, e) \/ Report(d, e)
  PROVE  results' \in [Drivers -> Queue] /\ \A f \in Drivers : Len(results'[f]) <= QueueMax
<1>1. CASE UNCHANGED results
  BY <1>1 DEF TypeOK
<1>2. CASE Len(results[d]) < QueueMax /\ results' = [results EXCEPT ![d] = Append(results[d], e)]
  BY <1>2, Appended
<1> QED BY <1>1, <1>2 DEF Record, Report

-----------------------------------------------------------------------------
(* The steps of the supervisor and of the processes. *)

LEMMA AttemptStep ==
  ASSUME ProjectAssumption, ProjectInductive, NEW d \in Drivers, NEW s \in Servers, Attempt(d, s)
  PROVE  ProjectInductive'
<1> USE DEF ProjectInductive
<1>1. At(d, s, "attempt") /\ UNCHANGED <<results, leftover>> /\ UNCHANGED host
  BY DEF Attempt
<1>2. driver[d] = "running" /\ child[d][s] # "running" /\ child[d][s] \in Child
  BY <1>1, ProjectTypeFacts DEF At, ChildrenAreOwned
<1>3. QueuesStay
  BY <1>1, SameQueues
<1>4. ASSUME NEW pc \in {"record stopped", "record unavailable", "record failed"},
             To(d, s, pc), UNCHANGED child
      PROVE  ProjectInductive'
  <2>1. pc \in Points /\ pc # "record restarted"
    BY DEF Points
  <2>2. /\ Moved(d, s, pc) \in Supervisor /\ Moved(d, s, pc).pc = pc
        /\ super' = [super EXCEPT ![d][s] = Moved(d, s, pc)]
    <3>1. super' = [super EXCEPT ![d][s] = Moved(d, s, pc)]
      BY <1>4 DEF To, Moved
    <3> QED BY <2>1, <3>1, MovedFacts
  <2>3. child' = [child EXCEPT ![d][s] = child[d][s]]
    BY <1>4, SameChild
  <2>4. SupervisorStep(d, s, Moved(d, s, pc), child[d][s])
    BY <1>2, <2>1, <2>2, <2>3 DEF SupervisorStep
  <2> QED BY <1>1, <1>3, <2>4, SupervisorKeeps
<1>5. CASE Spawn(d, s)
  <2>1. "handshake" \in Points /\ "handshake" \in Attempted /\ "running" \in Child
    BY DEF Points, Attempted, Child
  <2>2. /\ Moved(d, s, "handshake") \in Supervisor /\ Moved(d, s, "handshake").pc = "handshake"
        /\ super' = [super EXCEPT ![d][s] = Moved(d, s, "handshake")]
    <3>1. super' = [super EXCEPT ![d][s] = Moved(d, s, "handshake")]
      BY <1>5 DEF Spawn, To, Moved
    <3> QED BY <2>1, <3>1, MovedFacts
  <2>3. SupervisorStep(d, s, Moved(d, s, "handshake"), "running")
    BY <1>2, <1>5, <2>1, <2>2 DEF SupervisorStep, Spawn
  <2> QED BY <1>1, <1>3, <2>3, SupervisorKeeps
<1> QED BY <1>4, <1>5 DEF Attempt, Unstarted

\* A step to a point of the same attempt at which the process may still run.
LEMMA AttemptGoesOn ==
  ASSUME ProjectAssumption, ProjectInductive, NEW d \in Drivers, NEW s \in Servers, NEW r \in Supervisor,
         driver[d] = "running", r.pc \in Attempted, UNCHANGED child,
         super' = [super EXCEPT ![d][s] = r], QueuesStay, UNCHANGED host
  PROVE  ProjectInductive'
<1> USE DEF ProjectInductive
<1>1. child[d][s] \in Child
  BY ProjectTypeFacts
<1>2. r.pc # "record restarted"
  BY DEF Attempted
<1>3. SupervisorStep(d, s, r, child[d][s])
  BY <1>1, <1>2, SameChild DEF SupervisorStep
<1> QED BY <1>3, SupervisorKeeps

LEMMA Closing ==
  ASSUME ProjectAssumption, TypeOK, NEW d \in Drivers, NEW s \in Servers, NEW stops \in BOOLEAN,
         super' = [super EXCEPT ![d][s] =
                     [pc |-> "close", generation |-> @.generation, stops |-> stops]]
  PROVE  \E r \in Supervisor : r.pc \in Attempted /\ super' = [super EXCEPT ![d][s] = r]
<1> DEFINE r == [pc |-> "close", generation |-> super[d][s].generation, stops |-> stops]
<1>1. super[d][s] \in Supervisor /\ super[d][s].generation \in Generations
  BY ProjectTypeFacts
<1>2. r \in Supervisor /\ r.pc \in Attempted
  BY <1>1 DEF Supervisor, Points, Attempted
<1>3. super' = [super EXCEPT ![d][s] = r]
  BY DEF TypeOK
<1> QED BY <1>2, <1>3

LEMMA HandshakeStep ==
  ASSUME ProjectAssumption, ProjectInductive, NEW d \in Drivers, NEW s \in Servers, Handshake(d, s)
  PROVE  ProjectInductive'
<1> USE DEF ProjectInductive
<1>1. /\ driver[d] = "running" /\ UNCHANGED <<results, leftover>> /\ UNCHANGED child
      /\ UNCHANGED host
  BY DEF Handshake, At
<1>2. QueuesStay
  BY <1>1, SameQueues
<1>3. CASE To(d, s, "record started")
  <2>1. "record started" \in Points /\ "record started" \in Attempted
    BY DEF Points, Attempted
  <2>2. /\ Moved(d, s, "record started") \in Supervisor
        /\ Moved(d, s, "record started").pc = "record started"
        /\ super' = [super EXCEPT ![d][s] = Moved(d, s, "record started")]
    <3>1. super' = [super EXCEPT ![d][s] = Moved(d, s, "record started")]
      BY <1>3 DEF To, Moved
    <3> QED BY <2>1, <3>1, MovedFacts
  <2> QED BY <1>1, <1>2, <2>1, <2>2, AttemptGoesOn
<1>4. CASE ToClose(d, s, d \in cancelled)
  <2>1. (d \in cancelled) \in BOOLEAN
    OBVIOUS
  <2>2. \E r \in Supervisor : r.pc \in Attempted /\ super' = [super EXCEPT ![d][s] = r]
    BY <1>4, <2>1, Closing DEF ToClose
  <2> QED BY <1>1, <1>2, <2>2, AttemptGoesOn
<1> QED BY <1>3, <1>4 DEF Handshake

LEMMA ServeEndsStep ==
  ASSUME ProjectAssumption, ProjectInductive, NEW d \in Drivers, NEW s \in Servers, ServeEnds(d, s)
  PROVE  ProjectInductive'
<1> USE DEF ProjectInductive
<1>1. /\ driver[d] = "running" /\ UNCHANGED <<results, leftover>> /\ UNCHANGED child
      /\ UNCHANGED host
  BY DEF ServeEnds, At
<1>2. PICK stops \in BOOLEAN : ToClose(d, s, stops)
  BY DEF ServeEnds
<1>3. \E r \in Supervisor : r.pc \in Attempted /\ super' = [super EXCEPT ![d][s] = r]
  BY <1>2, Closing DEF ToClose
<1> QED BY <1>1, <1>3, SameQueues, AttemptGoesOn

LEMMA RecordStartedStep ==
  ASSUME ProjectAssumption, ProjectInductive, NEW d \in Drivers, NEW s \in Servers, RecordStarted(d, s)
  PROVE  ProjectInductive'
<1> USE DEF ProjectInductive
<1> DEFINE e == Event(s, "started", super[d][s].generation)
<1>1. /\ driver[d] = "running" /\ Record(d, e) /\ To(d, s, "serve")
      /\ UNCHANGED child /\ UNCHANGED leftover /\ UNCHANGED host
  BY DEF RecordStarted, At
<1>2. e \in [server : Servers, kind : Kinds, generation : Generations]
  <2>1. "started" \in Kinds /\ super[d][s].generation \in Generations
    BY ProjectTypeFacts DEF Kinds
  <2> QED BY <2>1, ProjectEventFacts
<1> HIDE DEF e
<1>3. QueuesStay
  BY <1>1, <1>2, ProjectRecorded DEF QueuesStay, TypeOK
<1>4. "serve" \in Points /\ "serve" \in Attempted
  BY DEF Points, Attempted
<1>5. super' = [super EXCEPT ![d][s] = Moved(d, s, "serve")]
  BY <1>1 DEF To, Moved
<1>6. Moved(d, s, "serve") \in Supervisor /\ Moved(d, s, "serve").pc \in Attempted
  BY <1>4, MovedFacts
<1> QED BY <1>1, <1>3, <1>5, <1>6, AttemptGoesOn

\* A step after which no process of the attempt runs.
LEMMA AttemptIsOver ==
  ASSUME ProjectAssumption, ProjectInductive, NEW d \in Drivers, NEW s \in Servers, NEW c \in Child,
         c # "running", child' = [child EXCEPT ![d][s] = c],
         NEW r \in Supervisor, r.pc = "record restarted" => r.generation < RestartsMax,
         super' = [super EXCEPT ![d][s] = r], QueuesStay, UNCHANGED host
  PROVE  ProjectInductive'
BY SupervisorKeeps DEF SupervisorStep

LEMMA AfterCloseFacts ==
  ASSUME NEW d, NEW s
  PROVE  AfterClose(d, s) \in Points /\ AfterClose(d, s) # "record restarted"
BY DEF AfterClose, Points

LEMMA ClosedFacts ==
  ASSUME ProjectAssumption, TypeOK, NEW d \in Drivers, NEW s \in Servers,
         super' = [super EXCEPT ![d][s].pc = AfterClose(d, s)]
  PROVE  \E r \in Supervisor :
           r.pc # "record restarted" /\ super' = [super EXCEPT ![d][s] = r]
<1> DEFINE pc == AfterClose(d, s)
<1>1. pc \in Points /\ pc # "record restarted"
  BY AfterCloseFacts
<1>2. super' = [super EXCEPT ![d][s].pc = pc]
  OBVIOUS
<1> HIDE DEF pc
<1>3. /\ Moved(d, s, pc) \in Supervisor /\ Moved(d, s, pc).pc = pc
      /\ super' = [super EXCEPT ![d][s] = Moved(d, s, pc)]
  <2>1. super' = [super EXCEPT ![d][s] = Moved(d, s, pc)]
    BY <1>2 DEF Moved
  <2> QED BY <1>1, <2>1, MovedFacts
<1> QED BY <1>1, <1>3

LEMMA CloseSteps ==
  ASSUME ProjectAssumption, ProjectInductive, NEW d \in Drivers, NEW s \in Servers,
         Graceful(d, s) \/ ForceStop(d, s) \/ Reaped(d, s) \/ ReapTimesOut(d, s)
  PROVE  ProjectInductive'
<1> USE DEF ProjectInductive
<1>1. UNCHANGED host
  BY DEF Graceful, ForceStop, Reaped, ReapTimesOut
<1>2. CASE Graceful(d, s) \/ Reaped(d, s)
  <2>1. /\ child' = [child EXCEPT ![d][s] = "none"] /\ To(d, s, AfterClose(d, s))
        /\ UNCHANGED <<results, leftover>>
    BY <1>2 DEF Graceful, Reaped
  <2>2. "none" \in Child /\ QueuesStay
    BY <2>1, SameQueues DEF Child
  <2>3. PICK r \in Supervisor :
          r.pc # "record restarted" /\ super' = [super EXCEPT ![d][s] = r]
    BY <2>1, ClosedFacts DEF To
  <2> QED BY <1>1, <2>1, <2>2, <2>3, AttemptIsOver
<1>3. CASE ForceStop(d, s)
  <2>1. /\ child' = [child EXCEPT ![d][s] = Kill(child[d][s])] /\ To(d, s, "reap")
        /\ UNCHANGED <<results, leftover>>
    BY <1>3 DEF ForceStop
  <2>2. Kill(child[d][s]) \in Child /\ Kill(child[d][s]) # "running"
    BY ProjectTypeFacts DEF Kill, Child
  <2>3. "reap" \in Points /\ QueuesStay
    BY <2>1, SameQueues DEF Points
  <2>4. /\ Moved(d, s, "reap") \in Supervisor /\ Moved(d, s, "reap").pc = "reap"
        /\ super' = [super EXCEPT ![d][s] = Moved(d, s, "reap")]
    <3>1. super' = [super EXCEPT ![d][s] = Moved(d, s, "reap")]
      BY <2>1 DEF To, Moved
    <3> QED BY <2>3, <3>1, MovedFacts
  <2> QED BY <1>1, <2>1, <2>2, <2>3, <2>4, AttemptIsOver
<1>4. CASE ReapTimesOut(d, s)
  <2> DEFINE e == Event(s, "cleanup", super[d][s].generation)
  <2>1. /\ child' = [child EXCEPT ![d][s] = "none"] /\ To(d, s, AfterClose(d, s))
        /\ Report(d, e) /\ leftover' = [leftover EXCEPT ![d] = leftover[d] + 1]
    BY <1>4 DEF ReapTimesOut
  <2>2. e \in [server : Servers, kind : Kinds, generation : Generations]
    <3>1. "cleanup" \in Kinds /\ super[d][s].generation \in Generations
      BY ProjectTypeFacts DEF Kinds
    <3> QED BY <3>1, ProjectEventFacts
  <2> HIDE DEF e
  <2>3. leftover' \in [Drivers -> Nat]
    BY <2>1 DEF TypeOK
  <2>4. "none" \in Child /\ QueuesStay
    BY <2>1, <2>2, <2>3, ProjectRecorded DEF Child, QueuesStay
  <2>5. PICK r \in Supervisor :
          r.pc # "record restarted" /\ super' = [super EXCEPT ![d][s] = r]
    BY <2>1, ClosedFacts DEF To
  <2> QED BY <1>1, <2>1, <2>4, <2>5, AttemptIsOver
<1> QED BY <1>2, <1>3, <1>4

\* The records after the end of an attempt: its process runs no more.
LEMMA RecordSteps ==
  ASSUME ProjectAssumption, ProjectInductive, NEW d \in Drivers, NEW s \in Servers,
         RecordFailed(d, s) \/ RecordRestarted(d, s) \/ RecordEnd(d, s)
  PROVE  ProjectInductive'
<1> USE DEF ProjectInductive
<1> DEFINE generation == super[d][s].generation
<1>1. /\ driver[d] = "running" /\ super[d][s].pc \notin Attempted
      /\ UNCHANGED child /\ UNCHANGED leftover /\ UNCHANGED host
  BY DEF RecordFailed, RecordRestarted, RecordEnd, At, Attempted
<1>2. /\ child[d][s] \in Child /\ child[d][s] # "running"
      /\ child' = [child EXCEPT ![d][s] = child[d][s]]
  BY <1>1, ProjectTypeFacts, SameChild DEF ChildrenAreOwned, Attempted
<1>3. generation \in Generations /\ generation \in Nat /\ generation <= RestartsMax
  BY ProjectTypeFacts, Limits DEF Generations
<1>4. ASSUME NEW kind \in Kinds, NEW n \in Generations, Record(d, Event(s, kind, n))
      PROVE  QueuesStay
  BY <1>1, <1>4, ProjectEventFacts, ProjectRecorded DEF QueuesStay, TypeOK
<1>5. CASE RecordFailed(d, s)
  <2>1. "failed" \in Kinds /\ QueuesStay
    <3>1. "failed" \in Kinds
      BY DEF Kinds
    <3> QED BY <1>3, <1>4, <1>5, <3>1 DEF RecordFailed
  <2>2. PICK pc \in {"record stopped", "record restarted"} :
          /\ To(d, s, pc) /\ (pc = "record restarted" => ~(generation >= RestartsMax))
    BY <1>5 DEF RecordFailed
  <2>3. pc \in Points
    BY DEF Points
  <2>4. /\ Moved(d, s, pc) \in Supervisor /\ Moved(d, s, pc).pc = pc
        /\ Moved(d, s, pc).generation = generation
        /\ super' = [super EXCEPT ![d][s] = Moved(d, s, pc)]
    <3>1. super' = [super EXCEPT ![d][s] = Moved(d, s, pc)]
      BY <2>2 DEF To, Moved
    <3> QED BY <2>3, <3>1, MovedFacts
  <2>5. pc = "record restarted" => generation < RestartsMax
    <3>1. generation \in Nat /\ RestartsMax \in Nat
      BY <1>3, Limits
    <3> QED BY <2>2, <3>1, Below
  <2> HIDE DEF generation
  <2> QED BY <1>1, <1>2, <2>1, <2>4, <2>5, AttemptIsOver
<1>6. CASE RecordRestarted(d, s)
  <2> DEFINE r == Begun(generation + 1)
  <2>1. /\ super[d][s].pc = "record restarted" /\ super' = [super EXCEPT ![d][s] = r]
        /\ Record(d, Event(s, "restarted", generation + 1))
    BY <1>6 DEF RecordRestarted, At
  <2>2. generation + 1 \in Generations
    <3>1. generation < RestartsMax
      BY <2>1 DEF RestartsLeft
    <3> QED BY <1>3, <3>1, Limits DEF Generations
  <2>3. r \in Supervisor /\ r.pc # "record restarted"
    BY <2>2, BegunFacts
  <2>4. "restarted" \in Kinds
    BY DEF Kinds
  <2>5. QueuesStay
    BY <1>4, <2>1, <2>2, <2>4
  <2> QED BY <1>1, <1>2, <2>1, <2>3, <2>5, AttemptIsOver
<1>7. CASE RecordEnd(d, s)
  <2>1. super' = [super EXCEPT ![d][s] = Ended]
        /\ \E kind \in {"stopped", "unavailable"} : Record(d, Event(s, kind, generation))
    BY <1>7 DEF RecordEnd
  <2>2. Ended \in Supervisor /\ Ended.pc # "record restarted"
    BY Limits DEF Ended, Supervisor, Points, Generations
  <2>3. "stopped" \in Kinds /\ "unavailable" \in Kinds
    BY DEF Kinds
  <2>4. QueuesStay
    BY <1>3, <1>4, <2>1, <2>3
  <2> QED BY <1>1, <1>2, <2>1, <2>2, <2>4, AttemptIsOver
<1> QED BY <1>5, <1>6, <1>7

LEMMA ChildExitsStep ==
  ASSUME ProjectAssumption, ProjectInductive, NEW d \in Drivers, NEW s \in Servers, ChildExits(d, s)
  PROVE  ProjectInductive'
<1> USE DEF ProjectInductive
<1>1. /\ child' = [child EXCEPT ![d][s] = "gone"] /\ UNCHANGED super
      /\ UNCHANGED <<results, leftover>> /\ UNCHANGED host
  BY DEF ChildExits
<1>2. "gone" \in Child /\ QueuesStay
  BY <1>1, SameQueues DEF Child
<1>3. super[d][s] \in Supervisor /\ super' = [super EXCEPT ![d][s] = super[d][s]]
  BY <1>1, ProjectTypeFacts DEF TypeOK
<1>4. super[d][s].pc = "record restarted" => super[d][s].generation < RestartsMax
  BY DEF RestartsLeft
<1> QED BY <1>1, <1>2, <1>3, <1>4, AttemptIsOver

-----------------------------------------------------------------------------
(* The theorems. *)

LEMMA InitInv ==
  ASSUME ProjectAssumption, Init
  PROVE  ProjectInductive
<1>1. TypeOK
  <2>1. manager \in [open : SUBSET Projects, processes : 0 .. ProcessesMax]
    BY Limits DEF Init
  <2>2. Ended \in Supervisor
    BY Limits DEF Ended, Supervisor, Points, Generations
  <2>3. results \in [Drivers -> Queue] /\ \A d \in Drivers : Len(results[d]) <= QueueMax
    BY Limits DEF Init, Queue
  <2> QED BY <2>1, <2>2, <2>3 DEF Init, TypeOK, States, Futures, Child
<1>2. Held = {}
  BY DEF Init, Held
<1>3. BudgetIsHeld
  <2>1. Cardinality({}) = 0
    BY FS_EmptySet
  <2> QED BY <1>2, <2>1, Limits, BudgetFacts DEF Init
<1>4. OneEach
  BY <1>2 DEF OneEach
<1>5. ChildrenAreOwned /\ RestartsLeft /\ Unopened
  BY DEF Init, ChildrenAreOwned, RestartsLeft, Unopened, Ended
<1> QED BY <1>1, <1>3, <1>4, <1>5 DEF ProjectInductive

LEMMA StepInv ==
  ASSUME ProjectAssumption, ProjectInductive, [Next]_vars
  PROVE  ProjectInductive'
<1>1. ASSUME NEW d \in Drivers, NEW s \in Servers, Supervise(d, s)
      PROVE  ProjectInductive'
  BY <1>1, AttemptStep, HandshakeStep, RecordStartedStep, CloseSteps, RecordSteps DEF Supervise
<1>2. CASE UNCHANGED vars
  <2>1. UNCHANGED <<manager, handle, cancelled, driver, results, super, child, leftover>>
    BY <1>2 DEF vars
  <2>2. TypeOK'
    BY <2>1 DEF ProjectInductive, TypeOK
  <2> QED BY <2>1, <2>2, HandleStep DEF ProjectInductive, Unopened
<1>3. CASE Next
  BY <1>1, <1>3, HostStep, ServeEndsStep, ChildExitsStep DEF Next
<1> QED BY <1>2, <1>3

\* The inductive invariant holds of every behaviour.
THEOREM ProjectInvariance == ASSUME ProjectAssumption PROVE Spec => []ProjectInductive
<1>1. Init => ProjectInductive
  BY InitInv
<1>2. ProjectInductive /\ [Next]_vars => ProjectInductive'
  BY StepInv
<1> QED BY <1>1, <1>2, PTL DEF Spec

\* Every variable keeps its type: the result queue of an opening never grows
\* past LSP_EVENT_QUEUE_CAPACITY, no server restarts more often than
\* LSP_RESTARTS_MAX, and no lease takes more processes from the budget than it
\* put there (project.rs: reserve, ProjectLease::drop, record, report).
THEOREM ProjectTypeCorrect == ASSUME ProjectAssumption PROVE Spec => []TypeOK
<1>1. ProjectInductive => TypeOK
  BY DEF ProjectInductive
<1> QED BY <1>1, ProjectInvariance, PTL

\* The manager reserves exactly what the handles that still exist reserved:
\* a refused project reserves nothing, and a lease returns its part once.
THEOREM BudgetHeld == ASSUME ProjectAssumption PROVE Spec => []BudgetIsHeld
<1>1. ProjectInductive => BudgetIsHeld
  BY DEF ProjectInductive
<1> QED BY <1>1, ProjectInvariance, PTL

\* Every process that nobody asked to end belongs to an attempt of a running
\* driver, whether the driver ended, was dropped, or lost its handle.
THEOREM ChildrenOwned == ASSUME ProjectAssumption PROVE Spec => []ChildrenAreOwned
<1>1. ProjectInductive => ChildrenAreOwned
  BY DEF ProjectInductive
<1> QED BY <1>1, ProjectInvariance, PTL

\* The invariant that the run MCServices checks.
THEOREM ProjectCorrect == ASSUME ProjectAssumption PROVE Spec => []ProjectInvariant
<1>1. ProjectInductive => ProjectInvariant
  BY DEF ProjectInductive, ProjectInvariant
<1> QED BY <1>1, ProjectInvariance, PTL

=============================================================================
