--------------------------- MODULE FileLaneProofs ---------------------------
(***************************************************************************)
(* Proofs about FileLane for every outbox, every set of buffers, with      *)
(* refusals or without.                                                    *)
(***************************************************************************)
EXTENDS FileLane, WellFoundedInduction, FiniteSetTheorems, TLAPS

-----------------------------------------------------------------------------
(* What the operators on the session promise. *)

Runs == {None} \cup [kind : {"run"}, left : SUBSET Buffers]

Sessions ==
  [pending : Requests \cup {None}, outbox : Requests \cup {None}, slot : BOOLEAN,
   mutation : BOOLEAN, run : Runs, due : BOOLEAN, reserved : 0 .. Slots, queued : 0 .. Slots]

\* The outbox has room for every reservation, and every holder has one.
Balanced(s) ==
  /\ s \in Sessions
  /\ s.reserved + s.queued <= Slots
  /\ s.reserved >= One(s.slot) + One(s.mutation)

\* No reservation is without its holder.
Exact(s) == s.reserved = One(s.slot) + One(s.mutation)

\* The request that the session waits for is still in the outbox, and a slot is
\* held exactly for a save.
Fresh(s) == s.outbox = s.pending /\ (s.slot <=> s.pending.kind = "save")

\* The session waits for nothing.
Unused(s) == s.pending = None /\ s.outbox = None /\ s.slot = FALSE

LEMMA RequestFacts ==
  /\ None \notin Requests /\ Read \in Requests /\ Read.kind = "read" /\ None.kind = "none"
  /\ \A b \in Buffers : Save(b) \in Requests /\ Save(b).kind = "save" /\ Save(b) # None
  /\ \A r \in Requests : r # Read => r.kind = "save"
  /\ Read # None
<1>1. Read.kind = "read" /\ None.kind = "none" /\ \A b : Save(b).kind = "save"
  BY DEF Read, None, Save
<1>2. \A r \in Requests : r = Read \/ \E b \in Buffers : r = Save(b)
  BY DEF Requests
<1>3. Read \in Requests /\ \A b \in Buffers : Save(b) \in Requests
  BY DEF Requests
<1> QED
  BY <1>1, <1>2, <1>3

LEMMA RunFacts ==
  /\ None \in Runs
  /\ \A left \in SUBSET Buffers : Run(left) \in Runs /\ Run(left) # None
  /\ \A r \in Runs : r # None => r.left \in SUBSET Buffers
BY DEF Runs, Run, None

\* A set of buffers has a least one: among the finite sets of what is not above
\* an element, one contains no other.
LEMMA MinIsMember ==
  ASSUME NEW S, S \subseteq Buffers, S # {}
  PROVE  Min(S) \in S
<1> DEFINE upTo(x) == {y \in S : y <= x}
           family == {upTo(x) : x \in S}
<1>1. S \subseteq Nat /\ IsFiniteSet(S)
  BY FileAssumption, FS_Subset
<1>2. IsWellFoundedOn(StrictSubsetOrdering(S), FiniteSubsetsOf(S))
  BY FS_StrictSubsetOrderingWellFounded
<1>3. family \subseteq FiniteSubsetsOf(S) /\ family # {}
  <2>1. \A x \in S : upTo(x) \subseteq S /\ IsFiniteSet(upTo(x))
    BY <1>1, FS_Subset
  <2> QED
    BY <2>1 DEF FiniteSubsetsOf
<1>4. PICK A \in family : \A B \in family : ~(<<B, A>> \in StrictSubsetOrdering(S))
  BY <1>2, <1>3, WFMin
<1>5. PICK x \in S : A = upTo(x)
  BY <1>4
<1>6. ASSUME NEW y \in S, y < x PROVE FALSE
  <2>1. upTo(y) \subseteq A /\ upTo(y) # A /\ upTo(y) \in family
    BY <1>1, <1>5, <1>6
  <2>2. <<upTo(y), A>> \in StrictSubsetOrdering(S)
    BY <2>1, <1>5 DEF StrictSubsetOrdering
  <2> QED
    BY <1>4, <2>1, <2>2
<1>7. \A y \in S : x <= y
  BY <1>1, <1>6
<1> QED
  BY <1>7 DEF Min

LEMMA ReleaseFacts ==
  ASSUME NEW s, Balanced(s)
  PROVE  /\ Balanced(Release(s))
         /\ Release(s).slot = FALSE
         /\ Release(s).queued = s.queued /\ Release(s).mutation = s.mutation
         /\ Release(s).pending = s.pending /\ Release(s).outbox = s.outbox
         /\ Release(s).run = s.run /\ Release(s).due = s.due
         /\ Exact(s) => Exact(Release(s))
<1>1. CASE s.slot
  <2> DEFINE t == [s EXCEPT !.slot = FALSE, !.reserved = @ - 1]
  <2>1. s.reserved \in Int /\ s.queued \in Int /\ One(s.mutation) \in {0, 1} /\ One(s.slot) = 1
    BY <1>1, FileAssumption DEF Balanced, Sessions, One
  <2>2. s.reserved >= 1 /\ s.reserved - 1 \in 0 .. Slots
    BY <2>1, FileAssumption DEF Balanced, Sessions
  <2>3. /\ t \in Sessions /\ t.slot = FALSE /\ t.reserved = s.reserved - 1
        /\ t.queued = s.queued /\ t.mutation = s.mutation
        /\ t.pending = s.pending /\ t.outbox = s.outbox /\ t.run = s.run /\ t.due = s.due
    BY <2>2 DEF Balanced, Sessions
  <2>4. Release(s) = t
    BY <1>1 DEF Release
  <2> HIDE DEF t
  <2> QED
    BY <1>1, <2>1, <2>2, <2>3, <2>4, FileAssumption DEF Balanced, One, Exact
<1>2. CASE ~s.slot
  BY <1>2, FileAssumption DEF Balanced, Sessions, Release, One, Exact
<1> QED
  BY <1>1, <1>2

LEMMA PublishFacts ==
  ASSUME NEW s, Balanced(s)
  PROVE  /\ Balanced(Publish(s))
         /\ Publish(s).slot = FALSE
         /\ Publish(s).queued = s.queued + One(s.slot) /\ Publish(s).mutation = s.mutation
         /\ Publish(s).pending = s.pending /\ Publish(s).outbox = s.outbox
         /\ Publish(s).run = s.run /\ Publish(s).due = s.due
         /\ Exact(s) => Exact(Publish(s))
<1>1. CASE s.slot
  <2> DEFINE t == [s EXCEPT !.slot = FALSE, !.reserved = @ - 1, !.queued = @ + 1]
  <2>1. s.reserved \in Int /\ s.queued \in Int /\ One(s.mutation) \in {0, 1} /\ One(s.slot) = 1
    BY <1>1, FileAssumption DEF Balanced, Sessions, One
  <2>2. s.reserved >= 1 /\ s.reserved - 1 \in 0 .. Slots /\ s.queued + 1 \in 0 .. Slots
    BY <2>1, FileAssumption DEF Balanced, Sessions
  <2>3. /\ t \in Sessions /\ t.slot = FALSE /\ t.reserved = s.reserved - 1
        /\ t.queued = s.queued + 1 /\ t.mutation = s.mutation
        /\ t.pending = s.pending /\ t.outbox = s.outbox /\ t.run = s.run /\ t.due = s.due
    BY <2>2 DEF Balanced, Sessions
  <2>4. Publish(s) = t
    BY <1>1 DEF Publish
  <2> HIDE DEF t
  <2> QED
    BY <1>1, <2>1, <2>2, <2>3, <2>4, FileAssumption DEF Balanced, One, Exact
<1>2. CASE ~s.slot
  BY <1>2, FileAssumption DEF Balanced, Sessions, Publish, One, Exact
<1> QED
  BY <1>1, <1>2

LEMMA RunChangeFacts ==
  ASSUME NEW s, Balanced(s), NEW r \in Runs
  PROVE  LET t == [s EXCEPT !.run = r] IN
         /\ Balanced(t)
         /\ t.slot = s.slot /\ t.queued = s.queued /\ t.mutation = s.mutation
         /\ t.pending = s.pending /\ t.outbox = s.outbox /\ t.run = r /\ t.due = s.due
         /\ t.reserved = s.reserved
         /\ Exact(s) => Exact(t)
BY DEF Balanced, Sessions, Exact

LEMMA DueFacts ==
  ASSUME NEW s, Balanced(s), NEW d \in BOOLEAN
  PROVE  LET t == [s EXCEPT !.due = d] IN
         /\ Balanced(t)
         /\ t.slot = s.slot /\ t.queued = s.queued /\ t.mutation = s.mutation
         /\ t.pending = s.pending /\ t.outbox = s.outbox /\ t.run = s.run /\ t.due = d
         /\ t.reserved = s.reserved
         /\ Exact(s) => Exact(t)
BY DEF Balanced, Sessions, Exact

\* A save that is accepted holds a slot of its own; unless an older result left
\* one held, that is the only one.
LEMMA BeginSaveFacts ==
  ASSUME NEW s, Balanced(s), NEW b \in Buffers
  PROVE  /\ Balanced(BeginSave(s, b))
         /\ BeginSave(s, b).queued = s.queued /\ BeginSave(s, b).mutation = s.mutation
         /\ s.pending # None => BeginSave(s, b) = s
         /\ Unused(s) => Fresh(BeginSave(s, b))
         /\ Unused(s) /\ Exact(s) => Exact(BeginSave(s, b))
<1>1. CASE s.pending # None \/ Free(s) = 0
  BY <1>1, RequestFacts DEF BeginSave, Unused, Fresh
<1>2. CASE ~(s.pending # None \/ Free(s) = 0)
  <2> DEFINE t == [s EXCEPT !.pending = Save(b), !.outbox = Save(b), !.slot = TRUE,
                            !.reserved = @ + 1]
  <2>1. BeginSave(s, b) = t
    BY <1>2 DEF BeginSave, Queue, Balanced, Sessions
  <2>2. s.reserved + 1 + s.queued <= Slots /\ s.reserved + 1 \in 0 .. Slots
    BY <1>2, FileAssumption DEF Free, Balanced, Sessions
  <2>3. /\ t \in Sessions /\ t.pending = Save(b) /\ t.outbox = Save(b) /\ t.slot = TRUE
        /\ t.queued = s.queued /\ t.mutation = s.mutation /\ t.reserved = s.reserved + 1
    BY <2>2, RequestFacts DEF Balanced, Sessions
  <2>4. Balanced(t)
    BY <2>2, <2>3, FileAssumption DEF Balanced, One, Sessions
  <2>5. Unused(s) /\ Exact(s) => Exact(t)
    BY <2>3 DEF Unused, Exact, One, Balanced, Sessions
  <2> HIDE DEF t
  <2> QED
    BY <1>2, <2>1, <2>3, <2>4, <2>5, RequestFacts DEF Fresh
<1> QED
  BY <1>1, <1>2

\* What a step of a run of saves promises.
LEMMA AdvanceFacts ==
  ASSUME NEW s, Balanced(s), s.pending = None
  PROVE  /\ Balanced(Advance(s))
         /\ Advance(s).queued = s.queued /\ Advance(s).mutation = s.mutation
         /\ Unused(s) => Fresh(Advance(s))
         /\ Unused(s) /\ Exact(s) => Exact(Advance(s))
<1>0. s.run \in Runs
  BY DEF Balanced, Sessions
<1> DEFINE t == [s EXCEPT !.run = None]
<1>1. /\ Balanced(t) /\ t.queued = s.queued /\ t.mutation = s.mutation
      /\ Unused(s) => Unused(t)
      /\ Exact(s) => Exact(t)
  BY RunChangeFacts, RunFacts DEF Unused
<1>2. CASE s.run = None \/ s.run.left = {}
  <2>1. Unused(t) => Fresh(t)
    BY RequestFacts DEF Unused, Fresh
  <2> QED
    BY <1>1, <1>2, <2>1 DEF Advance
<1>3. CASE ~(s.run = None \/ s.run.left = {})
  <2> DEFINE b == Min(s.run.left)
             left == s.run.left \ {b}
             next == BeginSave(t, b)
  <2>1. s.run.left \in SUBSET Buffers /\ b \in Buffers
    BY <1>0, <1>3, RunFacts, MinIsMember
  <2>2. left \in SUBSET Buffers
    BY <2>1
  <2>3. Advance(s) = IF next.pending = None THEN next ELSE [next EXCEPT !.run = Run(left)]
    BY <1>3 DEF Advance, BeginRun
  <2> HIDE DEF t, b
  <2>4. /\ Balanced(next) /\ next.queued = s.queued /\ next.mutation = s.mutation
        /\ Unused(s) => Fresh(next)
        /\ Unused(s) /\ Exact(s) => Exact(next)
    BY <1>1, <2>1, BeginSaveFacts
  <2> HIDE DEF next, left
  <2>5. CASE next.pending = None
    BY <2>3, <2>4, <2>5
  <2>6. CASE next.pending # None
    <3> DEFINE u == [next EXCEPT !.run = Run(left)]
    <3>1. /\ Balanced(u) /\ u.queued = next.queued /\ u.mutation = next.mutation
          /\ u.pending = next.pending /\ u.outbox = next.outbox /\ u.slot = next.slot
          /\ Exact(next) => Exact(u)
      BY <2>2, <2>4, RunFacts, RunChangeFacts
    <3> QED
      BY <2>3, <2>4, <2>6, <3>1 DEF Fresh
  <2> QED
    BY <2>5, <2>6
<1> QED
  BY <1>2, <1>3

LEMMA CheckFacts ==
  ASSUME NEW s, Balanced(s)
  PROVE  /\ Balanced(Check(s))
         /\ Check(s).queued = s.queued /\ Check(s).mutation = s.mutation
         /\ Check(s).slot = s.slot
         /\ s.pending # None =>
              Check(s).pending = s.pending /\ Check(s).outbox = s.outbox
         /\ Fresh(s) => Fresh(Check(s))
         /\ Exact(s) => Exact(Check(s))
<1>1. CASE s.pending # None
  <2> DEFINE t == [s EXCEPT !.due = TRUE]
  <2>1. Check(s) = t
    BY <1>1 DEF Check
  <2>2. /\ Balanced(t) /\ t.slot = s.slot /\ t.queued = s.queued /\ t.mutation = s.mutation
        /\ t.pending = s.pending /\ t.outbox = s.outbox
        /\ Exact(s) => Exact(t)
    BY DueFacts
  <2> HIDE DEF t
  <2> QED
    BY <2>1, <2>2 DEF Fresh
<1>2. CASE s.pending = None
  <2> DEFINE q == [s EXCEPT !.pending = Read, !.outbox = Read]
             t == [q EXCEPT !.due = FALSE]
  <2>1. Check(s) = t
    BY <1>2 DEF Check, Queue
  <2>2. /\ Balanced(q) /\ q.slot = s.slot /\ q.queued = s.queued /\ q.mutation = s.mutation
        /\ q.pending = Read /\ q.outbox = Read
        /\ Exact(s) => Exact(q)
    <3>1. Read \in Requests \cup {None}
      BY RequestFacts
    <3> QED
      BY <3>1 DEF Balanced, Sessions, Exact
  <2> HIDE DEF q
  <2>3. /\ Balanced(t) /\ t.slot = q.slot /\ t.queued = q.queued /\ t.mutation = q.mutation
        /\ t.pending = q.pending /\ t.outbox = q.outbox
        /\ Exact(q) => Exact(t)
    BY <2>2, DueFacts
  <2> HIDE DEF t
  <2> QED
    BY <1>2, <2>1, <2>2, <2>3, RequestFacts DEF Fresh
<1> QED
  BY <1>1, <1>2

LEMMA FollowUpFacts ==
  ASSUME NEW s, Balanced(s)
  PROVE  /\ Balanced(FollowUp(s))
         /\ FollowUp(s).queued = s.queued /\ FollowUp(s).mutation = s.mutation
         /\ FollowUp(s).slot = s.slot
         /\ s.pending # None =>
              FollowUp(s).pending = s.pending /\ FollowUp(s).outbox = s.outbox
         /\ Fresh(s) => Fresh(FollowUp(s))
         /\ Exact(s) => Exact(FollowUp(s))
BY CheckFacts DEF FollowUp

\* A request without a result leaves no reservation and no request behind it.
LEMMA AbandonedFacts ==
  ASSUME NEW s, Balanced(s)
  PROVE  /\ Balanced(Abandoned(s))
         /\ Abandoned(s).queued = s.queued /\ Abandoned(s).mutation = s.mutation
         /\ Fresh(Abandoned(s))
         /\ Exact(s) => Exact(Abandoned(s))
<1> DEFINE r == Release(s)
           t == [r EXCEPT !.pending = None, !.outbox = None]
<1>1. /\ Balanced(r) /\ r.slot = FALSE /\ r.queued = s.queued /\ r.mutation = s.mutation
      /\ Exact(s) => Exact(r)
  BY ReleaseFacts
<1> HIDE DEF r
<1>2. /\ Balanced(t) /\ t.slot = FALSE /\ t.queued = s.queued /\ t.mutation = s.mutation
      /\ t.pending = None /\ t.outbox = None
      /\ Exact(s) => Exact(t)
  BY <1>1 DEF Balanced, Sessions, Exact
<1>3. Fresh(t)
  BY <1>2, RequestFacts DEF Fresh
<1>4. Abandoned(s) = FollowUp(t)
  BY DEF Abandoned, r
<1> HIDE DEF t
<1> QED
  BY <1>2, <1>3, <1>4, FollowUpFacts

\* A result publishes one fact for a durable change, and the next request starts
\* with the outbox in order.
LEMMA AppliedFacts ==
  ASSUME NEW s, Balanced(s), NEW outcome \in {"done", "written", "unchanged", "uncertain"}
  PROVE  /\ Balanced(Applied(s, outcome))
         /\ Applied(s, outcome).mutation = s.mutation
         /\ Applied(s, outcome).queued =
              s.queued + One(s.slot /\ outcome \in {"written", "uncertain"})
         /\ s.outbox = None /\ (s.slot <=> outcome # "done") => Fresh(Applied(s, outcome))
         /\ s.outbox = None /\ (s.slot <=> outcome # "done") /\ Exact(s)
              => Exact(Applied(s, outcome))
<1> DEFINE free == [s EXCEPT !.pending = None]
<1>1. /\ Balanced(free) /\ free.slot = s.slot /\ free.queued = s.queued
      /\ free.mutation = s.mutation /\ free.pending = None /\ free.outbox = s.outbox
      /\ Exact(s) => Exact(free)
  BY DEF Balanced, Sessions, Exact
<1>2. s.queued \in Int /\ s.slot \in BOOLEAN
  BY DEF Balanced, Sessions
<1>3. CASE outcome = "done"
  <2>1. Applied(s, outcome) = FollowUp(free)
    BY <1>3 DEF Applied
  <2> HIDE DEF free
  <2>2. s.outbox = None /\ ~s.slot => Fresh(free)
    BY <1>1, RequestFacts DEF Fresh
  <2> QED
    BY <1>1, <1>2, <1>3, <2>1, <2>2, FollowUpFacts DEF One
<1>4. CASE outcome = "written"
  <2> DEFINE p == Publish(free)
             a == Advance(p)
  <2>1. Applied(s, outcome) = FollowUp(a)
    BY <1>4 DEF Applied
  <2> HIDE DEF free
  <2>2. /\ Balanced(p) /\ p.slot = FALSE /\ p.queued = s.queued + One(s.slot)
        /\ p.mutation = s.mutation /\ p.pending = None /\ p.outbox = s.outbox
        /\ Exact(s) => Exact(p)
    BY <1>1, PublishFacts
  <2> HIDE DEF p
  <2>3. s.outbox = None => Unused(p)
    BY <2>2 DEF Unused
  <2>4. /\ Balanced(a) /\ a.queued = p.queued /\ a.mutation = p.mutation
        /\ Unused(p) => Fresh(a)
        /\ Unused(p) /\ Exact(p) => Exact(a)
    BY <2>2, AdvanceFacts
  <2> HIDE DEF a
  <2> QED
    BY <1>2, <1>4, <2>1, <2>2, <2>3, <2>4, FollowUpFacts DEF One
<1>5. CASE outcome = "unchanged"
  <2> DEFINE r == Release(free)
             t == [r EXCEPT !.run = None]
  <2>1. Applied(s, outcome) = FollowUp(t)
    BY <1>5 DEF Applied
  <2> HIDE DEF free
  <2>2. /\ Balanced(r) /\ r.slot = FALSE /\ r.queued = s.queued
        /\ r.mutation = s.mutation /\ r.pending = None /\ r.outbox = s.outbox
        /\ Exact(s) => Exact(r)
    BY <1>1, ReleaseFacts
  <2> HIDE DEF r
  <2>3. /\ Balanced(t) /\ t.slot = FALSE /\ t.queued = s.queued
        /\ t.mutation = s.mutation /\ t.pending = None /\ t.outbox = s.outbox
        /\ Exact(s) => Exact(t)
    BY <2>2, RunChangeFacts, RunFacts
  <2> HIDE DEF t
  <2>4. s.outbox = None => Fresh(t)
    BY <2>3, RequestFacts DEF Fresh
  <2> QED
    BY <1>2, <1>5, <2>1, <2>3, <2>4, FollowUpFacts DEF One
<1>6. CASE outcome = "uncertain"
  <2> DEFINE p == Publish(free)
             q == [p EXCEPT !.run = None]
             t == [q EXCEPT !.due = TRUE]
  <2>1. Applied(s, outcome) = FollowUp(t)
    BY <1>6 DEF Applied
  <2> HIDE DEF free
  <2>2. /\ Balanced(p) /\ p.slot = FALSE /\ p.queued = s.queued + One(s.slot)
        /\ p.mutation = s.mutation /\ p.pending = None /\ p.outbox = s.outbox
        /\ Exact(s) => Exact(p)
    BY <1>1, PublishFacts
  <2> HIDE DEF p
  <2>3. /\ Balanced(q) /\ q.slot = FALSE /\ q.queued = p.queued
        /\ q.mutation = s.mutation /\ q.pending = None /\ q.outbox = s.outbox
        /\ Exact(p) => Exact(q)
    BY <2>2, RunChangeFacts, RunFacts
  <2> HIDE DEF q
  <2>4. /\ Balanced(t) /\ t.slot = FALSE /\ t.queued = q.queued
        /\ t.mutation = s.mutation /\ t.pending = None /\ t.outbox = s.outbox
        /\ Exact(q) => Exact(t)
    BY <2>3, DueFacts
  <2> HIDE DEF t
  <2>5. s.outbox = None => Fresh(t)
    BY <2>4, RequestFacts DEF Fresh
  <2> QED
    BY <1>2, <1>6, <2>1, <2>2, <2>3, <2>4, <2>5, FollowUpFacts DEF One
<1> QED
  BY <1>3, <1>4, <1>5, <1>6

LEMMA MutationFacts ==
  ASSUME NEW s, Balanced(s), s.mutation
  PROVE  /\ Balanced(ReleaseMutation(s)) /\ Balanced(PublishMutation(s))
         /\ \A t \in {ReleaseMutation(s), PublishMutation(s)} :
              /\ t.mutation = FALSE /\ t.slot = s.slot
              /\ t.pending = s.pending /\ t.outbox = s.outbox
              /\ Exact(s) => Exact(t)
         /\ ReleaseMutation(s).queued = s.queued
         /\ PublishMutation(s).queued = s.queued + 1
<1>1. s.reserved \in Int /\ s.queued \in Int /\ One(s.slot) \in {0, 1} /\ One(s.mutation) = 1
  BY FileAssumption DEF Balanced, Sessions, One
<1>2. s.reserved >= 1 /\ s.reserved - 1 \in 0 .. Slots /\ s.queued + 1 \in 0 .. Slots
  <2>1. s.reserved >= One(s.slot) + One(s.mutation) /\ s.reserved + s.queued <= Slots
        /\ s.queued >= 0 /\ s.reserved <= Slots
    BY FileAssumption DEF Balanced, Sessions, One
  <2>2. s.reserved >= 1
    BY <1>1, <2>1 DEF One
  <2> QED
    BY <1>1, <2>1, <2>2, FileAssumption
<1>3. /\ ReleaseMutation(s) \in Sessions /\ ReleaseMutation(s).reserved = s.reserved - 1
      /\ ReleaseMutation(s).mutation = FALSE /\ ReleaseMutation(s).slot = s.slot
      /\ ReleaseMutation(s).pending = s.pending /\ ReleaseMutation(s).outbox = s.outbox
      /\ ReleaseMutation(s).queued = s.queued
  BY <1>2 DEF ReleaseMutation, Balanced, Sessions
<1>4. /\ PublishMutation(s) \in Sessions /\ PublishMutation(s).reserved = s.reserved - 1
      /\ PublishMutation(s).mutation = FALSE /\ PublishMutation(s).slot = s.slot
      /\ PublishMutation(s).pending = s.pending /\ PublishMutation(s).outbox = s.outbox
      /\ PublishMutation(s).queued = s.queued + 1
  BY <1>2 DEF PublishMutation, Balanced, Sessions
<1>6. s.reserved >= One(s.slot) + One(s.mutation) /\ s.reserved + s.queued <= Slots
  BY DEF Balanced, One
<1>7. Balanced(ReleaseMutation(s)) /\ Balanced(PublishMutation(s))
  BY <1>1, <1>2, <1>3, <1>4, <1>6, FileAssumption DEF Balanced, One
<1>8. /\ Exact(s) => Exact(ReleaseMutation(s))
      /\ Exact(s) => Exact(PublishMutation(s))
  BY <1>1, <1>3, <1>4 DEF Exact, One
<1> QED
  BY <1>3, <1>4, <1>7, <1>8

-----------------------------------------------------------------------------
(* The inductive invariant. *)

\* A read ends without a durable change, a save never ends as a read does.
Matched(j) ==
  j # None => /\ j.at = "done" => j.request = Read
              /\ j.at \in {"written", "unchanged", "uncertain"} => j.request # Read

\* The durable changes of the newest file request and of the mutation that no
\* fact reports yet.
Changes == One(job # None /\ Effect(job.at) = 1) + One(Effect(tree) = 1)

OneOperation(s, j, d) ==
  /\ d = None
  /\ s.pending # None => \/ s.outbox = s.pending /\ j = None
                         \/ s.outbox = None /\ j # None /\ j.request = s.pending
  /\ s.pending = None => s.outbox = None /\ j = None
  /\ s.slot <=> s.pending.kind = "save"

Kept ==
  /\ Balanced(session)
  /\ session.mutation <=> tree # "idle"
  /\ active \in Buffers
  /\ formatting \in {None} \cup [kind : {"format"}, buffer : Buffers]
  /\ job \in Jobs /\ displaced \in Jobs
  /\ tree \in {"idle", "queued"} \cup States
  /\ phase \in {"running", "draining", "closed"}
  /\ unpublished \in 0 .. UnpublishedMax
  /\ struck \in BOOLEAN
  /\ Matched(job)
  /\ unpublished >= Changes

InStep ==
  ~struck => Exact(session) /\ OneOperation(session, job, displaced) /\ unpublished = Changes

LEMMA JobFacts ==
  /\ \A j \in Jobs : /\ j # None <=> j.kind = "job"
                     /\ j # None => /\ j.request \in Requests /\ j.at \in States
                                    /\ \A at \in States : /\ [j EXCEPT !.at = at] \in Jobs
                                                          /\ [j EXCEPT !.at = at].at = at
                                                          /\ [j EXCEPT !.at = at].request = j.request
                                                          /\ [j EXCEPT !.at = at] # None
  /\ \A r \in Requests : /\ [kind |-> "job", request |-> r, at |-> "accepted"] \in Jobs
                         /\ [kind |-> "job", request |-> r, at |-> "accepted"] # None
  /\ None \in Jobs
<1>1. \A j \in Jobs : j # None => j \in [kind : {"job"}, request : Requests, at : States]
  BY DEF Jobs
<1>2. \A j \in [kind : {"job"}, request : Requests, at : States] :
        j \in Jobs /\ j.kind = "job" /\ j # None
  BY DEF Jobs, None
<1>3. ASSUME NEW j \in [kind : {"job"}, request : Requests, at : States], NEW at \in States
      PROVE  /\ [j EXCEPT !.at = at] \in [kind : {"job"}, request : Requests, at : States]
             /\ [j EXCEPT !.at = at].at = at /\ [j EXCEPT !.at = at].request = j.request
  OBVIOUS
<1>4. None.kind = "none" /\ None \in Jobs /\ "accepted" \in States
  BY DEF None, Jobs, States
<1>5. \A r \in Requests : [kind |-> "job", request |-> r, at |-> "accepted"]
                            \in [kind : {"job"}, request : Requests, at : States]
  BY <1>4
<1> QED
  BY <1>1, <1>2, <1>3, <1>4, <1>5

LEMMA OutcomeFacts ==
  ASSUME NEW r \in Requests, NEW cancelled, NEW at \in Outcomes(r, cancelled)
  PROVE  /\ at \in States /\ at # "accepted"
         /\ at = "done" => r = Read
         /\ at \in {"written", "unchanged", "uncertain"} => r # Read
BY DEF Outcomes, States

\* A request that is still in the outbox is the one operation.
LEMMA FreshIsOne ==
  ASSUME NEW s, Fresh(s)
  PROVE  OneOperation(s, None, None)
BY DEF Fresh, OneOperation

LEMMA UnusedWhenIdle ==
  ASSUME NEW s, NEW j, NEW d, Balanced(s), OneOperation(s, j, d), s.pending = None
  PROVE  Unused(s) /\ Fresh(s) /\ j = None /\ d = None
BY RequestFacts DEF OneOperation, Unused, Fresh, Balanced, Sessions

LEMMA StillOne ==
  ASSUME NEW s, NEW t, NEW j, NEW d, Balanced(s), OneOperation(s, j, d), t.slot = s.slot,
         s.pending # None => t.pending = s.pending /\ t.outbox = s.outbox,
         Fresh(s) => Fresh(t)
  PROVE  OneOperation(t, j, d)
<1>1. CASE s.pending = None
  BY <1>1, UnusedWhenIdle, FreshIsOne
<1>2. CASE s.pending # None
  BY <1>2 DEF OneOperation
<1> QED
  BY <1>1, <1>2

\* A counted change stays within the bound and above what is under way.
LEMMA AfterFacts ==
  ASSUME unpublished \in 0 .. UnpublishedMax, NEW at
  PROVE  /\ After(at) \in 0 .. UnpublishedMax
         /\ Effect(at) = 0 => After(at) = unpublished
         /\ Effect(at) = 1 => \/ After(at) = unpublished + 1
                              \/ After(at) = UnpublishedMax /\ unpublished = UnpublishedMax
         /\ Effect(at) \in {0, 1}
<1>1. Effect(at) \in {0, 1}
  BY DEF Effect
<1> DEFINE a == unpublished + Effect(at)
<1>2. a \in Int /\ UnpublishedMax \in Int /\ UnpublishedMax >= 0
  BY <1>1, FileAssumption
<1>3. Min({a, UnpublishedMax}) = IF a <= UnpublishedMax THEN a ELSE UnpublishedMax
  <2>1. CASE a <= UnpublishedMax
    <3>1. \A x \in {a, UnpublishedMax} :
            (\A y \in {a, UnpublishedMax} : x <= y) <=> x = a
      BY <1>2, <2>1
    <3> QED
      BY <2>1, <3>1 DEF Min
  <2>2. CASE ~(a <= UnpublishedMax)
    <3>1. \A x \in {a, UnpublishedMax} :
            (\A y \in {a, UnpublishedMax} : x <= y) <=> x = UnpublishedMax
      BY <1>2, <2>2
    <3> QED
      BY <2>2, <3>1 DEF Min
  <2> QED
    BY <2>1, <2>2
<1> QED
  BY <1>1, <1>2, <1>3, FileAssumption DEF After

LEMMA ChangesFacts ==
  /\ Changes \in 0 .. 2
  /\ Effect("idle") = 0 /\ Effect("queued") = 0 /\ Effect("accepted") = 0 /\ Effect("done") = 0
  /\ Effect("unchanged") = 0 /\ Effect("failed") = 0
  /\ Effect("written") = 1 /\ Effect("uncertain") = 1
  /\ One(TRUE) = 1 /\ One(FALSE) = 0
BY DEF Changes, One, Effect

LEMMA KeptInit == Init => Kept /\ InStep
<1> SUFFICES ASSUME Init PROVE Kept /\ InStep
  OBVIOUS
<1>1. Balanced(session) /\ Exact(session) /\ Fresh(session)
  BY FileAssumption, RunFacts, RequestFacts DEF Init, Balanced, Sessions, Exact, Fresh, One
<1>2. Changes = 0
  <2>1. job = None /\ tree = "idle"
    BY DEF Init
  <2> QED
    BY <2>1 DEF Changes, One, Effect
<1>3. OneOperation(session, job, displaced)
  BY <1>1, FreshIsOne DEF Init
<1> QED
  <2>1. Kept
    <3>1. 0 \in 0 .. UnpublishedMax
      BY FileAssumption
    <3>2. session.mutation = FALSE /\ tree = "idle" /\ Matched(job)
      BY DEF Init, Matched
    <3>3. /\ active \in Buffers /\ formatting = None /\ job = None /\ displaced = None
          /\ phase = "running" /\ unpublished = 0 /\ struck = FALSE
      BY DEF Init
    <3>4. session.mutation <=> tree # "idle"
      BY <3>2
    <3>5. unpublished >= Changes
      BY <1>2, <3>3
    <3>6. job \in Jobs /\ displaced \in Jobs
      BY <3>3, JobFacts
    <3>7. Matched(job) /\ tree = "idle"
      BY <3>2
    <3> QED
      BY <1>1, <3>1, <3>3, <3>4, <3>5, <3>6, <3>7, Zenon DEF Kept
  <2>2. InStep
    BY <1>1, <1>2, <1>3 DEF Init, InStep
  <2> QED
    BY <2>1, <2>2

\* What every step that only changes the session has to show.
LEMMA SessionStep ==
  ASSUME Kept, InStep, Balanced(session)', UNCHANGED <<active, job, tree, phase, unpublished>>,
         formatting' \in {None} \cup [kind : {"format"}, buffer : Buffers],
         displaced' = displaced, struck' \in BOOLEAN,
         session'.mutation = session.mutation,
         ~struck' => ~struck /\ Exact(session)' /\ OneOperation(session', job, displaced)
  PROVE  Kept' /\ InStep'
BY DEF Kept, InStep, Changes

LEMMA CommandStep ==
  ASSUME Kept, InStep,
         StartRead \/ StartSave \/ AnswerFormat \/ SaveAll \/ WatchBurst \/ TakeEvent \/ FailDiff
  PROVE  Kept' /\ InStep'
<1> USE DEF Kept
<1>1. session.pending = None /\ ~struck =>
        Unused(session) /\ Fresh(session) /\ job = None /\ displaced = None /\ Exact(session)
  BY UnusedWhenIdle DEF InStep
<1>2. CASE StartRead
  <2>1. session' = [session EXCEPT !.pending = Read, !.outbox = Read]
    BY <1>2 DEF StartRead, Queue
  <2>2. /\ Balanced(session') /\ session'.pending = Read /\ session'.outbox = Read
        /\ session'.slot = session.slot /\ session'.mutation = session.mutation
        /\ Exact(session) => Exact(session')
    BY <2>1, RequestFacts DEF Balanced, Sessions, Exact
  <2>3. Unused(session) => Fresh(session')
    BY <2>2, RequestFacts DEF Unused, Fresh
  <2> QED
    BY <1>1, <1>2, <2>2, <2>3, FreshIsOne, SessionStep DEF StartRead
<1>3. CASE StartSave \/ AnswerFormat
  <2>1. formatting' \in {None} \cup [kind : {"format"}, buffer : Buffers]
    BY <1>3 DEF StartSave, AnswerFormat
  <2>2. CASE session' = session
    BY <1>3, <2>1, <2>2, SessionStep DEF StartSave, AnswerFormat, InStep
  <2>3. CASE session' = BeginSave(session, active)
    <3>1. CASE session.pending # None
      BY <1>3, <2>1, <2>2, <2>3, <3>1, BeginSaveFacts
    <3>2. CASE session.pending = None
      <4>1. /\ Balanced(session') /\ session'.mutation = session.mutation
            /\ Unused(session) => Fresh(session')
            /\ Unused(session) /\ Exact(session) => Exact(session')
        BY <2>3, BeginSaveFacts
      <4> QED
        BY <1>1, <1>3, <2>1, <3>2, <4>1, FreshIsOne, SessionStep DEF StartSave, AnswerFormat
    <3> QED
      BY <3>1, <3>2
  <2> QED
    BY <1>3, <2>2, <2>3 DEF StartSave, AnswerFormat
<1>4. CASE SaveAll
  <2>1. session.pending = None /\ UNCHANGED <<active, formatting, job, displaced, tree, phase,
                                              unpublished, struck>>
    BY <1>4 DEF SaveAll
  <2>2. PICK modified \in (SUBSET Buffers) \ {{}} :
          session' = IF BeginSave(session, Min(modified)).pending = None THEN session
                     ELSE [BeginSave(session, Min(modified)) EXCEPT
                             !.run = Run(modified \ {Min(modified)})]
    BY <1>4 DEF SaveAll
  <2> DEFINE next == BeginSave(session, Min(modified))
             r == Run(modified \ {Min(modified)})
  <2>3. Min(modified) \in Buffers /\ r \in Runs
    <3>1. modified \subseteq Buffers /\ modified # {}
      OBVIOUS
    <3> QED
      BY <3>1, MinIsMember, RunFacts
  <2>4. /\ Balanced(next) /\ next.mutation = session.mutation
        /\ Unused(session) => Fresh(next)
        /\ Unused(session) /\ Exact(session) => Exact(next)
    BY <2>3, BeginSaveFacts
  <2>5. session' = IF next.pending = None THEN session ELSE [next EXCEPT !.run = r]
    BY <2>2
  <2> HIDE DEF next, r
  <2> DEFINE t == [next EXCEPT !.run = r]
  <2>6. /\ Balanced(t) /\ t.mutation = next.mutation /\ t.slot = next.slot
        /\ t.pending = next.pending /\ t.outbox = next.outbox
        /\ Exact(next) => Exact(t)
    BY <2>3, <2>4, RunChangeFacts
  <2>7. session' = session \/ session' = t
    BY <2>5
  <2> HIDE DEF t
  <2>8. Fresh(next) => Fresh(t)
    BY <2>6 DEF Fresh
  <2>9. CASE session' = session
    BY <2>1, <2>9, SessionStep DEF InStep
  <2>10. CASE session' = t
    BY <1>1, <2>1, <2>4, <2>6, <2>8, <2>10, FreshIsOne, SessionStep
  <2> QED
    BY <2>7, <2>9, <2>10
<1>5. CASE WatchBurst
  <2>1. session' = Check(session)
    BY <1>5 DEF WatchBurst
  <2>2. /\ Balanced(session') /\ session'.mutation = session.mutation
        /\ Exact(session) => Exact(session')
    BY <2>1, CheckFacts
  <2>3. OneOperation(session, job, displaced) => OneOperation(session', job, displaced)
    BY <2>1, CheckFacts, StillOne
  <2> QED
    BY <1>5, <2>2, <2>3, SessionStep DEF WatchBurst, InStep
<1>6. CASE TakeEvent
  <2>1. session' = [session EXCEPT !.queued = @ - 1] /\ session.queued > 0
    BY <1>6 DEF TakeEvent
  <2>2. /\ Balanced(session') /\ session'.mutation = session.mutation
        /\ session'.slot = session.slot /\ session'.pending = session.pending
        /\ session'.outbox = session.outbox
        /\ Exact(session) => Exact(session')
    BY <2>1, FileAssumption DEF Balanced, Sessions, Exact
  <2>3. OneOperation(session, job, displaced) => OneOperation(session', job, displaced)
    BY <2>2 DEF OneOperation
  <2> QED
    BY <1>6, <2>2, <2>3, SessionStep DEF TakeEvent, InStep
<1>7. CASE FailDiff
  <2>1. session' = Abandoned(session) /\ struck' = (struck \/ session.pending # None)
    BY <1>7 DEF FailDiff
  <2>2. /\ Balanced(session') /\ session'.mutation = session.mutation /\ Fresh(session')
        /\ Exact(session) => Exact(session')
    BY <2>1, AbandonedFacts
  <2> QED
    BY <1>1, <1>7, <2>1, <2>2, FreshIsOne, SessionStep DEF FailDiff
<1> QED
  BY <1>2, <1>3, <1>4, <1>5, <1>6, <1>7

LEMMA SubmitStep ==
  ASSUME Kept, InStep, Submit
  PROVE  Kept' /\ InStep'
<1> USE DEF Kept
<1> DEFINE t == [session EXCEPT !.outbox = None]
<1>1. /\ Balanced(t) /\ t.mutation = session.mutation /\ t.slot = session.slot
      /\ t.pending = session.pending /\ t.outbox = None
      /\ Exact(session) => Exact(t)
  BY DEF Balanced, Sessions, Exact
<1>2. session.outbox \in Requests /\ session.outbox # None
  BY RequestFacts DEF Submit, Balanced, Sessions
<1>3. ~struck => job = None /\ session.pending = session.outbox /\ session.pending # None
  BY <1>2 DEF InStep, OneOperation
<1>4. /\ displaced' = job /\ struck' = struck
      /\ UNCHANGED <<active, formatting, tree, phase, unpublished>>
      /\ \/ /\ job' = [kind |-> "job", request |-> session.outbox, at |-> "accepted"]
            /\ session' = t
         \/ job' = None /\ session' = Abandoned(t)
  BY DEF Submit
<1> HIDE DEF t
<1>5. job' \in Jobs /\ Matched(job') /\ (job' # None => Effect(job'.at) = 0)
  <2>1. CASE job' = None
    BY <2>1, JobFacts DEF Matched
  <2>2. CASE job' = [kind |-> "job", request |-> session.outbox, at |-> "accepted"]
    BY <1>2, <2>2, JobFacts, ChangesFacts DEF Matched
  <2> QED
    BY <1>4, <2>1, <2>2
<1>6. /\ Changes' = One(Effect(tree) = 1) /\ Changes' <= Changes
      /\ job = None => Changes' = Changes
  BY <1>4, <1>5, ChangesFacts DEF Changes, One
<1>7. Balanced(session') /\ session'.mutation = session.mutation
      /\ (Exact(session) => Exact(session'))
  BY <1>1, <1>4, AbandonedFacts
<1>8. ~struck => OneOperation(session', job', displaced')
  <2>1. CASE session' = Abandoned(t) /\ job' = None
    BY <1>1, <1>3, <1>4, <2>1, AbandonedFacts, FreshIsOne
  <2>2. CASE session' = t /\ job' = [kind |-> "job", request |-> session.outbox, at |-> "accepted"]
    <3>1. job' # None /\ job'.request = session.outbox
      BY <1>2, <2>2, JobFacts
    <3>2. ~struck => (t.slot <=> t.pending.kind = "save")
      BY <1>1 DEF InStep, OneOperation
    <3> QED
      BY <1>1, <1>3, <1>4, <2>2, <3>1, <3>2 DEF OneOperation
  <2> QED
    BY <1>4, <2>1, <2>2
<1>9. unpublished >= Changes'
  BY <1>6, ChangesFacts, FileAssumption DEF Changes, One
<1> QED
  BY <1>3, <1>4, <1>5, <1>6, <1>7, <1>8, <1>9 DEF InStep

LEMMA RunFileStep ==
  ASSUME Kept, InStep, RunFile
  PROVE  Kept' /\ InStep'
<1> USE DEF Kept
<1>1. job # None /\ job.at = "accepted" /\ job.request \in Requests
  BY JobFacts DEF RunFile
<1>2. PICK at \in Outcomes(job.request, phase = "draining") :
        job' = [job EXCEPT !.at = at] /\ unpublished' = After(at)
  BY DEF RunFile
<1>3. UNCHANGED <<session, active, formatting, displaced, tree, phase, struck>>
  BY DEF RunFile
<1>4. /\ at \in States
      /\ at = "done" => job.request = Read
      /\ at \in {"written", "unchanged", "uncertain"} => job.request # Read
  BY <1>1, OutcomeFacts
<1>5. job' \in Jobs /\ job' # None /\ job'.at = at /\ job'.request = job.request
  <2>1. job \in [kind : {"job"}, request : Requests, at : States]
    BY <1>1 DEF Jobs
  <2>2. job' \in [kind : {"job"}, request : Requests, at : States]
        /\ job'.at = at /\ job'.request = job.request
    BY <1>2, <1>4, <2>1
  <2> QED
    BY <2>2, JobFacts DEF Jobs
<1>6. Matched(job')
  <2>1. job'.at = "done" => job'.request = Read
    BY <1>4, <1>5
  <2>2. job'.at \in {"written", "unchanged", "uncertain"} => job'.request # Read
    BY <1>4, <1>5
  <2> QED
    BY <2>1, <2>2 DEF Matched
<1>7. Changes' = Effect(at) + Changes /\ Changes' \in 0 .. 2 /\ Changes \in 0 .. 2
  BY <1>1, <1>3, <1>5 DEF Changes, One, Effect
<1>8. /\ unpublished' \in 0 .. UnpublishedMax /\ unpublished' >= Changes'
      /\ unpublished = Changes => unpublished' = Changes'
  BY <1>2, <1>7, AfterFacts, FileAssumption
<1>9. ~struck => OneOperation(session', job', displaced')
  BY <1>1, <1>3, <1>5 DEF InStep, OneOperation
<1> QED
  BY <1>3, <1>5, <1>6, <1>8, <1>9 DEF InStep

LEMMA DisplacedStep ==
  ASSUME Kept, InStep, RunDisplaced \/ DropDisplaced
  PROVE  Kept' /\ InStep'
<1> USE DEF Kept
<1>1. displaced # None /\ struck
  BY JobFacts DEF RunDisplaced, DropDisplaced, InStep, OneOperation
<1>2. displaced' \in Jobs /\ (unpublished' = unpublished \/ \E at : unpublished' = After(at))
  <2>1. CASE RunDisplaced
    <3>1. displaced.request \in Requests
      BY <1>1, JobFacts
    <3>2. PICK at \in Outcomes(displaced.request, TRUE) :
            displaced' = [displaced EXCEPT !.at = at] /\ unpublished' = After(at)
      BY <2>1 DEF RunDisplaced
    <3>3. at \in States
      BY <3>1, OutcomeFacts
    <3> QED
      BY <1>1, <3>2, <3>3, JobFacts
  <2>2. CASE DropDisplaced
    BY <2>2, JobFacts DEF DropDisplaced
  <2> QED
    BY <2>1, <2>2
<1>3. UNCHANGED <<session, active, formatting, job, tree, phase, struck>>
  BY DEF RunDisplaced, DropDisplaced
<1>4. unpublished' \in 0 .. UnpublishedMax /\ unpublished' >= unpublished
  <2>1. CASE unpublished' = unpublished
    BY <2>1, FileAssumption
  <2>2. ASSUME NEW at, unpublished' = After(at)
        PROVE  unpublished' \in 0 .. UnpublishedMax /\ unpublished' >= unpublished
    BY <2>2, AfterFacts, FileAssumption
  <2> QED
    BY <1>2, <2>1, <2>2
<1>5. Changes' = Changes /\ unpublished' >= Changes
  BY <1>3, <1>4, ChangesFacts, FileAssumption DEF Changes
<1> QED
  BY <1>1, <1>2, <1>3, <1>4, <1>5 DEF InStep

LEMMA CompleteFileStep ==
  ASSUME Kept, InStep, CompleteFile
  PROVE  Kept' /\ InStep'
<1> USE DEF Kept
<1>1. job # None /\ job.at \in States /\ job.at # "accepted" /\ job.request \in Requests
  BY JobFacts DEF CompleteFile
<1>2. /\ session' = IF job.at = "failed" THEN Abandoned(session) ELSE Applied(session, job.at)
      /\ unpublished' = unpublished - (session'.queued - session.queued)
      /\ job' = None
      /\ UNCHANGED <<active, formatting, displaced, tree, phase, struck>>
  BY DEF CompleteFile, Facts
<1>3. ~struck => /\ displaced = None /\ session.outbox = None /\ job.request = session.pending
                 /\ session.slot <=> job.at \in {"written", "unchanged", "uncertain", "failed"}
                                     /\ job.request # Read
  BY <1>1, RequestFacts DEF InStep, OneOperation, Matched, States
<1>4. session.queued \in Int /\ session'.queued \in Int /\ unpublished \in Int
      /\ Changes \in 0 .. 2
  <2>1. job.at # "failed" => job.at \in {"done", "written", "unchanged", "uncertain"}
    BY <1>1 DEF States
  <2>2. Balanced(session')
    BY <1>2, <2>1, AbandonedFacts, AppliedFacts
  <2>3. session.queued \in Int /\ session'.queued \in Int
    BY <2>2, FileAssumption DEF Balanced, Sessions
  <2> QED
    BY <2>3, FileAssumption, ChangesFacts
<1>5. Changes' = One(Effect(tree) = 1) /\ Changes = One(Effect(job.at) = 1) + One(Effect(tree) = 1)
  BY <1>1, <1>2 DEF Changes, One
<1>6. CASE job.at = "failed"
  <2>1. /\ Balanced(session') /\ session'.queued = session.queued
        /\ session'.mutation = session.mutation /\ Fresh(session')
        /\ Exact(session) => Exact(session')
    BY <1>2, <1>6, AbandonedFacts
  <2>2. unpublished' = unpublished /\ Changes' = Changes
    BY <1>2, <1>4, <1>5, <1>6, <2>1 DEF One, Effect
  <2> QED
    BY <1>2, <1>3, <2>1, <2>2, JobFacts, FreshIsOne DEF InStep, Matched
<1>7. CASE job.at # "failed"
  <2>1. job.at \in {"done", "written", "unchanged", "uncertain"}
    BY <1>1, <1>7 DEF States
  <2>2. /\ Balanced(session')
        /\ session'.mutation = session.mutation
        /\ session'.queued = session.queued + One(session.slot /\ job.at \in {"written", "uncertain"})
        /\ session.outbox = None /\ (session.slot <=> job.at # "done") => Fresh(session')
        /\ session.outbox = None /\ (session.slot <=> job.at # "done") /\ Exact(session)
             => Exact(session')
    BY <1>2, <1>7, <2>1, AppliedFacts
  <2>3. ~struck => (session.slot <=> job.at # "done")
    BY <1>1, <1>3, <2>1 DEF Matched
  <2>4. /\ unpublished' \in 0 .. UnpublishedMax /\ unpublished' >= Changes'
        /\ (session.slot <=> job.at # "done") /\ unpublished = Changes => unpublished' = Changes'
    BY <1>2, <1>4, <1>5, <2>1, <2>2, FileAssumption DEF One, Effect
  <2>5. ~struck => OneOperation(session', job', displaced')
    BY <1>2, <1>3, <2>2, <2>3, FreshIsOne
  <2> QED
    BY <1>2, <1>3, <2>2, <2>3, <2>4, <2>5, JobFacts DEF InStep, Matched
<1> QED
  BY <1>6, <1>7

\* What every step of the tree mutation has to show.
LEMMA TreeStep ==
  ASSUME Kept, InStep, Balanced(session)', UNCHANGED <<active, formatting, job, displaced, phase>>,
         tree' \in {"idle", "queued"} \cup States,
         session'.mutation <=> tree' # "idle",
         Exact(session) => Exact(session'),
         OneOperation(session, job, displaced) => OneOperation(session', job, displaced),
         unpublished' \in 0 .. UnpublishedMax, struck' = struck,
         unpublished' - unpublished = Effect(tree') - Effect(tree)
           \/ (Effect(tree') = 1 /\ Effect(tree) = 0 /\ unpublished' = UnpublishedMax
               /\ unpublished = UnpublishedMax)
  PROVE  Kept' /\ InStep'
<1> USE DEF Kept
<1>1. Changes \in 0 .. 2 /\ Changes' \in 0 .. 2 /\ Changes' - Changes = Effect(tree') - Effect(tree)
      /\ Effect(tree) \in {0, 1} /\ Effect(tree') \in {0, 1}
  BY DEF Changes, One, Effect
<1>2. unpublished' >= Changes' /\ (unpublished = Changes => unpublished' = Changes')
  BY <1>1, FileAssumption
<1> QED
  BY <1>1, <1>2 DEF InStep

LEMMA MutationStep ==
  ASSUME Kept, InStep,
         StartMutation \/ SubmitMutation \/ RunMutation \/ CompleteMutation
  PROVE  Kept' /\ InStep'
<1> USE DEF Kept
<1>0. unpublished \in Int /\ session.queued \in Int
  BY FileAssumption DEF Balanced, Sessions
<1>1. CASE StartMutation
  <2>1. /\ session.mutation = FALSE /\ Free(session) > 0 /\ tree = "idle" /\ tree' = "queued"
        /\ session' = [session EXCEPT !.mutation = TRUE, !.reserved = @ + 1]
        /\ UNCHANGED <<active, formatting, job, displaced, phase, unpublished, struck>>
    BY <1>1 DEF StartMutation, Balanced, Sessions
  <2>2. session.reserved + 1 \in 0 .. Slots /\ session.reserved + 1 + session.queued <= Slots
        /\ session.reserved \in Int
    BY <2>1, FileAssumption DEF Free, Balanced, Sessions
  <2>3. /\ session' \in Sessions /\ session'.mutation = TRUE /\ session'.slot = session.slot
        /\ session'.pending = session.pending /\ session'.outbox = session.outbox
        /\ session'.reserved = session.reserved + 1 /\ session'.queued = session.queued
    BY <2>1, <2>2 DEF Balanced, Sessions
  <2>4. Balanced(session') /\ (Exact(session) => Exact(session'))
    BY <2>1, <2>2, <2>3 DEF Balanced, Exact, One
  <2>5. OneOperation(session, job, displaced) => OneOperation(session', job, displaced)
    BY <2>3 DEF OneOperation
  <2>6. Effect(tree') - Effect(tree) = 0
    BY <2>1 DEF Effect
  <2>7. session'.mutation <=> tree' # "idle"
    BY <2>1, <2>3
  <2>8. unpublished' - unpublished = 0 /\ unpublished' \in 0 .. UnpublishedMax
    BY <2>1, <1>0
  <2> QED
    BY <2>1, <2>4, <2>5, <2>6, <2>7, <2>8, TreeStep
<1>2. CASE SubmitMutation
  <2>1. tree = "queued" /\ UNCHANGED <<active, formatting, job, displaced, phase, unpublished, struck>>
        /\ \/ tree' = "accepted" /\ session' = session
           \/ tree' = "idle" /\ session' = ReleaseMutation(session)
    BY <1>2 DEF SubmitMutation
  <2>2. session.mutation
    BY <2>1
  <2>3. Balanced(session') /\ (Exact(session) => Exact(session')) /\ session'.slot = session.slot
        /\ session'.pending = session.pending /\ session'.outbox = session.outbox
        /\ (session'.mutation <=> tree' # "idle")
    <3>1. CASE tree' = "accepted" /\ session' = session
      BY <2>2, <3>1
    <3>2. CASE tree' = "idle" /\ session' = ReleaseMutation(session)
      BY <2>2, <3>2, MutationFacts
    <3> QED BY <2>1, <3>1, <3>2
  <2>4. OneOperation(session, job, displaced) => OneOperation(session', job, displaced)
    BY <2>3 DEF OneOperation
  <2>5. Effect(tree') - Effect(tree) = 0 /\ tree' \in {"idle", "queued"} \cup States
    BY <2>1 DEF Effect, States
  <2>6. unpublished' - unpublished = 0 /\ unpublished' \in 0 .. UnpublishedMax
    BY <2>1, <1>0
  <2> QED
    BY <2>1, <2>3, <2>4, <2>5, <2>6, TreeStep
<1>3. CASE RunMutation
  <2>1. /\ tree = "accepted" /\ tree' \in {"written", "unchanged", "uncertain", "failed"}
        /\ unpublished' = After(tree')
        /\ UNCHANGED <<session, active, formatting, job, displaced, phase, struck>>
    BY <1>3 DEF RunMutation
  <2>2. Effect(tree) = 0 /\ tree' \in States /\ tree' # "idle"
    BY <2>1 DEF Effect, States
  <2>3. unpublished' \in 0 .. UnpublishedMax
        /\ \/ unpublished' - unpublished = Effect(tree')
           \/ /\ Effect(tree') = 1 /\ unpublished' = UnpublishedMax
              /\ unpublished = UnpublishedMax
    BY <1>0, <2>1, AfterFacts
  <2>4. unpublished' - unpublished = Effect(tree') - Effect(tree)
           \/ (Effect(tree') = 1 /\ Effect(tree) = 0 /\ unpublished' = UnpublishedMax
               /\ unpublished = UnpublishedMax)
    <3>1. Effect(tree') \in Int
      BY DEF Effect
    <3> QED
      BY <2>2, <2>3, <3>1
  <2>5. Balanced(session)' /\ (session'.mutation <=> tree' # "idle")
        /\ (Exact(session) => Exact(session'))
        /\ (OneOperation(session, job, displaced) => OneOperation(session', job, displaced))
    BY <2>1, <2>2
  <2> QED
    BY <2>1, <2>2, <2>3, <2>4, <2>5, TreeStep
<1>4. CASE CompleteMutation
  <2>1. /\ tree \in {"written", "unchanged", "uncertain", "failed"} /\ tree' = "idle"
        /\ session' = CASE tree = "failed" -> ReleaseMutation(session)
                        [] tree = "unchanged" -> FollowUp(ReleaseMutation(session))
                        [] tree = "written" -> FollowUp(PublishMutation(session))
                        [] tree = "uncertain" ->
                             FollowUp([PublishMutation(session) EXCEPT !.due = TRUE])
        /\ unpublished' = unpublished - (session'.queued - session.queued)
        /\ UNCHANGED <<active, formatting, job, displaced, phase, struck>>
    BY <1>4 DEF CompleteMutation, Facts
  <2>2. session.mutation
    BY <2>1
  <2> DEFINE r == ReleaseMutation(session)
             p == PublishMutation(session)
             d == [p EXCEPT !.due = TRUE]
  <2>3. /\ Balanced(r) /\ Balanced(p) /\ Balanced(d)
        /\ r.mutation = FALSE /\ p.mutation = FALSE /\ d.mutation = FALSE
        /\ r.slot = session.slot /\ p.slot = session.slot /\ d.slot = session.slot
        /\ r.pending = session.pending /\ p.pending = session.pending
        /\ d.pending = session.pending
        /\ r.outbox = session.outbox /\ p.outbox = session.outbox /\ d.outbox = session.outbox
        /\ Exact(session) => Exact(r) /\ Exact(p) /\ Exact(d)
        /\ r.queued = session.queued /\ p.queued = session.queued + 1
        /\ d.queued = session.queued + 1
    <3>1. /\ Balanced(r) /\ Balanced(p)
          /\ r.mutation = FALSE /\ p.mutation = FALSE
          /\ r.slot = session.slot /\ p.slot = session.slot
          /\ r.pending = session.pending /\ p.pending = session.pending
          /\ r.outbox = session.outbox /\ p.outbox = session.outbox
          /\ Exact(session) => Exact(r) /\ Exact(p)
          /\ r.queued = session.queued /\ p.queued = session.queued + 1
      BY <2>2, MutationFacts
    <3> HIDE DEF r, p
    <3> QED
      BY <3>1, DueFacts
  <2>4. PICK t \in {r, p, d} :
          /\ session' = t \/ session' = FollowUp(t)
          /\ t.queued = session.queued + Effect(tree)
    <3>1. CASE tree = "failed" \/ tree = "unchanged"
      BY <2>1, <2>3, <3>1, <1>0 DEF Effect
    <3>2. CASE tree = "written" \/ tree = "uncertain"
      BY <2>1, <2>3, <3>2, <1>0 DEF Effect
    <3> QED
      BY <2>1, <3>1, <3>2
  <2>5. /\ Balanced(t) /\ t.mutation = FALSE /\ t.slot = session.slot
        /\ t.pending = session.pending /\ t.outbox = session.outbox
        /\ Exact(session) => Exact(t)
    BY <2>3, <2>4
  <2> HIDE DEF r, p, d
  <2>6. /\ Balanced(session') /\ session'.mutation = FALSE /\ session'.queued = t.queued
        /\ session'.slot = t.slot
        /\ t.pending # None => session'.pending = t.pending /\ session'.outbox = t.outbox
        /\ Fresh(t) => Fresh(session')
        /\ Exact(t) => Exact(session')
    BY <2>4, <2>5, FollowUpFacts
  <2>7. Fresh(session) => Fresh(t)
    BY <2>5 DEF Fresh
  <2>8. OneOperation(session, job, displaced) => OneOperation(session', job, displaced)
    BY <2>5, <2>6, <2>7, StillOne
  <2>9. Effect(tree) \in {0, 1} /\ Effect(tree') = 0
    BY <2>1 DEF Effect
  <2>10. unpublished' - unpublished = Effect(tree') - Effect(tree)
    BY <1>0, <2>1, <2>4, <2>6, <2>9
  <2>11. unpublished >= Effect(tree)
    BY <1>0, FileAssumption DEF Changes, One, Effect
  <2>12. unpublished' \in 0 .. UnpublishedMax
    <3>1. unpublished' = unpublished - Effect(tree)
      BY <1>0, <2>1, <2>4, <2>6, <2>9
    <3>2. unpublished <= UnpublishedMax /\ UnpublishedMax \in Int
      BY FileAssumption
    <3> QED
      BY <1>0, <2>9, <2>11, <3>1, <3>2
  <2>13. session'.mutation <=> tree' # "idle"
    BY <2>1, <2>6
  <2> QED
    BY <2>1, <2>5, <2>6, <2>8, <2>10, <2>12, <2>13, TreeStep
<1> QED
  BY <1>1, <1>2, <1>3, <1>4

LEMMA KeptStep == Kept /\ InStep /\ [Next]_vars => Kept' /\ InStep'
<1> SUFFICES ASSUME Kept, InStep, [Next]_vars PROVE Kept' /\ InStep'
  OBVIOUS
<1>1. CASE Switch \/ Shutdown \/ Close
  <2>1. /\ UNCHANGED <<session, formatting, job, displaced, tree, unpublished, struck>>
        /\ active' \in Buffers /\ phase' \in {"running", "draining", "closed"}
    BY <1>1 DEF Switch, Shutdown, Close, Kept
  <2> QED
    BY <2>1 DEF Kept, InStep, Changes
<1>2. CASE UNCHANGED vars
  BY <1>2 DEF Kept, InStep, Changes, vars
<1> QED
  BY <1>1, <1>2, CommandStep, SubmitStep, RunFileStep, DisplacedStep, CompleteFileStep,
     MutationStep DEF Next

LEMMA KeptAlways == Spec => [](Kept /\ InStep)
BY KeptInit, KeptStep, PTL DEF Spec

\* The three kinds of a change under way are counted once each.
LEMMA UnderWayIsChanges ==
  ASSUME Kept, displaced = None
  PROVE  UnderWay = Changes
<1> DEFINE S == {k \in {"file", "displaced", "tree"} :
                   CASE k = "file" -> job # None /\ Effect(job.at) = 1
                     [] k = "displaced" -> displaced # None /\ Effect(displaced.at) = 1
                     [] k = "tree" -> Effect(tree) = 1}
           file == job # None /\ Effect(job.at) = 1
           mutation == Effect(tree) = 1
           F == IF file THEN {"file"} ELSE {}
           T == IF mutation THEN {"tree"} ELSE {}
<1>1. S = F \cup T
  BY Zenon
<1>2. IsFiniteSet(F) /\ Cardinality(F) = (IF file THEN 1 ELSE 0)
  BY FS_EmptySet, FS_Singleton
<1>3. Cardinality(F \cup {"tree"}) = Cardinality(F) + 1
  <2>1. "tree" \notin F
    OBVIOUS
  <2> HIDE DEF F
  <2> QED
    BY <1>2, <2>1, FS_AddElement
<1>4. Cardinality(S) = (IF file THEN 1 ELSE 0) + (IF mutation THEN 1 ELSE 0)
  <2>1. CASE mutation
    <3>1. S = F \cup {"tree"}
      BY <1>1, <2>1
    <3> HIDE DEF S, F, file, mutation
    <3> QED
      BY <1>2, <1>3, <2>1, <3>1
  <2>2. CASE ~mutation
    <3>1. S = F
      BY <1>1, <2>2
    <3> HIDE DEF S, F, file, mutation
    <3> QED
      BY <1>2, <2>2, <3>1
  <2> QED
    BY <2>1, <2>2
<1> QED
  BY <1>4 DEF UnderWay, Changes, One

-----------------------------------------------------------------------------
(* The theorems. *)

LEMMA SessionsAreTyped == Kept => TypeOK
BY DEF Kept, Balanced, Sessions, Runs, TypeOK

\* The session, the outbox, the jobs and the mutation have their types, and the
\* outbox never holds more than its slots.
THEOREM TypeCorrect == Spec => []TypeOK
BY KeptAlways, SessionsAreTyped, PTL

\* Every slot reserved in the outbox is held by the running save or the running
\* mutation, whatever failed, was refused or was displaced (embed.rs, reserve).
THEOREM ReservationsHeld == Spec => []ReservationsAreHeld
<1>1. Kept /\ InStep => ReservationsAreHeld
  BY DEF InStep, Exact, ReservationsAreHeld
<1> QED
  BY <1>1, KeptAlways, PTL

\* The session waits for the one operation that the outbox or the service holds,
\* and for nothing else (session.rs, pending file operation).
THEOREM OneOperationAtATime == Spec => []OneFileOperation
<1>1. Kept /\ InStep => OneFileOperation
  BY DEF InStep, OneOperation, OneFileOperation
<1> QED
  BY <1>1, KeptAlways, PTL

\* The durable changes that no fact reports yet are those whose result is still
\* under way: a displaced or failed result loses no report.
THEOREM ChangesReported == Spec => []EveryChangeIsReported
<1>1. Kept /\ InStep => EveryChangeIsReported
  BY UnderWayIsChanges DEF InStep, OneOperation, EveryChangeIsReported
<1> QED
  BY <1>1, KeptAlways, PTL

\* The invariant of the run, for any number of slots and buffers.
THEOREM FileLaneCorrect == Spec => []FileInvariant
<1>1. TypeOK /\ ReservationsAreHeld /\ EveryChangeIsReported /\ OneFileOperation => FileInvariant
  BY DEF FileInvariant
<1> QED
  BY <1>1, TypeCorrect, ReservationsHeld, OneOperationAtATime, ChangesReported, PTL
=============================================================================
