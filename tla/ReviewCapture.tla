---------------------------- MODULE ReviewCapture ----------------------------
(***************************************************************************)
(* A review surface that captures both halves of a worktree as one pair:   *)
(* requests that replace each other, captures of several steps on a        *)
(* bounded runtime, completions that the host holds and applies late, and  *)
(* the bounded events that tell it how a request ended                     *)
(* (src/crates/kvim-embed/src/review.rs).                                  *)
(*                                                                         *)
(* The completions of another surface, shutdown and the contents of the    *)
(* candidates are left out; Review holds what a capture does to the marks. *)
(***************************************************************************)
EXTENDS Naturals, Sequences, FiniteSets

CONSTANTS
  PairsMax,   \* the capture requests of the host
  StepsMax,   \* the commands that one half may take
  SlotsMax,   \* RuntimeLimits: the requests that the runtime holds, 4 in the code
  EventsMax   \* REVIEW_EVENTS_MAX, 64 in the code

ReviewCaptureAssumption ==
  PairsMax \in Nat \ {0} /\ StepsMax \in Nat \ {0} /\ SlotsMax \in Nat \ {0} /\ EventsMax \in Nat \ 0..3

CaptureSections == {"staged", "unstaged"}
Missing == 0     \* no candidate of this half yet
Outcomes == {"pending", "published", "no_base", "failure"}

VARIABLES
  activePair, \* the request that the surface captures for
  toSubmit,   \* the captures that wait for dispatch, each [section, step]
  works,      \* the captures that the runtime or the host holds
  gates,      \* the identity that each slot accepts
  captured,   \* for each half the request of its candidate, or Missing
  abandoned,  \* the active request failed or was cancelled
  count,      \* the events that the host did not take
  ends,       \* the ends of the active request that an event reported
  visible     \* the pair on the screen

captureVars == <<activePair, toSubmit, works, gates, captured, abandoned, count, ends, visible>>

-----------------------------------------------------------------------------
Identity(pair, capture) == [pair |-> pair, section |-> capture.section, step |-> capture.step]
NoIdentity == Identity(0, [section |-> "none", step |-> 0])

\* "running" until the host holds its outcome.
Work(identity, outcome) == [identity |-> identity, outcome |-> outcome]

NoGates == [s \in CaptureSections |-> NoIdentity]
NoHalves == [s \in CaptureSections |-> Missing]
FreshPair == <<[section |-> "staged", step |-> 1], [section |-> "unstaged", step |-> 1]>>

Room(additional) == count + additional <= EventsMax
Slots == SlotsMax - Cardinality({w \in works : w.outcome = "running"})

\* Mutant: a result of the active request counts although its slot was cancelled.
IsCurrentByPair(w) == w.identity.pair = activePair
IsCurrent(w) == w.identity.pair = activePair /\ gates[w.identity.section] = w.identity

\* Mutant: a new request keeps the halves of the last one.
HalvesKept(halves) == halves
HalvesOfRequest(halves) == NoHalves

\* Mutant: a refused submission loses its capture.
RemainingNone(queue, taken) == <<>>
Remaining(queue, taken) == SubSeq(queue, taken + 1, Len(queue))

-----------------------------------------------------------------------------
CaptureInit ==
  /\ activePair = 1 /\ toSubmit = FreshPair /\ works = {} /\ gates = NoGates
  /\ captured = NoHalves /\ abandoned = FALSE
  /\ count = 0 /\ ends = {} /\ visible = NoHalves

\* request_reload and queue_pair
RequestReload ==
  /\ activePair < PairsMax
  /\ activePair' = activePair + 1 /\ toSubmit' = FreshPair /\ gates' = NoGates
  /\ captured' = HalvesOfRequest(captured) /\ abandoned' = FALSE /\ ends' = {}
  /\ UNCHANGED <<works, count, visible>>

\* cancel_capture
CancelCapture ==
  /\ Room(1)
  /\ gates' = NoGates /\ toSubmit' = <<>> /\ abandoned' = TRUE
  /\ count' = count + 1 /\ ends' = ends \cup {"cancelled"}
  /\ UNCHANGED <<activePair, works, captured, visible>>

\* dispatch: as many captures as the runtime takes; the first refused one waits
\* with an identity that no work carries.
Dispatch ==
  LET taken == IF Slots < Len(toSubmit) THEN Slots ELSE Len(toSubmit)
      begun == IF taken < Len(toSubmit) THEN taken + 1 ELSE taken
      Of(n) == Identity(activePair, toSubmit[n])
  IN /\ toSubmit # <<>>
     /\ works' = works \cup {Work(Of(n), "running") : n \in 1..taken}
     /\ gates' = [s \in CaptureSections |->
          IF \E n \in 1..begun : toSubmit[n].section = s
          THEN Of(CHOOSE n \in 1..begun : toSubmit[n].section = s) ELSE gates[s]]
     /\ toSubmit' = Remaining(toSubmit, taken)
     /\ UNCHANGED <<activePair, captured, abandoned, count, ends, visible>>

\* A command ends and ready hands its completion to the host, which frees the slot.
\* One that was cancelled may still answer a candidate, and nobody reads another
\* answer of it.  Only the staged half reads a base.
ReadyCompletion(w, outcome) ==
  /\ w.outcome = "running"
  /\ outcome = "pending" => w.identity.step < StepsMax
  /\ outcome = "no_base" => w.identity.section = "staged"
  /\ gates[w.identity.section] # w.identity => outcome = "published"
  /\ works' = (works \ {w}) \cup {Work(w.identity, outcome)}
  /\ UNCHANGED <<activePair, toSubmit, gates, captured, abandoned, count, ends, visible>>

\* apply of a stale completion: the host drops what the surface refuses.
ApplyStale(w) ==
  /\ w.outcome # "running" /\ ~IsCurrent(w)
  /\ works' = works \ {w}
  /\ UNCHANGED <<activePair, toSubmit, gates, captured, abandoned, count, ends, visible>>

ApplyPending(w) ==
  /\ IsCurrent(w) /\ w.outcome = "pending"
  /\ works' = works \ {w}
  /\ toSubmit' = Append(toSubmit, [section |-> w.identity.section, step |-> w.identity.step + 1])
  /\ UNCHANGED <<activePair, gates, captured, abandoned, count, ends, visible>>

\* publish_pair_if_ready: the pair, up to two stale anchors, the end and a redraw.
PublishPair(halves, stale) ==
  IF abandoned \/ \E s \in CaptureSections : halves[s] = Missing
  THEN UNCHANGED <<count, ends, visible>>
  ELSE /\ visible' = halves /\ count' = count + stale + 2
       /\ ends' = ends \cup {"finished"}

\* The events that apply reserves before it changes anything.
Reserved(w) ==
  IF w.outcome \in {"published", "no_base"} /\ \A s \in CaptureSections \ {w.identity.section} : captured[s] # Missing
  THEN 4 ELSE IF w.outcome \in {"failure", "no_base"} THEN 1 ELSE 0

ApplyCandidate(w, stale) ==
  /\ IsCurrent(w) /\ w.outcome \in {"published", "no_base"} /\ Room(Reserved(w))
  /\ works' = works \ {w}
  /\ captured' = [captured EXCEPT ![w.identity.section] = w.identity.pair]
  /\ PublishPair(captured', stale)
  /\ UNCHANGED <<activePair, toSubmit, gates, abandoned>>

ApplyFailure(w) ==
  /\ IsCurrent(w) /\ w.outcome = "failure" /\ Room(Reserved(w))
  /\ works' = works \ {w}
  /\ abandoned' = TRUE /\ gates' = NoGates /\ toSubmit' = <<>>
  /\ count' = count + 1 /\ ends' = ends \cup {"failed"}
  /\ UNCHANGED <<activePair, captured, visible>>

\* input: commands that change the review report events until none fits.
Input == /\ Room(1) /\ count' = EventsMax
         /\ UNCHANGED <<activePair, toSubmit, works, gates, captured, abandoned, ends, visible>>

\* event, until it answers nothing
TakeEvents == /\ count > 0 /\ count' = 0
              /\ UNCHANGED <<activePair, toSubmit, works, gates, captured, abandoned, ends, visible>>

Apply(w) == ApplyStale(w) \/ ApplyPending(w) \/ (\E stale \in {0, 2} : ApplyCandidate(w, stale)) \/ ApplyFailure(w)

CaptureNext ==
  \/ RequestReload \/ CancelCapture \/ Dispatch \/ TakeEvents
  \/ \E w \in works : (\E outcome \in Outcomes : ReadyCompletion(w, outcome)) \/ Apply(w)
  \/ Input

CaptureSpec == CaptureInit /\ [][CaptureNext]_captureVars

-----------------------------------------------------------------------------
\* The two halves on the screen belong to one request, and so do the ones that wait.
PairIsOfOneRequest ==
  /\ \A s, t \in CaptureSections : visible[s] = visible[t]
  /\ \A s \in CaptureSections : captured[s] \in {Missing, activePair}

\* A request that did not end still has, for each missing half, one capture that
\* waits, runs or is held, and only one.
RequestIsAccountedFor ==
  ends = {} => \A s \in CaptureSections :
    captured[s] = Missing =>
      Cardinality({w \in works : IsCurrent(w) /\ w.identity.section = s})
        + Cardinality({n \in DOMAIN toSubmit : toSubmit[n].section = s}) = 1

\* A request that finished, failed or was cancelled holds nothing that could end it again.
EndedRequestIsOver ==
  /\ ends # {} => toSubmit = <<>> /\ \A w \in works : ~IsCurrent(w)
  /\ ~({"finished", "failed"} \subseteq ends)

\* The events stay in their bound, and every work was counted by the runtime.
BoundsHold == count <= EventsMax /\ Slots >= 0

\* No order of requests, cancels, results, late applies and full event queues
\* shows the halves of two requests, loses a capture, ends a request twice, or passes a bound.
CaptureInvariant == PairIsOfOneRequest /\ RequestIsAccountedFor /\ EndedRequestIsOver /\ BoundsHold
=============================================================================
