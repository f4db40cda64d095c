--------------------------------- MODULE Facade --------------------------------
(***************************************************************************)
(* The facade of a hosted editor: its dialog, and the one generation that  *)
(* covers the editor and the dialog together                               *)
(* (src/crates/kvim-embed/src/dialog.rs, src/crates/kvim-ui/src/dialog.rs, *)
(* WorktreeEditor in src/crates/kvim-embed/src/worktree.rs).               *)
(*                                                                         *)
(* The editor below is the generation of its context, whether a phase      *)
(* waits, and its rectangle, of which one axis is kept; KeyInput models    *)
(* what moves the first two.  A completion, a tick, a direct open and the  *)
(* sidebar reach the editor while a dialog is open.  A choice is its       *)
(* identity.                                                               *)
(***************************************************************************)
EXTENDS Naturals, Sequences, FiniteSets

CONSTANTS
  Requests,    \* the dialogs a host asks for, as Request records
  Areas,       \* the rectangles, as <<first, last>> on one axis
  ChoicesMax,  \* DIALOG_CHOICES_MAX
  DialogsMax,  \* bound of the model: dialogs opened
  FacadeGenMax \* bound of the model: generations of the editor and the dialog

FacadeAssumption == DialogsMax \in Nat

VARIABLES
  bindingMode, \* "host" or "facade", chosen by the builder
  inner,       \* the editor below
  dialog,      \* the DialogHost
  seen,        \* the generations that input_context published last
  addressed,   \* one addressed value that the host took with a context
  fate,        \* history: what became of each dialog
  panicked     \* an expect of the dialog failed

facadeVars == <<bindingMode, inner, dialog, seen, addressed, fate, panicked>>

-----------------------------------------------------------------------------
Request(choices, default, cancel, direct, body) ==
  [choices |-> choices, default |-> default, cancel |-> cancel, direct |-> direct, body |-> body]

Places(choices, id) == {n \in 1..Len(choices) : choices[n] = id}

\* Dialog::new: what it demands of the choices and their roles.
Validated(r) ==
  /\ Len(r.choices) \in 1..ChoicesMax
  /\ Cardinality(Places(r.choices, r.default)) = 1 /\ Cardinality(Places(r.choices, r.cancel)) = 1

RectContains(outer, body) == outer[1] <= body[1] /\ body[2] <= outer[2]

NoDialog == [id |-> 0]
NoAnswer == [id |-> 0]
DialogAnswer(id, choice) == [id |-> id, choice |-> choice]
NewDialogHost == [open |-> NoDialog, answer |-> NoAnswer, generation |-> 1]
IsOpen == dialog.open # NoDialog

\* OpenDialog: "rendered" is the generation whose frame published the placement.
Opened(id, r) ==
  [id |-> id, request |-> r, focused |-> CHOOSE n \in Places(r.choices, r.default) : TRUE, rendered |-> 0]

\* DialogHost::close, DialogHost::invalidate and the two outcomes of an input.
Closed == [dialog EXCEPT !.open = NoDialog, !.generation = @ + 1]
Invalidated == [dialog EXCEPT !.open.rendered = 0, !.generation = @ + 1]
Focused(n) == [dialog EXCEPT !.open.focused = n, !.open.rendered = 0, !.generation = @ + 1]
AnsweredWith(choice) ==
  [dialog EXCEPT !.answer = DialogAnswer(dialog.open.id, choice), !.open = NoDialog, !.generation = @ + 1]

-----------------------------------------------------------------------------
(* The generation that the host sees. *)

\* Mutant: only the editor moves the generation.
PublishedOfEditor ==
  IF inner.generation # seen.inner
  THEN [facade |-> seen.facade + 1, inner |-> inner.generation, dialog |-> dialog.generation]
  ELSE seen
\* input_context compares lazily with what it published last.
Published ==
  IF inner.generation # seen.inner \/ dialog.generation # seen.dialog
  THEN [facade |-> seen.facade + 1, inner |-> inner.generation, dialog |-> dialog.generation]
  ELSE seen

\* The phases of the published context: an open dialog hides those of the editor.
PublishedIdle == IsOpen \/ ~inner.waiting

NothingAddressed == [kind |-> "none"]
\* A decision, or a proposal to cancel, with the context that it was made in.
AddressedFor(kind, published) ==
  [kind |-> kind, generation |-> published.facade, inner |-> inner.generation, dialog |-> dialog.generation]

-----------------------------------------------------------------------------
FacadeInit ==
  /\ bindingMode \in {"host", "facade"}
  /\ inner \in [generation : {1}, waiting : {FALSE}, area : Areas]
  /\ dialog = NewDialogHost /\ seen = [facade |-> 1, inner |-> 1, dialog |-> 1]
  /\ addressed = NothingAddressed /\ fate = [id \in 1..DialogsMax |-> "none"] /\ panicked = FALSE

\* The editor moves its context: an input that no dialog takes, or a
\* completion, a tick, an open or a sidebar command at any time.
InnerMoves ==
  /\ inner.generation < FacadeGenMax
  /\ \E waiting \in BOOLEAN : inner' = [inner EXCEPT !.generation = @ + 1, !.waiting = waiting]
  /\ UNCHANGED <<bindingMode, dialog, seen, addressed, fate, panicked>>

NextDialog == Cardinality({id \in 1..DialogsMax : fate[id] # "none"}) + 1

\* DialogRequest::new, open_dialog and DialogHost::open; every refusal keeps all.
OpenDialog(r) ==
  /\ Validated(r) /\ RectContains(inner.area, r.body) /\ ~IsOpen /\ dialog.answer = NoAnswer
  /\ NextDialog <= DialogsMax
  /\ dialog' = [dialog EXCEPT !.open = Opened(NextDialog, r), !.generation = @ + 1]
  /\ fate' = [fate EXCEPT ![NextDialog] = "open"]
  /\ UNCHANGED <<bindingMode, inner, seen, addressed, panicked>>

CloseDialog ==
  /\ IsOpen /\ dialog' = Closed /\ fate' = [fate EXCEPT ![dialog.open.id] = "closed"]
  /\ UNCHANGED <<bindingMode, inner, seen, addressed, panicked>>

Interact(answered, d) ==
  /\ dialog' = d
  /\ fate' = IF answered THEN [fate EXCEPT ![dialog.open.id] = "answered"] ELSE fate
  /\ UNCHANGED <<bindingMode, inner, seen, addressed, panicked>>

\* drive_key: a direct key comes before the aliases of a movement.
Key(key) ==
  /\ IsOpen
  /\ LET r == dialog.open.request
         count == Len(r.choices)
         at == dialog.open.focused
     IN \/ key \in r.direct /\ Interact(TRUE, AnsweredWith(key))
        \/ key = "previous" /\ Interact(FALSE, Focused(IF at = 1 THEN count ELSE at - 1))
        \/ key = "next" /\ Interact(FALSE, Focused((at % count) + 1))
        \/ key = "enter" /\ Interact(TRUE, AnsweredWith(r.choices[at]))
        \/ key = "cancel" /\ Interact(TRUE, AnsweredWith(r.cancel))

\* drive_pointer through the placement of the last frame: every cell of the
\* choice at one place.  Other cells and actions change nothing.
Pointer(place, action) ==
  /\ IsOpen /\ dialog.open.rendered # 0 /\ place <= Len(dialog.open.request.choices)
  /\ LET choices == dialog.open.request.choices
         places == Places(choices, choices[place])
     IN \/ action = "press" /\ Interact(TRUE, AnsweredWith(choices[place]))
        \/ /\ action = "motion" /\ Cardinality(places) = 1
           /\ Interact(FALSE, Focused(CHOOSE n \in places : TRUE))
        \/ /\ action = "motion" /\ Cardinality(places) > 1 /\ panicked' = TRUE
           /\ UNCHANGED <<bindingMode, inner, dialog, seen, addressed, fate>>

\* WorktreeEditor::render draws the editor, which refuses an empty rectangle,
\* and then the dialog, which publishes its placement.
Render ==
  /\ IsOpen /\ inner.area[1] <= inner.area[2]
  /\ dialog' = [dialog EXCEPT !.open.rendered = dialog.generation]
  /\ UNCHANGED <<bindingMode, inner, seen, addressed, fate, panicked>>

\* The end of resize and of input(Resize).
AfterResize(area) ==
  IF ~IsOpen THEN dialog
  ELSE IF RectContains(area, dialog.open.request.body) THEN Invalidated ELSE Closed

\* Session::resize; a rectangle that changes may move the context of the editor.
Resize(area) ==
  /\ area \in Areas /\ inner.generation < FacadeGenMax
  /\ inner' \in [generation : {inner.generation, inner.generation + 1}, waiting : {inner.waiting}, area : {area}]
  /\ dialog' = AfterResize(area)
  /\ fate' = IF IsOpen /\ dialog'.open = NoDialog THEN [fate EXCEPT ![dialog.open.id] = "closed"] ELSE fate
  /\ UNCHANGED <<bindingMode, seen, addressed, panicked>>

\* take_event hands out the answer before every event of the editor.
TakeAnswer ==
  /\ dialog.answer # NoAnswer
  /\ dialog' = [dialog EXCEPT !.answer = NoAnswer]
  /\ fate' = [fate EXCEPT ![dialog.answer.id] = "delivered"]
  /\ UNCHANGED <<bindingMode, inner, seen, addressed, panicked>>

\* binding_context and input_context: the host resolves a key against it.
ReadContext ==
  /\ seen' = Published
  /\ addressed' = IF bindingMode = "host" THEN AddressedFor("decision", Published) ELSE addressed
  /\ UNCHANGED <<bindingMode, inner, dialog, fate, panicked>>

\* The refusals of semantic_dispatch and cancel_pending, in their order.
RefusedWith(kind) ==
  IF kind = "decision" /\ ~IsOpen /\ bindingMode = "facade" THEN "FacadeResolved"
  ELSE IF addressed.generation # Published.facade THEN "StaleGeneration"
  ELSE IF kind = "decision" /\ IsOpen THEN "Consumed"
  ELSE IF kind = "cancel" /\ PublishedIdle THEN "NoPending"
  ELSE "no"

\* semantic_dispatch: an interruption returns a proposal, a decision moves the
\* editor or only its resolver.
SubmitAddressed ==
  /\ addressed.kind = "decision" /\ seen' = Published
  /\ IF RefusedWith("decision") # "no" THEN addressed' = NothingAddressed /\ UNCHANGED inner
     ELSE \/ addressed' = NothingAddressed /\ UNCHANGED inner
          \/ addressed' = NothingAddressed /\ inner.generation < FacadeGenMax
             /\ \E waiting \in BOOLEAN : inner' = [inner EXCEPT !.generation = @ + 1, !.waiting = waiting]
          \/ ~PublishedIdle /\ addressed' = [addressed EXCEPT !.kind = "cancel"] /\ UNCHANGED inner
  /\ UNCHANGED <<bindingMode, dialog, fate, panicked>>

\* cancel_pending publishes before and after the cancel of the editor.
CancelAddressed ==
  /\ addressed.kind = "cancel" /\ addressed' = NothingAddressed
  /\ \/ RefusedWith("cancel") # "no" /\ seen' = Published /\ UNCHANGED inner
     \/ /\ RefusedWith("cancel") = "no" /\ inner.generation < FacadeGenMax
        /\ inner' = [inner EXCEPT !.generation = @ + 1, !.waiting = FALSE]
        /\ seen' = [Published EXCEPT !.facade = @ + 1, !.inner = @ + 1]
  /\ UNCHANGED <<bindingMode, dialog, fate, panicked>>

KeyNames == {"previous", "next", "enter", "cancel"}

FacadeNext ==
  /\ ~panicked /\ dialog.generation < FacadeGenMax
  /\ \/ InnerMoves \/ CloseDialog \/ Render \/ TakeAnswer
     \/ ReadContext \/ SubmitAddressed \/ CancelAddressed
     \/ \E r \in Requests : OpenDialog(r)
     \/ \E key \in KeyNames \cup UNION {r.direct : r \in Requests} : Key(key)
     \/ \E place \in 1..ChoicesMax, action \in {"press", "motion"} : Pointer(place, action)
     \/ \E area \in Areas : Resize(area)

FacadeSpec == FacadeInit /\ [][FacadeNext]_facadeVars

-----------------------------------------------------------------------------
(* Properties. *)

\* A decision or a proposal that still counts as current was made for the
\* editor and the dialog of this moment, whoever moved them in between and
\* however often the context was read (input_context).
DecisionIsForThisContext ==
  addressed # NothingAddressed /\ addressed.generation = Published.facade =>
    addressed.inner = inner.generation /\ addressed.dialog = dialog.generation

\* "Returns exact geometry only after the current generation was rendered."
\* (DialogSnapshot::placement).
PlacementIsCurrent == IsOpen /\ dialog.open.rendered # 0 => dialog.open.rendered = dialog.generation

\* A dialog that the user answered has its one answer waiting until the host
\* takes it: no later dialog overwrites it (DialogHost::open).
OneAnswerPerDialog ==
  {id \in DOMAIN fate : fate[id] = "answered"} = {dialog.answer.id} \ {0}

\* The body of an open dialog lies inside the accepted rectangle, which the
\* expect of render relies on.
OpenDialogFits == IsOpen => RectContains(inner.area, dialog.open.request.body)

FacadeInvariant == DecisionIsForThisContext /\ PlacementIsCurrent /\ OneAnswerPerDialog /\ OpenDialogFits

\* "the validated placement names one dialog choice" (drive_pointer).
PlacementNamesOneChoice == ~panicked
=============================================================================
