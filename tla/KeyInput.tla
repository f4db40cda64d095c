-------------------------------- MODULE KeyInput -------------------------------
(***************************************************************************)
(* One key from the keyboard to the buffer: the shared resolver and its    *)
(* pending prefix (src/crates/kvim-keymap/src/resolver.rs), the semantic   *)
(* reducer and its phases (src/crates/kvim-input/src/reducer.rs), the      *)
(* standalone adapter (resolver.rs of the same crate), the session that    *)
(* runs the command (src/crates/kvim-tui/src/session.rs) and the operator  *)
(* that waits in the editing state (src/crates/kvim-editor/src/state.rs).  *)
(*                                                                         *)
(* A hosted editor resolves no key.  Its host resolves against the context *)
(* that the editor published and submits a decision that names the         *)
(* generation of that context (src/crates/kvim-embed/src/worktree.rs).     *)
(*                                                                         *)
(* A generation is only ever compared with an earlier one, and it never    *)
(* returns.  What was armed or decided under a generation therefore        *)
(* carries "current", which every new generation makes FALSE for good.     *)
(* The binding table keeps one key of each class that the code tells       *)
(* apart.                                                                  *)
(***************************************************************************)
EXTENDS Naturals, Sequences, FiniteSets

CONSTANTS
  HostTable,  \* the host-global bindings, as [keys, command] records
  CountMax,   \* InputSettings::count_max
  KeysMax     \* InputSettings::pending_keys_max

Keys == {"1", "0", "w", "d", "g", "i", "v", "x", "r", ":", "p", "tab", "ret", "esc", "bs", "^e"}

\* The registry takes no longer sequence, and the longest of the editor has
\* three keys.
KeyInputAssumption ==
  /\ CountMax \in Nat \ {0} /\ KeysMax \in Nat /\ KeysMax >= 3
  /\ \A b \in HostTable : b.keys \in Seq(Keys) /\ Len(b.keys) \in 1..KeysMax

VARIABLES
  hosted,   \* whether a host resolves the keys
  prefix,   \* PendingPrefix of the shared resolver
  reducer,  \* SemanticReducer
  session,  \* the owners of the keys and EditingState
  held,     \* the decision of the host that it has not submitted yet
  last      \* what the last input was to the editor

keyVars == <<hosted, prefix, reducer, session, held, last>>

Typed == {"1", "0", "w", "d", "g", "i", "v", "x", "r", ":", "p"}
RegisterNames == Typed \ {":"}
Modes == {"normal", "insert", "visual"}

Bind(keys, command) == [keys |-> keys, command |-> command]
Motions == {Bind(<<"w">>, "motion"), Bind(<<"0">>, "first-column"), Bind(<<"g", "g">>, "motion")}
CountAndRegister == {Bind(<<"1">>, "digit"), Bind(<<"r">>, "register")}
TextObjects == {Bind(<<"i", "w">>, "object")}
ModeKeys == {Bind(<<"i">>, "insert"), Bind(<<"v">>, "visual"), Bind(<<":">>, "command-line")}
NormalEdits == {Bind(<<"d">>, "operator"), Bind(<<"x">>, "edit"), Bind(<<"esc">>, "end-search")}
Leaders == {Bind(<<"g", "p">>, "picker"), Bind(<<"g", "i", "w">>, "save")}
VisualKeys == {Bind(<<"d">>, "delete-selection"), Bind(<<"v">>, "to-normal"), Bind(<<"esc">>, "to-normal")}
OperatorPending == Motions \cup {Bind(<<"d">>, "operator"), Bind(<<"esc">>, "to-normal")}
InsertKeys == {Bind(<<"esc">>, "to-normal"), Bind(<<"bs">>, "edit")}
PromptKeys == {Bind(<<"ret">>, "accept"), Bind(<<"esc">>, "cancel"),
               Bind(<<"tab">>, "complete"), Bind(<<"bs">>, "line-edit")}
PickerKeys == {Bind(<<"tab">>, "pick-next")}

Bindings(scope) ==
  CASE scope = "normal" -> ModeKeys \cup Motions \cup NormalEdits \cup Leaders \cup CountAndRegister
    [] scope = "visual" -> Motions \cup VisualKeys \cup TextObjects \cup CountAndRegister
    [] scope = "operator-pending" -> OperatorPending \cup TextObjects \cup {Bind(<<"1">>, "digit")}
    [] scope = "insert" -> InsertKeys
    [] scope = "prompt" -> PromptKeys
    [] scope = "picker" -> PickerKeys
    [] scope = "global" -> HostTable
    [] OTHER -> {}

-----------------------------------------------------------------------------
(* The registry and the resolver. *)

Completes(scope, keys) == \E b \in Bindings(scope) : b.keys = keys
CommandOf(scope, keys) == (CHOOSE b \in Bindings(scope) : b.keys = keys).command
Extends(scope, keys) ==
  \E b \in Bindings(scope) : Len(keys) < Len(b.keys) /\ SubSeq(b.keys, 1, Len(keys)) = keys

\* What one dispatch returns: "interrupted" and "host" belong to the host.
Answered(kind, command) == [kind |-> kind, command |-> command]
NoPrefix == [owner |-> "none", keys |-> <<>>, order |-> <<>>, current |-> FALSE]
Armed(owner, keys, order) == [owner |-> owner, keys |-> keys, order |-> order, current |-> TRUE]
First(order, scopes) == order[CHOOSE n \in DOMAIN order : /\ order[n] \in scopes
                                                          /\ \A m \in 1..(n - 1) : order[m] \notin scopes]
ScopesOf(order) == {order[n] : n \in DOMAIN order}
Completing(order, keys) == {s \in ScopesOf(order) : Completes(s, keys)}
Extending(order, keys) == {s \in ScopesOf(order) : Extends(s, keys)}
Bound(scope, keys) == Answered(IF scope = "global" THEN "host" ELSE "command", CommandOf(scope, keys))

\* The scopes of the order before the owner of the prefix.
Preceding(order, owner) ==
  SubSeq(order, 1, (CHOOSE n \in DOMAIN order : order[n] = owner) - 1)

\* start_sequence and continue_prefix: the answer and the prefix that it leaves.
\* The first scope that extends the sequence owns it, for every key anew.
Resolve(p, order, key, fallback) ==
  LET keys == p.keys \o <<key>> IN
  IF Completing(order, keys) # {}
  THEN [answer |-> Bound(First(order, Completing(order, keys)), keys), prefix |-> NoPrefix]
  ELSE IF Extending(order, keys) # {}
  THEN [answer |-> Answered("pending", "none"),
        prefix |-> Armed(First(order, Extending(order, keys)), keys, order)]
  ELSE [answer |->
          IF p.keys = <<>>
          THEN IF key \in Typed /\ fallback THEN Answered("text", key) ELSE Answered("unbound", "none")
          ELSE LET before == Preceding(order, p.owner) IN
               IF Completing(before, <<key>>) # {}
               THEN Answered("interrupted", CommandOf(First(before, Completing(before, <<key>>)), <<key>>))
               ELSE Answered("unbound", "none"),
        prefix |-> NoPrefix]

\* dispatch: another context clears the prefix first.
SameContext(p, order) == p.current /\ p.order = order

Dispatched(p, order, key, fallback) ==
  Resolve(IF SameContext(p, order) THEN p ELSE NoPrefix, order, key, fallback)

-----------------------------------------------------------------------------
(* The reducer.  "renewed" is TRUE when this step published a generation. *)

Reset(r) == [context |-> r.context, count |-> 0, operator |-> FALSE, register |-> "empty",
             object |-> FALSE, renewed |-> TRUE]

\* Mutant: another context resets the grammar and publishes no generation.
SetContextQuietly(r, context) ==
  IF context = r.context THEN r ELSE [Reset([r EXCEPT !.context = context]) EXCEPT !.renewed = r.renewed]
\* set_context: an unchanged context keeps a pending sequence alive.
SetContext(r, context) ==
  IF context = r.context THEN r ELSE Reset([r EXCEPT !.context = context])

OwningScope(context) ==
  IF context.question THEN "confirmation" ELSE IF context.line # "none" THEN "prompt" ELSE context.mode
\* active_scope
ActiveScope(r) ==
  LET scope == OwningScope(r.context) IN
  IF scope \in {"prompt", "confirmation"} THEN scope
  ELSE IF r.register = "selecting" THEN "register"
  ELSE IF r.operator THEN "operator-pending"
  ELSE scope
TextFallback(scope) == scope \in {"insert", "prompt", "register"}
BindsTextObjects(scope) == scope \in {"operator-pending", "visual"}

\* phases
Phases(r) == [count |-> r.count # 0, operator |-> r.operator, register |-> r.register # "empty",
              object |-> r.object, prompt |-> OwningScope(r.context) \in {"prompt", "confirmation"}]
PhasesIdle(r) == \A phase \in DOMAIN Phases(r) : ~Phases(r)[phase]

\* dispatch_context, with the host-global scope of a hosted editor
ScopeOrder(r) ==
  LET scope == ActiveScope(r) IN
  (IF scope = "prompt" /\ r.context.line = "picker" THEN <<"picker">> ELSE <<>>)
    \o (IF hosted THEN <<"global">> ELSE <<>>) \o <<scope>>

HoldsGrammarPrefix(r) == r.count # 0 \/ r.register # "empty"

\* A reduction: the reducer after it, and what the editor makes of it.
Reduced(r, kind, command) == [reducer |-> r, kind |-> kind, command |-> command]

GrowCount(r, digit) ==
  LET next == r.count * 10 + digit IN
  IF next > CountMax THEN Reduced(Reset(r), "unbound", "none")
  ELSE Reduced([r EXCEPT !.count = next, !.renewed = TRUE], "prefix", "none")

SelectRegister(r) ==
  Reduced([r EXCEPT !.register = "selecting", !.renewed = TRUE], "prefix", "none")

\* command
Complete(r, command) ==
  LET q == [r EXCEPT !.object = FALSE] IN
  CASE command = "digit" -> GrowCount(q, 1)
    [] command = "first-column" /\ r.count # 0 -> GrowCount(q, 0)
    [] command = "register" -> SelectRegister(q)
    [] OTHER -> Reduced([Reset(r) EXCEPT !.operator = ~r.operator /\ command = "operator"],
                        "operation", command)

\* text
Text(r, key) ==
  IF r.register # "selecting" THEN Reduced([r EXCEPT !.object = FALSE], "text", key)
  ELSE IF key \in RegisterNames
  THEN Reduced([r EXCEPT !.register = "selected", !.renewed = TRUE], "prefix", "none")
  ELSE Reduced(Reset(r), "unbound", "none")

\* reduce.  The interruption of a hosted editor arrives as a cancel instead.
Reduce(r, answer) ==
  CASE answer.kind = "pending" ->
         Reduced([r EXCEPT !.object = BindsTextObjects(ActiveScope(r))], "prefix", "none")
    [] answer.kind = "command" -> Complete(r, answer.command)
    [] answer.kind = "text" -> Text(r, answer.command)
    [] OTHER -> Reduced(Reset(r), "unbound", "none")

\* Mutant: a cancel resets the reducer alone.
CancelReducer(r) == Reduced(Reset(r), "cancelled", "none")
\* cancel: the operator waits in the editor too.
Cancel(r) ==
  Reduced(Reset(r), IF r.operator THEN "operation" ELSE "cancelled",
          IF r.operator THEN "to-normal" ELSE "none")

\* unsupported
Unsupported(r) ==
  IF ActiveScope(r) = "operator-pending" THEN Reduced(Reset(r), "operation", "to-normal")
  ELSE Reduced(Reset(r), "unbound", "none")

-----------------------------------------------------------------------------
(* The session and the editing state. *)

\* EditingState::dispatch: a waiting operator takes any command.
Edit(editing, command) ==
  IF editing.waits THEN [editing EXCEPT !.waits = FALSE]
  ELSE CASE command = "operator" -> [editing EXCEPT !.waits = TRUE]
         [] command \in {"to-normal", "delete-selection"} -> [editing EXCEPT !.mode = "normal"]
         [] command \in {"insert", "visual"} -> [editing EXCEPT !.mode = command]
         [] OTHER -> editing
NewEditing == [mode |-> "normal", waits |-> FALSE]

ContextOf(s) ==
  [question |-> s.question, line |-> IF s.line = "menu" THEN "command" ELSE s.line, mode |-> s.editing.mode]
\* sync_context
Synced(r, s) == [reducer |-> SetContext(r, ContextOf(s)), session |-> s]

LineCommands == {"accept", "cancel", "complete", "line-edit"}
\* apply_prompt: an open candidate list takes the cancel first.  The text of a
\* line is left out, so a deletion finds it empty and closes the line.
LineAfter(s, command) ==
  CASE command = "accept" -> "none"
    [] command = "cancel" -> IF s.line = "menu" THEN "command" ELSE "none"
    [] command = "complete" -> IF s.line = "command" THEN "menu" ELSE s.line
    [] OTHER -> IF s.line = "menu" THEN "command" ELSE "none"

\* dispatch_command
Run(r, s, command) ==
  IF s.question THEN [reducer |-> r, session |-> s]
  ELSE IF s.line # "none" /\ command \in LineCommands
  THEN Synced(r, [s EXCEPT !.line = LineAfter(s, command)])
  ELSE IF s.line = "picker" THEN [reducer |-> r, session |-> s]
  ELSE CASE command = "command-line" -> Synced(r, [s EXCEPT !.line = "command"])
         [] command = "picker" -> Synced(r, [s EXCEPT !.line = "picker"])
         [] command \in {"end-search", "save"} -> [reducer |-> r, session |-> s]
         [] OTHER -> Synced(r, [s EXCEPT !.editing = Edit(s.editing, command)])

\* apply_resolution
Applied(reduced, s) ==
  CASE reduced.kind = "operation" -> Run(reduced.reducer, s, reduced.command)
    [] reduced.kind = "text" /\ s.line = "menu" ->
         [reducer |-> reduced.reducer, session |-> [s EXCEPT !.line = "command"]]
    [] OTHER -> [reducer |-> reduced.reducer, session |-> s]

Fresh == [reducer EXCEPT !.renewed = FALSE]
\* The generation that this step published outdates the decision of the host.
Outdated(d, r) == [d EXCEPT !.current = @ /\ ~r.renewed]
\* The adapter clears its prefix with the reset; a host only finds it outdated.
PrefixAfter(p, r) ==
  IF hosted THEN [p EXCEPT !.current = @ /\ ~r.renewed] ELSE IF r.renewed THEN NoPrefix ELSE p

-----------------------------------------------------------------------------
Seen(r) == [r EXCEPT !.object = FALSE, !.renewed = FALSE]
Decision(kind, command) == [kind |-> kind, command |-> command, current |-> TRUE, seen |-> Seen(reducer)]
NoDecision == [kind |-> "none", command |-> "none", current |-> FALSE, seen |-> "nothing"]

KeyInit ==
  /\ hosted \in BOOLEAN
  /\ prefix = NoPrefix
  /\ session = [editing |-> NewEditing, line |-> "none", question |-> FALSE]
  /\ reducer = [context |-> ContextOf(session), count |-> 0, operator |-> FALSE, register |-> "empty",
                object |-> FALSE, renewed |-> FALSE]
  /\ held = NoDecision
  /\ last = "none"

\* What one input made of the prefix, the reducer and the session.
Leaves(p, result, input) ==
  /\ reducer' = result.reducer
  /\ session' = result.session
  /\ prefix' = PrefixAfter(p, result.reducer)
  /\ held' = Outdated(held, result.reducer)
  /\ last' = input
  /\ UNCHANGED hosted

\* step_back: the owner of the shorter prefix is found again.
Shortened(p) ==
  LET keys == SubSeq(p.keys, 1, Len(p.keys) - 1) IN
  IF keys = <<>> THEN NoPrefix
  ELSE [p EXCEPT !.keys = keys, !.owner = First(p.order, Extending(p.order, keys))]
StepBack == prefix.keys # <<>> /\ Leaves(Shortened(prefix), [reducer |-> Fresh, session |-> session], "back")

\* Resolver::resolve of a standalone editor.
CancelKey == "esc"
HoldsPendingInput == prefix.keys # <<>> \/ HoldsGrammarPrefix(reducer)
PressCancel ==
  /\ ~hosted /\ ~session.question /\ HoldsPendingInput
  /\ Leaves(NoPrefix, Applied(Cancel(Fresh), session), "cancelled")

Press(key) ==
  /\ ~hosted /\ ~session.question
  /\ key = "bs" => prefix.keys = <<>>
  /\ key = CancelKey => ~HoldsPendingInput
  /\ LET found == Dispatched(prefix, ScopeOrder(reducer), key, TextFallback(ActiveScope(reducer)))
         reduced == Reduce(Fresh, found.answer)
     IN Leaves(found.prefix, Applied(reduced, session), reduced.kind)
PressBack == ~hosted /\ ~session.question /\ StepBack

\* Input that the terminal cannot name.
PressUnsupported ==
  /\ ~hosted /\ ~session.question
  /\ Leaves(NoPrefix, Applied(Unsupported(Fresh), session), "unsupported")

-----------------------------------------------------------------------------
(* The host of a hosted editor. *)

\* The resolver of the host decides against the published context.
Decide(key) ==
  /\ hosted /\ held.kind = "none"
  /\ key = "bs" => prefix.keys = <<>>
  /\ LET found == Dispatched(prefix, ScopeOrder(reducer), key, TextFallback(ActiveScope(reducer)))
     IN /\ prefix' = found.prefix
        /\ held' = IF found.answer.kind = "host" THEN NoDecision
                   ELSE Decision(found.answer.kind, found.answer.command)
  /\ last' = "decided"
  /\ UNCHANGED <<hosted, reducer, session>>
HostBack == hosted /\ held.kind = "none" /\ StepBack

\* semantic_dispatch compares the generations.
Current(decision) == decision.current

Refused ==
  /\ held.kind # "none" /\ ~Current(held)
  /\ held' = NoDecision /\ last' = "refused"
  /\ UNCHANGED <<hosted, prefix, reducer, session>>

\* A prefix reaches the reducer only in a scope that binds text objects.
SubmitDecision ==
  /\ held.kind \in {"command", "text", "unbound", "pending"} /\ Current(held)
  /\ LET reduced == IF held.kind = "pending" /\ ~BindsTextObjects(ActiveScope(reducer))
                    THEN Reduced(Fresh, "prefix", "none")
                    ELSE Reduce(Fresh, held)
         result == Applied(reduced, session)
     IN /\ reducer' = result.reducer /\ session' = result.session
        /\ prefix' = PrefixAfter(prefix, result.reducer)
        /\ last' = reduced.kind
  /\ held' = NoDecision
  /\ UNCHANGED hosted

\* An interruption proposes the cancel; an idle editor refuses it.
SubmitInterruption ==
  /\ held.kind = "interrupted" /\ Current(held)
  /\ IF PhasesIdle(reducer) THEN held' = NoDecision /\ last' = "refused"
     ELSE held' = [held EXCEPT !.kind = "proposal"] /\ last' = "proposed"
  /\ UNCHANGED <<hosted, prefix, reducer, session>>

\* Session::cancel_pending: the question, the line, then the grammar.
CancelPending(r, s) ==
  LET answered == IF s.question THEN Synced(r, [s EXCEPT !.question = FALSE])
                  ELSE [reducer |-> r, session |-> s]
      closed == IF s.line # "none"
                THEN Synced(answered.reducer,
                            [answered.session EXCEPT !.line = LineAfter(s, "cancel")])
                ELSE answered
  IN Applied(Cancel(closed.reducer), closed.session)

\* The composer proposes the same cancel before it moves the focus.
Propose ==
  /\ hosted /\ held.kind = "none" /\ ~PhasesIdle(reducer)
  /\ held' = Decision("proposal", "none")
  /\ last' = "proposed"
  /\ UNCHANGED <<hosted, prefix, reducer, session>>

SubmitCancel ==
  /\ held.kind = "proposal" /\ Current(held)
  /\ LET result == CancelPending(Fresh, session) IN
     /\ reducer' = result.reducer /\ session' = result.session
     /\ prefix' = PrefixAfter(prefix, result.reducer)
  /\ held' = NoDecision /\ last' = "resumed"
  /\ UNCHANGED hosted

-----------------------------------------------------------------------------
(* What happens to the editor between two keys. *)

Quietly(result) == Leaves(prefix, result, "none")

\* open_confirmation, for the answer of a worker
Ask == ~session.question /\ Quietly(Synced(Fresh, [session EXCEPT !.question = TRUE]))
\* answer_confirmation
AnswerQuestion == session.question /\ Quietly(Synced(Fresh, [session EXCEPT !.question = FALSE]))
\* publish_open: the focused window shows another buffer.
OpenCompletes ==
  Quietly([reducer |-> Fresh, session |-> [session EXCEPT !.editing = NewEditing]])
\* handle_pointer_click on the text of a window.
Click(otherWindow, otherBuffer) ==
  /\ ~session.question /\ session.line # "picker" /\ (otherBuffer => otherWindow)
  /\ LET editing == IF otherBuffer THEN NewEditing
                    ELSE IF session.editing.mode = "visual" THEN [session.editing EXCEPT !.mode = "normal"]
                    ELSE session.editing
         result == Synced(IF otherWindow THEN Reset(Fresh) ELSE Fresh, [session EXCEPT !.editing = editing])
     IN Leaves(IF hosted \/ ~otherWindow THEN prefix ELSE NoPrefix, result, "clicked")

KeyNext ==
  \/ \E key \in Keys : Press(key) \/ Decide(key)
  \/ PressCancel \/ PressBack \/ PressUnsupported
  \/ HostBack \/ Refused \/ SubmitDecision \/ SubmitInterruption \/ Propose \/ SubmitCancel
  \/ Ask \/ AnswerQuestion \/ OpenCompletes
  \/ \E otherWindow, otherBuffer \in BOOLEAN : Click(otherWindow, otherBuffer)

KeySpec == KeyInit /\ [][KeyNext]_keyVars

-----------------------------------------------------------------------------
(* Properties. *)

KeyTypes ==
  /\ prefix.owner \in {"none", "global", "picker", "normal", "visual", "operator-pending"}
  /\ reducer.count \in 0..CountMax /\ reducer.register \in {"empty", "selecting", "selected"}
  /\ session.editing \in [mode : Modes, waits : BOOLEAN]
  /\ session.line \in {"none", "command", "menu", "picker"}

\* A pending prefix is always the start of a binding of the scope that owns it
\* and complete in no scope, so a step back finds an owner and room is left for
\* one key, whatever was typed, stepped back and outdated before
\* (step_back, dispatch_key).  The owner is the first scope that extends the
\* whole sequence, which is docs/input-actions.md:495-496, "The owning scope can
\* therefore change from one key to the next", and not the comment of dispatch,
\* which SequenceKeepsItsOwner states.
PrefixIsLive ==
  prefix.keys # <<>> =>
    /\ Len(prefix.keys) < KeysMax
    /\ prefix.owner = First(prefix.order, Extending(prefix.order, prefix.keys))
    /\ Completing(prefix.order, prefix.keys) = {}

\* A key that the which-key overlay lists as an extension, or as an
\* interruption, never resolves to nothing (hints, interruptions).
HintsAnswer ==
  SameContext(prefix, ScopeOrder(reducer)) /\ prefix.keys # <<>> =>
    \A key \in Keys :
      (\/ \E s \in ScopesOf(prefix.order) : \E b \in Bindings(s) :
            Len(prefix.keys) < Len(b.keys) /\ SubSeq(b.keys, 1, Len(prefix.keys) + 1) = Append(prefix.keys, key)
       \/ Completing(Preceding(prefix.order, prefix.owner), <<key>>) # {})
      => Dispatched(prefix, prefix.order, key, FALSE).answer.kind # "unbound"

\* Input that nothing took, and every cancel, leaves no phase of the grammar
\* (docs/input-actions.md, Reset Rules).
ResetIsComplete ==
  last \in {"unbound", "cancelled", "unsupported"} =>
    \A phase \in {"count", "operator", "register", "object"} : ~Phases(reducer)[phase]

\* What a prefix or a decision of the host still counts as current for is the
\* context that it was armed or decided in, whatever question, click or answer
\* of a worker came between (generation, dispatch, semantic_dispatch).
CurrentMeansUnchanged ==
  /\ held.current => held.seen = Seen(reducer)
  /\ prefix.current => prefix.order = ScopeOrder(reducer)

\* The comment of dispatch, resolver.rs:1114-1115: "A pending prefix keeps the
\* scope that armed it, so a sequence never changes owner in the middle."  It does
\* where the host's group and the editor's share their first key (continue_prefix).
SequenceKeepsItsOwner ==
  prefix.keys # <<>> =>
    prefix.owner = First(prefix.order, Extending(prefix.order, SubSeq(prefix.keys, 1, 1)))

KeyInputInvariant == KeyTypes /\ PrefixIsLive /\ HintsAnswer /\ ResetIsComplete /\ CurrentMeansUnchanged

\* A cancel of any kind ends the operator in the editor as well as in the
\* reducer, so the next motion changes no text (cancel, unsupported).
CancelReachesEditor ==
  [][last' \in {"cancelled", "unsupported", "resumed"} /\ reducer.operator => ~session'.editing.waits]_keyVars

\* docs/input-actions.md, Evaluation: a key that no binding takes aborts the
\* operator.  The editor still waits, and the next motion changes text.
UnboundAborts == last = "unbound" => ~session.editing.waits

\* worktree.rs asserts that a cancel leaves no phase, but the first cancel of a
\* command line only closes its candidate list.
CancelEndsIdle == last = "resumed" => PhasesIdle(reducer)

\* sync_context: the published context is the one that the open owners and the
\* mode derive.  A file that opens in Insert mode leaves it behind.
ContextIsTrue == reducer.context = ContextOf(session)
=============================================================================
