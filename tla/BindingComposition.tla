--------------------------- MODULE BindingComposition --------------------------
(***************************************************************************)
(* The merged key table of a host and the editor: the projection of host   *)
(* contributions into the scopes of the editor, the explicit winners of    *)
(* conflicts (src/crates/kvim-embed/src/composition.rs), and the registry  *)
(* that validates the result (src/crates/kvim-keymap/src/registry.rs).     *)
(*                                                                         *)
(* A key is a number, so that a table of the registry has the order of a   *)
(* BTreeMap.  The contributions are sorted before anything reads them, so  *)
(* they are a set here; "copy" keeps two equal contributions apart.        *)
(* An override that is given twice, labels, identifiers and their byte     *)
(* bounds are left out.                                                    *)
(***************************************************************************)
EXTENDS Naturals, Sequences, FiniteSets

CONSTANTS
  Manifest,     \* the bindings of the editor, as Surface records
  HostCommands, \* the commands of the host
  BindingKeys,  \* the keys, as numbers
  SequenceMax,  \* PENDING_KEYS_MAX
  BindingsMax,  \* BINDINGS_MAX
  HostMax       \* bound of the model: contributions, and overrides

\* The bindings of the editor are finitely many, and each fits the resolver.
CompositionAssumption ==
  /\ BindingKeys \subseteq Nat /\ SequenceMax \in Nat
  /\ IsFiniteSet(Manifest)
  /\ \A b \in Manifest : b.keys \in Seq(Nat) /\ Len(b.keys) \in 1..SequenceMax

VARIABLES
  host,      \* the contributions of the host
  overrides, \* the explicit winners
  composed   \* what compose_with_overrides returned

compositionVars == <<host, overrides, composed>>

-----------------------------------------------------------------------------
EditorHostScopes == {"normal", "visual"}
Layers == {"global", "host", "editor", "review"}

\* for_each_projected_scope
ProjectedScopes(layer) == IF layer = "editor" THEN EditorHostScopes ELSE {layer}

Binding(scope, keys, owner, command, copy) ==
  [scope |-> scope, keys |-> keys, owner |-> owner, command |-> command, copy |-> copy]
Surface(scope, keys, command) == Binding(scope, keys, "editor", command, 1)

\* The merged table before any winner is applied.
Projected ==
  Manifest \cup UNION {{Binding(scope, b.keys, "host", b.command, b.copy) : scope \in ProjectedScopes(b.layer)}
                       : b \in host}

\* starts_with: the keys of one sequence begin the other one.
IsStartOf(s, t) == Len(s) <= Len(t) /\ \A n \in 1..Len(s) : s[n] = t[n]
IsProperStart(s, t) == IsStartOf(s, t) /\ s # t

\* conflict_kind
Conflicts(a, b) ==
  a # b /\ a.scope = b.scope /\ (IsStartOf(a.keys, b.keys) \/ IsStartOf(b.keys, a.keys))

\* The bindings that one override addresses: scope, sequence and typed identity.
Targets(o) ==
  {b \in Projected : b.scope = o.scope /\ b.keys = o.keys /\ b.owner = o.owner /\ b.command = o.command}

Winners == UNION {Targets(o) : o \in overrides}
\* Mutant: everything that starts with the keys of a winner loses, in any scope.
LosersAnywhere ==
  {b \in Projected : \E w \in Winners : w # b /\ (IsStartOf(w.keys, b.keys) \/ IsStartOf(b.keys, w.keys))}
\* A binding loses every conflict with a winner.
Losers == {b \in Projected : \E w \in Winners : Conflicts(w, b)}

Uncovered == {c \in Projected \X Projected : Conflicts(c[1], c[2]) /\ {c[1], c[2]} \cap Losers = {}}

-----------------------------------------------------------------------------
(* The registry. *)

\* The order of the sequences in one table.
Before(s, t) ==
  \/ IsProperStart(s, t)
  \/ \E n \in 1..Len(s) : /\ n <= Len(t) /\ s[n] < t[n]
                          /\ \A m \in 1..(n - 1) : s[m] = t[m]

Table(bindings, scope) == {b.keys : b \in {c \in bindings : c.scope = scope}}

\* check_prefix_pairs reads neighbours alone.
HasPrefixPair(table) ==
  \E s, t \in table : /\ Before(s, t) /\ IsStartOf(s, t)
                      /\ ~\E u \in table : Before(s, u) /\ Before(u, t)

RegistryAccepts(bindings) ==
  /\ \A a, b \in bindings : a.scope = b.scope /\ a.keys = b.keys => a = b
  /\ \A b \in bindings : Len(b.keys) \in 1..SequenceMax
  /\ \A scope \in {b.scope : b \in bindings} : ~HasPrefixPair(Table(bindings, scope))

Rejected(reason) == [refused |-> reason, table |-> {}]
Accepted(bindings) == [refused |-> "no", table |-> bindings]

\* compose_with_overrides and apply_overrides: the checks in their order.
Composed ==
  IF Cardinality(Projected) > BindingsMax THEN Rejected("TooManyProjectedBindings")
  ELSE IF \E o \in overrides : Targets(o) = {} THEN Rejected("OverrideTargetNotFound")
  ELSE IF \E o \in overrides : Cardinality(Targets(o)) > 1 THEN Rejected("OverrideTargetAmbiguous")
  ELSE IF \E v, w \in Winners : Conflicts(v, w) THEN Rejected("ConflictingOverrides")
  ELSE IF Winners \cap Losers # {} THEN Rejected("OverrideWinnerRemoved")
  ELSE IF Uncovered # {} THEN Rejected("UnapprovedConflict")
  ELSE IF \E w \in Winners : ~\E b \in Projected : Conflicts(w, b) THEN Rejected("OverrideHasNoConflict")
  ELSE IF ~RegistryAccepts(Projected \ Losers) THEN Rejected("Registry")
  ELSE Accepted(Projected \ Losers)

\* validate_reserved_escape
EscapeVerdict(key) ==
  LET table == {b \in composed.table : b.scope = "global"}
      bound == {b \in table : b.keys = <<key>>}
      longer == \E b \in table : IsProperStart(<<key>>, b.keys)
  IN CASE bound = {} -> IF longer THEN "Pending" ELSE "Absent"
       [] longer -> "Ambiguous"
       [] OTHER -> IF \E b \in bound : b.owner = "host" THEN "Usable" ELSE "EditorOwned"

-----------------------------------------------------------------------------
HostKeys == UNION {[1..n -> BindingKeys] : n \in 1..SequenceMax}
NotComposed == Rejected("not yet")

CompositionInit == host = {} /\ overrides = {} /\ composed = NotComposed

\* WorktreeHostBinding::new refuses an empty and a long sequence.
Contribute(layer, keys, command, copy) ==
  /\ composed = NotComposed /\ overrides = {} /\ Cardinality(host) < HostMax
  /\ host' = host \cup {[layer |-> layer, keys |-> keys, command |-> command, copy |-> copy]}
  /\ UNCHANGED <<overrides, composed>>

\* WorktreeBindingOverride::new addresses a binding by its typed identity.
Choose(b) ==
  /\ composed = NotComposed /\ Cardinality(overrides) < HostMax
  /\ overrides' = overrides \cup {[scope |-> b.scope, keys |-> b.keys, owner |-> b.owner, command |-> b.command]}
  /\ UNCHANGED <<host, composed>>

Compose ==
  /\ composed = NotComposed /\ composed' = Composed
  /\ UNCHANGED <<host, overrides>>

CompositionNext ==
  \/ \E layer \in Layers, keys \in HostKeys, command \in HostCommands, copy \in {1, 2} :
       Contribute(layer, keys, command, copy)
  \/ \E b \in Projected \cup Manifest : Choose(b)
  \/ Compose

CompositionSpec == CompositionInit /\ [][CompositionNext]_compositionVars

-----------------------------------------------------------------------------
(* Properties. *)

\* Every sequence of an accepted model means one thing in each scope, and no
\* sequence hides a longer one: the check of neighbours in each table finds all
\* of these pairs, and the winners leave none to it (from_bindings).
Unambiguous ==
  composed.refused = "no" => \A a, b \in composed.table : ~Conflicts(a, b)

\* When the host composes, the neighbours in the table of a scope show whether
\* any sequence starts another one (check_prefix_pairs).
NeighboursAreEnough ==
  composed # NotComposed =>
    \A scope \in {b.scope : b \in Projected} :
      HasPrefixPair(Table(Projected, scope))
        <=> \E s, t \in Table(Projected, scope) : IsProperStart(s, t)

\* A binding is missing from an accepted model only because a winner that the
\* host named, and that is present, conflicts with it; every other one stays,
\* in its own scope and beside losers of other conflicts (apply_overrides).
OnlyLosersGo ==
  composed.refused = "no" =>
    /\ composed.table \subseteq Projected /\ Winners \subseteq composed.table
    /\ \A b \in Projected \ composed.table : \E w \in composed.table :
         Conflicts(w, b) /\ \E o \in overrides : w \in Targets(o)

\* The last two refusals are never the answer: no winner loses, and what the
\* winners leave is accepted by the registry.
NoSurprise == composed.refused \notin {"OverrideWinnerRemoved", "Registry"}

\* A reserved escape that the model accepts completes one host command at once.
EscapeIsHost ==
  \A key \in BindingKeys : EscapeVerdict(key) = "Usable" =>
    {b \in composed.table : b.scope = "global" /\ IsStartOf(<<key>>, b.keys)}
      \subseteq {b \in composed.table : b.keys = <<key>> /\ b.owner = "host"}

CompositionInvariant == Unambiguous /\ NeighboursAreEnough /\ OnlyLosersGo /\ NoSurprise /\ EscapeIsHost
=============================================================================
