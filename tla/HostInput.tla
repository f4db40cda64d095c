-------------------------------- MODULE HostInput ------------------------------
(***************************************************************************)
(* The input of a hosted editor: the key table that it composes with its   *)
(* host (BindingComposition) and the keys that the two resolve (KeyInput). *)
(* The two share no variable: the table of KeyInput is one that            *)
(* BindingComposition accepts.                                             *)
(***************************************************************************)
EXTENDS BindingComposition, KeyInput

InputSpec == CompositionSpec /\ KeySpec

\* Every table that is accepted means one thing for each sequence, and every
\* key, prefix and decision is resolved in the context that it was typed in
\* (compose_with_overrides, dispatch, semantic_dispatch).
InputInvariant == CompositionInvariant /\ KeyInputInvariant
=============================================================================
