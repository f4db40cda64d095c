----------------------------- MODULE MCRuntime -----------------------------
(***************************************************************************)
(* A small instance of Runtime for TLC: one request of each kind.          *)
(***************************************************************************)
EXTENDS Runtime
=============================================================================
