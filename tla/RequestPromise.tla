--------------------------- MODULE RequestPromise ---------------------------
(***************************************************************************)
(* What kvim-runtime promises its caller (the module comment of            *)
(* src/crates/kvim-runtime/src/lib.rs, SubmitError, RuntimeEvent,          *)
(* submit_committing_worker and the enum Commit), without permits, queues, *)
(* tasks or tokens: a request is refused or accepted once, an accepted     *)
(* request is answered once, and the answer of a committing request tells  *)
(* the truth about its durable effect.                                     *)
(***************************************************************************)
CONSTANTS Ordinary,   \* requests without a durable effect
          Committing  \* requests whose closure may commit one

Requests == Ordinary \cup Committing

VARIABLES status,  \* what the caller of each request knows of its acceptance
          answer,  \* the one answer of each request
          effect   \* the durable effect of each committing request

vars == <<status, answer, effect>>

Init ==
  /\ status = [r \in Requests |-> "new"]
  /\ answer = [r \in Requests |-> "none"]
  /\ effect = [r \in Requests |-> "none"]

\* SubmitError: no work starts and no event follows.
Refuse(r) ==
  /\ status[r] = "new"
  /\ status' = [status EXCEPT ![r] = "refused"]
  /\ UNCHANGED <<answer, effect>>

Accept(r) ==
  /\ status[r] = "new"
  /\ status' = [status EXCEPT ![r] = "accepted"]
  /\ UNCHANGED <<answer, effect>>

\* The commit point: the closure starts while its request is unanswered.
OpenEffect(r) ==
  /\ r \in Committing
  /\ status[r] = "accepted"
  /\ effect[r] = "none"
  /\ effect' = [effect EXCEPT ![r] = "open"]
  /\ UNCHANGED <<status, answer>>

CloseEffect(r) ==
  /\ effect[r] = "open"
  /\ status[r] = "accepted"
  /\ \E end \in {"ok", "error"} : effect' = [effect EXCEPT ![r] = end]
  /\ UNCHANGED <<status, answer>>

\* An ordinary request may lose its work; a committing one only before the
\* commit point, and otherwise reports how the effect ended.
Truthful(r, outcome) ==
  r \in Committing =>
    CASE effect[r] = "ok" -> outcome = "Value"
      [] effect[r] = "error" -> outcome = "WorkerFailure"
      [] effect[r] = "none" -> outcome \in {"Cancelled", "Timeout"}
      [] OTHER -> FALSE

Reply(r) ==
  /\ status[r] = "accepted"
  /\ \E outcome \in {"Value", "Cancelled", "Timeout", "WorkerFailure", "ProcessFailure"} :
       /\ Truthful(r, outcome)
       /\ answer' = [answer EXCEPT ![r] = outcome]
  /\ status' = [status EXCEPT ![r] = "answered"]
  /\ UNCHANGED effect

Next == \E r \in Requests :
          Refuse(r) \/ Accept(r) \/ OpenEffect(r) \/ CloseEffect(r) \/ Reply(r)

Spec == Init /\ [][Next]_vars
=============================================================================
