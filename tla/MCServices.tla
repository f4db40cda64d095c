------------------------------ MODULE MCServices ------------------------------
(***************************************************************************)
(* One model for the services that run beside an editor and share no       *)
(* state: a behaviour is one of the two halves of the watcher (WatchStream *)
(* and WatchRegistration) or one of LspProject, as "part" says.  The       *)
(* variables of the other parts keep an initial value.                     *)
(***************************************************************************)
EXTENDS LspProject, WatchStream, WatchRegistration

CONSTANTS
  d1, d2,     \* the directories of WatchStream
  r, a, b, c  \* the directories of WatchRegistration

VARIABLE part   \* the part that this behaviour is of

\* The tree has the root, two entries, and one of them nested.
ParentOf == [d \in {a, b, c} |-> IF d = b THEN a ELSE r]

ASSUME WatchAssumption /\ TreeAssumption /\ ProjectAssumption

servicesVars == <<part, streamVars, registrationVars, vars>>

ServicesInit ==
  /\ part \in {"stream", "tree", "project"}
  /\ StreamInit
  /\ RegistrationInit /\ (part = "tree" \/ exists = Tree)
  /\ Init

ServicesNext ==
  \/ part = "stream" /\ StreamNext /\ UNCHANGED <<part, registrationVars, vars>>
  \/ part = "tree" /\ RegistrationNext /\ UNCHANGED <<part, streamVars, vars>>
  \/ part = "project" /\ Next /\ UNCHANGED <<part, streamVars, registrationVars>>

InStream(A) == part = "stream" /\ A /\ UNCHANGED <<part, registrationVars, vars>>

InRegistration(A) == part = "tree" /\ A /\ UNCHANGED <<part, streamVars, vars>>

InProject(A) == part = "project" /\ A /\ UNCHANGED <<part, streamVars, registrationVars>>

ServicesSpec == ServicesInit /\ [][ServicesNext]_servicesVars
  /\ WF_servicesVars(InStream(CallbackStep))
  /\ WF_servicesVars(InStream(TaskStep))
  /\ WF_servicesVars(InStream(CloseWindow))
  /\ WF_servicesVars(InStream(Receive))
  /\ WF_servicesVars(InRegistration(WalkerStep))
  /\ \A d \in Drivers :
       /\ WF_servicesVars(InProject(CloseReturns(d))) /\ WF_servicesVars(InProject(DriverEnds(d)))
       /\ WF_servicesVars(InProject(LeftoverExits(d)))
       /\ \A s \in Servers :
            /\ WF_servicesVars(InProject(Supervise(d, s)))
            /\ WF_servicesVars(InProject(d \in cancelled /\ ServeEnds(d, s)))
            /\ WF_servicesVars(InProject(child[d][s] = "killed" /\ ChildExits(d, s)))

-----------------------------------------------------------------------------
\* The temporal properties of the parts.  The two directories, and the two openings
\* below, are alike: one stands for both.
ChangeIsSeenOrOwed ==
  (part = "stream" /\ d1 \in unseen) ~>
    (part = "stream" /\ (d1 \notin unseen \/ ReportOwed \/ task = "ended"))
\* An entry of the root without entries of its own is left out.
EntriesBecomeWatched ==
  \A d \in {a, b} :
    (part = "tree" /\ d \in exists) ~>
      (part = "tree" /\ (d \in watched \cup lapsed \/ d \notin exists \/ gap \/ walker = "ended"))
DroppedOpeningEnds ==
  LET d == CHOOSE opening \in Drivers : TRUE
  IN (part = "project" /\ handle[d].state = "gone" /\ driver[d] = "running") ~>
       (part = "project" /\ driver[d] # "running" /\ leftover[d] = 0 /\ \A s \in Servers : ~Live(child[d][s]))
=============================================================================
