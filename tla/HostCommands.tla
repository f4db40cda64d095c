------------------------------ MODULE HostCommands ------------------------------
(***************************************************************************)
(* The command line and the sidebar search that a host draws and the       *)
(* editor serves: the sessions, the walk that completes a path, and the    *)
(* identities of a search (src/crates/kvim-embed/src/worktree.rs, Session  *)
(* and CompletionWalk in src/crates/kvim-tui/src/session.rs, the           *)
(* completion slot of src/crates/kvim-tui/src/driver.rs).                  *)
(*                                                                         *)
(* The runtime is Runtime; here a walk runs, ends and waits in the queue   *)
(* of results.  A walk of the own command line of the editor is left out,  *)
(* since a host that draws the line never opens that one.                  *)
(***************************************************************************)
EXTENDS Naturals, Sequences, FiniteSets

CONSTANTS
  Queries,     \* the queries of a search; 0 is the empty one
  SessionsMax, \* bound of the model: sessions of the command line
  RequestsMax, \* bound of the model: completion requests
  SearchesMax  \* bound of the model: searches of the sidebar

VARIABLES
  hostSession,  \* host_command_session and whether it is open
  requested,    \* history: the requests so far
  walk,         \* completion_walk
  current,      \* the walk that owns COMPLETION_SLOT, or 0
  running,      \* the walks at work, by request
  results,      \* the results that wait, oldest first
  prompt,       \* whether a line of the editor itself is open
  search,       \* file_sidebar_search_prompt, active_file_sidebar_search, sequence
  treeSearch,   \* the query of the tree
  walkPanicked  \* an assertion failed

hostVars == <<hostSession, requested, walk, current, running, results, prompt, search, treeSearch, walkPanicked>>
walkVars == <<requested, walk, current, running, results>>
sideVars == <<search, treeSearch>>

-----------------------------------------------------------------------------
Unasked == [at |-> "unasked"]
HostQueued(s, r) == [at |-> "queued", session |-> s, request |-> r]
HostTaken(s, r, of) == [at |-> "taken", session |-> s, request |-> r, files |-> of]
NoFiles == 0   \* else the request whose walk found the files

SessionIsCurrent(s) == hostSession.open /\ hostSession.id = s

HostInit ==
  /\ hostSession = [id |-> 0, open |-> FALSE] /\ requested = 0 /\ walk = Unasked
  /\ current = 0 /\ running = {} /\ results = <<>> /\ prompt = FALSE
  /\ search = [prompt |-> 0, active |-> 0, sequence |-> 0] /\ treeSearch = 0 /\ walkPanicked = FALSE

\* Command::OpenCommandLine, of a key or a menu of the host.
OpenCommandLine ==
  /\ hostSession.id < SessionsMax /\ hostSession' = [id |-> hostSession.id + 1, open |-> TRUE] /\ walk' = Unasked
  /\ UNCHANGED <<requested, current, running, results, prompt, sideVars, walkPanicked>>

\* request_command_completion; a stale session or a line without a path is refused.
RequestCompletion(s) ==
  /\ SessionIsCurrent(s) /\ requested < RequestsMax /\ requested' = requested + 1
  /\ walk' = HostQueued(s, requested')
  /\ UNCHANGED <<hostSession, current, running, results, prompt, sideVars, walkPanicked>>

\* submit_completion_work: the gate forgets the walk before even when the
\* runtime refuses this one.
SubmitCompletion ==
  /\ walk.at = "queued" /\ walk' = HostTaken(walk.session, walk.request, NoFiles)
  /\ current' = walk.request
  /\ \E accepted \in BOOLEAN : running' = IF accepted THEN running \cup {walk.request} ELSE running
  /\ UNCHANGED <<hostSession, requested, results, prompt, sideVars, walkPanicked>>

\* A walk ends with files, or fails, times out or is cancelled.
EndWalk(r, outcome) ==
  /\ r \in running /\ running' = running \ {r}
  /\ results' = Append(results, [request |-> r, outcome |-> outcome])
  /\ UNCHANGED <<hostSession, requested, walk, current, prompt, sideVars, walkPanicked>>

\* Mutant: the result of a walk is applied without asking the gate.
AcceptsAll(r) == TRUE
\* PublicationGate::accepts
Accepts(r) == r = current

\* apply: a failure has no arm, and files meet the assertion of
\* apply_completion_result unless the host waits for them.
ApplyResult ==
  /\ results # <<>> /\ results' = Tail(results)
  /\ LET result == Head(results)
         files == Accepts(result.request) /\ result.outcome = "files"
     IN /\ walk' = IF files /\ walk.at = "taken" THEN [walk EXCEPT !.files = result.request] ELSE walk
        /\ walkPanicked' = (files /\ walk.at # "taken" /\ ~(prompt \/ walk = Unasked))
  /\ UNCHANGED <<hostSession, requested, current, running, prompt, sideVars>>

\* take_command_completion
TakeCompletion ==
  /\ walk.at = "taken" /\ walk.files # NoFiles /\ walk' = Unasked
  /\ UNCHANGED <<hostSession, requested, current, running, results, prompt, sideVars, walkPanicked>>

\* close_command_session, and execute_session_command after its command ran,
\* which may open or close a line of the editor.
CloseSession(s) ==
  /\ SessionIsCurrent(s) /\ hostSession' = [hostSession EXCEPT !.open = FALSE]
  /\ walk' = Unasked /\ current' = 0 /\ prompt' \in BOOLEAN
  /\ UNCHANGED <<requested, running, results, sideVars, walkPanicked>>

\* open_prompt and close_prompt drop the walk, whoever asked for it.
OpenOrClosePrompt ==
  /\ prompt' = ~prompt /\ walk' = Unasked
  /\ UNCHANGED <<hostSession, requested, current, running, results, sideVars, walkPanicked>>

-----------------------------------------------------------------------------
(* The sidebar. *)

BeginSearch ==
  /\ search.sequence < SearchesMax
  /\ search' = [search EXCEPT !.sequence = @ + 1, !.prompt = search.sequence + 1]
  /\ UNCHANGED <<hostSession, walkVars, prompt, treeSearch, walkPanicked>>

\* StartSearch, or EndSearch for the empty query.
AcceptSearch(id, query) ==
  /\ id # 0 /\ search.prompt = id /\ treeSearch' = query
  /\ search' = [search EXCEPT !.prompt = 0, !.active = IF query = 0 THEN 0 ELSE id]
  /\ UNCHANGED <<hostSession, walkVars, prompt, walkPanicked>>

UpdateSearch(id, query) ==
  /\ id # 0 /\ search.active = id /\ treeSearch' = query
  /\ search' = IF query = 0 THEN [search EXCEPT !.active = 0] ELSE search
  /\ UNCHANGED <<hostSession, walkVars, prompt, walkPanicked>>

CancelSearchPrompt(id) ==
  /\ id # 0 /\ search.prompt = id /\ search' = [search EXCEPT !.prompt = 0]
  /\ UNCHANGED <<hostSession, walkVars, prompt, treeSearch, walkPanicked>>

EndSearch(id) ==
  /\ id # 0 /\ search.active = id /\ treeSearch' = 0 /\ search' = [search EXCEPT !.active = 0]
  /\ UNCHANGED <<hostSession, walkVars, prompt, walkPanicked>>

HostNext ==
  /\ ~walkPanicked
  /\ \/ OpenCommandLine \/ SubmitCompletion \/ ApplyResult \/ TakeCompletion \/ OpenOrClosePrompt \/ BeginSearch
     \/ \E s \in 1..SessionsMax : RequestCompletion(s) \/ CloseSession(s)
     \/ \E r \in running, outcome \in {"files", "failed"} : EndWalk(r, outcome)
     \/ \E id \in 1..SearchesMax : \/ CancelSearchPrompt(id) \/ EndSearch(id)
                                   \/ \E query \in Queries : AcceptSearch(id, query) \/ UpdateSearch(id, query)

HostSpec == HostInit /\ [][HostNext]_hostVars

-----------------------------------------------------------------------------
(* Properties. *)

\* Files that the host can take answer its newest request, in the session that
\* is open, and were found by the walk of that request
\* (take_host_command_completion).
FilesAnswerTheRequest ==
  walk.at = "taken" =>
    /\ SessionIsCurrent(walk.session) /\ walk.request = requested
    /\ walk.files \in {NoFiles, walk.request}

\* The tree searches exactly when a search of the host is active, and no other
\* identity than the last accepted one can end it (require_active_search).
SearchHasItsOwner ==
  /\ (treeSearch = 0) <=> (search.active = 0)
  /\ search.active # search.prompt \/ search.active = 0

HostInvariant == FilesAnswerTheRequest /\ SearchHasItsOwner

\* "the closed prompt drops the walk of the line that asked for it", which
\* apply_completion_result asserts of every result that arrives.
WalkMeetsItsLine == ~walkPanicked
=============================================================================
