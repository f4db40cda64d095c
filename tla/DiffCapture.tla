----------------------------- MODULE DiffCapture -----------------------------
(***************************************************************************)
(* The capture of one comparison of a worktree: passes of Git commands     *)
(* over a repository that other programs change between any two of them,   *)
(* the fingerprint of every pass, and the decision to publish, to try      *)
(* again or to refuse (src/crates/kvim-workspace/src/diff_capture.rs).     *)
(*                                                                         *)
(* The repository has one tracked file and one untracked name, a content   *)
(* is a number and 0 is none.  A command reads one moment.  Renames, modes,*)
(* pathspecs, output limits and the texts are left out.                    *)
(***************************************************************************)
EXTENDS Naturals, Sequences, FiniteSets

CONSTANTS
  ChangesMax,  \* for each of "base", "staged" and "unstaged" that is captured, the
               \* changes of other programs during the capture
  Touched,     \* the parts of the repository that they change
  AttemptsMax  \* DIFF_CAPTURE_ATTEMPTS_MAX

VARIABLES
  comparison, repository,
  step, pass, attempt,
  reads,       \* the answers of the current pass
  fingerprints,\* of the first and of the second pass
  candidate,   \* what the second pass built
  verdict,     \* "none", "published" or a failure
  moments,     \* every candidate that one moment of the capture had
  still,       \* history: which of the last three passes saw no change
  changed      \* the changes so far

diffVars ==
  <<comparison, repository, step, pass, attempt, reads, fingerprints, candidate, verdict, moments, still, changed>>

-----------------------------------------------------------------------------
(* One moment of a repository. *)

Repositories == [head : 0..2, index : 1..2, work : 1..2, other : 0..2]

\* The sides that a comparison reads; the base commit holds content 1.
OldSide(r) == CASE comparison = "base" -> 1 [] comparison = "staged" -> r.head [] comparison = "unstaged" -> r.index
NewSide(r) == IF comparison = "staged" THEN r.index ELSE r.work

\* reads_worktree
ReadsWorktree == comparison # "staged"

\* The status names the contents of the commit and of the index, not of the worktree.
StatusOf(r) ==
  <<IF r.head = r.index /\ r.index = r.work THEN <<>> ELSE <<r.head, r.index, r.index = r.work>>, r.other # 0>>

\* "same" publishes no record and no section.
RawOf(r) == IF OldSide(r) = NewSide(r) THEN "same" ELSE IF OldSide(r) = 0 THEN "added" ELSE "modified"
PatchOf(r) == IF RawOf(r) = "same" THEN <<>> ELSE <<OldSide(r), NewSide(r)>>

-----------------------------------------------------------------------------
(* A pass and its candidate. *)

NoReads == [head |-> 0, index |-> 0, status |-> <<>>, listed |-> FALSE, raw |-> "same", patch |-> <<>>]

Candidate(old, raw, patch, untracked) == [old |-> old, raw |-> raw, patch |-> patch, untracked |-> untracked]
NoCandidate == Candidate(0, "same", <<>>, 0)

\* The old side of a candidate is the commit or the index that the pass read first.
NamedOld(head, index) ==
  CASE comparison = "base" -> 1 [] comparison = "staged" -> head [] comparison = "unstaged" -> index

\* The candidate of one moment.
CandidateAt(r) ==
  Candidate(NamedOld(r.head, r.index), RawOf(r), PatchOf(r), IF ReadsWorktree THEN r.other ELSE 0)

\* authority_projection: an added file publishes its new side alone.
Projection(c) ==
  <<c.old, c.raw, CASE c.raw = "same" -> <<>> [] c.raw = "added" -> <<c.patch[2]>> [] c.raw = "modified" -> c.patch,
    c.untracked>>

Fingerprint(head, index, status, c) ==
  [head |-> head, index |-> index, status |-> status, projection |-> Projection(c)]
NoFingerprint == Fingerprint(0, 0, <<>>, NoCandidate)

\* Mutant: the decision compares the authority of the first two passes alone.
AgreeOnAuthority(first, second, last) == first.head = second.head /\ first.index = second.index
Agree(first, second, last) == first = second /\ second = last

Steps == <<"head", "index", "status", "untracked", "raw", "patch", "contents">>

-----------------------------------------------------------------------------
DiffInit ==
  /\ comparison \in DOMAIN ChangesMax
  /\ repository \in {r \in Repositories : r.work = 2 /\ r.other = 0}
  /\ step = (IF comparison = "base" THEN "base_kind" ELSE "head") /\ pass = "initial" /\ attempt = 0
  /\ reads = NoReads /\ fingerprints = <<NoFingerprint, NoFingerprint>> /\ candidate = NoCandidate
  /\ verdict = "none" /\ moments = {CandidateAt(repository)} /\ still = <<TRUE, TRUE, TRUE>> /\ changed = 0

\* A commit or a reset, a file that is staged or not any more, an edit, an
\* untracked file that comes, changes or goes.
NextRepositories(r) ==
  {q \in {[r EXCEPT !.head = h] : h \in {1, 2, r.index}} \cup {[r EXCEPT !.index = i] : i \in {r.work, r.head} \ {0}}
           \cup {[r EXCEPT !.work = 3 - @]} \cup {[r EXCEPT !.other = n] : n \in 0..2} :
     \A side \in DOMAIN r \ Touched : q[side] = r[side]}

\* No command of the pass has run yet.
PassBegins == step \in {"base_kind", "head"}

Change(r) ==
  /\ verdict = "none" /\ changed < ChangesMax[comparison] /\ r # repository
  /\ repository' = r /\ changed' = changed + 1 /\ moments' = moments \cup {CandidateAt(r)}
  /\ still' = [still EXCEPT ![3] = @ /\ PassBegins]
  /\ UNCHANGED <<comparison, step, pass, attempt, reads, fingerprints, candidate, verdict>>

\* publish consumes the capture: only what it published is left of it.
End(outcome, collected, quiet) ==
  /\ verdict' = outcome /\ candidate' = collected /\ still' = quiet
  /\ step' = "done" /\ pass' = "done" /\ reads' = NoReads /\ fingerprints' = <<NoFingerprint, NoFingerprint>>
  /\ UNCHANGED <<comparison, repository, attempt, moments, changed>>
Fail(failure) == End(failure, NoCandidate, <<TRUE, TRUE, TRUE>>)

Answer(next, answers) ==
  /\ step' = next /\ reads' = answers
  /\ UNCHANGED <<comparison, repository, pass, attempt, fingerprints, candidate, verdict, moments, still, changed>>

\* publish: every command that is not the last of a pass; a missing base refuses the capture.
BaseKind(exists) ==
  step = "base_kind" /\ verdict = "none" /\ IF exists THEN Answer("head", reads) ELSE Fail("base_unavailable")

\* collect_files: a record without its section, or a section without its record.
Torn(patch) == (reads.raw = "same") # (patch = <<>>)

Read ==
  /\ verdict = "none"
  /\ \/ step = "head" /\ Answer("index", [reads EXCEPT !.head = repository.head])
     \/ step = "index" /\ Answer("status", [reads EXCEPT !.index = repository.index])
     \/ /\ step = "status"
        /\ Answer(IF ReadsWorktree THEN "untracked" ELSE "raw", [reads EXCEPT !.status = StatusOf(repository)])
     \/ step = "untracked" /\ Answer("raw", [reads EXCEPT !.listed = repository.other # 0])
     \/ step = "raw" /\ Answer("patch", [reads EXCEPT !.raw = RawOf(repository)])
     \/ /\ step = "patch"
        /\ IF Torn(PatchOf(repository)) THEN Fail("unavailable")
           ELSE Answer("contents", [reads EXCEPT !.patch = PatchOf(repository)])

\* A command that Git refuses.
Refuse == verdict = "none" /\ step \notin {"base_kind", "contents"} /\ Fail("unavailable")

\* untracked_files reads the contents after the last command of the pass.
Collected ==
  Candidate(NamedOld(reads.head, reads.index), reads.raw, reads.patch, IF reads.listed THEN repository.other ELSE 0)

NextPass(next, tries, kept, collected, quiet) ==
  /\ step' = "head" /\ reads' = NoReads /\ pass' = next /\ attempt' = tries
  /\ fingerprints' = kept /\ candidate' = collected /\ still' = quiet
  /\ UNCHANGED <<comparison, repository, verdict, moments, changed>>

\* decide: the last fingerprint of a refused attempt opens the next one.
Decide(last) ==
  CASE Agree(fingerprints[1], fingerprints[2], last) -> End("published", candidate, still)
    [] ~Agree(fingerprints[1], fingerprints[2], last) /\ attempt + 1 >= AttemptsMax -> Fail("changed_during_capture")
    [] OTHER -> NextPass("candidate", attempt + 1, <<last, NoFingerprint>>, NoCandidate, <<still[3], TRUE, TRUE>>)

\* finish_pass: the collection and the fingerprint.
FinishPass ==
  LET now == Fingerprint(reads.head, reads.index, reads.status, Collected) IN
  /\ verdict = "none" /\ step = "contents"
  /\ CASE comparison = "staged" /\ reads.head = 0 -> Fail("base_unavailable")
       [] OTHER ->
            CASE pass = "initial" -> NextPass("candidate", attempt, <<now, NoFingerprint>>, NoCandidate, <<still[3], TRUE, TRUE>>)
              [] pass = "candidate" ->
                   NextPass("final", attempt, <<fingerprints[1], now>>, Collected, <<still[1], still[3], TRUE>>)
              [] pass = "final" -> Decide(now)

DiffNext ==
  \/ \E r \in NextRepositories(repository) : Change(r)
  \/ \E exists \in BOOLEAN : BaseKind(exists)
  \/ Read \/ Refuse \/ FinishPass

-----------------------------------------------------------------------------
\* Whether the candidate is the repository at no moment of the capture: its old
\* side, its records, its lines and its untracked contents are of several.
Mixed(c) == c \notin moments

\* A pass that sees no change answers for the other two: what is published is
\* the repository of that pass, whatever changed before, between and after.
QuietPassIsTrue == verdict = "published" /\ Mixed(candidate) => \A n \in 1..3 : ~still[n]

\* One change of the repository never exhausts the attempts.
OneChangeIsSurvived == verdict = "changed_during_capture" => changed >= 2

\* A repository that holds still is captured, or Git refuses.
StillnessIsEnough == changed = 0 => verdict \notin {"changed_during_capture"} /\ attempt = 0

\* The three passes and the bound on the attempts together: one quiet pass is
\* enough for a true candidate, and one change does not refuse the capture
\* (decide, finish_pass).
DiffInvariant == QuietPassIsTrue /\ OneChangeIsSurvived /\ StillnessIsEnough

\* docs/git.md:166, "Kvim never publishes a mixed candidate", for the reason of
\* diff_capture.rs:16-18: the middle pass "also rejects a change that returns to
\* its first value during the capture".  A change inside every pass and between
\* them breaks it: HEAD returns before each pass reads it, and is away again for
\* the diff, which names no revision and finds HEAD itself.
NoMixedCandidate == verdict = "published" => ~Mixed(candidate)

DiffSpec == DiffInit /\ [][DiffNext]_diffVars
=============================================================================
