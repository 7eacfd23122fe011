------------------------- MODULE PullRequestPolicy -------------------------
(***************************************************************************)
(* What the issue loop concludes from one pull request: which PR of a task *)
(* it looks at (internal/github/issue_loop.go), what a PR's state means    *)
(* for the task (decidePullRequest) and whether a green PR may be merged   *)
(* (the merge gate).  Constant-level only, so that the state machine of    *)
(* IssueReconcile and the proofs about it share one definition.            *)
(*                                                                         *)
(* A PR snapshot is a record with at least                                 *)
(*   state   "OPEN", "MERGED" or "CLOSED"                                  *)
(*   draft, dirty   booleans (IsDraft, MergeState = DIRTY)                 *)
(*   checks  a function from check names to conclusions                    *)
(*   review  "clear", "required" (REVIEW_REQUIRED) or "blocking" (an       *)
(*           unresolved thread or a CHANGES_REQUESTED opinion)             *)
(***************************************************************************)
EXTENDS Naturals, FiniteSets

\* The conclusions the code tells apart: the failing ones, the unfinished
\* ones, SUCCESS, everything else (skipped, neutral, cancelled), not reported.
Conclusions == {"FAILURE", "PENDING", "SUCCESS", "SKIPPED", "ABSENT"}

Decisions == {"approved", "dropped", "rejected", "marked_ready", "pending",
              "auto_merge_armed"}

FailedChecks(snap) == {c \in DOMAIN snap.checks : snap.checks[c] = "FAILURE"}

PendingChecks(snap) == \E c \in DOMAIN snap.checks : snap.checks[c] = "PENDING"

NoChecks(snap) == \A c \in DOMAIN snap.checks : snap.checks[c] = "ABSENT"

\* Mutant: a closed leftover outranks the PR that replaced it.
PullStateRankClosedFirst(state) ==
    CASE state = "CLOSED" -> 0
      [] state = "OPEN"   -> 1
      [] OTHER            -> 2

PullStateRank(state) ==
    CASE state = "OPEN"   -> 0
      [] state = "MERGED" -> 1
      [] OTHER            -> 2

\* pickPullRequest: rows is a set of records with a state and a number; gh
\* lists newest (highest number) first and only a smaller rank replaces the
\* pick, so within a state the newest wins.
PickPullRequest(rows) ==
    CHOOSE best \in rows : \A other \in rows :
        \/ PullStateRank(best.state) < PullStateRank(other.state)
        \/ /\ PullStateRank(best.state) = PullStateRank(other.state)
           /\ best.number >= other.number

\* Mutant: one round too many.
FailedRoundPastCap(round, maxRounds) ==
    IF round > maxRounds THEN "dropped" ELSE "rejected"

\* A failed round: given up at the cap, sent back below it.
FailedRound(round, maxRounds) ==
    IF round >= maxRounds THEN "dropped" ELSE "rejected"

DecideMissingPullRequest(round, maxRounds) == FailedRound(round, maxRounds)

\* Mutant: any PR that is not open any more counts as delivered.
DecidePullRequestAnyEndIsDone(snap, round, maxRounds) ==
    IF snap.state \in {"MERGED", "CLOSED"} THEN "approved" ELSE "pending"

DecidePullRequest(snap, round, maxRounds) ==
    CASE snap.state = "MERGED" -> "approved"
      [] snap.state = "CLOSED" -> "dropped"
      [] snap.state = "OPEN" /\ snap.dirty -> FailedRound(round, maxRounds)
      [] snap.state = "OPEN" /\ ~snap.dirty /\ snap.draft -> "marked_ready"
      [] OTHER ->
           IF FailedChecks(snap) # {} \/ snap.review = "blocking"
           THEN FailedRound(round, maxRounds)
           ELSE IF NoChecks(snap) \/ PendingChecks(snap) \/ snap.review = "required"
           THEN "pending"
           ELSE "auto_merge_armed"

\* requiredNotPassed: a check that is skipped or missing has not passed.
RequiredPassed(required, checks) ==
    \A c \in required : c \in DOMAIN checks /\ checks[c] = "SUCCESS"

\* mergeGate.hold = "": what must be true for the loop to merge.  touches says
\* that a changed file matches an operator-only path; readable, that every read
\* of the gate succeeded.
GateOpen(isCore, required, checks, readable, touches) ==
    /\ ~isCore
    /\ required # {}
    /\ RequiredPassed(required, checks)
    /\ readable
    /\ ~touches
=============================================================================
