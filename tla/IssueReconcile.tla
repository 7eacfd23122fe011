-------------------------- MODULE IssueReconcile --------------------------
(***************************************************************************)
(* `lw issue reconcile` (internal/cli/issue_loop_handlers.go): a tick       *)
(* withdraws exhausted tasks, merges the green PRs that ended tasks left    *)
(* behind, and decides every task in review from the state of its PR.       *)
(* Between any two of its calls the worker, CI, reviewers, people, GitHub   *)
(* and other reconcilers go on; calls fail and processes are killed.        *)
(***************************************************************************)
EXTENDS Nulltickets, PullRequestPolicy

CONSTANTS
    MaxRounds,      \* --max-rounds
    MaxPRs,         \* bound on pull requests per task
    MaxHead,        \* bound on the commits pushed to one PR
    Checks,         \* the checks CI reports
    Required,       \* the checks main requires (gh.RequiredChecks)
    OperatorHeads,  \* heads whose diff touches an operator-only path
    AutoMergeOn,    \* the repository's "Allow auto-merge" setting
    LaggingSearch,  \* whether PR search may lag behind PR creation
    PersonPRs,      \* whether people open PRs for a task beside the hook
    Reviews         \* the review states a PR may be in

ASSUME ReconcileAssumption ==
    /\ MaxRounds \in Nat /\ MaxPRs \in Nat /\ MaxHead \in Nat \ {0}
    /\ Required \subseteq Checks
    /\ OperatorHeads \subseteq Nat \ {0}
    /\ {AutoMergeOn, LaggingSearch, PersonPRs} \subseteq BOOLEAN
    /\ Reviews \subseteq {"clear", "required", "blocking"}

VARIABLES
    issue,   \* GitHub: open, labels and text of each issue
    pr,      \* GitHub: the pull requests that carry a task's Refs line
    rec      \* the reconcilers: where each is and what it has read

reconcileVars == <<task, faults, issue, pr, rec>>

PRs == Tasks \X (1 .. MaxPRs)
PRsOf(t) == {p \in PRs : p[1] = t}
Heads == 0 .. MaxHead

\* armed is the head auto-merge was armed for (or that was squashed directly)
\* by the loop, 0 when it never was; hook says that the body carries
\* issueLoopPRTag; indexed, that the search finds the PR.
NoPR == [number |-> 0, state |-> "NONE", draft |-> FALSE, dirty |-> FALSE, hook |-> FALSE,
         head |-> 0, checks |-> [c \in Checks |-> "ABSENT"],
         review |-> "clear", indexed |-> FALSE, armed |-> 0]

PRRecord == [number : 0 .. MaxPRs, state : {"NONE", "OPEN", "MERGED", "CLOSED"}, draft : BOOLEAN,
             dirty : BOOLEAN, hook : BOOLEAN, head : Heads,
             checks : [Checks -> Conclusions],
             review : {"clear", "required", "blocking"},
             indexed : BOOLEAN, armed : Heads]

\* A listed task as ListTasks returned it.
Entry == [task : Tasks, version : Nat, age : Ages]
NoEntry == [task |-> <<>>, version |-> 0, age |-> "fresh"]

-----------------------------------------------------------------------------
(* GitHub's side of a pull request.                                        *)

\* The hook delivers a run of the worker as a draft; a person opens one ready.
OpenPR(p, hook) ==
    /\ pr[p].state = "NONE"
    /\ p[2] > 1 => pr[<<p[1], p[2] - 1>>].state # "NONE"
    /\ hook => /\ task[p[1]].stage = "in_development"
               /\ \A q \in PRsOf(p[1]) : pr[q].state # "OPEN"
    /\ ~hook => PersonPRs /\ Exists(p[1])
    /\ pr' = [pr EXCEPT ![p] = [NoPR EXCEPT !.number = p[2], !.state = "OPEN",
                                            !.draft = hook, !.hook = hook, !.head = 1,
                                            !.indexed = ~LaggingSearch]]

SearchCatchesUp(p) ==
    /\ pr[p].state # "NONE" /\ ~pr[p].indexed
    /\ pr' = [pr EXCEPT ![p].indexed = TRUE]

Unreported == [c \in Checks |-> "ABSENT"]

\* A new commit: CI starts over, a conflict is resolved; threads stay.
Push(p) ==
    /\ pr[p].state = "OPEN" /\ pr[p].head < MaxHead
    /\ pr' = [pr EXCEPT ![p].head = @ + 1, ![p].dirty = FALSE, ![p].checks = Unreported]

\* CI reports, or a check is run again; a conflicted PR gets no CI.
Report(p, c) ==
    /\ pr[p].state = "OPEN" /\ ~pr[p].dirty
    /\ \E result \in (IF pr[p].checks[c] = "PENDING"
                      THEN {"FAILURE", "SUCCESS", "SKIPPED"} ELSE {"PENDING"}) :
          pr' = [pr EXCEPT ![p].checks[c] = result]

BaseMoves(p) ==
    /\ pr[p].state = "OPEN" /\ ~pr[p].dirty
    /\ pr' = [pr EXCEPT ![p].dirty = TRUE]

Review(p) ==
    /\ pr[p].state = "OPEN"
    /\ \E verdict \in Reviews \ {pr[p].review} :
          pr' = [pr EXCEPT ![p].review = verdict]

ClosePR(p) ==
    /\ pr[p].state = "OPEN"
    /\ pr' = [pr EXCEPT ![p].state = "CLOSED"]

\* GitHub merges a PR that auto-merge is armed on once the required checks of
\* its head have passed; a person may merge any open PR.  "Closes #n" closes
\* the issue.
Merged(p) == pr' = [pr EXCEPT ![p].state = "MERGED"]
Merge(p) ==
    /\ pr[p].state = "OPEN" /\ ~pr[p].dirty /\ ~pr[p].draft
    /\ Merged(p)
    /\ issue' = [issue EXCEPT ![IssueOf(p[1])].open = FALSE]

PullRequestChanges(p) ==
    /\ \/ /\ \/ \E hook \in BOOLEAN : OpenPR(p, hook)
             \/ SearchCatchesUp(p)
             \/ Push(p)
             \/ \E c \in Checks : Report(p, c)
             \/ BaseMoves(p)
             \/ Review(p)
             \/ ClosePR(p)
          /\ UNCHANGED issue
       \/ Merge(p)
    /\ UNCHANGED <<task, faults, rec>>

-----------------------------------------------------------------------------
(* The reconciler's place in its tick.                                     *)

Places == {"idle", "sweep", "reviews", "gate", "arm", "ready", "claim",
           "transition", "handoff"}
Phases == {"exhausted", "orphans", "review"}
Verdicts == {"none", "approved", "dropped", "rejected"}

IdleRec == [pc |-> "idle", phase |-> "exhausted", todo |-> {}, item |-> NoEntry,
            snap |-> NoPR, verdict |-> "none"]

At(r, pc, phase) == rec[r].pc = pc /\ rec[r].phase = phase
Goes(r, value) == rec' = [rec EXCEPT ![r] = value]

\* ListTasks: every task of a stage, as it is at the moment of the call.
ListTasks(stage) ==
    {[task |-> t, version |-> task[t].version, age |-> task[t].age] :
        t \in {u \in Tasks : task[u].stage = stage}}

Sweep(phase, todo) == [pc |-> "sweep", phase |-> phase, todo |-> todo, item |-> NoEntry,
                       snap |-> NoPR, verdict |-> "none"]

\* Mutant: the entry stays on the list and is looked at again.
DoneKeepingEntry(r) == Sweep(rec[r].phase, rec[r].todo)

\* The entry at hand is dealt with (or reported as an error): on to the rest.
Done(r) == Sweep(rec[r].phase, rec[r].todo \ {rec[r].item})
Skip(r, entry) == Sweep(rec[r].phase, rec[r].todo \ {entry})

Round(entry) == entry.version \div 2

-----------------------------------------------------------------------------
(* A tick: three listings.                                                 *)

TickStart(r) ==
    /\ rec[r].pc = "idle"
    /\ Goes(r, Sweep("exhausted", {e \in ListTasks("in_development") : task[e.task].parked}))
    /\ UNCHANGED <<task, faults, issue, pr>>

ListWithdrawn(r) ==
    /\ At(r, "sweep", "exhausted") /\ rec[r].todo = {}
    /\ Goes(r, Sweep("orphans", {e \in ListTasks("not_doing") : InOrphanWindow(e.age)}))
    /\ UNCHANGED <<task, faults, issue, pr>>

ListInReview(r) ==
    /\ At(r, "sweep", "orphans") /\ rec[r].todo = {}
    /\ Goes(r, Sweep("review", ListTasks("in_review")))
    /\ UNCHANGED <<task, faults, issue, pr>>

TickEnd(r) ==
    /\ At(r, "sweep", "review") /\ rec[r].todo = {}
    /\ Goes(r, IdleRec)
    /\ UNCHANGED <<task, faults, issue, pr>>

-----------------------------------------------------------------------------
(* reconcileExhaustedTasks                                                 *)

WithdrawExhausted(r) ==
    /\ At(r, "sweep", "exhausted")
    /\ \E entry \in rec[r].todo :
          \/ /\ Withdrawable(entry.task)
             /\ Withdraw(entry.task)
             /\ Goes(r, [rec[r] EXCEPT !.pc = "handoff", !.item = entry])
             /\ UNCHANGED faults
          \/ /\ ~Withdrawable(entry.task)
             /\ Goes(r, Skip(r, entry))
             /\ UNCHANGED <<task, faults>>
          \/ /\ Fault   \* the call failed, or only its reply was lost
             /\ \/ UNCHANGED task
                \/ Withdrawable(entry.task) /\ Withdraw(entry.task)
             /\ Goes(r, Skip(r, entry))
    /\ UNCHANGED <<issue, pr>>

\* handOffToOperator: comment and needs-operator label, best effort.
HandOff(r) ==
    /\ rec[r].pc = "handoff"
    /\ \/ /\ issue' = [issue EXCEPT ![IssueOf(rec[r].item.task)].labels = @ \cup {"needs-operator"}]
          /\ UNCHANGED faults
       \/ Fault /\ UNCHANGED issue
    /\ Goes(r, Done(r))
    /\ UNCHANGED <<task, pr>>

-----------------------------------------------------------------------------
(* Reading the PR of an entry and judging it.                              *)

Found(t) == {[pr[p] EXCEPT !.review = "clear"] : p \in {q \in PRsOf(t) : pr[q].state # "NONE" /\ pr[q].indexed}}
PROf(entry, snap) == <<entry.task, snap.number>>

\* Mutants: whoever opened the PR, it is merged; a green draft is merged as is.
OrphanPlaceAnyAuthor(snap) ==
    IF snap.state # "OPEN"
       \/ DecidePullRequest([snap EXCEPT !.draft = FALSE], 0, 0) # "auto_merge_armed"
    THEN "sweep"
    ELSE IF snap.draft THEN "ready" ELSE "gate"

OrphanPlaceMergingDrafts(snap) ==
    IF snap.state # "OPEN" \/ ~snap.hook
       \/ DecidePullRequest([snap EXCEPT !.draft = FALSE], 0, 0) # "auto_merge_armed"
    THEN "sweep"
    ELSE "gate"

\* What becomes of an ended task's PR: only an open one that the hook opened
\* and whose checks are green as if it were not a draft is touched.
OrphanPlace(snap) ==
    IF snap.state # "OPEN" \/ ~snap.hook
       \/ DecidePullRequest([snap EXCEPT !.draft = FALSE], 0, 0) # "auto_merge_armed"
    THEN "sweep"
    ELSE IF snap.draft THEN "ready" ELSE "gate"

\* Mutants of the switch of reconcileTask: a merged PR needs nothing more; the
\* pending case is missing.
ReviewPlaceMergedIsOver(decision) ==
    CASE decision \in {"pending", "approved"} -> "sweep"
      [] decision = "marked_ready"            -> "ready"
      [] decision = "auto_merge_armed"        -> "gate"
      [] OTHER                                -> "claim"

ReviewPlaceNoPending(decision) ==
    CASE decision = "marked_ready"     -> "ready"
      [] decision = "auto_merge_armed" -> "gate"
      [] OTHER                         -> "claim"

ReviewPlace(decision) ==
    CASE decision = "pending"          -> "sweep"
      [] decision = "marked_ready"     -> "ready"
      [] decision = "auto_merge_armed" -> "gate"
      [] OTHER                         -> "claim"

\* The reconciler's next place once it has read all of entry's PR.
Judged(r, entry, snap) ==
    LET decision == DecidePullRequest(snap, Round(entry), MaxRounds)
        place == IF rec[r].phase = "orphans" THEN OrphanPlace(snap) ELSE ReviewPlace(decision)
    IN  IF place = "sweep" THEN Skip(r, entry)
        ELSE [rec[r] EXCEPT !.pc = place, !.item = entry, !.snap = snap,
                            !.verdict = IF place = "claim" THEN decision ELSE "none"]

\* No PR carries the task's Refs line: an orphan phase has nothing to do, a
\* review waits out the grace period and then fails the round.
Missing(r, entry) ==
    IF rec[r].phase = "orphans" \/ ~PastGrace(entry.age)
    THEN Skip(r, entry)
    ELSE [rec[r] EXCEPT !.pc = "claim", !.item = entry,
             !.verdict = DecideMissingPullRequest(Round(entry), MaxRounds)]

\* FindPullRequestForTask: one search, then, for an open PR, its reviews.
FindPullRequest(r) ==
    /\ rec[r].pc = "sweep" /\ rec[r].phase \in {"orphans", "review"}
    /\ \E entry \in rec[r].todo :
          LET found == Found(entry.task)
              snap == PickPullRequest(found)
          IN  \/ /\ Goes(r, IF found = {} THEN Missing(r, entry)
                            ELSE IF snap.state = "OPEN"
                            THEN [rec[r] EXCEPT !.pc = "reviews", !.item = entry, !.snap = snap]
                            ELSE Judged(r, entry, snap))
                 /\ UNCHANGED faults
              \/ Fault /\ Goes(r, Skip(r, entry))
    /\ UNCHANGED <<task, issue, pr>>

\* loadPullRequestReviews: refused when the head is no longer the one read.
LoadReviews(r) ==
    /\ rec[r].pc = "reviews"
    /\ LET now == pr[PROf(rec[r].item, rec[r].snap)]
       IN  IF now.head = rec[r].snap.head
           THEN Goes(r, Judged(r, rec[r].item, [rec[r].snap EXCEPT !.review = now.review]))
           ELSE Goes(r, Done(r))
    /\ UNCHANGED <<task, faults, issue, pr>>

\* mergeGate.hold: the checks are those of the snapshot, the changed files are
\* read now and belong to whatever head the PR has now.
Gate(r) ==
    /\ rec[r].pc = "gate"
    /\ LET snap == rec[r].snap
           touches == pr[PROf(rec[r].item, snap)].head \in OperatorHeads
       IN  \/ /\ Goes(r, IF GateOpen(FALSE, Required, snap.checks, TRUE, touches)
                         THEN [rec[r] EXCEPT !.pc = "arm"] ELSE Done(r))
              /\ UNCHANGED faults
           \/ Fault /\ Goes(r, Done(r))
    /\ UNCHANGED <<task, issue, pr>>

-----------------------------------------------------------------------------
(* Acting on the PR.                                                       *)

\* gh pr ready; leaving draft can start checks of its own.
MarkReady(r) ==
    /\ rec[r].pc = "ready"
    /\ LET p == PROf(rec[r].item, rec[r].snap)
       IN  \/ /\ pr[p].state = "OPEN"
              /\ \E checks \in {pr[p].checks, Unreported} :
                    pr' = [pr EXCEPT ![p].draft = FALSE, ![p].checks = checks]
              /\ UNCHANGED faults
           \/ pr[p].state # "OPEN" /\ UNCHANGED <<pr, faults>>
           \/ Fault /\ UNCHANGED pr
    /\ Goes(r, Done(r))
    /\ UNCHANGED <<task, issue>>

\* gh pr merge --match-head-commit: refused unless the PR is open at exactly
\* the head that was judged.  Where auto-merge is switched off the PR is
\* squashed on the spot, if the branch's own rules let it.
\* Mutant: gh pr merge without --match-head-commit.
AnyHeadMatches(p, head) == pr[p].state = "OPEN"
HeadMatches(p, head) == pr[p].state = "OPEN" /\ pr[p].head = head
ArmAutoMerge(p) ==
    IF AutoMergeOn
    THEN pr' = [pr EXCEPT ![p].armed = pr[p].head] /\ UNCHANGED issue
    ELSE /\ ~pr[p].dirty /\ ~pr[p].draft /\ RequiredPassed(Required, pr[p].checks)
         /\ pr' = [pr EXCEPT ![p].armed = pr[p].head, ![p].state = "MERGED"]
         /\ issue' = [issue EXCEPT ![IssueOf(p[1])].open = FALSE]

Arm(r) ==
    /\ rec[r].pc = "arm"
    /\ LET p == PROf(rec[r].item, rec[r].snap)
           head == rec[r].snap.head
       IN  \/ HeadMatches(p, head) /\ ArmAutoMerge(p) /\ UNCHANGED faults
           \/ ~HeadMatches(p, head) /\ UNCHANGED <<pr, issue, faults>>
           \/ Fault /\ UNCHANGED <<pr, issue>>
    /\ Goes(r, Done(r))
    /\ UNCHANGED task

-----------------------------------------------------------------------------
(* moveTask: claim, transition, hand off.                                  *)

Claim(r) ==
    /\ rec[r].pc = "claim"
    /\ LET t == rec[r].item.task
       IN  \/ /\ Claimable(t)
              /\ ClaimTask(t, r)
              /\ Goes(r, [rec[r] EXCEPT !.pc = "transition"])
              /\ UNCHANGED faults
           \/ /\ ~Claimable(t)
              /\ Goes(r, Done(r))
              /\ UNCHANGED <<task, faults>>
           \/ /\ Fault   \* failed, or leased with the reply lost, or an older
              /\ \/ UNCHANGED task   \* server that leased some other task
                 \/ \E u \in Tasks : Claimable(u) /\ ClaimTask(u, r)
              /\ Goes(r, Done(r))
    /\ UNCHANGED <<issue, pr>>

ApplyVerdict(r) ==
    /\ rec[r].pc = "transition"
    /\ LET t == rec[r].item.task
           verdict == rec[r].verdict
       IN  \/ /\ TransitionAllowed(t, r)
              /\ Transition(t, verdict)
              /\ Goes(r, IF verdict = "dropped" THEN [rec[r] EXCEPT !.pc = "handoff"] ELSE Done(r))
              /\ UNCHANGED faults
           \/ /\ ~TransitionAllowed(t, r)
              /\ Goes(r, Done(r))
              /\ UNCHANGED <<task, faults>>
           \/ /\ Fault
              /\ UNCHANGED task \/ (TransitionAllowed(t, r) /\ Transition(t, verdict))
              /\ Goes(r, Done(r))
    /\ UNCHANGED <<issue, pr>>

\* A listing failed, or the process was killed; its lease stays until it lapses.
Abort(r) ==
    /\ rec[r].pc # "idle"
    /\ Fault
    /\ Goes(r, IdleRec)
    /\ UNCHANGED <<task, issue, pr>>

-----------------------------------------------------------------------------
(* The rest of the world.                                                  *)

\* Promote, on the other side of the loop, queues a task for an open issue.
TaskArrives(t) ==
    /\ issue[IssueOf(t)].open /\ ~Exists(t)
    /\ t[2] > 1 => Exists(TaskOf(t[1], t[2] - 1))
    /\ CreateTask(t, NoBody)
    /\ UNCHANGED faults

TaskChanges(t) ==
    /\ \/ TaskArrives(t)
       \/ WorkerSubmit(t)
       \/ WorkerExhaust(t)
       \/ WorkerDrop(t)
       \/ OperatorWithdraw(t)
       \/ Elapse(t)
    /\ UNCHANGED <<issue, pr, rec>>

\* A lease lives for issueLoopLeaseTTL, two minutes; each call is bounded by ten
\* seconds, so it lapses under its holder's hands only when the holder stalls.
LeaseExpires(t) ==
    /\ LeaseLapses(t)
    /\ IF \E r \in Reconcilers : /\ task[t].lease = r
                                 /\ rec[r].pc = "transition" /\ rec[r].item.task = t
       THEN Fault ELSE UNCHANGED faults
    /\ UNCHANGED <<issue, pr, rec>>

OperatorClears(i) ==
    /\ "needs-operator" \in issue[i].labels
    /\ issue' = [issue EXCEPT ![i].labels = @ \ {"needs-operator"}]
    /\ UNCHANGED <<task, faults, pr, rec>>

Init ==
    /\ QueueInit
    /\ issue = [i \in Issues |-> [open |-> TRUE, labels |-> {}, text |-> 0]]
    /\ pr = [p \in PRs |-> NoPR]
    /\ rec = [r \in Reconcilers |-> IdleRec]

Reconcile(r) ==
    \/ TickStart(r)
    \/ ListWithdrawn(r)
    \/ ListInReview(r)
    \/ TickEnd(r)
    \/ WithdrawExhausted(r)
    \/ HandOff(r)
    \/ FindPullRequest(r)
    \/ LoadReviews(r)
    \/ Gate(r)
    \/ MarkReady(r)
    \/ Arm(r)
    \/ Claim(r)
    \/ ApplyVerdict(r)

Environment ==
    \/ \E r \in Reconcilers : Abort(r)
    \/ \E p \in PRs : PullRequestChanges(p)
    \/ \E t \in Tasks : TaskChanges(t) \/ LeaseExpires(t)
    \/ \E i \in Issues : OperatorClears(i)

Next == (\E r \in Reconcilers : Reconcile(r)) \/ Environment

Spec == Init /\ [][Next]_reconcileVars

\* launchd runs the handler again and again, leases lapse, search catches up.
FairSpec ==
    /\ Spec
    /\ \A r \in Reconcilers : WF_reconcileVars(Reconcile(r))
    /\ \A t \in Tasks : WF_reconcileVars(LeaseExpires(t))
    /\ \A p \in PRs : WF_reconcileVars(SearchCatchesUp(p) /\ UNCHANGED <<task, faults, issue, rec>>)

-----------------------------------------------------------------------------
RecRecord == [pc : Places, phase : Phases, todo : SUBSET Entry,
              item : Entry \cup {NoEntry}, snap : PRRecord, verdict : Verdicts]

TypeOK ==
    /\ QueueTypeOK
    /\ issue \in [Issues -> [open : BOOLEAN, labels : SUBSET Labels, text : Nat]]
    /\ pr \in [PRs -> PRRecord]
    /\ rec \in [Reconcilers -> RecRecord]

HasMerged(t) == \E p \in PRsOf(t) : pr[p].state = "MERGED"

\* "a task in in_review is decided by the state of its PR, never by an agent":
\* a task is closed only when a pull request of its own was merged, whatever
\* happened between reading the PR and firing the transition.
ApprovedMeansMerged == \A t \in Tasks : task[t].stage = "closed" => HasMerged(t)

\* The merge gate: no head whose diff touches an operator-only path is ever
\* armed or squashed by the loop, although the files are read some time after
\* the checks and the merge is asked for later still.
ArmedOutsideOperatorPaths == \A p \in PRs : pr[p].armed \notin OperatorHeads

\* Whenever the loop arms a PR it holds evidence about that very head: taken
\* out of draft, every required check passed, nothing failed or unfinished.
\* With several reconcilers, each on its own snapshot.
ArmedOnEvidence ==
    [][\A p \in PRs : pr'[p].armed # pr[p].armed =>
          \E r \in Reconcilers :
             LET snap == rec[r].snap
             IN  /\ rec[r].pc = "arm" /\ PROf(rec[r].item, snap) = p
                 /\ snap.head = pr'[p].armed /\ snap.head = pr[p].head
                 /\ ~snap.draft /\ ~snap.dirty /\ snap.review = "clear"
                 /\ Required # {} /\ \A c \in Required : snap.checks[c] = "SUCCESS"
                 /\ \A c \in Checks : snap.checks[c] \notin {"FAILURE", "PENDING"}]_reconcileVars

\* A PR that a person opened is merged by the loop only for a task that was in
\* review; the orphan sweep arms nothing but what the hook delivered.
OrphanMergesAreDeliveries ==
    [][\A p \in PRs : (pr'[p].armed # pr[p].armed /\ ~pr[p].hook) =>
          \E r \in Reconcilers : rec[r].phase = "review" /\ rec[r].item.task = p[1]]_reconcileVars

\* The loop keeps what TaskReview promises, step by step: a task comes up for
\* review at most --max-rounds times (the n-th review is at version 2n), is
\* closed only once a pull request of its own has merged, and never leaves the
\* stage it ended in, however old the snapshot is that a verdict came from.
\* For one reconciler at a time: two can apply one verdict to two rounds.
Promise == INSTANCE TaskReview WITH
    stage <- [t \in Tasks |-> task[t].stage],
    round <- [t \in Tasks |-> task[t].version \div 2],
    merged <- [t \in Tasks |-> HasMerged(t)]
ReviewIsAsPromised == Promise!Spec

\* A verdict is applied to the review round it was reached in: the task cannot
\* have gone back, been worked on and come up again since it was listed.
VerdictFitsRound ==
    [][\A r \in Reconcilers, t \in Tasks :
          (rec[r].pc = "transition" /\ rec[r].item.task = t /\ task'[t].stage # task[t].stage
             /\ task[t].lease = r /\ rec'[r] # rec[r])
          => rec[r].item.version = task[t].version]_reconcileVars

\* pickPullRequest's comment: a closed leftover "must not shadow" the open PR
\* that replaced it, "or reconcile drops a task that is still being worked".
ClosedLeftoverDropsNothing ==
    [][\A t \in Tasks :
          (task[t].stage = "in_review" /\ task'[t].stage = "not_doing"
             /\ \E r \in Reconcilers : rec[r].pc = "transition" /\ rec'[r].pc = "handoff"
                                        /\ rec[r].snap.state = "CLOSED")
          => \A p \in PRsOf(t) : pr[p].state # "OPEN"]_reconcileVars

\* A task parked with no attempts left does not stay in the work stage.
ExhaustedTasksAreWithdrawn ==
    \A t \in Tasks : (task[t].stage = "in_development" /\ task[t].parked)
                        ~> task[t].stage = "not_doing"

\* Work that reached its end on GitHub reaches its end in the queue: a task in
\* review with a merged PR and no open one leaves review.
MergedWorkIsClosed ==
    \A t \in Tasks : (task[t].stage = "in_review" /\ HasMerged(t))
                        ~> (task[t].stage # "in_review" \/ \E p \in PRsOf(t) : pr[p].state = "OPEN")

\* Giving a task up: reconcileExhaustedTasks withdraws it "and the issue is
\* handed to a person", who sees it by the needs-operator label.
GivenUpIsHandedOff ==
    \A r \in Reconcilers, i \in Issues :
        (rec[r].pc = "handoff" /\ IssueOf(rec[r].item.task) = i)
            ~> "needs-operator" \in issue[i].labels
=============================================================================
