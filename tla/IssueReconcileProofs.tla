------------------------ MODULE IssueReconcileProofs ------------------------
(***************************************************************************)
(* What `lw issue reconcile` guarantees for every number of issues, tasks, *)
(* pull requests, commits, checks and reconcilers, every bound on failures *)
(* and whatever the switches of IssueReconcile say.                        *)
(***************************************************************************)
EXTENDS IssueReconcile, WellFoundedInduction, TLAPS

-----------------------------------------------------------------------------
(* The strengthening.  prs stands for pr or pr', so that a fact about what *)
(* a reconciler holds can be carried over a step of somebody else.         *)

\* A PR sits under its own number, and is not armed before it is opened.
NumbersFit == \A p \in PRs : IF pr[p].state = "NONE" THEN pr[p].armed = 0
                                                   ELSE pr[p].number = p[2]

\* While it acts on a PR a reconciler holds a snapshot of a real one, which
\* has only grown commits since and was opened by whom the snapshot says.
HoldsPR(x, prs) ==
    x.pc \in {"reviews", "gate", "arm", "ready"} =>
        /\ x.phase \in {"orphans", "review"}
        /\ x.item \in Entry
        /\ x.snap.number \in 1 .. MaxPRs
        /\ prs[PROf(x.item, x.snap)].state # "NONE"
        /\ x.snap.head <= prs[PROf(x.item, x.snap)].head
        /\ x.snap.hook = prs[PROf(x.item, x.snap)].hook

\* A snapshot that was opened for review reading is one of an open PR.
ReadsOpen(x) == x.pc = "reviews" => x.snap.state = "OPEN"

\* A verdict is a real one, and an approval stands on a merged PR.
StandsOnMerge(x, prs) ==
    /\ x.pc \in {"claim", "transition", "handoff"} => x.item \in Entry
    /\ x.pc \in {"claim", "transition"} =>
          /\ x.verdict # "none"
          /\ x.verdict = "approved" =>
                \E p \in PRs : p[1] = x.item.task /\ prs[p].state = "MERGED"

\* What passes the decision on the way to a merge.
Green(snap) ==
    /\ ~snap.draft /\ ~snap.dirty /\ snap.review = "clear"
    /\ \A c \in Checks : snap.checks[c] \notin {"FAILURE", "PENDING"}

HoldsGreen(x) ==
    x.pc \in {"gate", "arm"} => Green(x.snap) /\ (x.phase # "review" => x.snap.hook)

\* What the gate adds; the files it read are those of a head at least as new
\* as the snapshot's.
PassedGate(x, prs) ==
    x.pc = "arm" =>
        /\ Required # {}
        /\ \A c \in Required : x.snap.checks[c] = "SUCCESS"
        /\ \/ x.snap.head \notin OperatorHeads
           \/ x.snap.head # prs[PROf(x.item, x.snap)].head

SoundAt(x, prs) ==
    /\ HoldsPR(x, prs)
    /\ ReadsOpen(x)
    /\ StandsOnMerge(x, prs)
    /\ HoldsGreen(x)
    /\ PassedGate(x, prs)

ApprovalsFit == \A t \in Tasks : task[t].stage = "closed" =>
                    \E p \in PRs : p[1] = t /\ pr[p].state = "MERGED"

IInv ==
    /\ TypeOK
    /\ NumbersFit
    /\ ApprovalsFit
    /\ ArmedOutsideOperatorPaths
    /\ \A r \in Reconcilers : SoundAt(rec[r], pr)

\* What no step does to a pull request: it never disappears, loses commits,
\* changes hands or is unmerged.
PRsGrow ==
    \A p \in PRs : pr[p].state # "NONE" =>
        /\ pr'[p].state # "NONE"
        /\ pr[p].head <= pr'[p].head
        /\ pr'[p].hook = pr[p].hook
        /\ pr[p].state = "MERGED" => pr'[p].state = "MERGED"

-----------------------------------------------------------------------------
(* The pick: of a nonempty set of PRs one is best.                         *)

\* pickPullRequest returns one of the PRs that were found, and none of the
\* others ranks before it.
LEMMA PickIsFound ==
    ASSUME NEW rows \in SUBSET PRRecord, rows # {}
    PROVE  /\ PickPullRequest(rows) \in rows
           /\ \A other \in rows :
                 PullStateRank(PickPullRequest(rows).state) <= PullStateRank(other.state)
<1> DEFINE R == {PullStateRank(x.state) : x \in rows}
<1>1. R \in SUBSET Nat /\ R # {}
  BY DEF PullStateRank
<1>2. PICK x \in rows : \A y \in rows : PullStateRank(x.state) <= PullStateRank(y.state)
  <2>1. PICK m \in R : \A n \in R : m <= n
    <3> HIDE DEF R
    <3>1. PICK m \in R : \A n \in R : ~(<<n, m>> \in OpToRel(<, Nat))
      BY <1>1, NatLessThanWellFounded, WFMin
    <3>2. \A k, l \in Nat : k <= l \/ <<l, k>> \in OpToRel(<, Nat)
      BY DEF OpToRel
    <3> QED
      BY <1>1, <3>1, <3>2
  <2> QED
    BY <2>1
<1> DEFINE T == {y \in rows : PullStateRank(y.state) = PullStateRank(x.state)}
           N == {MaxPRs - y.number : y \in T}
<1>3. N \in SUBSET Nat /\ N # {}
  BY <1>2, ReconcileAssumption DEF PRRecord, ReconcileAssumption
<1>4. PICK z \in T : \A y \in T : MaxPRs - z.number <= MaxPRs - y.number
  <2>1. PICK m \in N : \A n \in N : m <= n
    <3> HIDE DEF N
    <3>1. PICK m \in N : \A n \in N : ~(<<n, m>> \in OpToRel(<, Nat))
      BY <1>3, NatLessThanWellFounded, WFMin
    <3>2. \A k, l \in Nat : k <= l \/ <<l, k>> \in OpToRel(<, Nat)
      BY DEF OpToRel
    <3> QED
      BY <1>3, <3>1, <3>2
  <2> QED
    BY <2>1
<1>5. \A y \in T : z.number >= y.number
  BY <1>4, ReconcileAssumption DEF PRRecord, ReconcileAssumption
<1>6. \A s : PullStateRank(s) \in Nat
  BY DEF PullStateRank
<1>7. \A other \in rows : \/ PullStateRank(z.state) < PullStateRank(other.state)
                          \/ /\ PullStateRank(z.state) = PullStateRank(other.state)
                             /\ z.number >= other.number
  <2> HIDE DEF N
  <2> QED BY <1>2, <1>4, <1>5, <1>6
<1> HIDE DEF R, T, N
<1>8. /\ PickPullRequest(rows) \in rows
      /\ \A other \in rows :
            \/ PullStateRank(PickPullRequest(rows).state) < PullStateRank(other.state)
            \/ PullStateRank(PickPullRequest(rows).state) = PullStateRank(other.state)
  BY <1>7, <1>4 DEF PickPullRequest, T
<1> QED
  BY <1>6, <1>8

-----------------------------------------------------------------------------
(* Values the reconciler moves to.                                         *)

LEMMA SweepIsSound ==
    ASSUME NEW phase \in Phases, NEW todo \in SUBSET Entry, NEW prs
    PROVE  /\ Sweep(phase, todo) \in RecRecord
           /\ SoundAt(Sweep(phase, todo), prs)
<1>1. NoPR \in PRRecord
  BY ReconcileAssumption DEF NoPR, PRRecord, Heads, Conclusions, ReconcileAssumption
<1> QED
  BY <1>1 DEF Sweep, RecRecord, Places, Verdicts, SoundAt, HoldsPR, ReadsOpen, StandsOnMerge,
                    HoldsGreen, PassedGate

LEMMA IdleIsSound ==
    ASSUME NEW prs
    PROVE  IdleRec \in RecRecord /\ SoundAt(IdleRec, prs)
<1>1. NoPR \in PRRecord
  BY ReconcileAssumption DEF NoPR, PRRecord, Heads, Conclusions, ReconcileAssumption
<1> QED
  BY <1>1 DEF IdleRec, RecRecord, Phases, Places, Verdicts, SoundAt, HoldsPR, ReadsOpen,
              StandsOnMerge, HoldsGreen, PassedGate

\* The entry at hand is left: done with, or skipped.
LEMMA LeavingIsSound ==
    ASSUME TypeOK, NEW r \in Reconcilers, NEW entry, NEW prs
    PROVE  /\ Done(r) \in RecRecord /\ SoundAt(Done(r), prs)
           /\ Skip(r, entry) \in RecRecord /\ SoundAt(Skip(r, entry), prs)
<1>1. /\ rec[r].phase \in Phases
      /\ rec[r].todo \ {rec[r].item} \in SUBSET Entry
      /\ rec[r].todo \ {entry} \in SUBSET Entry
  BY DEF TypeOK, RecRecord
<1> QED
  BY <1>1, SweepIsSound DEF Done, Skip

\* One reconciler moves to a sound value: the others are where they were, on
\* pull requests that have only grown.
LEMMA GoesIsSound ==
    ASSUME TypeOK, NEW r \in Reconcilers, NEW x \in RecRecord, Goes(r, x),
           SoundAt(x, pr'), \A q \in Reconcilers : SoundAt(rec[q], pr')
    PROVE  /\ rec' \in [Reconcilers -> RecRecord]
           /\ \A q \in Reconcilers : SoundAt(rec'[q], pr')
<1>1. rec' = [rec EXCEPT ![r] = x]
  BY DEF Goes
<1>2. rec \in [Reconcilers -> RecRecord]
  BY DEF TypeOK
<1>3. \A q \in Reconcilers : rec'[q] = IF q = r THEN x ELSE rec[q]
  BY <1>1, <1>2
<1> QED
  BY <1>1, <1>2, <1>3

\* What a reconciler holds stays sound while pull requests only grow.
LEMMA GrowthKeepsSound ==
    ASSUME IInv, PRsGrow, pr' \in [PRs -> PRRecord]
    PROVE  \A q \in Reconcilers : SoundAt(rec[q], pr')
<1> SUFFICES ASSUME NEW q \in Reconcilers
             PROVE  SoundAt(rec[q], pr')
  OBVIOUS
<1> DEFINE x == rec[q]
           p == PROf(x.item, x.snap)
<1>1. SoundAt(x, pr) /\ x \in RecRecord
  BY DEF IInv, TypeOK
<1>2. ASSUME x.pc \in {"reviews", "gate", "arm", "ready"}
      PROVE  /\ p \in PRs /\ pr[p].state # "NONE"
             /\ x.snap.head \in Nat /\ pr[p].head \in Nat /\ pr'[p].head \in Nat
  <2>1. x.item \in Entry /\ x.snap.number \in 1 .. MaxPRs /\ pr[p].state # "NONE"
    BY <1>1, <1>2 DEF SoundAt, HoldsPR
  <2>2. p \in PRs
    BY <2>1 DEF PROf, PRs, Entry
  <2> QED
    BY <1>1, <2>1, <2>2 DEF RecRecord, PRRecord, Heads, IInv, TypeOK
<1>3. HoldsPR(x, pr')
  BY <1>1, <1>2 DEF SoundAt, HoldsPR, PRsGrow
<1>4. StandsOnMerge(x, pr')
  <2>1. \A u \in PRs : pr[u].state = "MERGED" => pr'[u].state = "MERGED"
    BY DEF PRsGrow
  <2> QED
    BY <1>1, <2>1 DEF SoundAt, StandsOnMerge
<1>5. PassedGate(x, pr')
  <2> SUFFICES ASSUME x.pc = "arm"
               PROVE  \/ x.snap.head \notin OperatorHeads
                      \/ x.snap.head # pr'[p].head
    BY <1>1 DEF SoundAt, PassedGate
  <2>1. x.snap.head <= pr[p].head /\ pr[p].head <= pr'[p].head
    BY <1>1, <1>2 DEF SoundAt, HoldsPR, PRsGrow
  <2>2. x.snap.head \notin OperatorHeads \/ x.snap.head # pr[p].head
    BY <1>1 DEF SoundAt, PassedGate
  <2> QED
    BY <1>2, <2>1, <2>2
<1> QED
  BY <1>1, <1>3, <1>4, <1>5 DEF SoundAt

\* An approval that stands on a merged PR goes on doing so.
LEMMA GrowthKeepsApprovals ==
    ASSUME ApprovalsFit, PRsGrow,
           \A t \in Tasks : task'[t].stage = "closed" =>
                task[t].stage = "closed" \/ \E p \in PRs : p[1] = t /\ pr[p].state = "MERGED"
    PROVE  ApprovalsFit'
BY DEF ApprovalsFit, PRsGrow

-----------------------------------------------------------------------------
(* Steps that change one pull request.                                     *)

PRsFine ==
    /\ pr' \in [PRs -> PRRecord]
    /\ PRsGrow
    /\ NumbersFit'
    /\ ArmedOutsideOperatorPaths'

LEMMA OnePRChanges ==
    ASSUME IInv, NEW p \in PRs, NEW y \in PRRecord,
           pr' = [pr EXCEPT ![p] = y],
           IF y.state = "NONE" THEN y.armed = 0 ELSE y.number = p[2],
           y.armed \notin OperatorHeads,
           pr[p].state # "NONE" =>
              /\ y.state # "NONE" /\ pr[p].head <= y.head /\ y.hook = pr[p].hook
              /\ pr[p].state = "MERGED" => y.state = "MERGED"
    PROVE  PRsFine
<1>1. pr \in [PRs -> PRRecord] /\ NumbersFit /\ ArmedOutsideOperatorPaths
  BY DEF IInv, TypeOK
<1>2. \A q \in PRs : pr'[q] = IF q = p THEN y ELSE pr[q]
  BY <1>1
<1>3. \A q \in PRs : pr[q].head <= pr[q].head
  <2>1. \A q \in PRs : pr[q].head \in Nat
    BY <1>1 DEF PRRecord, Heads
  <2> QED
    BY <2>1
<1>4. PRsGrow
  BY <1>2, <1>3 DEF PRsGrow
<1>5. NumbersFit' /\ ArmedOutsideOperatorPaths'
  BY <1>1, <1>2 DEF NumbersFit, ArmedOutsideOperatorPaths
<1> QED
  BY <1>1, <1>4, <1>5 DEF PRsFine

LEMMA NoPRChanges ==
    ASSUME IInv, UNCHANGED pr
    PROVE  PRsFine
<1>1. pr \in [PRs -> PRRecord] /\ NumbersFit /\ ArmedOutsideOperatorPaths
  BY DEF IInv, TypeOK
<1>2. \A q \in PRs : pr[q].head <= pr[q].head
  <2>1. \A q \in PRs : pr[q].head \in Nat
    BY <1>1 DEF PRRecord, Heads
  <2> QED
    BY <2>1
<1> QED
  BY <1>1, <1>2 DEF PRsFine, PRsGrow, NumbersFit, ArmedOutsideOperatorPaths

\* As above, for a step that leaves a PR's number, author and armed head alone.
LEMMA OnePRMoves ==
    ASSUME IInv, NEW p \in PRs, NEW y \in PRRecord,
           pr' = [pr EXCEPT ![p] = y],
           y.number = pr[p].number, y.armed = pr[p].armed, y.hook = pr[p].hook,
           y.head \in {pr[p].head, pr[p].head + 1},
           \/ y.state = pr[p].state
           \/ pr[p].state = "OPEN" /\ y.state # "NONE"
    PROVE  PRsFine
<1>1. /\ IF pr[p].state = "NONE" THEN pr[p].armed = 0 ELSE pr[p].number = p[2]
      /\ pr[p].armed \notin OperatorHeads
      /\ pr[p].head \in Nat
  BY DEF IInv, TypeOK, NumbersFit, ArmedOutsideOperatorPaths, PRRecord, Heads
<1>2. pr[p].head <= y.head
  BY <1>1
<1>3. IF y.state = "NONE" THEN y.armed = 0 ELSE y.number = p[2]
  BY <1>1
<1>4. pr[p].state # "NONE" =>
              /\ y.state # "NONE" /\ pr[p].head <= y.head /\ y.hook = pr[p].hook
              /\ pr[p].state = "MERGED" => y.state = "MERGED"
  BY <1>2
<1>5. y.armed \notin OperatorHeads
  BY <1>1
<1> QED
  BY <1>3, <1>4, <1>5, OnePRChanges

\* Whatever happens to a PR on GitHub.
LEMMA PullRequestChangesFine ==
    ASSUME IInv, NEW p \in PRs, PullRequestChanges(p)
    PROVE  PRsFine
<1>1. /\ pr \in [PRs -> PRRecord] /\ pr[p] \in PRRecord
      /\ pr[p].state # "NONE" => pr[p].number = p[2]
      /\ pr[p].armed \notin OperatorHeads
      /\ pr[p].head \in Nat /\ p[2] \in 1 .. MaxPRs
  BY DEF IInv, TypeOK, NumbersFit, ArmedOutsideOperatorPaths, PRRecord, Heads, PRs
<1>2. /\ MaxHead \in Nat \ {0} /\ OperatorHeads \subseteq Nat \ {0}
      /\ Reviews \subseteq {"clear", "required", "blocking"} /\ MaxPRs \in Nat
  BY ReconcileAssumption DEF ReconcileAssumption
<1>3. CASE \E hook \in BOOLEAN : OpenPR(p, hook)
  <2>1. PICK hook \in BOOLEAN : OpenPR(p, hook)
    BY <1>3
  <2> DEFINE y == [NoPR EXCEPT !.number = p[2], !.state = "OPEN", !.draft = hook, !.hook = hook,
                               !.head = 1, !.indexed = ~LaggingSearch]
  <2>2. NoPR \in PRRecord
    BY <1>2 DEF NoPR, PRRecord, Heads, Conclusions
  <2>3. 1 \in Heads /\ p[2] \in 0 .. MaxPRs /\ (~LaggingSearch) \in BOOLEAN
    BY <1>1, <1>2 DEF Heads
  <2>4. y \in PRRecord
    BY <2>2, <2>3 DEF PRRecord
  <2>5. y.state = "OPEN" /\ y.number = p[2] /\ y.armed = 0
    BY DEF NoPR
  <2>6. pr' = [pr EXCEPT ![p] = y] /\ pr[p].state = "NONE"
    BY <2>1 DEF OpenPR
  <2> HIDE DEF y
  <2> QED
    BY <1>2, <2>4, <2>5, <2>6, OnePRChanges
<1>4. CASE SearchCatchesUp(p)
  <2> DEFINE y == [pr[p] EXCEPT !.indexed = TRUE]
  <2>1. pr' = [pr EXCEPT ![p] = y]
    BY <1>4 DEF SearchCatchesUp
  <2>2. /\ y \in PRRecord
        /\ y.state = pr[p].state /\ y.number = pr[p].number /\ y.armed = pr[p].armed
        /\ y.head = pr[p].head /\ y.hook = pr[p].hook
    BY <1>1 DEF PRRecord
  <2> HIDE DEF y
  <2> QED
    BY <2>1, <2>2, OnePRMoves
<1>5. CASE Push(p)
  <2> DEFINE y == [pr[p] EXCEPT !.head = @ + 1, !.dirty = FALSE, !.checks = Unreported]
  <2>1. pr' = [pr EXCEPT ![p] = y] /\ pr[p].state = "OPEN" /\ pr[p].head < MaxHead
    BY <1>5 DEF Push
  <2>2. pr[p].head + 1 \in Heads /\ Unreported \in [Checks -> Conclusions]
    BY <1>1, <1>2, <2>1 DEF Heads, Unreported, Conclusions
  <2>3. y \in PRRecord
    BY <1>1, <2>2 DEF PRRecord
  <2>4. /\ y.state = pr[p].state /\ y.number = pr[p].number /\ y.armed = pr[p].armed
        /\ y.head = pr[p].head + 1 /\ y.hook = pr[p].hook
    BY <1>1 DEF PRRecord
  <2> HIDE DEF y
  <2> QED
    BY <2>1, <2>3, <2>4, OnePRMoves
<1>6. CASE \E c \in Checks : Report(p, c)
  <2>1. PICK c \in Checks, result \in Conclusions :
            pr' = [pr EXCEPT ![p].checks[c] = result]
    BY <1>6 DEF Report, Conclusions
  <2> DEFINE y == [pr[p] EXCEPT !.checks[c] = result]
  <2>2. pr' = [pr EXCEPT ![p] = y]
    BY <2>1
  <2>3. y \in PRRecord
    BY <1>1, <2>1 DEF PRRecord
  <2>4. /\ y.state = pr[p].state /\ y.number = pr[p].number /\ y.armed = pr[p].armed
        /\ y.head = pr[p].head /\ y.hook = pr[p].hook
    BY <1>1 DEF PRRecord
  <2> HIDE DEF y
  <2> QED
    BY <2>2, <2>3, <2>4, OnePRMoves
<1>7. CASE BaseMoves(p)
  <2> DEFINE y == [pr[p] EXCEPT !.dirty = TRUE]
  <2>1. pr' = [pr EXCEPT ![p] = y]
    BY <1>7 DEF BaseMoves
  <2>2. /\ y \in PRRecord
        /\ y.state = pr[p].state /\ y.number = pr[p].number /\ y.armed = pr[p].armed
        /\ y.head = pr[p].head /\ y.hook = pr[p].hook
    BY <1>1 DEF PRRecord
  <2> HIDE DEF y
  <2> QED
    BY <2>1, <2>2, OnePRMoves
<1>8. CASE Review(p)
  <2>1. PICK verdict \in Reviews : pr' = [pr EXCEPT ![p].review = verdict]
    BY <1>8 DEF Review
  <2> DEFINE y == [pr[p] EXCEPT !.review = verdict]
  <2>2. pr' = [pr EXCEPT ![p] = y]
    BY <2>1
  <2>3. /\ y \in PRRecord
        /\ y.state = pr[p].state /\ y.number = pr[p].number /\ y.armed = pr[p].armed
        /\ y.head = pr[p].head /\ y.hook = pr[p].hook
    BY <1>1, <1>2 DEF PRRecord
  <2> HIDE DEF y
  <2> QED
    BY <2>2, <2>3, OnePRMoves
<1>9. CASE ClosePR(p) \/ Merge(p)
  <2>1. PICK state \in {"CLOSED", "MERGED"} :
            pr' = [pr EXCEPT ![p].state = state] /\ pr[p].state = "OPEN"
    BY <1>9 DEF ClosePR, Merge, Merged
  <2> DEFINE y == [pr[p] EXCEPT !.state = state]
  <2>2. pr' = [pr EXCEPT ![p] = y]
    BY <2>1
  <2>3. /\ y \in PRRecord
        /\ y.state = state /\ y.number = pr[p].number /\ y.armed = pr[p].armed
        /\ y.head = pr[p].head /\ y.hook = pr[p].hook
    BY <1>1 DEF PRRecord
  <2> HIDE DEF y
  <2> QED
    BY <2>1, <2>2, <2>3, OnePRMoves
<1> QED
  BY <1>3, <1>4, <1>5, <1>6, <1>7, <1>8, <1>9 DEF PullRequestChanges

-----------------------------------------------------------------------------
(* Steps that change the queue.                                            *)

\* The only new closings are those that stand on a merged PR.
Closings ==
    \A t \in Tasks : task'[t].stage = "closed" =>
        task[t].stage = "closed" \/ \E p \in PRs : p[1] = t /\ pr[p].state = "MERGED"

QueueFine == QueueTypeOK' /\ Closings

LEMMA QueueUntouched ==
    ASSUME TypeOK, UNCHANGED task, UNCHANGED faults \/ Fault
    PROVE  QueueFine
BY QueueAssumption DEF QueueAssumption, TypeOK, QueueTypeOK, QueueFine, Closings, Fault

LEMMA MoveToFine ==
    ASSUME TypeOK, NEW t \in Tasks, NEW stage \in Stages, NEW version \in Nat,
           MoveTo(t, stage, version), UNCHANGED faults \/ Fault,
           stage = "closed" => \E p \in PRs : p[1] = t /\ pr[p].state = "MERGED"
    PROVE  QueueFine
<1> DEFINE y == [task[t] EXCEPT !.stage = stage, !.version = version, !.age = "fresh",
                                !.lease = NoLease]
<1>1. task \in [Tasks -> TaskRecord] /\ task[t] \in TaskRecord
  BY DEF TypeOK, QueueTypeOK
<1>2. task' = [task EXCEPT ![t] = y]
  BY DEF MoveTo
<1>3. y \in TaskRecord
  BY <1>1 DEF TaskRecord, Ages
<1>4. y.stage = stage
  BY <1>1 DEF TaskRecord
<1> HIDE DEF y
<1>5. task' \in [Tasks -> TaskRecord]
  BY <1>1, <1>2, <1>3
<1>6. Closings
  BY <1>1, <1>2, <1>4 DEF Closings
<1>7. faults' \in 0 .. MaxFaults
  BY QueueAssumption DEF QueueAssumption, TypeOK, QueueTypeOK, Fault
<1> QED
  BY <1>5, <1>6, <1>7 DEF QueueFine, QueueTypeOK

LEMMA WithdrawFine ==
    ASSUME TypeOK, NEW t \in Tasks, Withdraw(t), UNCHANGED faults \/ Fault
    PROVE  QueueFine
<1>1. task[t].version \in Nat
  BY DEF TypeOK, QueueTypeOK, TaskRecord
<1> QED
  BY <1>1, MoveToFine DEF Withdraw, Stages

\* A lease is taken or lapses.
LEMMA LeaseFine ==
    ASSUME TypeOK, NEW t \in Tasks, NEW holder \in Reconcilers \cup {NoLease},
           task' = [task EXCEPT ![t].lease = holder], UNCHANGED faults \/ Fault
    PROVE  QueueFine
<1>1. task \in [Tasks -> TaskRecord] /\ task[t] \in TaskRecord
  BY DEF TypeOK, QueueTypeOK
<1>2. [task[t] EXCEPT !.lease = holder] \in TaskRecord
  BY <1>1 DEF TaskRecord
<1>3. task' \in [Tasks -> TaskRecord]
  BY <1>1, <1>2
<1>4. \A u \in Tasks : task'[u].stage = task[u].stage
  BY <1>1 DEF TaskRecord
<1>5. faults' \in 0 .. MaxFaults
  BY QueueAssumption DEF QueueAssumption, TypeOK, QueueTypeOK, Fault
<1> QED
  BY <1>3, <1>4, <1>5 DEF QueueFine, QueueTypeOK, Closings

\* Everything the rest of the world does to a task.
LEMMA TaskChangesFine ==
    ASSUME TypeOK, NEW t \in Tasks, TaskChanges(t)
    PROVE  QueueFine
<1>1. /\ task \in [Tasks -> TaskRecord] /\ task[t] \in TaskRecord
      /\ task[t].version \in Nat
  BY DEF TypeOK, QueueTypeOK, TaskRecord
<1>2. CASE TaskArrives(t)
  <2> DEFINE y == [NoTask EXCEPT !.stage = "in_development", !.version = 1, !.body = NoBody]
  <2>1. task' \in {task, [task EXCEPT ![t] = y]} /\ UNCHANGED faults
    BY <1>2 DEF TaskArrives, CreateTask
  <2>2. NoBody \in Bodies
    BY DEF NoBody, Bodies, Labels
  <2>3. NoTask \in TaskRecord
    BY <2>2 DEF NoTask, TaskRecord, Stages, Ages
  <2>4. y \in TaskRecord
    BY <2>2, <2>3 DEF TaskRecord, Stages
  <2>5. y.stage = "in_development"
    BY DEF NoTask
  <2> HIDE DEF y
  <2>6. task' \in [Tasks -> TaskRecord]
    BY <1>1, <2>1, <2>4
  <2>7. Closings
    BY <1>1, <2>1, <2>5 DEF Closings
  <2> QED
    BY <2>1, <2>6, <2>7 DEF QueueFine, TypeOK, QueueTypeOK
<1>3. CASE WorkerSubmit(t)
  BY <1>1, <1>3, MoveToFine DEF WorkerSubmit, Stages
<1>4. CASE WorkerDrop(t)
  BY <1>1, <1>4, MoveToFine DEF WorkerDrop, Stages
<1>5. CASE OperatorWithdraw(t)
  BY <1>5, WithdrawFine DEF OperatorWithdraw
<1>6. CASE WorkerExhaust(t)
  <2>1. task' = [task EXCEPT ![t].parked = TRUE] /\ UNCHANGED faults
    BY <1>6 DEF WorkerExhaust
  <2>2. [task[t] EXCEPT !.parked = TRUE] \in TaskRecord
    BY <1>1 DEF TaskRecord
  <2>3. task' \in [Tasks -> TaskRecord]
    BY <1>1, <2>1, <2>2
  <2>4. \A u \in Tasks : task'[u].stage = task[u].stage
    BY <1>1, <2>1 DEF TaskRecord
  <2> QED
    BY <2>1, <2>3, <2>4 DEF QueueFine, TypeOK, QueueTypeOK, Closings
<1>7. CASE Elapse(t)
  <2>1. PICK age \in Ages : task' = [task EXCEPT ![t].age = age] /\ UNCHANGED faults
    BY <1>7 DEF Elapse, Ages
  <2>2. [task[t] EXCEPT !.age = age] \in TaskRecord
    BY <1>1 DEF TaskRecord
  <2>3. task' \in [Tasks -> TaskRecord]
    BY <1>1, <2>1, <2>2
  <2>4. \A u \in Tasks : task'[u].stage = task[u].stage
    BY <1>1, <2>1 DEF TaskRecord
  <2> QED
    BY <2>1, <2>3, <2>4 DEF QueueFine, TypeOK, QueueTypeOK, Closings
<1> QED
  BY <1>2, <1>3, <1>4, <1>5, <1>6, <1>7 DEF TaskChanges

-----------------------------------------------------------------------------
(* Judging a pull request.                                                 *)

LEMMA DecisionMeans ==
    ASSUME NEW snap \in PRRecord, NEW round \in Nat, NEW maxRounds \in Nat
    PROVE  LET decision == DecidePullRequest(snap, round, maxRounds)
           IN  /\ decision \in Decisions
               /\ decision = "approved" => snap.state = "MERGED"
               /\ decision = "marked_ready" => snap.state = "OPEN"
               /\ decision = "auto_merge_armed" /\ snap.state = "OPEN" => Green(snap)
               /\ decision = "auto_merge_armed" => snap.state \notin {"MERGED", "CLOSED"}
BY DEF DecidePullRequest, Decisions, FailedRound, PRRecord, Green, FailedChecks, PendingChecks

LEMMA JudgedIsSound ==
    ASSUME TypeOK, NEW r \in Reconcilers, rec[r].phase \in {"orphans", "review"},
           NEW entry \in Entry, NEW snap \in PRRecord,
           snap.state # "NONE", snap.number \in 1 .. MaxPRs,
           snap.state = "MERGED" => \E p \in PRs : p[1] = entry.task /\ pr[p].state = "MERGED",
           pr[PROf(entry, snap)].state # "NONE",
           snap.head <= pr[PROf(entry, snap)].head,
           snap.hook = pr[PROf(entry, snap)].hook
    PROVE  Judged(r, entry, snap) \in RecRecord /\ SoundAt(Judged(r, entry, snap), pr)
<1> DEFINE round    == Round(entry)
           decision == DecidePullRequest(snap, round, MaxRounds)
           place    == IF rec[r].phase = "orphans" THEN OrphanPlace(snap) ELSE ReviewPlace(decision)
           verdict  == IF place = "claim" THEN decision ELSE "none"
           x        == [rec[r] EXCEPT !.pc = place, !.item = entry, !.snap = snap,
                                      !.verdict = verdict]
<1>1. rec[r] \in RecRecord
  BY DEF TypeOK
<1>2. round \in Nat /\ MaxRounds \in Nat
  BY ReconcileAssumption DEF ReconcileAssumption, Entry, Round
<1>3. /\ decision \in Decisions
      /\ decision = "approved" => snap.state = "MERGED"
      /\ decision = "marked_ready" => snap.state = "OPEN"
      /\ decision = "auto_merge_armed" => snap.state = "OPEN" /\ Green(snap)
  <2> HIDE DEF round
  <2> QED
    BY <1>2, DecisionMeans DEF PRRecord
<1>4. OrphanPlace(snap) \in {"sweep", "ready", "gate"}
  BY DEF OrphanPlace
<1>5. OrphanPlace(snap) = "gate" => Green(snap) /\ snap.hook
  <2> DEFINE plain == [snap EXCEPT !.draft = FALSE]
  <2> SUFFICES ASSUME OrphanPlace(snap) = "gate"
               PROVE  Green(snap) /\ snap.hook
    OBVIOUS
  <2>1. /\ snap.state = "OPEN" /\ snap.hook /\ ~snap.draft
        /\ DecidePullRequest(plain, 0, 0) = "auto_merge_armed"
    BY DEF OrphanPlace, PRRecord
  <2>2. /\ plain \in PRRecord /\ plain.state = snap.state /\ plain.dirty = snap.dirty
        /\ plain.checks = snap.checks /\ plain.review = snap.review
    BY DEF PRRecord
  <2> HIDE DEF plain
  <2>3. Green(plain)
    BY <2>1, <2>2, DecisionMeans
  <2> QED
    BY <2>1, <2>2, <2>3 DEF Green
<1>6. /\ ReviewPlace(decision) \in {"sweep", "ready", "gate", "claim"}
      /\ ReviewPlace(decision) = "gate" => decision = "auto_merge_armed"
      /\ ReviewPlace(decision) = "claim" => decision \in {"approved", "dropped", "rejected"}
  <2> HIDE DEF decision
  <2> QED
    BY <1>3 DEF ReviewPlace, Decisions
<1> HIDE DEF decision, round
<1>7. /\ place \in {"sweep", "ready", "gate", "claim"}
      /\ place = "gate" => Green(snap) /\ (rec[r].phase # "review" => snap.hook)
      /\ place = "claim" => /\ decision \in {"approved", "dropped", "rejected"}
                            /\ decision = "approved" => snap.state = "MERGED"
  BY <1>3, <1>4, <1>5, <1>6
<1>8. Judged(r, entry, snap) = IF place = "sweep" THEN Skip(r, entry) ELSE x
  BY DEF Judged, decision, round
<1> HIDE DEF place
<1>9. verdict \in Verdicts
  BY <1>7 DEF Verdicts
<1> HIDE DEF verdict
<1>10. CASE place # "sweep"
  <2>1. /\ x.pc = place /\ x.item = entry /\ x.snap = snap /\ x.verdict = verdict
        /\ x.phase = rec[r].phase
    BY <1>1 DEF RecRecord
  <2>2. x \in RecRecord
    BY <1>1, <1>7, <1>9 DEF RecRecord, Places
  <2> HIDE DEF x
  <2>3. place = "claim" => verdict = decision
    BY DEF verdict
  <2>4. SoundAt(x, pr)
    BY <1>7, <1>10, <2>1, <2>3 DEF SoundAt, HoldsPR, ReadsOpen, StandsOnMerge, HoldsGreen, PassedGate
  <2> QED
    BY <1>8, <1>10, <2>2, <2>4
<1>11. CASE place = "sweep"
  BY <1>8, <1>11, LeavingIsSound
<1> QED
  BY <1>10, <1>11

LEMMA MissingIsSound ==
    ASSUME TypeOK, NEW r \in Reconcilers, rec[r].phase \in {"orphans", "review"},
           NEW entry \in Entry
    PROVE  Missing(r, entry) \in RecRecord /\ SoundAt(Missing(r, entry), pr)
<1> DEFINE verdict == DecideMissingPullRequest(Round(entry), MaxRounds)
           x == [rec[r] EXCEPT !.pc = "claim", !.item = entry, !.verdict = verdict]
<1>1. verdict \in {"dropped", "rejected"}
  BY DEF DecideMissingPullRequest, FailedRound
<1>2. rec[r] \in RecRecord
  BY DEF TypeOK
<1> HIDE DEF verdict
<1>3. x \in RecRecord /\ x.pc = "claim" /\ x.item = entry /\ x.verdict = verdict
  BY <1>1, <1>2 DEF RecRecord, Places, Verdicts
<1>4. Missing(r, entry) = Skip(r, entry) \/ Missing(r, entry) = x
  BY DEF Missing, verdict
<1> HIDE DEF x
<1>5. SoundAt(x, pr)
  BY <1>1, <1>3 DEF SoundAt, HoldsPR, ReadsOpen, StandsOnMerge, HoldsGreen, PassedGate
<1> QED
  BY <1>3, <1>4, <1>5, LeavingIsSound

\* What a search can have found.
LEMMA FoundIsReal ==
    ASSUME IInv, NEW entry \in Entry, Found(entry.task) # {}
    PROVE  LET snap == PickPullRequest(Found(entry.task))
           IN  /\ snap \in PRRecord /\ snap.state # "NONE" /\ snap.number \in 1 .. MaxPRs
               /\ snap.state = "MERGED" =>
                     \E p \in PRs : p[1] = entry.task /\ pr[p].state = "MERGED"
               /\ pr[PROf(entry, snap)].state # "NONE"
               /\ snap.head <= pr[PROf(entry, snap)].head
               /\ snap.hook = pr[PROf(entry, snap)].hook
<1> DEFINE found == Found(entry.task)
           snap  == PickPullRequest(found)
<1>1. pr \in [PRs -> PRRecord] /\ NumbersFit
  BY DEF IInv, TypeOK
<1>2. found \in SUBSET PRRecord
  <2>1. \A p \in PRs : [pr[p] EXCEPT !.review = "clear"] \in PRRecord
    BY <1>1 DEF PRRecord
  <2> QED
    BY <2>1 DEF Found, PRsOf
<1>3. snap \in found
  <2>1. found # {}
    OBVIOUS
  <2> HIDE DEF found
  <2> QED
    BY <1>2, <2>1, PickIsFound
<1>4. PICK p \in PRs : /\ p[1] = entry.task /\ pr[p].state # "NONE"
                       /\ snap = [pr[p] EXCEPT !.review = "clear"]
  BY <1>3 DEF Found, PRsOf
<1>5. /\ snap.state = pr[p].state /\ snap.number = pr[p].number
      /\ snap.head = pr[p].head /\ snap.hook = pr[p].hook
  BY <1>1, <1>4 DEF PRRecord
<1>6. pr[p].number = p[2] /\ p[2] \in 1 .. MaxPRs /\ pr[p].head \in Nat
  BY <1>1, <1>4 DEF NumbersFit, PRs, PRRecord, Heads
<1>7. PROf(entry, snap) = p
  BY <1>4, <1>5, <1>6 DEF PROf, PRs
<1>8. snap \in PRRecord
  BY <1>2, <1>3
<1> HIDE DEF snap, found
<1>9. snap.head <= pr[PROf(entry, snap)].head
  BY <1>5, <1>6, <1>7
<1>10. /\ snap \in PRRecord /\ snap.state # "NONE" /\ snap.number \in 1 .. MaxPRs
       /\ snap.state = "MERGED" =>
             \E q \in PRs : q[1] = entry.task /\ pr[q].state = "MERGED"
       /\ pr[PROf(entry, snap)].state # "NONE"
       /\ snap.hook = pr[PROf(entry, snap)].hook
  BY <1>4, <1>5, <1>6, <1>7, <1>8
<1> QED
  BY <1>9, <1>10 DEF snap, found

-----------------------------------------------------------------------------
(* A step keeps the invariant when its three sides do: queue, pull         *)
(* requests and reconcilers.                                               *)

IssueFine == issue' \in [Issues -> [open : BOOLEAN, labels : SUBSET Labels, text : Nat]]

LEMMA ReconcilerStep ==
    ASSUME IInv, NEW r \in Reconcilers, NEW x \in RecRecord, Goes(r, x),
           SoundAt(x, pr'), QueueFine, PRsFine, IssueFine
    PROVE  IInv'
<1>1. TypeOK /\ ApprovalsFit /\ PRsGrow /\ pr' \in [PRs -> PRRecord]
  BY DEF IInv, PRsFine
<1>2. \A q \in Reconcilers : SoundAt(rec[q], pr')
  BY <1>1, GrowthKeepsSound
<1>3. /\ rec' \in [Reconcilers -> RecRecord]
      /\ \A q \in Reconcilers : SoundAt(rec'[q], pr')
  BY <1>1, <1>2, GoesIsSound
<1>4. ApprovalsFit'
  BY <1>1, GrowthKeepsApprovals DEF QueueFine, Closings
<1> QED
  BY <1>3, <1>4 DEF IInv, TypeOK, QueueFine, PRsFine, IssueFine

LEMMA EnvironmentStep ==
    ASSUME IInv, UNCHANGED rec, QueueFine, PRsFine, IssueFine
    PROVE  IInv'
<1>1. TypeOK /\ ApprovalsFit /\ PRsGrow /\ pr' \in [PRs -> PRRecord]
  BY DEF IInv, PRsFine
<1>2. \A q \in Reconcilers : SoundAt(rec'[q], pr')
  BY <1>1, GrowthKeepsSound
<1>3. ApprovalsFit'
  BY <1>1, GrowthKeepsApprovals DEF QueueFine, Closings
<1> QED
  BY <1>1, <1>2, <1>3 DEF IInv, TypeOK, QueueFine, PRsFine, IssueFine

LEMMA IssueUntouched ==
    ASSUME TypeOK, UNCHANGED issue
    PROVE  IssueFine
BY DEF TypeOK, IssueFine

LEMMA IssueChanges ==
    ASSUME TypeOK, NEW i \in Issues,
           \/ issue' = [issue EXCEPT ![i].open = FALSE]
           \/ issue' = [issue EXCEPT ![i].labels = @ \cup {"needs-operator"}]
           \/ issue' = [issue EXCEPT ![i].labels = @ \ {"needs-operator"}]
    PROVE  IssueFine
<1> DEFINE T == [open : BOOLEAN, labels : SUBSET Labels, text : Nat]
<1>1. issue \in [Issues -> T] /\ issue[i] \in T
  BY DEF TypeOK
<1>2. /\ [issue[i] EXCEPT !.open = FALSE] \in T
      /\ [issue[i] EXCEPT !.labels = @ \cup {"needs-operator"}] \in T
      /\ [issue[i] EXCEPT !.labels = @ \ {"needs-operator"}] \in T
  BY <1>1 DEF Labels
<1> HIDE DEF T
<1>3. issue' \in [Issues -> T]
  BY <1>1, <1>2
<1> QED
  BY <1>3 DEF IssueFine, T

-----------------------------------------------------------------------------
(* The reconciler's own steps.                                             *)

LEMMA ListingSteps ==
    ASSUME IInv, NEW r \in Reconcilers,
           TickStart(r) \/ ListWithdrawn(r) \/ ListInReview(r) \/ TickEnd(r)
    PROVE  IInv'
<1>1. TypeOK
  BY DEF IInv
<1>2. UNCHANGED <<task, faults, issue, pr>>
  BY DEF TickStart, ListWithdrawn, ListInReview, TickEnd
<1>3. QueueFine /\ PRsFine /\ IssueFine
  BY <1>1, <1>2, QueueUntouched, NoPRChanges, IssueUntouched
<1>4. \A t \in Tasks : task[t].version \in Nat /\ task[t].age \in Ages
  BY <1>1 DEF TypeOK, QueueTypeOK, TaskRecord
<1>5. CASE TickEnd(r)
  BY <1>3, <1>5, IdleIsSound, ReconcilerStep DEF TickEnd
<1>6. CASE TickStart(r) \/ ListWithdrawn(r) \/ ListInReview(r)
  <2>1. PICK phase \in Phases, todo \in SUBSET Entry : Goes(r, Sweep(phase, todo))
    BY <1>4, <1>6 DEF TickStart, ListWithdrawn, ListInReview, ListTasks, Entry, Phases
  <2> QED
    BY <1>3, <2>1, SweepIsSound, ReconcilerStep
<1> QED
  BY <1>5, <1>6

LEMMA WithdrawExhaustedStep ==
    ASSUME IInv, NEW r \in Reconcilers, WithdrawExhausted(r)
    PROVE  IInv'
<1>1. TypeOK /\ rec[r] \in RecRecord
  BY DEF IInv, TypeOK
<1>2. UNCHANGED <<issue, pr>>
  BY DEF WithdrawExhausted
<1>3. PRsFine /\ IssueFine
  BY <1>1, <1>2, NoPRChanges, IssueUntouched
<1>4. PICK entry \in rec[r].todo :
          /\ \/ UNCHANGED task
             \/ Withdraw(entry.task)
          /\ UNCHANGED faults \/ Fault
          /\ \/ Goes(r, [rec[r] EXCEPT !.pc = "handoff", !.item = entry])
             \/ Goes(r, Skip(r, entry))
  BY DEF WithdrawExhausted
<1>5. entry \in Entry /\ entry.task \in Tasks
  BY <1>1 DEF RecRecord, Entry
<1>6. QueueFine
  BY <1>1, <1>4, <1>5, QueueUntouched, WithdrawFine
<1> DEFINE x == [rec[r] EXCEPT !.pc = "handoff", !.item = entry]
<1>7. x \in RecRecord /\ x.pc = "handoff" /\ x.item = entry
  BY <1>1, <1>5 DEF RecRecord, Places
<1>8. Goes(r, x) \/ Goes(r, Skip(r, entry))
  BY <1>4
<1> HIDE DEF x
<1>9. SoundAt(x, pr')
  BY <1>5, <1>7 DEF SoundAt, HoldsPR, ReadsOpen, StandsOnMerge, HoldsGreen, PassedGate
<1> QED
  BY <1>1, <1>3, <1>6, <1>7, <1>8, <1>9, LeavingIsSound, ReconcilerStep

LEMMA HandOffStep ==
    ASSUME IInv, NEW r \in Reconcilers, HandOff(r)
    PROVE  IInv'
<1>1. TypeOK /\ rec[r] \in RecRecord
  BY DEF IInv, TypeOK
<1>2. rec[r].item.task \in Tasks
  BY DEF IInv, SoundAt, StandsOnMerge, HandOff, Entry
<1>3. IssueOf(rec[r].item.task) \in Issues
  BY <1>2 DEF IssueOf, Tasks
<1>4. IssueFine
  BY <1>1, <1>3, IssueUntouched, IssueChanges DEF HandOff
<1>5. QueueFine /\ PRsFine
  BY <1>1, QueueUntouched, NoPRChanges DEF HandOff
<1>6. Goes(r, Done(r))
  BY DEF HandOff
<1> QED
  BY <1>1, <1>4, <1>5, <1>6, LeavingIsSound, ReconcilerStep

LEMMA FindPullRequestStep ==
    ASSUME IInv, NEW r \in Reconcilers, FindPullRequest(r)
    PROVE  IInv'
<1>1. TypeOK /\ rec[r] \in RecRecord
  BY DEF IInv, TypeOK
<1>2. UNCHANGED <<task, issue, pr>> /\ rec[r].phase \in {"orphans", "review"}
  BY DEF FindPullRequest
<1>3. PICK entry \in rec[r].todo :
          \/ /\ Goes(r, IF Found(entry.task) = {} THEN Missing(r, entry)
                        ELSE IF PickPullRequest(Found(entry.task)).state = "OPEN"
                        THEN [rec[r] EXCEPT !.pc = "reviews", !.item = entry,
                                            !.snap = PickPullRequest(Found(entry.task))]
                        ELSE Judged(r, entry, PickPullRequest(Found(entry.task))))
             /\ UNCHANGED faults
          \/ Fault /\ Goes(r, Skip(r, entry))
  BY DEF FindPullRequest
<1>4. entry \in Entry
  BY <1>1 DEF RecRecord
<1>5. QueueFine /\ PRsFine /\ IssueFine
  BY <1>1, <1>2, <1>3, QueueUntouched, NoPRChanges, IssueUntouched
<1>6. CASE Goes(r, Skip(r, entry))
  BY <1>1, <1>5, <1>6, LeavingIsSound, ReconcilerStep
<1>7. CASE Found(entry.task) = {} /\ Goes(r, Missing(r, entry))
  <2>1. Missing(r, entry) \in RecRecord /\ SoundAt(Missing(r, entry), pr)
    BY <1>1, <1>2, <1>4, MissingIsSound
  <2> QED
    BY <1>2, <1>5, <1>7, <2>1, ReconcilerStep
<1> DEFINE snap == PickPullRequest(Found(entry.task))
<1>8. CASE Found(entry.task) # {} /\ ~Goes(r, Skip(r, entry))
  <2>1. /\ snap \in PRRecord /\ snap.state # "NONE" /\ snap.number \in 1 .. MaxPRs
        /\ snap.state = "MERGED" =>
              \E p \in PRs : p[1] = entry.task /\ pr[p].state = "MERGED"
        /\ pr[PROf(entry, snap)].state # "NONE"
        /\ snap.head <= pr[PROf(entry, snap)].head
        /\ snap.hook = pr[PROf(entry, snap)].hook
    BY <1>4, <1>8, FoundIsReal
  <2> DEFINE x == [rec[r] EXCEPT !.pc = "reviews", !.item = entry, !.snap = snap]
  <2>2. Goes(r, IF snap.state = "OPEN" THEN x ELSE Judged(r, entry, snap))
    BY <1>3, <1>8
  <2> HIDE DEF snap
  <2>3. CASE snap.state = "OPEN"
    <3>1. /\ x \in RecRecord /\ x.pc = "reviews" /\ x.item = entry /\ x.snap = snap
          /\ x.phase = rec[r].phase
      BY <1>1, <1>4, <2>1 DEF RecRecord, Places
    <3>2. Goes(r, x)
      BY <2>2, <2>3
    <3> HIDE DEF x
    <3>3. SoundAt(x, pr)
      BY <1>2, <1>4, <2>1, <2>3, <3>1
         DEF SoundAt, HoldsPR, ReadsOpen, StandsOnMerge, HoldsGreen, PassedGate
    <3> QED
      BY <1>2, <1>5, <3>1, <3>2, <3>3, ReconcilerStep
  <2>4. CASE snap.state # "OPEN"
    <3>1. Judged(r, entry, snap) \in RecRecord /\ SoundAt(Judged(r, entry, snap), pr)
      BY <1>1, <1>2, <1>4, <2>1, JudgedIsSound
    <3> QED
      BY <1>2, <1>5, <2>2, <2>4, <3>1, ReconcilerStep
  <2> QED
    BY <2>3, <2>4
<1> QED
  BY <1>3, <1>6, <1>7, <1>8

\* What a reconciler that acts on a PR holds, in the form the steps below use.
LEMMA HeldPR ==
    ASSUME IInv, NEW r \in Reconcilers, rec[r].pc \in {"reviews", "gate", "arm", "ready"}
    PROVE  LET p == PROf(rec[r].item, rec[r].snap)
           IN  /\ rec[r] \in RecRecord /\ rec[r].snap \in PRRecord
               /\ rec[r].phase \in {"orphans", "review"}
               /\ rec[r].item \in Entry /\ rec[r].snap.number \in 1 .. MaxPRs
               /\ p \in PRs /\ pr[p] \in PRRecord /\ pr[p].state # "NONE"
               /\ pr[p].number = p[2]
               /\ rec[r].snap.head \in Nat /\ pr[p].head \in Nat
               /\ rec[r].snap.head <= pr[p].head /\ rec[r].snap.hook = pr[p].hook
<1> DEFINE p == PROf(rec[r].item, rec[r].snap)
<1>1. /\ rec[r] \in RecRecord /\ SoundAt(rec[r], pr)
      /\ pr \in [PRs -> PRRecord] /\ NumbersFit
  BY DEF IInv, TypeOK
<1>2. /\ rec[r].phase \in {"orphans", "review"}
      /\ rec[r].item \in Entry /\ rec[r].snap.number \in 1 .. MaxPRs
      /\ pr[p].state # "NONE"
      /\ rec[r].snap.head <= pr[p].head /\ rec[r].snap.hook = pr[p].hook
  BY <1>1 DEF SoundAt, HoldsPR
<1>3. p \in PRs
  BY <1>2 DEF PROf, PRs, Entry
<1>4. rec[r].snap \in PRRecord
  BY <1>1 DEF RecRecord
<1> QED
  BY <1>1, <1>2, <1>3, <1>4 DEF NumbersFit, PRRecord, Heads

LEMMA LoadReviewsStep ==
    ASSUME IInv, NEW r \in Reconcilers, LoadReviews(r)
    PROVE  IInv'
<1> DEFINE p    == PROf(rec[r].item, rec[r].snap)
           snap == [rec[r].snap EXCEPT !.review = pr[p].review]
<1>1. TypeOK /\ rec[r].pc = "reviews" /\ UNCHANGED <<task, faults, issue, pr>>
  BY DEF IInv, LoadReviews
<1>2. QueueFine /\ PRsFine /\ IssueFine
  BY <1>1, QueueUntouched, NoPRChanges, IssueUntouched
<1>3. /\ rec[r].snap \in PRRecord
      /\ rec[r].phase \in {"orphans", "review"}
      /\ rec[r].item \in Entry /\ rec[r].snap.number \in 1 .. MaxPRs
      /\ p \in PRs /\ pr[p] \in PRRecord /\ pr[p].state # "NONE"
      /\ rec[r].snap.head <= pr[p].head /\ rec[r].snap.hook = pr[p].hook
      /\ rec[r].snap.state = "OPEN"
  BY <1>1, HeldPR DEF IInv, SoundAt, ReadsOpen
<1>4. CASE Goes(r, Done(r))
  BY <1>1, <1>2, <1>4, LeavingIsSound, ReconcilerStep
<1>5. CASE Goes(r, Judged(r, rec[r].item, snap))
  <2>1. snap \in PRRecord
    BY <1>3 DEF PRRecord
  <2>2. /\ snap.state = "OPEN" /\ snap.number = rec[r].snap.number
        /\ snap.head = rec[r].snap.head /\ snap.hook = rec[r].snap.hook
    BY <1>3 DEF PRRecord
  <2>3. PROf(rec[r].item, snap) = p
    BY <2>2 DEF PROf
  <2> HIDE DEF snap, p
  <2>4. /\ Judged(r, rec[r].item, snap) \in RecRecord
        /\ SoundAt(Judged(r, rec[r].item, snap), pr)
    BY <1>1, <1>3, <2>1, <2>2, <2>3, JudgedIsSound
  <2> QED
    BY <1>1, <1>2, <1>5, <2>4, ReconcilerStep
<1> QED
  BY <1>4, <1>5 DEF LoadReviews

LEMMA GateStep ==
    ASSUME IInv, NEW r \in Reconcilers, Gate(r)
    PROVE  IInv'
<1> DEFINE p == PROf(rec[r].item, rec[r].snap)
           x == [rec[r] EXCEPT !.pc = "arm"]
           open == GateOpen(FALSE, Required, rec[r].snap.checks, TRUE, pr[p].head \in OperatorHeads)
<1>1. /\ TypeOK /\ rec[r].pc = "gate" /\ UNCHANGED <<task, issue, pr>>
      /\ UNCHANGED faults \/ Fault
  BY DEF IInv, Gate
<1>2. QueueFine /\ PRsFine /\ IssueFine
  BY <1>1, QueueUntouched, NoPRChanges, IssueUntouched
<1>3. CASE Goes(r, Done(r))
  BY <1>1, <1>2, <1>3, LeavingIsSound, ReconcilerStep
<1>4. CASE open /\ Goes(r, x)
  <2>1. rec[r] \in RecRecord /\ SoundAt(rec[r], pr)
    BY DEF IInv, TypeOK
  <2>2. /\ x \in RecRecord /\ x.pc = "arm" /\ x.phase = rec[r].phase
        /\ x.item = rec[r].item /\ x.snap = rec[r].snap
    BY <2>1 DEF RecRecord, Places
  <2>3. /\ Required # {} /\ \A c \in Required : rec[r].snap.checks[c] = "SUCCESS"
        /\ pr[p].head \notin OperatorHeads
    BY <1>4 DEF GateOpen, RequiredPassed
  <2> HIDE DEF x
  <2>4. SoundAt(x, pr)
    <3>1. HoldsPR(x, pr) /\ HoldsGreen(x)
      BY <1>1, <2>1, <2>2 DEF SoundAt, HoldsPR, HoldsGreen
    <3>2. PassedGate(x, pr)
      BY <2>2, <2>3 DEF PassedGate
    <3> QED
      BY <2>2, <3>1, <3>2 DEF SoundAt, ReadsOpen, StandsOnMerge
  <2>5. Goes(r, x)
    BY <1>4
  <2> QED
    BY <1>1, <1>2, <2>2, <2>4, <2>5, ReconcilerStep
<1> QED
  BY <1>3, <1>4 DEF Gate

LEMMA MarkReadyStep ==
    ASSUME IInv, NEW r \in Reconcilers, MarkReady(r)
    PROVE  IInv'
<1> DEFINE p == PROf(rec[r].item, rec[r].snap)
<1>1. /\ TypeOK /\ rec[r].pc = "ready" /\ UNCHANGED <<task, issue>>
      /\ UNCHANGED faults \/ Fault
      /\ Goes(r, Done(r))
  BY DEF IInv, MarkReady
<1>2. p \in PRs /\ pr[p] \in PRRecord
  BY <1>1, HeldPR
<1>3. PRsFine
  <2>1. CASE UNCHANGED pr
    BY <2>1, NoPRChanges
  <2>2. CASE \E checks \in {pr[p].checks, Unreported} :
                pr' = [pr EXCEPT ![p].draft = FALSE, ![p].checks = checks]
    <3>1. PICK checks \in {pr[p].checks, Unreported} :
                pr' = [pr EXCEPT ![p].draft = FALSE, ![p].checks = checks]
      BY <2>2
    <3> DEFINE y == [pr[p] EXCEPT !.draft = FALSE, !.checks = checks]
    <3>2. checks \in [Checks -> Conclusions]
      BY <1>2, <3>1 DEF PRRecord, Unreported, Conclusions
    <3>3. pr' = [pr EXCEPT ![p] = y]
      BY <3>1
    <3>4. y \in PRRecord
      BY <1>2, <3>2 DEF PRRecord
    <3>5. /\ y.state = pr[p].state /\ y.number = pr[p].number /\ y.armed = pr[p].armed
          /\ y.head = pr[p].head /\ y.hook = pr[p].hook
      BY <1>2 DEF PRRecord
    <3> HIDE DEF y, p
    <3> QED
      BY <1>2, <3>3, <3>4, <3>5, OnePRMoves
  <2> QED
    BY <2>1, <2>2 DEF MarkReady
<1>4. QueueFine /\ IssueFine
  BY <1>1, QueueUntouched, IssueUntouched
<1> QED
  BY <1>1, <1>3, <1>4, LeavingIsSound, ReconcilerStep

LEMMA ArmStep ==
    ASSUME IInv, NEW r \in Reconcilers, Arm(r)
    PROVE  IInv'
<1> DEFINE p == PROf(rec[r].item, rec[r].snap)
<1>1. /\ TypeOK /\ rec[r].pc = "arm" /\ UNCHANGED task
      /\ UNCHANGED faults \/ Fault
      /\ Goes(r, Done(r))
  BY DEF IInv, Arm
<1>2. /\ p \in PRs /\ pr[p] \in PRRecord /\ pr[p].number = p[2] /\ pr[p].head \in Nat
      /\ rec[r].item.task \in Tasks
  BY <1>1, HeldPR DEF Entry
<1>3. /\ \/ UNCHANGED <<pr, issue>>
         \/ HeadMatches(p, rec[r].snap.head) /\ ArmAutoMerge(p)
  BY DEF Arm
<1>4. PRsFine
  <2>1. CASE UNCHANGED pr
    BY <2>1, NoPRChanges
  <2>2. CASE HeadMatches(p, rec[r].snap.head) /\ ArmAutoMerge(p)
    <3>1. PICK state \in {"OPEN", "MERGED"} :
              pr' = [pr EXCEPT ![p].armed = pr[p].head, ![p].state = state]
      <4>1. CASE AutoMergeOn
        <5>1. pr' = [pr EXCEPT ![p].armed = pr[p].head] /\ pr[p].state = "OPEN"
          BY <2>2, <4>1 DEF ArmAutoMerge, HeadMatches
        <5>2. [pr[p] EXCEPT !.armed = pr[p].head]
                = [pr[p] EXCEPT !.armed = pr[p].head, !.state = "OPEN"]
          BY <1>2, <5>1 DEF PRRecord
        <5>3. pr' = [pr EXCEPT ![p].armed = pr[p].head, ![p].state = "OPEN"]
          BY <5>1, <5>2
        <5> QED
          BY <5>3
      <4>2. CASE ~AutoMergeOn
        BY <2>2, <4>2 DEF ArmAutoMerge
      <4> QED
        BY <4>1, <4>2
    <3>2. pr[p].head \notin OperatorHeads /\ pr[p].state = "OPEN"
      BY <1>1, <2>2 DEF IInv, SoundAt, PassedGate, HeadMatches
    <3> DEFINE y == [pr[p] EXCEPT !.armed = pr[p].head, !.state = state]
    <3>3. pr' = [pr EXCEPT ![p] = y]
      BY <3>1
    <3>4. /\ y \in PRRecord
          /\ y.state = state /\ y.number = pr[p].number /\ y.armed = pr[p].head
          /\ y.head = pr[p].head /\ y.hook = pr[p].hook
      BY <1>2 DEF PRRecord
    <3> HIDE DEF y, p
    <3>5. /\ pr[p].head <= y.head /\ y.state # "NONE"
          /\ y.number = p[2] /\ y.armed \notin OperatorHeads
      BY <1>2, <3>1, <3>2, <3>4
    <3> QED
      BY <1>2, <3>2, <3>3, <3>4, <3>5, OnePRChanges
  <2> QED
    BY <1>3, <2>1, <2>2
<1>5. p[1] \in Tasks /\ IssueOf(p[1]) \in Issues
  BY <1>2 DEF PROf, IssueOf, Tasks
<1>6. QueueFine /\ IssueFine
  BY <1>1, <1>3, <1>5, QueueUntouched, IssueUntouched, IssueChanges DEF ArmAutoMerge
<1> QED
  BY <1>1, <1>4, <1>6, LeavingIsSound, ReconcilerStep

LEMMA ClaimStep ==
    ASSUME IInv, NEW r \in Reconcilers, Claim(r)
    PROVE  IInv'
<1> DEFINE x == [rec[r] EXCEPT !.pc = "transition"]
<1>1. /\ TypeOK /\ rec[r].pc = "claim" /\ UNCHANGED <<issue, pr>>
      /\ UNCHANGED faults \/ Fault
  BY DEF IInv, Claim
<1>2. /\ rec[r] \in RecRecord /\ SoundAt(rec[r], pr)
      /\ rec[r].item \in Entry /\ rec[r].item.task \in Tasks
  BY <1>1 DEF IInv, TypeOK, SoundAt, StandsOnMerge, Entry
<1>3. PRsFine /\ IssueFine
  BY <1>1, NoPRChanges, IssueUntouched
<1>4. QueueFine
  <2>1. \/ UNCHANGED task
        \/ \E u \in Tasks : task' = [task EXCEPT ![u].lease = r]
    BY <1>2 DEF Claim, ClaimTask
  <2> QED
    BY <1>1, <2>1, QueueUntouched, LeaseFine
<1>5. x \in RecRecord /\ SoundAt(x, pr)
  <2>1. /\ x \in RecRecord /\ x.pc = "transition" /\ x.item = rec[r].item
        /\ x.verdict = rec[r].verdict
    BY <1>2 DEF RecRecord, Places
  <2> HIDE DEF x
  <2> QED
    BY <1>1, <1>2, <2>1 DEF SoundAt, HoldsPR, ReadsOpen, StandsOnMerge, HoldsGreen, PassedGate
<1>6. Goes(r, Done(r)) \/ Goes(r, x)
  BY DEF Claim
<1> QED
  BY <1>1, <1>3, <1>4, <1>5, <1>6, LeavingIsSound, ReconcilerStep

LEMMA ApplyVerdictStep ==
    ASSUME IInv, NEW r \in Reconcilers, ApplyVerdict(r)
    PROVE  IInv'
<1> DEFINE t == rec[r].item.task
           verdict == rec[r].verdict
           x == [rec[r] EXCEPT !.pc = "handoff"]
<1>1. /\ TypeOK /\ rec[r].pc = "transition" /\ UNCHANGED <<issue, pr>>
      /\ UNCHANGED faults \/ Fault
      /\ UNCHANGED task \/ Transition(t, verdict)
      /\ Goes(r, Done(r)) \/ Goes(r, x)
  BY DEF IInv, ApplyVerdict
<1>2. /\ rec[r] \in RecRecord /\ SoundAt(rec[r], pr)
      /\ rec[r].item \in Entry /\ t \in Tasks
      /\ verdict \in {"approved", "dropped", "rejected"}
      /\ verdict = "approved" => \E p \in PRs : p[1] = t /\ pr[p].state = "MERGED"
  BY <1>1 DEF IInv, TypeOK, SoundAt, StandsOnMerge, Entry, RecRecord, Verdicts
<1>3. PRsFine /\ IssueFine
  BY <1>1, NoPRChanges, IssueUntouched
<1>4. QueueFine
  <2>1. task[t].version \in Nat
    BY <1>1, <1>2 DEF TypeOK, QueueTypeOK, TaskRecord
  <2>2. /\ StageAfter(verdict) \in Stages /\ VersionAfter(t, verdict) \in Nat
        /\ StageAfter(verdict) = "closed" => verdict = "approved"
    BY <1>2, <2>1 DEF StageAfter, VersionAfter, Stages
  <2> QED
    BY <1>1, <1>2, <2>2, QueueUntouched, MoveToFine DEF Transition
<1>5. x \in RecRecord /\ SoundAt(x, pr)
  <2>1. x \in RecRecord /\ x.pc = "handoff" /\ x.item = rec[r].item
    BY <1>2 DEF RecRecord, Places
  <2> HIDE DEF x
  <2> QED
    BY <1>2, <2>1 DEF SoundAt, HoldsPR, ReadsOpen, StandsOnMerge, HoldsGreen, PassedGate
<1> HIDE DEF x
<1> QED
  BY <1>1, <1>3, <1>4, <1>5, LeavingIsSound, ReconcilerStep

-----------------------------------------------------------------------------
(* The rest of the world.                                                  *)

LEMMA EnvironmentSteps ==
    ASSUME IInv, Environment
    PROVE  IInv'
<1>1. TypeOK
  BY DEF IInv
<1>2. CASE \E r \in Reconcilers : Abort(r)
  <2>1. PICK r \in Reconcilers : Abort(r)
    BY <1>2
  <2>2. QueueFine /\ PRsFine /\ IssueFine /\ Goes(r, IdleRec)
    BY <1>1, <2>1, QueueUntouched, NoPRChanges, IssueUntouched DEF Abort
  <2> QED
    BY <2>2, IdleIsSound, ReconcilerStep
<1>3. CASE \E p \in PRs : PullRequestChanges(p)
  <2>1. PICK p \in PRs : PullRequestChanges(p)
    BY <1>3
  <2>2. UNCHANGED <<task, faults, rec>>
    BY <2>1 DEF PullRequestChanges
  <2>3. IssueOf(p[1]) \in Issues
    BY DEF PRs, Tasks, IssueOf
  <2>4. IssueFine
    BY <1>1, <2>1, <2>3, IssueUntouched, IssueChanges DEF PullRequestChanges, Merge
  <2>5. PRsFine
    BY <2>1, PullRequestChangesFine
  <2> QED
    BY <1>1, <2>2, <2>4, <2>5, QueueUntouched, EnvironmentStep
<1>4. CASE \E t \in Tasks : TaskChanges(t)
  <2>1. PICK t \in Tasks : TaskChanges(t)
    BY <1>4
  <2>2. UNCHANGED <<issue, pr, rec>>
    BY <2>1 DEF TaskChanges
  <2> QED
    BY <1>1, <2>1, <2>2, TaskChangesFine, NoPRChanges, IssueUntouched, EnvironmentStep
<1>5. CASE \E t \in Tasks : LeaseExpires(t)
  <2>1. PICK t \in Tasks : LeaseExpires(t)
    BY <1>5
  <2>2. /\ UNCHANGED <<issue, pr, rec>>
        /\ task' = [task EXCEPT ![t].lease = NoLease]
        /\ UNCHANGED faults \/ Fault
    BY <2>1 DEF LeaseExpires, LeaseLapses
  <2> QED
    BY <1>1, <2>2, LeaseFine, NoPRChanges, IssueUntouched, EnvironmentStep
<1>6. CASE \E i \in Issues : OperatorClears(i)
  BY <1>1, <1>6, IssueChanges, QueueUntouched, NoPRChanges, EnvironmentStep DEF OperatorClears
<1> QED
  BY <1>2, <1>3, <1>4, <1>5, <1>6 DEF Environment

-----------------------------------------------------------------------------
(* The theorems.                                                           *)

LEMMA InitIsSound == Init => IInv
<1> SUFFICES ASSUME Init
             PROVE  IInv
  OBVIOUS
<1>1. QueueTypeOK
  <2>1. NoBody \in Bodies
    BY DEF NoBody, Bodies, Labels
  <2>2. NoTask \in TaskRecord
    BY <2>1 DEF NoTask, TaskRecord, Stages, Ages
  <2> QED
    BY <2>2, QueueAssumption DEF QueueAssumption, Init, QueueInit, QueueTypeOK
<1>2. NoPR \in PRRecord /\ NoPR.state = "NONE" /\ NoPR.armed = 0
  BY ReconcileAssumption DEF ReconcileAssumption, NoPR, PRRecord, Heads, Conclusions
<1>3. issue \in [Issues -> [open : BOOLEAN, labels : SUBSET Labels, text : Nat]]
  BY DEF Init, Labels
<1>4. TypeOK /\ NumbersFit
  BY <1>1, <1>2, <1>3, IdleIsSound DEF TypeOK, NumbersFit, Init
<1>5. ArmedOutsideOperatorPaths
  BY <1>2, ReconcileAssumption DEF ReconcileAssumption, ArmedOutsideOperatorPaths, Init
<1>6. ApprovalsFit
  BY DEF Init, QueueInit, NoTask, ApprovalsFit
<1>7. \A r \in Reconcilers : SoundAt(rec[r], pr)
  BY IdleIsSound DEF Init
<1> QED
  BY <1>4, <1>5, <1>6, <1>7 DEF IInv

LEMMA NextIsSound == IInv /\ [Next]_reconcileVars => IInv'
<1> SUFFICES ASSUME IInv, [Next]_reconcileVars
             PROVE  IInv'
  OBVIOUS
<1>1. CASE UNCHANGED reconcileVars
  <2>1. TypeOK /\ UNCHANGED <<task, faults, issue, pr, rec>>
    BY <1>1 DEF IInv, reconcileVars
  <2> QED
    BY <2>1, QueueUntouched, NoPRChanges, IssueUntouched, EnvironmentStep
<1>2. CASE Environment
  BY <1>2, EnvironmentSteps
<1>3. CASE \E r \in Reconcilers : Reconcile(r)
  BY <1>3, ListingSteps, WithdrawExhaustedStep, HandOffStep, FindPullRequestStep, LoadReviewsStep,
     GateStep, MarkReadyStep, ArmStep, ClaimStep, ApplyVerdictStep DEF Reconcile
<1> QED
  BY <1>1, <1>2, <1>3 DEF Next

LEMMA Invariance == Spec => []IInv
BY InitIsSound, NextIsSound, PTL DEF Spec

\* Every variable of the issue loop keeps its type.
THEOREM TypeCorrect == Spec => []TypeOK
<1>1. IInv => TypeOK
  BY DEF IInv
<1> QED
  BY <1>1, Invariance, PTL

\* The loop closes a task only when a pull request of that task was merged.
THEOREM ClosedOnlyWhenMerged == Spec => []ApprovedMeansMerged
<1>1. IInv => ApprovedMeansMerged
  BY DEF IInv, ApprovalsFit, ApprovedMeansMerged, HasMerged, PRsOf
<1> QED
  BY <1>1, Invariance, PTL

\* The loop never asks GitHub to merge a head that touches an operator-only
\* path, although the gate reads the files later than the checks.
THEOREM NeverArmsOperatorPaths == Spec => []ArmedOutsideOperatorPaths
<1>1. IInv => ArmedOutsideOperatorPaths
  BY DEF IInv
<1> QED
  BY <1>1, Invariance, PTL

-----------------------------------------------------------------------------
(* Action properties: what it takes to arm a pull request.                 *)

\* Nobody but a reconciler about to merge arms a pull request, and it arms
\* the one it holds at the head it judged.
LEMMA OnlyArmArms ==
    ASSUME IInv, Next, NEW p \in PRs, pr'[p].armed # pr[p].armed
    PROVE  \E r \in Reconcilers :
              /\ rec[r].pc = "arm" /\ PROf(rec[r].item, rec[r].snap) = p
              /\ rec[r].snap.head = pr[p].head /\ pr'[p].armed = pr[p].head
<1>1. /\ pr \in [PRs -> PRRecord] /\ pr[p] \in PRRecord /\ NumbersFit
      /\ pr[p].state = "NONE" => pr[p].armed = 0
  BY DEF IInv, TypeOK, NumbersFit
<1>2. ~UNCHANGED pr
  OBVIOUS
<1>3. ASSUME NEW q \in PRs, PullRequestChanges(q) PROVE FALSE
  <2>1. \A y : pr' = [pr EXCEPT ![q] = y] => pr'[p].armed = IF q = p THEN y.armed ELSE pr[p].armed
    BY <1>1
  <2>2. pr[q] \in PRRecord /\ (pr[q].state = "NONE" => pr[q].armed = 0)
    BY <1>1 DEF NumbersFit
  <2>3. PICK y : pr' = [pr EXCEPT ![q] = y] /\ y.armed = pr[q].armed
    <3>1. CASE \E hook \in BOOLEAN : OpenPR(q, hook)
      BY <2>2, <3>1 DEF OpenPR, NoPR
    <3>2. CASE \/ SearchCatchesUp(q) \/ Push(q) \/ BaseMoves(q) \/ ClosePR(q) \/ Merge(q)
      BY <2>2, <3>2 DEF SearchCatchesUp, Push, BaseMoves, ClosePR, Merge, Merged, PRRecord
    <3>3. CASE Review(q)
      BY <2>2, <3>3 DEF Review, PRRecord
    <3>4. CASE \E c \in Checks : Report(q, c)
      BY <2>2, <3>4 DEF Report, PRRecord
    <3> QED
      BY <1>3, <3>1, <3>2, <3>3, <3>4 DEF PullRequestChanges
  <2> QED
    BY <2>1, <2>3
<1>4. ~Environment
  BY <1>2, <1>3 DEF Environment, Abort, TaskChanges, LeaseExpires, OperatorClears
<1>5. PICK r \in Reconcilers : Reconcile(r)
  BY <1>4 DEF Next
<1>6. ASSUME MarkReady(r) PROVE FALSE
  <2> DEFINE q == PROf(rec[r].item, rec[r].snap)
  <2>1. q \in PRs /\ pr[q] \in PRRecord
    BY <1>6, HeldPR DEF MarkReady
  <2>2. PICK checks : pr' = [pr EXCEPT ![q].draft = FALSE, ![q].checks = checks]
    BY <1>2, <1>6 DEF MarkReady
  <2> DEFINE y == [pr[q] EXCEPT !.draft = FALSE, !.checks = checks]
  <2>3. pr' = [pr EXCEPT ![q] = y]
    BY <2>2
  <2>4. y.armed = pr[q].armed
    BY <2>1 DEF PRRecord
  <2> HIDE DEF y, q
  <2> QED
    BY <1>1, <2>3, <2>4
<1>7. Arm(r)
  BY <1>2, <1>5, <1>6 DEF Reconcile, TickStart, ListWithdrawn, ListInReview, TickEnd,
     WithdrawExhausted, HandOff, FindPullRequest, LoadReviews, Gate, Claim, ApplyVerdict
<1> DEFINE q == PROf(rec[r].item, rec[r].snap)
<1>8. rec[r].pc = "arm" /\ q \in PRs /\ pr[q] \in PRRecord
  BY <1>7, HeldPR DEF Arm
<1>9. HeadMatches(q, rec[r].snap.head) /\ ArmAutoMerge(q)
  BY <1>2, <1>7 DEF Arm
<1>10. PICK y : pr' = [pr EXCEPT ![q] = y] /\ y.armed = pr[q].head
  <2>1. CASE AutoMergeOn
    BY <1>8, <1>9, <2>1 DEF ArmAutoMerge, PRRecord
  <2>2. CASE ~AutoMergeOn
    BY <1>8, <1>9, <2>2 DEF ArmAutoMerge, PRRecord
  <2> QED
    BY <2>1, <2>2
<1>11. q = p /\ pr'[p].armed = pr[p].head
  <2> HIDE DEF q
  <2> QED
    BY <1>1, <1>8, <1>10
<1> QED
  BY <1>8, <1>9, <1>11 DEF HeadMatches

\* A pull request is armed only by a reconciler that holds a snapshot of its
\* present head with every required check passed and nothing against it.
THEOREM ArmingHasEvidence == Spec => ArmedOnEvidence
<1> DEFINE Evidence ==
        \A p \in PRs : pr'[p].armed # pr[p].armed =>
          \E r \in Reconcilers :
             LET snap == rec[r].snap
             IN  /\ rec[r].pc = "arm" /\ PROf(rec[r].item, snap) = p
                 /\ snap.head = pr'[p].armed /\ snap.head = pr[p].head
                 /\ ~snap.draft /\ ~snap.dirty /\ snap.review = "clear"
                 /\ Required # {} /\ \A c \in Required : snap.checks[c] = "SUCCESS"
                 /\ \A c \in Checks : snap.checks[c] \notin {"FAILURE", "PENDING"}
<1>1. IInv /\ [Next]_reconcileVars => [Evidence]_reconcileVars
  <2> SUFFICES ASSUME IInv, Next, NEW p \in PRs, pr'[p].armed # pr[p].armed
               PROVE  \E r \in Reconcilers :
                 LET snap == rec[r].snap
                 IN  /\ rec[r].pc = "arm" /\ PROf(rec[r].item, snap) = p
                     /\ snap.head = pr'[p].armed /\ snap.head = pr[p].head
                     /\ ~snap.draft /\ ~snap.dirty /\ snap.review = "clear"
                     /\ Required # {} /\ \A c \in Required : snap.checks[c] = "SUCCESS"
                     /\ \A c \in Checks : snap.checks[c] \notin {"FAILURE", "PENDING"}
    OBVIOUS
  <2>1. PICK r \in Reconcilers :
              /\ rec[r].pc = "arm" /\ PROf(rec[r].item, rec[r].snap) = p
              /\ rec[r].snap.head = pr[p].head /\ pr'[p].armed = pr[p].head
    BY OnlyArmArms
  <2>2. HoldsGreen(rec[r]) /\ PassedGate(rec[r], pr)
    BY DEF IInv, SoundAt
  <2>3. /\ Green(rec[r].snap)
        /\ Required # {} /\ \A c \in Required : rec[r].snap.checks[c] = "SUCCESS"
    BY <2>1, <2>2 DEF HoldsGreen, PassedGate
  <2> QED
    BY <2>1, <2>3 DEF Green
<1> QED
  BY <1>1, Invariance, PTL DEF Spec, ArmedOnEvidence

\* A pull request that a person opened is armed only while its task is being
\* decided in review, never by the sweep of ended tasks.
THEOREM SweepMergesDeliveriesOnly == Spec => OrphanMergesAreDeliveries
<1> DEFINE Delivered ==
        \A p \in PRs : (pr'[p].armed # pr[p].armed /\ ~pr[p].hook) =>
          \E r \in Reconcilers : rec[r].phase = "review" /\ rec[r].item.task = p[1]
<1>1. IInv /\ [Next]_reconcileVars => [Delivered]_reconcileVars
  <2> SUFFICES ASSUME IInv, Next, NEW p \in PRs, pr'[p].armed # pr[p].armed, ~pr[p].hook
               PROVE  \E r \in Reconcilers : rec[r].phase = "review" /\ rec[r].item.task = p[1]
    OBVIOUS
  <2>1. PICK r \in Reconcilers : rec[r].pc = "arm" /\ PROf(rec[r].item, rec[r].snap) = p
    BY OnlyArmArms
  <2>2. rec[r].snap.hook = pr[p].hook
    BY <2>1, HeldPR
  <2>3. rec[r].phase = "review"
    BY <2>1, <2>2 DEF IInv, SoundAt, HoldsGreen
  <2>4. rec[r].item.task = p[1]
    BY <2>1 DEF PROf
  <2> QED
    BY <2>3, <2>4
<1> QED
  BY <1>1, Invariance, PTL DEF Spec, OrphanMergesAreDeliveries

-----------------------------------------------------------------------------
(***************************************************************************)
(* IssueReconcile implements TaskReview, for every number of issues, pull  *)
(* requests, commits and checks, every cap on rounds and every bound on    *)
(* failures, as long as one reconciler is at work at a time.               *)
(***************************************************************************)
OneReconciler == \A q, r \in Reconcilers : q = r

-----------------------------------------------------------------------------
(* The strengthening.  tasks stands for task or task'.                     *)

\* The n-th review is at version 2n, the work before it at 2n - 1.
VersionsFit == \A t \in Tasks :
    /\ task[t].stage = "absent" => task[t].version = 0
    /\ task[t].stage = "in_development" => task[t].version % 2 = 1
    /\ task[t].stage = "in_review" => task[t].version % 2 = 0

\* An entry that was listed for review is in the round it was listed in, or
\* its task has ended since.
StillThere(e, tasks) ==
    /\ tasks[e.task].stage \in {"in_review", "closed", "not_doing"}
    /\ tasks[e.task].version = e.version

ListHolds(x, tasks) ==
    /\ x.phase = "review" =>
          /\ \A e \in x.todo : StillThere(e, tasks)
          /\ \A e, f \in x.todo : e.task = f.task => e = f
    /\ x.pc \notin {"idle", "sweep"} => x.item \in x.todo
    /\ x.pc \in {"claim", "transition"} =>
          /\ x.phase = "review"
          /\ x.verdict = "rejected" => Round(x.item) < MaxRounds

RInv ==
    /\ IInv
    /\ OneReconciler
    /\ VersionsFit
    /\ \A r \in Reconcilers : ListHolds(rec[r], task)

\* A version and its round.
LEMMA Halves ==
    ASSUME NEW v \in Nat
    PROVE  /\ v % 2 = 1 => (v + 1) % 2 = 0 /\ (v + 1) \div 2 = (v \div 2) + 1
           /\ v % 2 = 0 => (v + 1) % 2 = 1 /\ (v + 1) \div 2 = v \div 2
           /\ v \div 2 \in Nat
BY SMT

-----------------------------------------------------------------------------
(* What a step can do to the queue.                                        *)

Becomes(t, stage, version) == \A u \in Tasks :
    /\ task'[u].stage = IF u = t THEN stage ELSE task[u].stage
    /\ task'[u].version = IF u = t THEN version ELSE task[u].version

NoMove == \A u \in Tasks :
    task'[u].stage = task[u].stage /\ task'[u].version = task[u].version

\* Without a verdict: a task arrives, is submitted, or is given up.
PlainMove ==
    \/ NoMove
    \/ \E t \in Tasks :
          \/ task[t].stage = "absent" /\ Becomes(t, "in_development", 1)
          \/ task[t].stage = "in_development" /\ Becomes(t, "in_review", task[t].version + 1)
          \/ /\ task[t].stage \in {"in_development", "in_review"}
             /\ Becomes(t, "not_doing", task[t].version)

LEMMA MoveToBecomes ==
    ASSUME TypeOK, NEW t \in Tasks, NEW stage, NEW version, MoveTo(t, stage, version)
    PROVE  Becomes(t, stage, version)
<1>1. task \in [Tasks -> TaskRecord] /\ task[t] \in TaskRecord
  BY DEF TypeOK, QueueTypeOK
<1> DEFINE y == [task[t] EXCEPT !.stage = stage, !.version = version, !.age = "fresh",
                                !.lease = NoLease]
<1>2. task' = [task EXCEPT ![t] = y]
  BY DEF MoveTo
<1>3. y.stage = stage /\ y.version = version
  BY <1>1 DEF TaskRecord
<1> HIDE DEF y
<1> QED
  BY <1>1, <1>2, <1>3 DEF Becomes

LEMMA WithdrawMoves ==
    ASSUME TypeOK, NEW t \in Tasks, Withdrawable(t), Withdraw(t)
    PROVE  PlainMove
BY MoveToBecomes DEF Withdrawable, Withdraw, PlainMove

\* A change of a task's other fields.
LEMMA OtherFields ==
    ASSUME TypeOK, NEW t \in Tasks, NEW y, task' = [task EXCEPT ![t] = y],
           y.stage = task[t].stage, y.version = task[t].version
    PROVE  NoMove
<1>1. task \in [Tasks -> TaskRecord]
  BY DEF TypeOK, QueueTypeOK
<1> QED
  BY <1>1 DEF NoMove

LEMMA LeaseMoves ==
    ASSUME TypeOK, NEW t \in Tasks, NEW holder, task' = [task EXCEPT ![t].lease = holder]
    PROVE  NoMove
<1>1. task[t] \in TaskRecord
  BY DEF TypeOK, QueueTypeOK
<1> DEFINE y == [task[t] EXCEPT !.lease = holder]
<1>2. y.stage = task[t].stage /\ y.version = task[t].version
  BY <1>1 DEF TaskRecord
<1>3. task' = [task EXCEPT ![t] = y]
  OBVIOUS
<1> HIDE DEF y
<1> QED
  BY <1>2, <1>3, OtherFields

LEMMA TaskChangesMove ==
    ASSUME TypeOK, NEW t \in Tasks, TaskChanges(t)
    PROVE  PlainMove
<1>1. task \in [Tasks -> TaskRecord] /\ task[t] \in TaskRecord
  BY DEF TypeOK, QueueTypeOK
<1>2. CASE TaskArrives(t)
  <2> DEFINE y == [NoTask EXCEPT !.stage = "in_development", !.version = 1, !.body = NoBody]
  <2>1. task' = [task EXCEPT ![t] = y] /\ task[t].stage = "absent"
    BY <1>2 DEF TaskArrives, CreateTask, Exists
  <2>2. y.stage = "in_development" /\ y.version = 1
    BY DEF NoTask
  <2> HIDE DEF y
  <2>3. Becomes(t, "in_development", 1)
    BY <1>1, <2>1, <2>2 DEF Becomes
  <2> QED
    BY <2>1, <2>3 DEF PlainMove
<1>3. CASE WorkerSubmit(t)
  BY <1>3, MoveToBecomes DEF WorkerSubmit, PlainMove
<1>4. CASE WorkerDrop(t)
  BY <1>4, MoveToBecomes DEF WorkerDrop, PlainMove
<1>5. CASE OperatorWithdraw(t)
  BY <1>5, WithdrawMoves DEF OperatorWithdraw
<1>6. CASE WorkerExhaust(t)
  <2> DEFINE y == [task[t] EXCEPT !.parked = TRUE]
  <2>1. task' = [task EXCEPT ![t] = y]
    BY <1>6 DEF WorkerExhaust
  <2>2. y.stage = task[t].stage /\ y.version = task[t].version
    BY <1>1 DEF TaskRecord
  <2> HIDE DEF y
  <2> QED
    BY <2>1, <2>2, OtherFields DEF PlainMove
<1>7. CASE Elapse(t)
  <2>1. PICK age \in Ages : task' = [task EXCEPT ![t].age = age]
    BY <1>7 DEF Elapse, Ages
  <2> DEFINE y == [task[t] EXCEPT !.age = age]
  <2>2. task' = [task EXCEPT ![t] = y]
    BY <2>1
  <2>3. y.stage = task[t].stage /\ y.version = task[t].version
    BY <1>1 DEF TaskRecord
  <2> HIDE DEF y
  <2> QED
    BY <2>2, <2>3, OtherFields DEF PlainMove
<1> QED
  BY <1>2, <1>3, <1>4, <1>5, <1>6, <1>7 DEF TaskChanges

-----------------------------------------------------------------------------
(* The strengthening is kept.                                              *)

\* By every step without a verdict.
LEMMA PlainMoveKeeps ==
    ASSUME RInv, PlainMove
    PROVE  /\ VersionsFit'
           /\ \A r \in Reconcilers : ListHolds(rec[r], task')
<1>1. \A t \in Tasks : task[t].version \in Nat
  BY DEF RInv, IInv, TypeOK, QueueTypeOK, TaskRecord
<1>2. \A r \in Reconcilers : \A e \in rec[r].todo : e.task \in Tasks
  BY DEF RInv, IInv, TypeOK, RecRecord, Entry
<1>3. \A t \in Tasks : task[t].stage \in {"in_review", "closed", "not_doing"} =>
          /\ task'[t].stage \in {"in_review", "closed", "not_doing"}
          /\ task'[t].version = task[t].version
  BY DEF PlainMove, NoMove, Becomes
<1>4. \A r \in Reconcilers : ListHolds(rec[r], task')
  BY <1>2, <1>3 DEF RInv, ListHolds, StillThere
<1>5. VersionsFit'
  <2> SUFFICES ASSUME NEW t \in Tasks
               PROVE  /\ task'[t].stage = "absent" => task'[t].version = 0
                      /\ task'[t].stage = "in_development" => task'[t].version % 2 = 1
                      /\ task'[t].stage = "in_review" => task'[t].version % 2 = 0
    BY DEF VersionsFit
  <2>1. /\ task[t].stage = "absent" => task[t].version = 0
        /\ task[t].stage = "in_development" => task[t].version % 2 = 1
        /\ task[t].stage = "in_review" => task[t].version % 2 = 0
    BY DEF RInv, VersionsFit
  <2>2. task[t].version % 2 = 1 => (task[t].version + 1) % 2 = 0
    BY <1>1, Halves
  <2>3. 1 % 2 = 1
    BY SMT
  <2> QED
    BY <2>1, <2>2, <2>3 DEF PlainMove, NoMove, Becomes
<1> QED
  BY <1>4, <1>5

\* A reconciler moves to x; there is no other.
LEMMA AloneMoves ==
    ASSUME RInv, IInv', NEW r \in Reconcilers, NEW x, Goes(r, x),
           VersionsFit', ListHolds(x, task')
    PROVE  RInv'
<1>1. rec'[r] = x
  BY DEF Goes, RInv, IInv, TypeOK
<1>2. \A q \in Reconcilers : q = r
  BY DEF RInv, OneReconciler
<1> QED
  BY <1>1, <1>2 DEF RInv

\* The entry at hand is left.
LEMMA LeavingHolds ==
    ASSUME NEW r \in Reconcilers, rec[r] \in RecRecord, NEW entry, NEW tasks, ListHolds(rec[r], tasks)
    PROVE  ListHolds(Done(r), tasks) /\ ListHolds(Skip(r, entry), tasks)
BY DEF ListHolds, Done, Skip, Sweep

LEMMA RejectedIsBelow ==
    ASSUME NEW snap \in PRRecord, NEW round \in Nat, NEW maxRounds \in Nat,
           DecidePullRequest(snap, round, maxRounds) = "rejected"
    PROVE  round < maxRounds
<1>1. FailedRound(round, maxRounds) = "rejected"
  BY DEF DecidePullRequest, PRRecord
<1> QED
  BY <1>1 DEF FailedRound

\* A verdict for an entry of the listing is reached in the review phase, and is
\* no rejection once the cap is reached.
LEMMA JudgedHolds ==
    ASSUME RInv, NEW r \in Reconcilers, rec[r].phase \in {"orphans", "review"},
           NEW entry \in rec[r].todo, NEW snap \in PRRecord
    PROVE  ListHolds(Judged(r, entry, snap), task)
<1> DEFINE decision == DecidePullRequest(snap, Round(entry), MaxRounds)
           place    == IF rec[r].phase = "orphans" THEN OrphanPlace(snap) ELSE ReviewPlace(decision)
           verdict  == IF place = "claim" THEN decision ELSE "none"
           x        == [rec[r] EXCEPT !.pc = place, !.item = entry, !.snap = snap,
                                      !.verdict = verdict]
<1>1. rec[r] \in RecRecord /\ ListHolds(rec[r], task) /\ entry \in Entry
  BY DEF RInv, IInv, TypeOK, RecRecord
<1>2. MaxRounds \in Nat /\ Round(entry) \in Nat
  <2>1. entry.version \in Nat
    BY <1>1 DEF Entry
  <2> QED
    BY <2>1, Halves, ReconcileAssumption DEF ReconcileAssumption, Round
<1>3. decision = "rejected" => Round(entry) < MaxRounds
  BY <1>2, RejectedIsBelow
<1>4. /\ OrphanPlace(snap) \in {"sweep", "ready", "gate"}
      /\ ReviewPlace(decision) \in {"sweep", "ready", "gate", "claim"}
  <2> HIDE DEF decision
  <2> QED
    BY DEF OrphanPlace, ReviewPlace
<1>5. place # "transition" /\ (place = "claim" => rec[r].phase = "review")
  <2> HIDE DEF decision
  <2> QED
    BY <1>4
<1>6. Judged(r, entry, snap) = IF place = "sweep" THEN Skip(r, entry) ELSE x
  BY DEF Judged
<1> HIDE DEF place, decision
<1>7. /\ x.pc = place /\ x.item = entry /\ x.phase = rec[r].phase
      /\ x.todo = rec[r].todo /\ x.verdict = verdict
  BY <1>1 DEF RecRecord
<1>8. x.verdict = "rejected" => Round(entry) < MaxRounds
  BY <1>3, <1>7
<1> HIDE DEF x, verdict
<1>9. ListHolds(x, task)
  BY <1>1, <1>5, <1>7, <1>8 DEF ListHolds
<1> QED
  BY <1>1, <1>6, <1>9, LeavingHolds

LEMMA MissingHolds ==
    ASSUME RInv, NEW r \in Reconcilers, rec[r].phase \in {"orphans", "review"},
           NEW entry \in rec[r].todo
    PROVE  ListHolds(Missing(r, entry), task)
<1> DEFINE verdict == DecideMissingPullRequest(Round(entry), MaxRounds)
           x == [rec[r] EXCEPT !.pc = "claim", !.item = entry, !.verdict = verdict]
<1>1. rec[r] \in RecRecord /\ ListHolds(rec[r], task) /\ entry \in Entry
  BY DEF RInv, IInv, TypeOK, RecRecord
<1>2. MaxRounds \in Nat /\ Round(entry) \in Nat
  <2>1. entry.version \in Nat
    BY <1>1 DEF Entry
  <2> QED
    BY <2>1, Halves, ReconcileAssumption DEF ReconcileAssumption, Round
<1>3. verdict = "rejected" => Round(entry) < MaxRounds
  BY <1>2 DEF DecideMissingPullRequest, FailedRound
<1>4. Missing(r, entry) = Skip(r, entry) \/ (rec[r].phase = "review" /\ Missing(r, entry) = x)
  BY DEF Missing
<1> HIDE DEF verdict
<1>5. /\ x.pc = "claim" /\ x.item = entry /\ x.phase = rec[r].phase
      /\ x.todo = rec[r].todo /\ x.verdict = verdict
  BY <1>1 DEF RecRecord
<1> HIDE DEF x
<1>6. rec[r].phase = "review" => ListHolds(x, task)
  BY <1>1, <1>3, <1>5 DEF ListHolds
<1> QED
  BY <1>1, <1>4, <1>6, LeavingHolds

-----------------------------------------------------------------------------
(* The steps of the reconciler.                                            *)

\* A step without a verdict, to a value that holds what it should.
LEMMA PlainStep ==
    ASSUME RInv, IInv', NEW r \in Reconcilers, NEW x, Goes(r, x), PlainMove,
           ListHolds(x, task) \/ ListHolds(x, task')
    PROVE  RInv'
<1>1. VersionsFit'
  BY PlainMoveKeeps
<1>2. ListHolds(x, task')
  <2>1. \A t \in Tasks : task[t].stage \in {"in_review", "closed", "not_doing"} =>
            /\ task'[t].stage \in {"in_review", "closed", "not_doing"}
            /\ task'[t].version = task[t].version
    BY DEF PlainMove, NoMove, Becomes
  <2>2. rec'[r] = x /\ rec'[r] \in RecRecord
    BY DEF Goes, RInv, IInv, TypeOK
  <2>3. \A e \in x.todo : e.task \in Tasks
    BY <2>2 DEF RecRecord, Entry
  <2> QED
    BY <2>1, <2>3 DEF ListHolds, StillThere
<1> QED
  BY <1>1, <1>2, AloneMoves

LEMMA UnchangedMoves ==
    ASSUME UNCHANGED task
    PROVE  PlainMove
BY DEF PlainMove, NoMove

\* What a listing returns is still there.
LEMMA ListingKeeps ==
    ASSUME RInv, IInv', NEW r \in Reconcilers,
           TickStart(r) \/ ListWithdrawn(r) \/ ListInReview(r) \/ TickEnd(r)
    PROVE  RInv'
<1>1. PlainMove
  BY UnchangedMoves DEF TickStart, ListWithdrawn, ListInReview, TickEnd
<1>2. CASE TickEnd(r)
  <2>1. ListHolds(IdleRec, task)
    BY DEF ListHolds, IdleRec
  <2> QED
    BY <1>1, <1>2, <2>1, PlainStep DEF TickEnd
<1>3. CASE TickStart(r)
  <2>1. \A todo : ListHolds(Sweep("exhausted", todo), task)
    BY DEF ListHolds, Sweep
  <2> QED
    BY <1>1, <1>3, <2>1, PlainStep DEF TickStart
<1>4. CASE ListWithdrawn(r)
  <2>1. \A todo : ListHolds(Sweep("orphans", todo), task)
    BY DEF ListHolds, Sweep
  <2> QED
    BY <1>1, <1>4, <2>1, PlainStep DEF ListWithdrawn
<1>5. CASE ListInReview(r)
  <2> DEFINE x == Sweep("review", ListTasks("in_review"))
  <2>1. x.phase = "review" /\ x.pc = "sweep" /\ x.todo = ListTasks("in_review")
    BY DEF Sweep
  <2> HIDE DEF x
  <2>2. ListHolds(x, task)
    BY <2>1 DEF ListHolds, ListTasks, StillThere
  <2>3. Goes(r, x)
    BY <1>5 DEF ListInReview, x
  <2> QED
    BY <1>1, <2>2, <2>3, PlainStep
<1> QED
  BY <1>2, <1>3, <1>4, <1>5

LEMMA WithdrawExhaustedMoves ==
    ASSUME TypeOK, NEW r \in Reconcilers, WithdrawExhausted(r)
    PROVE  PlainMove /\ UNCHANGED pr
<1>1. rec[r] \in RecRecord
  BY DEF TypeOK
<1>2. PICK entry \in rec[r].todo :
          UNCHANGED task \/ (Withdrawable(entry.task) /\ Withdraw(entry.task))
  BY DEF WithdrawExhausted
<1>3. entry.task \in Tasks
  BY <1>1 DEF RecRecord, Entry
<1>4. UNCHANGED pr
  BY DEF WithdrawExhausted
<1> QED
  BY <1>2, <1>3, <1>4, UnchangedMoves, WithdrawMoves

LEMMA WithdrawExhaustedKeeps ==
    ASSUME RInv, IInv', NEW r \in Reconcilers, WithdrawExhausted(r)
    PROVE  RInv'
<1>1. TypeOK /\ rec[r] \in RecRecord /\ ListHolds(rec[r], task) /\ rec[r].phase = "exhausted"
  BY DEF RInv, IInv, TypeOK, WithdrawExhausted, At
<1>2. PICK entry \in rec[r].todo :
          \/ Goes(r, [rec[r] EXCEPT !.pc = "handoff", !.item = entry])
          \/ Goes(r, Skip(r, entry))
  BY DEF WithdrawExhausted
<1>4. PlainMove
  BY <1>1, WithdrawExhaustedMoves
<1> DEFINE x == [rec[r] EXCEPT !.pc = "handoff", !.item = entry]
<1>5. x.pc = "handoff" /\ x.item = entry /\ x.phase = "exhausted" /\ x.todo = rec[r].todo
  BY <1>1 DEF RecRecord
<1>6. Goes(r, x) \/ Goes(r, Skip(r, entry))
  BY <1>2
<1> HIDE DEF x
<1>7. ListHolds(x, task)
  BY <1>5 DEF ListHolds
<1> QED
  BY <1>1, <1>4, <1>6, <1>7, LeavingHolds, PlainStep

LEMMA FindPullRequestKeeps ==
    ASSUME RInv, IInv', NEW r \in Reconcilers, FindPullRequest(r)
    PROVE  RInv'
<1>1. /\ IInv /\ rec[r] \in RecRecord /\ ListHolds(rec[r], task)
      /\ rec[r].phase \in {"orphans", "review"} /\ rec[r].pc = "sweep"
  BY DEF RInv, IInv, TypeOK, FindPullRequest
<1>2. PlainMove
  BY UnchangedMoves DEF FindPullRequest
<1>3. PICK entry \in rec[r].todo :
          \/ Goes(r, IF Found(entry.task) = {} THEN Missing(r, entry)
                     ELSE IF PickPullRequest(Found(entry.task)).state = "OPEN"
                     THEN [rec[r] EXCEPT !.pc = "reviews", !.item = entry,
                                         !.snap = PickPullRequest(Found(entry.task))]
                     ELSE Judged(r, entry, PickPullRequest(Found(entry.task))))
          \/ Goes(r, Skip(r, entry))
  BY DEF FindPullRequest
<1> DEFINE snap == PickPullRequest(Found(entry.task))
           x == [rec[r] EXCEPT !.pc = "reviews", !.item = entry, !.snap = snap]
<1>4. Found(entry.task) # {} => ListHolds(Judged(r, entry, snap), task)
  <2>1. entry \in Entry
    BY <1>1 DEF RecRecord
  <2>2. Found(entry.task) # {} => snap \in PRRecord
    BY <1>1, <2>1, FoundIsReal
  <2> HIDE DEF snap
  <2> QED
    BY <1>1, <2>2, JudgedHolds
<1>5. ListHolds(Missing(r, entry), task) /\ ListHolds(Skip(r, entry), task)
  BY <1>1, MissingHolds, LeavingHolds
<1>6. ListHolds(x, task)
  <2>1. x.pc = "reviews" /\ x.item = entry /\ x.phase = rec[r].phase /\ x.todo = rec[r].todo
    BY <1>1 DEF RecRecord
  <2> HIDE DEF x
  <2> QED
    BY <1>1, <2>1 DEF ListHolds
<1>7. PICK y : Goes(r, y) /\ ListHolds(y, task)
  BY <1>3, <1>4, <1>5, <1>6
<1> QED
  BY <1>2, <1>7, PlainStep

\* Steps that leave the queue alone and go on with the entry at hand.
LEMMA GoingOnKeeps ==
    ASSUME RInv, IInv', NEW r \in Reconcilers,
           HandOff(r) \/ LoadReviews(r) \/ Gate(r) \/ MarkReady(r) \/ Arm(r)
    PROVE  RInv'
<1>1. IInv /\ rec[r] \in RecRecord /\ ListHolds(rec[r], task)
  BY DEF RInv, IInv, TypeOK
<1>2. PlainMove
  BY UnchangedMoves DEF HandOff, LoadReviews, Gate, MarkReady, Arm
<1>3. ListHolds(Done(r), task)
  BY <1>1, LeavingHolds
<1>4. CASE HandOff(r) \/ MarkReady(r) \/ Arm(r)
  BY <1>2, <1>3, <1>4, PlainStep DEF HandOff, MarkReady, Arm
<1>5. CASE Gate(r)
  <2> DEFINE x == [rec[r] EXCEPT !.pc = "arm"]
  <2>1. Goes(r, x) \/ Goes(r, Done(r))
    BY <1>5 DEF Gate
  <2>2. /\ x.pc = "arm" /\ x.item = rec[r].item /\ x.phase = rec[r].phase
        /\ x.todo = rec[r].todo /\ rec[r].pc = "gate"
    BY <1>1, <1>5 DEF RecRecord, Gate
  <2> HIDE DEF x
  <2>3. ListHolds(x, task)
    BY <1>1, <2>2 DEF ListHolds
  <2> QED
    BY <1>2, <1>3, <2>1, <2>3, PlainStep
<1>6. CASE LoadReviews(r)
  <2> DEFINE snap == [rec[r].snap EXCEPT !.review = pr[PROf(rec[r].item, rec[r].snap)].review]
  <2>1. /\ rec[r].pc = "reviews"
        /\ Goes(r, Judged(r, rec[r].item, snap)) \/ Goes(r, Done(r))
    BY <1>6 DEF LoadReviews
  <2>2. /\ rec[r].phase \in {"orphans", "review"} /\ rec[r].item \in rec[r].todo
        /\ rec[r].snap \in PRRecord /\ pr[PROf(rec[r].item, rec[r].snap)] \in PRRecord
    BY <1>1, <2>1, HeldPR DEF ListHolds
  <2>3. snap \in PRRecord
    BY <2>2 DEF PRRecord
  <2> HIDE DEF snap
  <2>4. ListHolds(Judged(r, rec[r].item, snap), task)
    BY <2>2, <2>3, JudgedHolds
  <2> QED
    BY <1>2, <1>3, <2>1, <2>4, PlainStep
<1> QED
  BY <1>4, <1>5, <1>6

LEMMA ClaimMoves ==
    ASSUME RInv, NEW r \in Reconcilers, Claim(r)
    PROVE  PlainMove /\ UNCHANGED pr
<1>1. TypeOK /\ rec[r] \in RecRecord /\ ListHolds(rec[r], task) /\ rec[r].pc = "claim"
  BY DEF RInv, IInv, TypeOK, Claim
<1>2. rec[r].item.task \in Tasks
  BY <1>1 DEF RInv, IInv, SoundAt, StandsOnMerge, Entry
<1>3. \/ UNCHANGED task
      \/ \E u \in Tasks : task' = [task EXCEPT ![u].lease = r]
  BY <1>2 DEF Claim, ClaimTask
<1>4. UNCHANGED pr
  BY DEF Claim
<1> QED
  BY <1>1, <1>3, <1>4, UnchangedMoves, LeaseMoves DEF PlainMove

LEMMA ClaimKeeps ==
    ASSUME RInv, IInv', NEW r \in Reconcilers, Claim(r)
    PROVE  RInv'
<1> DEFINE x == [rec[r] EXCEPT !.pc = "transition"]
<1>1. TypeOK /\ rec[r] \in RecRecord /\ ListHolds(rec[r], task) /\ rec[r].pc = "claim"
  BY DEF RInv, IInv, TypeOK, Claim
<1>3. PlainMove
  BY ClaimMoves
<1>4. Goes(r, Done(r)) \/ Goes(r, x)
  BY DEF Claim
<1>5. /\ x.pc = "transition" /\ x.item = rec[r].item /\ x.phase = rec[r].phase
      /\ x.todo = rec[r].todo /\ x.verdict = rec[r].verdict
  BY <1>1 DEF RecRecord
<1> HIDE DEF x
<1>6. ListHolds(x, task)
  BY <1>1, <1>5 DEF ListHolds
<1> QED
  BY <1>1, <1>3, <1>4, <1>6, LeavingHolds, PlainStep

\* What a verdict does to the task it is applied to.
LEMMA VerdictBecomes ==
    ASSUME RInv, NEW r \in Reconcilers, rec[r].pc = "transition",
           TransitionAllowed(rec[r].item.task, r),
           Transition(rec[r].item.task, rec[r].verdict)
    PROVE  LET t == rec[r].item.task
               version == task[t].version
           IN  /\ t \in Tasks
               /\ task[t].stage = "in_review"
               /\ \/ rec[r].verdict = "approved" /\ HasMerged(t) /\ Becomes(t, "closed", version)
                  \/ rec[r].verdict = "dropped" /\ Becomes(t, "not_doing", version)
                  \/ /\ rec[r].verdict = "rejected"
                     /\ version \div 2 < MaxRounds
                     /\ Becomes(t, "in_development", version + 1)
<1> DEFINE t == rec[r].item.task
<1>1. TypeOK /\ rec[r] \in RecRecord /\ ListHolds(rec[r], task) /\ SoundAt(rec[r], pr)
  BY DEF RInv, IInv, TypeOK
<1>2. t \in Tasks
  BY <1>1 DEF SoundAt, StandsOnMerge, Entry
<1>3. rec[r].verdict \in {"approved", "dropped", "rejected"}
  BY <1>1 DEF SoundAt, StandsOnMerge, RecRecord, Verdicts
<1>4. task[t].stage = "in_review"
  BY DEF TransitionAllowed
<1>5. Becomes(t, StageAfter(rec[r].verdict), VersionAfter(t, rec[r].verdict))
  BY <1>1, <1>2, MoveToBecomes DEF Transition
<1>6. rec[r].verdict = "approved" => HasMerged(t)
  <2>1. rec[r].verdict = "approved" => \E p \in PRs : p[1] = t /\ pr[p].state = "MERGED"
    BY <1>1 DEF SoundAt, StandsOnMerge
  <2> QED
    BY <2>1 DEF HasMerged, PRsOf
<1>7. rec[r].verdict = "rejected" => task[t].version \div 2 < MaxRounds
  <2>1. rec[r].item \in rec[r].todo /\ StillThere(rec[r].item, task)
    BY <1>1 DEF ListHolds
  <2>2. task[t].version = rec[r].item.version
    BY <2>1 DEF StillThere
  <2> QED
    BY <1>1, <2>2 DEF ListHolds, Round
<1> HIDE DEF t
<1>8. /\ rec[r].verdict = "approved" => Becomes(t, "closed", task[t].version)
      /\ rec[r].verdict = "dropped" => Becomes(t, "not_doing", task[t].version)
      /\ rec[r].verdict = "rejected" => Becomes(t, "in_development", task[t].version + 1)
  BY <1>5 DEF StageAfter, VersionAfter
<1> QED
  BY <1>2, <1>3, <1>4, <1>6, <1>7, <1>8 DEF t

LEMMA ApplyVerdictKeeps ==
    ASSUME RInv, IInv', NEW r \in Reconcilers, ApplyVerdict(r)
    PROVE  RInv'
<1> DEFINE t == rec[r].item.task
           x == [rec[r] EXCEPT !.pc = "handoff"]
<1>1. TypeOK /\ rec[r] \in RecRecord /\ ListHolds(rec[r], task) /\ rec[r].pc = "transition"
  BY DEF RInv, IInv, TypeOK, ApplyVerdict
<1>2. /\ rec[r].phase = "review" /\ rec[r].item \in rec[r].todo
      /\ \A e \in rec[r].todo : StillThere(e, task)
      /\ \A e \in rec[r].todo : e.task = t => e = rec[r].item
      /\ \A e \in rec[r].todo : e.task \in Tasks
  BY <1>1 DEF ListHolds, RecRecord, Entry
<1>3. /\ x.pc = "handoff" /\ x.item = rec[r].item /\ x.phase = rec[r].phase
      /\ x.todo = rec[r].todo
  BY <1>1 DEF RecRecord
<1>4. /\ Goes(r, Done(r)) \/ (rec[r].verdict = "dropped" /\ Goes(r, x))
      /\ UNCHANGED task => Goes(r, Done(r)) \/ (TransitionAllowed(t, r) /\ Transition(t, rec[r].verdict))
      /\ \/ UNCHANGED task
         \/ TransitionAllowed(t, r) /\ Transition(t, rec[r].verdict)
  BY DEF ApplyVerdict
<1>5. CASE UNCHANGED task /\ Goes(r, Done(r))
  BY <1>1, <1>5, UnchangedMoves, LeavingHolds, PlainStep
<1>6. CASE TransitionAllowed(t, r) /\ Transition(t, rec[r].verdict)
  <2> DEFINE version == task[t].version
  <2>1. /\ t \in Tasks /\ task[t].stage = "in_review"
        /\ \/ rec[r].verdict = "approved" /\ Becomes(t, "closed", version)
           \/ rec[r].verdict = "dropped" /\ Becomes(t, "not_doing", version)
           \/ rec[r].verdict = "rejected" /\ Becomes(t, "in_development", version + 1)
    BY <1>1, <1>6, VerdictBecomes
  <2>2. version \in Nat /\ version % 2 = 0
    BY <1>1, <2>1 DEF TypeOK, QueueTypeOK, TaskRecord, RInv, VersionsFit
  <2>3. (version + 1) % 2 = 1
    BY <2>2, Halves
  <2> HIDE DEF t
  <2>4. VersionsFit'
    BY <2>1, <2>3 DEF RInv, VersionsFit, Becomes
  <2>5. \A e \in rec[r].todo \ {rec[r].item} : StillThere(e, task')
    BY <1>2, <2>1 DEF StillThere, Becomes
  <2>6. ListHolds(Done(r), task')
    BY <1>1, <2>5 DEF ListHolds, Done, Sweep
  <2>7. rec[r].verdict = "dropped" => ListHolds(x, task')
    <3>1. rec[r].verdict = "dropped" => StillThere(rec[r].item, task')
      BY <1>2, <2>1 DEF StillThere, Becomes, t
    <3> HIDE DEF x
    <3> QED
      BY <1>1, <1>2, <1>3, <2>5, <3>1 DEF ListHolds
  <2> HIDE DEF x
  <2> QED
    BY <1>4, <2>4, <2>6, <2>7, AloneMoves
<1> QED
  BY <1>4, <1>5, <1>6

\* By everybody else.
LEMMA EnvironmentKeeps ==
    ASSUME RInv, IInv', Environment
    PROVE  RInv'
<1>1. ASSUME PlainMove, UNCHANGED rec PROVE RInv'
  BY <1>1, PlainMoveKeeps DEF RInv
<1>2. TypeOK
  BY DEF RInv, IInv
<1>3. ASSUME NEW r \in Reconcilers, Abort(r) PROVE RInv'
  <2>1. ListHolds(IdleRec, task)
    BY DEF ListHolds, IdleRec
  <2>2. Goes(r, IdleRec) /\ UNCHANGED task
    BY <1>3 DEF Abort
  <2> QED
    BY <2>1, <2>2, UnchangedMoves, PlainStep
<1>4. ASSUME NEW p \in PRs, PullRequestChanges(p) PROVE RInv'
  BY <1>1, <1>4, UnchangedMoves DEF PullRequestChanges
<1>5. ASSUME NEW t \in Tasks, TaskChanges(t) PROVE RInv'
  BY <1>1, <1>2, <1>5, TaskChangesMove DEF TaskChanges
<1>6. ASSUME NEW t \in Tasks, LeaseExpires(t) PROVE RInv'
  BY <1>1, <1>2, <1>6, LeaseMoves DEF LeaseExpires, LeaseLapses, PlainMove
<1>7. ASSUME NEW i \in Issues, OperatorClears(i) PROVE RInv'
  BY <1>1, <1>7, UnchangedMoves DEF OperatorClears
<1> QED
  BY <1>3, <1>4, <1>5, <1>6, <1>7 DEF Environment

LEMMA RInvKept == RInv /\ [Next]_reconcileVars => RInv'
<1> SUFFICES ASSUME RInv, [Next]_reconcileVars PROVE RInv'
  OBVIOUS
<1>1. IInv'
  BY NextIsSound DEF RInv
<1>2. ASSUME NEW r \in Reconcilers, Reconcile(r) PROVE RInv'
  BY <1>1, <1>2, ListingKeeps, WithdrawExhaustedKeeps, FindPullRequestKeeps, GoingOnKeeps,
     ClaimKeeps, ApplyVerdictKeeps DEF Reconcile
<1>3. CASE Environment
  BY <1>1, <1>3, EnvironmentKeeps
<1>4. CASE UNCHANGED reconcileVars
  BY <1>1, <1>4 DEF reconcileVars, RInv, VersionsFit
<1> QED
  BY <1>2, <1>3, <1>4 DEF Next

LEMMA RInvFirst == Init /\ OneReconciler => RInv
<1> SUFFICES ASSUME Init, OneReconciler PROVE RInv
  OBVIOUS
<1>1. IInv
  BY InitIsSound
<1>2. VersionsFit
  BY DEF Init, QueueInit, NoTask, VersionsFit
<1>3. ASSUME NEW r \in Reconcilers PROVE ListHolds(rec[r], task)
  BY DEF Init, IdleRec, ListHolds
<1> QED
  BY <1>1, <1>2, <1>3 DEF RInv

LEMMA RInvariance == ASSUME OneReconciler PROVE Spec => []RInv
<1>1. Init => RInv
  BY RInvFirst
<1> QED
  BY <1>1, RInvKept, PTL DEF Spec

-----------------------------------------------------------------------------
(* The mapping.                                                            *)

MergedSame == \A t \in Tasks : HasMerged(t)' = HasMerged(t)

LEMMA SameView ==
    ASSUME NoMove, MergedSame
    PROVE  UNCHANGED Promise!reviewVars
BY DEF NoMove, MergedSame, Promise!reviewVars

\* A task that moves changes the stage and the round of itself alone.
LEMMA ViewOfMove ==
    ASSUME NEW t \in Tasks, NEW stage, NEW version, Becomes(t, stage, version), MergedSame
    PROVE  /\ [u \in Tasks |-> task'[u].stage] = [[u \in Tasks |-> task[u].stage] EXCEPT ![t] = stage]
           /\ UNCHANGED [u \in Tasks |-> HasMerged(u)]
           /\ version \div 2 = task[t].version \div 2 =>
                 UNCHANGED [u \in Tasks |-> task[u].version \div 2]
           /\ version \div 2 = (task[t].version \div 2) + 1 =>
                 [u \in Tasks |-> task'[u].version \div 2]
                   = [[u \in Tasks |-> task[u].version \div 2] EXCEPT ![t] = @ + 1]
<1>1. UNCHANGED [u \in Tasks |-> HasMerged(u)]
  BY DEF MergedSame
<1>2. \A u \in Tasks : /\ task'[u].stage = IF u = t THEN stage ELSE task[u].stage
                       /\ task'[u].version = IF u = t THEN version ELSE task[u].version
  BY DEF Becomes
<1>3. [u \in Tasks |-> task'[u].stage] = [[u \in Tasks |-> task[u].stage] EXCEPT ![t] = stage]
  BY <1>2
<1>4. version \div 2 = task[t].version \div 2 =>
          UNCHANGED [u \in Tasks |-> task[u].version \div 2]
  <2> SUFFICES ASSUME version \div 2 = task[t].version \div 2, NEW u \in Tasks
               PROVE  task'[u].version \div 2 = task[u].version \div 2
    OBVIOUS
  <2>1. CASE u = t
    BY <1>2, <2>1
  <2>2. CASE u # t
    BY <1>2, <2>2
  <2> QED
    BY <2>1, <2>2
<1>5. version \div 2 = (task[t].version \div 2) + 1 =>
          [u \in Tasks |-> task'[u].version \div 2]
            = [[u \in Tasks |-> task[u].version \div 2] EXCEPT ![t] = @ + 1]
  BY <1>2
<1> QED
  BY <1>1, <1>3, <1>4, <1>5

LEMMA PlainMovesMap ==
    ASSUME RInv, PlainMove, MergedSame
    PROVE  [Promise!Next]_(Promise!reviewVars)
<1>1. CASE NoMove
  BY <1>1, SameView
<1>2. ASSUME NEW t \in Tasks, task[t].stage = "absent", Becomes(t, "in_development", 1)
      PROVE  Promise!Next
  <2>1. 1 \div 2 = task[t].version \div 2
    <3>1. task[t].version = 0
      BY <1>2 DEF RInv, VersionsFit
    <3> QED
      BY <3>1, SMT
  <2>2. Promise!Moves(t, {"absent"}, "in_development")
    BY <1>2, ViewOfMove DEF Promise!Moves
  <2>3. UNCHANGED [u \in Tasks |-> HasMerged(u)]
    BY <1>2, ViewOfMove
  <2>4. UNCHANGED [u \in Tasks |-> task[u].version \div 2]
    BY <1>2, <2>1, ViewOfMove
  <2>5. Promise!Queue(t)
    BY <2>2, <2>3, <2>4 DEF Promise!Queue
  <2> QED
    BY <2>5 DEF Promise!Next
<1>3. ASSUME NEW t \in Tasks, task[t].stage = "in_development",
             Becomes(t, "in_review", task[t].version + 1)
      PROVE  Promise!Next
  <2>1. (task[t].version + 1) \div 2 = (task[t].version \div 2) + 1
    <3>1. task[t].version \in Nat /\ task[t].version % 2 = 1
      BY <1>3 DEF RInv, IInv, TypeOK, QueueTypeOK, TaskRecord, VersionsFit
    <3> QED
      BY <3>1, Halves
  <2>2. Promise!Moves(t, {"in_development"}, "in_review")
    BY <1>3, ViewOfMove DEF Promise!Moves
  <2>3. UNCHANGED [u \in Tasks |-> HasMerged(u)]
    BY <1>3, ViewOfMove
  <2>4. [u \in Tasks |-> task'[u].version \div 2]
           = [[u \in Tasks |-> task[u].version \div 2] EXCEPT ![t] = @ + 1]
    BY <1>3, <2>1, ViewOfMove
  <2>5. Promise!Submit(t)
    BY <2>2, <2>3, <2>4 DEF Promise!Submit
  <2> QED
    BY <2>5 DEF Promise!Next
<1>4. ASSUME NEW t \in Tasks, task[t].stage \in {"in_development", "in_review"},
             Becomes(t, "not_doing", task[t].version)
      PROVE  Promise!Next
  <2>1. Promise!Moves(t, {"in_development", "in_review"}, "not_doing")
    BY <1>4, ViewOfMove DEF Promise!Moves
  <2>2. UNCHANGED [u \in Tasks |-> HasMerged(u)]
    BY <1>4, ViewOfMove
  <2>3. UNCHANGED [u \in Tasks |-> task[u].version \div 2]
    BY <1>4, ViewOfMove
  <2>4. Promise!GiveUp(t)
    BY <2>1, <2>2, <2>3 DEF Promise!GiveUp
  <2> QED
    BY <2>4 DEF Promise!Next
<1> QED
  BY <1>1, <1>2, <1>3, <1>4 DEF PlainMove

\* Only the task whose verdict it is moves, and it moves as promised.
LEMMA VerdictMaps ==
    ASSUME RInv, MergedSame, NEW r \in Reconcilers, rec[r].pc = "transition",
           TransitionAllowed(rec[r].item.task, r),
           Transition(rec[r].item.task, rec[r].verdict)
    PROVE  Promise!Next
<1>1. PICK t \in Tasks : t = rec[r].item.task
  BY VerdictBecomes
<1>2. PICK version \in Nat : version = task[t].version
  BY DEF RInv, IInv, TypeOK, QueueTypeOK, TaskRecord
<1>3. /\ task[t].stage = "in_review"
      /\ \/ HasMerged(t) /\ Becomes(t, "closed", version)
         \/ Becomes(t, "not_doing", version)
         \/ version \div 2 < MaxRounds /\ Becomes(t, "in_development", version + 1)
  BY <1>1, <1>2, VerdictBecomes
<1>4. (version + 1) \div 2 = version \div 2
  <2>1. version % 2 = 0
    BY <1>2, <1>3 DEF RInv, VersionsFit
  <2> QED
    BY <2>1, Halves
<1>5. CASE HasMerged(t) /\ Becomes(t, "closed", version)
  <2>1. Promise!Moves(t, {"in_review"}, "closed")
    BY <1>2, <1>3, <1>5, ViewOfMove DEF Promise!Moves
  <2>2. UNCHANGED [u \in Tasks |-> HasMerged(u)]
    BY <1>2, <1>3, <1>5, ViewOfMove
  <2>3. UNCHANGED [u \in Tasks |-> task[u].version \div 2]
    BY <1>2, <1>3, <1>5, ViewOfMove
  <2>4. Promise!Approve(t)
    BY <1>5, <2>1, <2>2, <2>3 DEF Promise!Approve
  <2> QED
    BY <2>4 DEF Promise!Next
<1>6. CASE Becomes(t, "not_doing", version)
  <2>1. Promise!Moves(t, {"in_development", "in_review"}, "not_doing")
    BY <1>2, <1>3, <1>6, ViewOfMove DEF Promise!Moves
  <2>2. UNCHANGED [u \in Tasks |-> HasMerged(u)]
    BY <1>2, <1>3, <1>6, ViewOfMove
  <2>3. UNCHANGED [u \in Tasks |-> task[u].version \div 2]
    BY <1>2, <1>3, <1>6, ViewOfMove
  <2>4. Promise!GiveUp(t)
    BY <2>1, <2>2, <2>3 DEF Promise!GiveUp
  <2> QED
    BY <2>4 DEF Promise!Next
<1>7. CASE version \div 2 < MaxRounds /\ Becomes(t, "in_development", version + 1)
  <2>1. Promise!Moves(t, {"in_review"}, "in_development")
    BY <1>2, <1>3, <1>4, <1>7, ViewOfMove DEF Promise!Moves
  <2>2. UNCHANGED [u \in Tasks |-> HasMerged(u)]
    BY <1>2, <1>3, <1>4, <1>7, ViewOfMove
  <2>3. UNCHANGED [u \in Tasks |-> task[u].version \div 2]
    BY <1>2, <1>3, <1>4, <1>7, ViewOfMove
  <2>4. Promise!Reject(t)
    BY <1>2, <1>7, <2>1, <2>2, <2>3 DEF Promise!Reject
  <2> QED
    BY <2>4 DEF Promise!Next
<1> QED
  BY <1>3, <1>5, <1>6, <1>7

LEMMA PRsUntouched ==
    ASSUME UNCHANGED pr
    PROVE  MergedSame
BY DEF MergedSame, HasMerged

\* The merge of a PR is the merge of its task, the first time.
LEMMA OnePRMaps ==
    ASSUME NoMove, NEW p \in PRs,
           \A q \in PRs : q # p => pr'[q].state = pr[q].state,
           pr[p].state = "MERGED" => pr'[p].state = "MERGED"
    PROVE  [Promise!Next]_(Promise!reviewVars)
<1> DEFINE t == p[1]
<1>1. t \in Tasks
  BY DEF PRs
<1>2. \A u \in Tasks : HasMerged(u) => HasMerged(u)'
  BY DEF HasMerged, PRsOf
<1>3. \A u \in Tasks : u # t => HasMerged(u)' = HasMerged(u)
  BY DEF HasMerged, PRsOf
<1>4. HasMerged(t) \in BOOLEAN /\ HasMerged(t)' \in BOOLEAN
  BY DEF HasMerged
<1>5. CASE HasMerged(t)' = HasMerged(t)
  <2>1. MergedSame
    BY <1>3, <1>5 DEF MergedSame
  <2> QED
    BY <2>1, SameView
<1>6. CASE HasMerged(t)' # HasMerged(t)
  <2>1. HasMerged(t)' = TRUE
    BY <1>1, <1>2, <1>4, <1>6
  <2>2. \A u \in Tasks : HasMerged(u)' = IF u = t THEN TRUE ELSE HasMerged(u)
    BY <1>3, <2>1
  <2>3. [u \in Tasks |-> HasMerged(u)]' = [[u \in Tasks |-> HasMerged(u)] EXCEPT ![t] = TRUE]
    BY <2>2
  <2>4. /\ UNCHANGED [u \in Tasks |-> task[u].stage]
        /\ UNCHANGED [u \in Tasks |-> task[u].version \div 2]
    BY DEF NoMove
  <2>5. Promise!Merge(t)
    BY <2>3, <2>4 DEF Promise!Merge
  <2> QED
    BY <1>1, <2>5 DEF Promise!Next
<1> QED
  BY <1>5, <1>6

LEMMA PullRequestChangesMaps ==
    ASSUME RInv, NEW p \in PRs, PullRequestChanges(p)
    PROVE  [Promise!Next]_(Promise!reviewVars)
<1>1. pr \in [PRs -> PRRecord] /\ pr[p] \in PRRecord
  BY DEF RInv, IInv, TypeOK
<1>2. \A q \in PRs : q # p => pr'[q] = pr[q]
  BY <1>1 DEF PullRequestChanges, OpenPR, SearchCatchesUp, Push, Report, BaseMoves, Review,
              ClosePR, Merge, Merged
<1>3. pr[p].state = "MERGED" => pr'[p].state = "MERGED"
  <2>1. PRsGrow
    BY PullRequestChangesFine DEF RInv, PRsFine
  <2> QED
    BY <2>1 DEF PRsGrow
<1>4. NoMove
  BY DEF PullRequestChanges, NoMove
<1> QED
  BY <1>2, <1>3, <1>4, OnePRMaps

LEMMA ActingMaps ==
    ASSUME RInv, NEW r \in Reconcilers, MarkReady(r) \/ Arm(r)
    PROVE  [Promise!Next]_(Promise!reviewVars)
<1>1. pr \in [PRs -> PRRecord] /\ PROf(rec[r].item, rec[r].snap) \in PRs
  BY HeldPR DEF RInv, IInv, TypeOK, MarkReady, Arm
<1>2. PICK p \in PRs : p = PROf(rec[r].item, rec[r].snap)
  BY <1>1
<1>3. UNCHANGED pr \/ (pr[p].state = "OPEN" /\ \E y : pr' = [pr EXCEPT ![p] = y])
  <2>1. CASE MarkReady(r)
    BY <1>2, <2>1 DEF MarkReady
  <2>2. CASE Arm(r)
    BY <1>2, <2>2 DEF Arm, ArmAutoMerge, HeadMatches
  <2> QED
    BY <2>1, <2>2
<1>4. NoMove
  BY DEF MarkReady, Arm, NoMove
<1>5. /\ \A q \in PRs : q # p => pr'[q].state = pr[q].state
      /\ pr[p].state = "MERGED" => pr'[p].state = "MERGED"
  BY <1>1, <1>3
<1> QED
  BY <1>4, <1>5, OnePRMaps

\* Every step of the loop or of the world around it is a step of the promise.
LEMMA NextMaps == RInv /\ [Next]_reconcileVars => [Promise!Next]_(Promise!reviewVars)
<1> SUFFICES ASSUME RInv, [Next]_reconcileVars
             PROVE  [Promise!Next]_(Promise!reviewVars)
  OBVIOUS
<1>1. TypeOK
  BY DEF RInv, IInv
<1>2. ASSUME NEW r \in Reconcilers, Reconcile(r)
      PROVE  [Promise!Next]_(Promise!reviewVars)
  <2>1. CASE \/ TickStart(r) \/ ListWithdrawn(r) \/ ListInReview(r) \/ TickEnd(r)
             \/ HandOff(r) \/ FindPullRequest(r) \/ LoadReviews(r) \/ Gate(r)
    <3>1. UNCHANGED task /\ UNCHANGED pr
      BY <2>1 DEF TickStart, ListWithdrawn, ListInReview, TickEnd, HandOff, FindPullRequest,
                  LoadReviews, Gate
    <3> QED
      BY <3>1, UnchangedMoves, PRsUntouched, PlainMovesMap
  <2>2. CASE WithdrawExhausted(r)
    <3>1. PlainMove /\ UNCHANGED pr
      BY <1>1, <2>2, WithdrawExhaustedMoves
    <3> QED
      BY <3>1, PRsUntouched, PlainMovesMap
  <2>3. CASE MarkReady(r) \/ Arm(r)
    BY <2>3, ActingMaps
  <2>4. CASE Claim(r)
    <3>1. PlainMove /\ UNCHANGED pr
      BY <2>4, ClaimMoves
    <3> QED
      BY <3>1, PRsUntouched, PlainMovesMap
  <2>5. CASE ApplyVerdict(r)
    <3>1. UNCHANGED pr /\ rec[r].pc = "transition"
      BY <2>5 DEF ApplyVerdict
    <3>2. \/ UNCHANGED task
          \/ TransitionAllowed(rec[r].item.task, r) /\ Transition(rec[r].item.task, rec[r].verdict)
      BY <2>5 DEF ApplyVerdict
    <3> QED
      BY <3>1, <3>2, UnchangedMoves, PRsUntouched, PlainMovesMap, VerdictMaps
  <2> QED
    BY <1>2, <2>1, <2>2, <2>3, <2>4, <2>5 DEF Reconcile
<1>3. CASE Environment
  <2>1. ASSUME NEW r \in Reconcilers, Abort(r)
        PROVE  [Promise!Next]_(Promise!reviewVars)
    BY <2>1, UnchangedMoves, PRsUntouched, PlainMovesMap DEF Abort
  <2>2. ASSUME NEW p \in PRs, PullRequestChanges(p)
        PROVE  [Promise!Next]_(Promise!reviewVars)
    BY <2>2, PullRequestChangesMaps
  <2>3. ASSUME NEW t \in Tasks, TaskChanges(t)
        PROVE  [Promise!Next]_(Promise!reviewVars)
    <3>1. PlainMove /\ UNCHANGED pr
      BY <1>1, <2>3, TaskChangesMove DEF TaskChanges
    <3> QED
      BY <3>1, PRsUntouched, PlainMovesMap
  <2>4. ASSUME NEW t \in Tasks, LeaseExpires(t)
        PROVE  [Promise!Next]_(Promise!reviewVars)
    <3>1. PlainMove /\ UNCHANGED pr
      BY <1>1, <2>4, LeaseMoves DEF LeaseExpires, LeaseLapses, PlainMove
    <3> QED
      BY <3>1, PRsUntouched, PlainMovesMap
  <2>5. ASSUME NEW i \in Issues, OperatorClears(i)
        PROVE  [Promise!Next]_(Promise!reviewVars)
    BY <2>5, UnchangedMoves, PRsUntouched, PlainMovesMap DEF OperatorClears
  <2> QED
    BY <1>3, <2>1, <2>2, <2>3, <2>4, <2>5 DEF Environment
<1>4. CASE UNCHANGED reconcileVars
  <2>1. UNCHANGED task /\ UNCHANGED pr
    BY <1>4 DEF reconcileVars
  <2> QED
    BY <2>1, UnchangedMoves, PRsUntouched, PlainMovesMap
<1> QED
  BY <1>2, <1>3, <1>4 DEF Next

LEMMA InitMaps == Init => Promise!Init
<1> SUFFICES ASSUME Init PROVE Promise!Init
  OBVIOUS
<1>1. \A t \in Tasks : task[t].stage = "absent" /\ task[t].version = 0
  BY DEF Init, QueueInit, NoTask
<1>2. \A t \in Tasks : task[t].version \div 2 = 0
  <2>1. 0 \div 2 = 0
    BY SMT
  <2> QED
    BY <1>1, <2>1
<1>3. \A t \in Tasks : HasMerged(t) = FALSE
  BY DEF Init, HasMerged, PRsOf, NoPR
<1>4. [t \in Tasks |-> HasMerged(t)] = [t \in Tasks |-> FALSE]
  BY <1>3
<1> QED
  BY <1>1, <1>2, <1>4 DEF Promise!Init

\* With one reconciler at work the loop keeps what TaskReview promises: rounds
\* are counted and capped, nothing is closed before its pull request merged, and
\* a task that ended stays where it ended - whatever fails, and whenever what
\* was read is acted on.
THEOREM KeepsItsPromise ==
    ASSUME OneReconciler
    PROVE  Spec => ReviewIsAsPromised
<1>1. Spec => []RInv
  BY RInvariance
<1> QED
  BY <1>1, InitMaps, NextMaps, PTL DEF Spec, ReviewIsAsPromised, Promise!Spec

\* With one reconciler at work a verdict is applied to the review round it was
\* reached in, however long ago the task was listed and its PR was read.
THEOREM VerdictsFitTheirRound ==
    ASSUME OneReconciler
    PROVE  Spec => VerdictFitsRound
<1> DEFINE Fits ==
        \A r \in Reconcilers, t \in Tasks :
          (rec[r].pc = "transition" /\ rec[r].item.task = t /\ task'[t].stage # task[t].stage
             /\ task[t].lease = r /\ rec'[r] # rec[r])
          => rec[r].item.version = task[t].version
<1>1. RInv => Fits
  <2> SUFFICES ASSUME RInv, NEW r \in Reconcilers, rec[r].pc = "transition"
               PROVE  rec[r].item.version = task[rec[r].item.task].version
    OBVIOUS
  <2>1. rec[r].phase = "review" /\ rec[r].item \in rec[r].todo
    BY DEF RInv, ListHolds
  <2> QED
    BY <2>1 DEF RInv, ListHolds, StillThere
<1>2. RInv /\ [Next]_reconcileVars => [Fits]_reconcileVars
  BY <1>1
<1> QED
  BY <1>2, RInvariance, PTL DEF Spec, VerdictFitsRound

-----------------------------------------------------------------------------
(***************************************************************************)
(* A closed leftover drops nothing: for every number of issues, pull       *)
(* requests and rounds, as long as one reconciler is at work at a time,    *)
(* the search shows every PR at once and only the hook opens PRs.  Each of *)
(* the three is needed: another reconciler's old snapshot, a PR that the   *)
(* search does not show yet and one that a person opens for a task in      *)
(* review all leave an open PR beside a verdict read from a closed one.    *)
(***************************************************************************)
Undisturbed == OneReconciler /\ ~LaggingSearch /\ ~PersonPRs

AllIndexed == \A p \in PRs : pr[p].state # "NONE" => pr[p].indexed

\* A verdict read from a closed PR is held only while the task has no open one,
\* and no snapshot outlives the entry it was read for.
ClosedRead(x, prs) ==
    /\ x.pc = "sweep" => x.snap.state # "CLOSED"
    /\ x.pc \in {"claim", "transition"} /\ x.snap.state = "CLOSED" =>
          \A p \in PRs : p[1] = x.item.task => prs[p].state # "OPEN"

CInv ==
    /\ RInv
    /\ AllIndexed
    /\ \A r \in Reconcilers : ClosedRead(rec[r], pr)

\* What every step leaves of the pull requests: all of them on the index, and
\* a newly opened one only for a task that is being worked on.
PRsSettle == \A p \in PRs :
    /\ pr'[p].state # "NONE" => pr'[p].indexed
    /\ pr'[p].state = "OPEN" => pr[p].state = "OPEN" \/ task[p[1]].stage = "in_development"

LEMMA NoPRSettles ==
    ASSUME AllIndexed, UNCHANGED pr
    PROVE  PRsSettle
BY DEF AllIndexed, PRsSettle

LEMMA OnePRSettles ==
    ASSUME IInv, AllIndexed, NEW p \in PRs, NEW y, pr' = [pr EXCEPT ![p] = y],
           y.indexed = pr[p].indexed \/ y.indexed = TRUE,
           y.state = pr[p].state \/ pr[p].state = "OPEN"
    PROVE  PRsSettle
<1>1. pr \in [PRs -> PRRecord]
  BY DEF IInv, TypeOK
<1>2. \A q \in PRs : pr'[q] = IF q = p THEN y ELSE pr[q]
  BY <1>1
<1>3. y.state # "NONE" => y.indexed
  BY DEF AllIndexed
<1> QED
  BY <1>2, <1>3 DEF AllIndexed, PRsSettle

LEMMA PullRequestChangesSettle ==
    ASSUME Undisturbed, IInv, AllIndexed, NEW p \in PRs, PullRequestChanges(p)
    PROVE  PRsSettle
<1>1. pr \in [PRs -> PRRecord] /\ pr[p] \in PRRecord
  BY DEF IInv, TypeOK
<1>2. CASE \E hook \in BOOLEAN : OpenPR(p, hook)
  <2>1. PICK hook \in BOOLEAN : OpenPR(p, hook)
    BY <1>2
  <2> DEFINE y == [NoPR EXCEPT !.number = p[2], !.state = "OPEN", !.draft = hook, !.hook = hook,
                               !.head = 1, !.indexed = ~LaggingSearch]
  <2>2. y.indexed = (~LaggingSearch)
    BY DEF NoPR
  <2>3. pr' = [pr EXCEPT ![p] = y] /\ task[p[1]].stage = "in_development"
    BY <2>1 DEF OpenPR, Undisturbed
  <2> HIDE DEF y
  <2>4. \A q \in PRs : pr'[q] = IF q = p THEN y ELSE pr[q]
    BY <1>1, <2>3
  <2> QED
    BY <2>2, <2>3, <2>4 DEF PRsSettle, AllIndexed, Undisturbed
<1>3. CASE SearchCatchesUp(p)
  <2> DEFINE y == [pr[p] EXCEPT !.indexed = TRUE]
  <2>1. pr' = [pr EXCEPT ![p] = y]
    BY <1>3 DEF SearchCatchesUp
  <2>2. y.state = pr[p].state /\ y.indexed = TRUE
    BY <1>1 DEF PRRecord
  <2> HIDE DEF y
  <2> QED
    BY <2>1, <2>2, OnePRSettles
<1>4. CASE Push(p) \/ (\E c \in Checks : Report(p, c)) \/ BaseMoves(p) \/ Review(p)
           \/ ClosePR(p) \/ Merge(p)
  <2>1. PICK y : pr' = [pr EXCEPT ![p] = y] /\ y.indexed = pr[p].indexed
    <3>1. CASE Push(p)
      <4> DEFINE y == [pr[p] EXCEPT !.head = @ + 1, !.dirty = FALSE, !.checks = Unreported]
      <4>1. pr' = [pr EXCEPT ![p] = y]
        BY <3>1 DEF Push
      <4>2. y.indexed = pr[p].indexed
        BY <1>1 DEF PRRecord
      <4> HIDE DEF y
      <4> QED
        BY <4>1, <4>2
    <3>2. CASE \E c \in Checks : Report(p, c)
      <4>1. PICK c \in Checks, result \in Conclusions : pr' = [pr EXCEPT ![p].checks[c] = result]
        BY <3>2 DEF Report, Conclusions
      <4> DEFINE y == [pr[p] EXCEPT !.checks[c] = result]
      <4>2. pr' = [pr EXCEPT ![p] = y]
        BY <4>1
      <4>3. y.indexed = pr[p].indexed
        BY <1>1 DEF PRRecord
      <4> HIDE DEF y
      <4> QED
        BY <4>2, <4>3
    <3>3. CASE BaseMoves(p)
      <4> DEFINE y == [pr[p] EXCEPT !.dirty = TRUE]
      <4>1. pr' = [pr EXCEPT ![p] = y] /\ y.indexed = pr[p].indexed
        BY <1>1, <3>3 DEF BaseMoves, PRRecord
      <4> QED
        BY <4>1
    <3>4. CASE Review(p)
      <4>1. PICK verdict : pr' = [pr EXCEPT ![p].review = verdict]
        BY <3>4 DEF Review
      <4> DEFINE y == [pr[p] EXCEPT !.review = verdict]
      <4>2. pr' = [pr EXCEPT ![p] = y] /\ y.indexed = pr[p].indexed
        BY <1>1, <4>1 DEF PRRecord
      <4> QED
        BY <4>2
    <3>5. CASE ClosePR(p) \/ Merge(p)
      <4>1. PICK state : pr' = [pr EXCEPT ![p].state = state]
        BY <3>5 DEF ClosePR, Merge, Merged
      <4> DEFINE y == [pr[p] EXCEPT !.state = state]
      <4>2. pr' = [pr EXCEPT ![p] = y] /\ y.indexed = pr[p].indexed
        BY <1>1, <4>1 DEF PRRecord
      <4> QED
        BY <4>2
    <3> QED
      BY <1>4, <3>1, <3>2, <3>3, <3>4, <3>5
  <2>2. pr[p].state = "OPEN"
    BY <1>4 DEF Push, Report, BaseMoves, Review, ClosePR, Merge
  <2> QED
    BY <2>1, <2>2, OnePRSettles
<1> QED
  BY <1>2, <1>3, <1>4 DEF PullRequestChanges

\* The reconciler's own two writes.
LEMMA ActingSettles ==
    ASSUME IInv, AllIndexed, NEW r \in Reconcilers, MarkReady(r) \/ Arm(r)
    PROVE  PRsSettle
<1> DEFINE p == PROf(rec[r].item, rec[r].snap)
<1>1. pr \in [PRs -> PRRecord] /\ p \in PRs /\ pr[p] \in PRRecord
  BY HeldPR DEF IInv, TypeOK, MarkReady, Arm
<1>2. CASE UNCHANGED pr
  BY <1>2, NoPRSettles
<1>3. CASE \E checks : pr' = [pr EXCEPT ![p].draft = FALSE, ![p].checks = checks]
  <2>1. PICK checks : pr' = [pr EXCEPT ![p].draft = FALSE, ![p].checks = checks]
    BY <1>3
  <2> DEFINE y == [pr[p] EXCEPT !.draft = FALSE, !.checks = checks]
  <2>2. pr' = [pr EXCEPT ![p] = y]
    BY <2>1
  <2>3. y.state = pr[p].state /\ y.indexed = pr[p].indexed
    BY <1>1 DEF PRRecord
  <2> HIDE DEF y, p
  <2> QED
    BY <1>1, <2>2, <2>3, OnePRSettles
<1>4. CASE HeadMatches(p, rec[r].snap.head) /\ ArmAutoMerge(p)
  <2>1. pr[p].state = "OPEN"
    BY <1>4 DEF HeadMatches
  <2>2. CASE AutoMergeOn
    <3> DEFINE y == [pr[p] EXCEPT !.armed = pr[p].head]
    <3>1. pr' = [pr EXCEPT ![p] = y]
      BY <1>4, <2>2 DEF ArmAutoMerge
    <3>2. y.indexed = pr[p].indexed
      BY <1>1 DEF PRRecord
    <3> HIDE DEF y, p
    <3> QED
      BY <1>1, <2>1, <3>1, <3>2, OnePRSettles
  <2>3. CASE ~AutoMergeOn
    <3> DEFINE y == [pr[p] EXCEPT !.armed = pr[p].head, !.state = "MERGED"]
    <3>1. pr' = [pr EXCEPT ![p] = y]
      BY <1>4, <2>3 DEF ArmAutoMerge
    <3>2. y.indexed = pr[p].indexed
      BY <1>1 DEF PRRecord
    <3> HIDE DEF y, p
    <3> QED
      BY <1>1, <2>1, <3>1, <3>2, OnePRSettles
  <2> QED
    BY <2>2, <2>3
<1> QED
  BY <1>2, <1>3, <1>4 DEF MarkReady, Arm

LEMMA EveryStepSettles ==
    ASSUME Undisturbed, IInv, AllIndexed, Next
    PROVE  PRsSettle
<1>1. ASSUME NEW r \in Reconcilers, Reconcile(r)
      PROVE  PRsSettle
  <2>1. \/ MarkReady(r) \/ Arm(r)
        \/ UNCHANGED pr
    BY <1>1 DEF Reconcile, TickStart, ListWithdrawn, ListInReview, TickEnd, WithdrawExhausted,
       HandOff, FindPullRequest, LoadReviews, Gate, Claim, ApplyVerdict
  <2> QED
    BY <2>1, ActingSettles, NoPRSettles
<1>2. CASE Environment
  <2>1. (\E p \in PRs : PullRequestChanges(p)) \/ UNCHANGED pr
    BY <1>2 DEF Environment, Abort, TaskChanges, LeaseExpires, OperatorClears
  <2> QED
    BY <2>1, PullRequestChangesSettle, NoPRSettles
<1> QED
  BY <1>1, <1>2 DEF Next

\* Where a verdict is held, its task is not being worked on.
LEMMA ReadStays ==
    ASSUME RInv, PRsSettle, NEW r \in Reconcilers, ClosedRead(rec[r], pr)
    PROVE  ClosedRead(rec[r], pr')
<1> SUFFICES ASSUME rec[r].pc \in {"claim", "transition"}, rec[r].snap.state = "CLOSED",
                    NEW p \in PRs, p[1] = rec[r].item.task
             PROVE  pr'[p].state # "OPEN"
  BY DEF ClosedRead
<1>1. task[rec[r].item.task].stage \in {"in_review", "closed", "not_doing"}
  BY DEF RInv, ListHolds, StillThere
<1> QED
  BY <1>1 DEF PRsSettle, ClosedRead

\* What the pick being closed says of the task's other PRs.
LEMMA ClosedPickMeansNoneOpen ==
    ASSUME IInv, AllIndexed, NEW entry \in Entry, Found(entry.task) # {},
           PickPullRequest(Found(entry.task)).state = "CLOSED",
           NEW p \in PRs, p[1] = entry.task
    PROVE  pr[p].state # "OPEN"
<1> SUFFICES ASSUME pr[p].state = "OPEN" PROVE FALSE
  OBVIOUS
<1> DEFINE found == Found(entry.task)
           y     == [pr[p] EXCEPT !.review = "clear"]
<1>1. pr \in [PRs -> PRRecord]
  BY DEF IInv, TypeOK
<1>2. found \in SUBSET PRRecord
  <2>1. \A q \in PRs : [pr[q] EXCEPT !.review = "clear"] \in PRRecord
    BY <1>1 DEF PRRecord
  <2> QED
    BY <2>1 DEF Found, PRsOf
<1>3. y \in found
  BY DEF Found, PRsOf, AllIndexed
<1>4. y.state = "OPEN"
  BY <1>1 DEF PRRecord
<1> HIDE DEF found, y
<1>5. PullStateRank(PickPullRequest(found).state) <= PullStateRank(y.state)
  BY <1>2, <1>3, PickIsFound
<1>6. PickPullRequest(found).state = "CLOSED"
  BY DEF found
<1> QED
  BY <1>4, <1>5, <1>6 DEF PullStateRank

\* A step of the reconciler to x; there is no other reconciler.
LEMMA ReadMoves ==
    ASSUME CInv, RInv', PRsSettle, NEW r \in Reconcilers, NEW x, Goes(r, x), ClosedRead(x, pr')
    PROVE  CInv'
<1>1. rec'[r] = x
  BY DEF Goes, CInv, RInv, IInv, TypeOK
<1>2. \A q \in Reconcilers : q = r
  BY DEF CInv, RInv, OneReconciler
<1>3. AllIndexed'
  BY DEF PRsSettle, AllIndexed
<1> QED
  BY <1>1, <1>2, <1>3 DEF CInv

LEMMA LeavingReads ==
    ASSUME NEW r \in Reconcilers, NEW entry, NEW prs
    PROVE  /\ ClosedRead(Done(r), prs) /\ ClosedRead(Skip(r, entry), prs)
           /\ ClosedRead(IdleRec, prs)
           /\ \A phase, todo : ClosedRead(Sweep(phase, todo), prs)
BY DEF ClosedRead, Done, Skip, Sweep, IdleRec, NoPR

\* Judged from a snapshot that is not a closed leftover beside an open PR.
LEMMA JudgedReads ==
    ASSUME TypeOK, NEW r \in Reconcilers, NEW entry, NEW snap, NEW prs,
           snap.state = "CLOSED" =>
              \A p \in PRs : p[1] = entry.task => prs[p].state # "OPEN"
    PROVE  ClosedRead(Judged(r, entry, snap), prs)
<1>1. rec[r] \in RecRecord
  BY DEF TypeOK
<1> DEFINE decision == DecidePullRequest(snap, Round(entry), MaxRounds)
           place    == IF rec[r].phase = "orphans" THEN OrphanPlace(snap) ELSE ReviewPlace(decision)
           verdict  == IF place = "claim" THEN decision ELSE "none"
           x        == [rec[r] EXCEPT !.pc = place, !.item = entry, !.snap = snap,
                                      !.verdict = verdict]
<1>2. Judged(r, entry, snap) = IF place = "sweep" THEN Skip(r, entry) ELSE x
  BY DEF Judged
<1> HIDE DEF place, verdict
<1>3. x.pc = place /\ x.item = entry /\ x.snap = snap
  BY <1>1 DEF RecRecord
<1> HIDE DEF x
<1>4. place # "sweep" => ClosedRead(x, prs)
  BY <1>3 DEF ClosedRead
<1> QED
  BY <1>2, <1>4, LeavingReads

LEMMA FindPullRequestReads ==
    ASSUME CInv, NEW r \in Reconcilers, FindPullRequest(r)
    PROVE  \E x : Goes(r, x) /\ ClosedRead(x, pr')
<1>1. /\ IInv /\ TypeOK /\ AllIndexed /\ rec[r] \in RecRecord /\ ClosedRead(rec[r], pr)
      /\ rec[r].pc = "sweep" /\ UNCHANGED pr
  BY DEF CInv, RInv, IInv, TypeOK, FindPullRequest
<1>2. PICK entry \in rec[r].todo :
          \/ Goes(r, IF Found(entry.task) = {} THEN Missing(r, entry)
                     ELSE IF PickPullRequest(Found(entry.task)).state = "OPEN"
                     THEN [rec[r] EXCEPT !.pc = "reviews", !.item = entry,
                                         !.snap = PickPullRequest(Found(entry.task))]
                     ELSE Judged(r, entry, PickPullRequest(Found(entry.task))))
          \/ Goes(r, Skip(r, entry))
  BY DEF FindPullRequest
<1>3. entry \in Entry
  BY <1>1 DEF RecRecord
<1> DEFINE snap == PickPullRequest(Found(entry.task))
           x == [rec[r] EXCEPT !.pc = "reviews", !.item = entry, !.snap = snap]
           m == [rec[r] EXCEPT !.pc = "claim", !.item = entry,
                    !.verdict = DecideMissingPullRequest(Round(entry), MaxRounds)]
<1>4. ClosedRead(x, pr)
  <2>1. x.pc = "reviews"
    BY <1>1 DEF RecRecord
  <2> HIDE DEF x
  <2> QED
    BY <2>1 DEF ClosedRead
<1>5. Found(entry.task) # {} => ClosedRead(Judged(r, entry, snap), pr)
  <2>1. Found(entry.task) # {} /\ snap.state = "CLOSED" =>
            \A p \in PRs : p[1] = entry.task => pr[p].state # "OPEN"
    BY <1>1, <1>3, ClosedPickMeansNoneOpen
  <2> HIDE DEF snap
  <2> QED
    BY <1>1, <2>1, JudgedReads
<1>6. ClosedRead(Missing(r, entry), pr)
  <2>1. m.snap = rec[r].snap /\ rec[r].snap.state # "CLOSED" /\ m.pc = "claim"
    BY <1>1 DEF RecRecord, ClosedRead
  <2>2. Missing(r, entry) = m \/ Missing(r, entry) = Skip(r, entry)
    BY DEF Missing
  <2> HIDE DEF m
  <2>3. ClosedRead(m, pr)
    BY <2>1 DEF ClosedRead
  <2> QED
    BY <2>2, <2>3, LeavingReads
<1>7. ClosedRead(Skip(r, entry), pr)
  BY LeavingReads
<1>8. PICK y : Goes(r, y) /\ ClosedRead(y, pr)
  BY <1>2, <1>4, <1>5, <1>6, <1>7
<1> QED
  BY <1>1, <1>8

\* Every step of the reconciler.
LEMMA ReconcileReads ==
    ASSUME CInv, PRsSettle, NEW r \in Reconcilers, Reconcile(r)
    PROVE  \E x : Goes(r, x) /\ ClosedRead(x, pr')
<1>1. /\ TypeOK /\ rec[r] \in RecRecord
      /\ ClosedRead(rec[r], pr) /\ ClosedRead(rec[r], pr')
  BY ReadStays DEF CInv, RInv, IInv, TypeOK
<1>2. CASE TickStart(r) \/ ListWithdrawn(r) \/ ListInReview(r) \/ TickEnd(r)
           \/ HandOff(r) \/ MarkReady(r) \/ Arm(r)
  BY <1>2, LeavingReads DEF TickStart, ListWithdrawn, ListInReview, TickEnd, HandOff, MarkReady, Arm
<1>3. ASSUME NEW pc \in {"arm", "transition", "handoff"},
             pc = "transition" => rec[r].pc = "claim"
      PROVE  ClosedRead([rec[r] EXCEPT !.pc = pc], pr')
  <2> DEFINE x == [rec[r] EXCEPT !.pc = pc]
  <2>1. x.pc = pc /\ x.item = rec[r].item /\ x.snap = rec[r].snap
    BY <1>1 DEF RecRecord
  <2> HIDE DEF x
  <2>2. ClosedRead(x, pr')
    BY <1>1, <1>3, <2>1 DEF ClosedRead
  <2> QED
    BY <2>2 DEF x
<1>4. CASE Gate(r) \/ Claim(r) \/ ApplyVerdict(r)
  <2>1. \/ Goes(r, Done(r))
        \/ Goes(r, [rec[r] EXCEPT !.pc = "arm"])
        \/ Goes(r, [rec[r] EXCEPT !.pc = "transition"]) /\ rec[r].pc = "claim"
        \/ Goes(r, [rec[r] EXCEPT !.pc = "handoff"])
    BY <1>4 DEF Gate, Claim, ApplyVerdict
  <2> QED
    BY <1>3, <2>1, LeavingReads
<1>5. CASE WithdrawExhausted(r)
  <2>1. PICK entry : \/ Goes(r, [rec[r] EXCEPT !.pc = "handoff", !.item = entry])
                     \/ Goes(r, Skip(r, entry))
    BY <1>5 DEF WithdrawExhausted
  <2> DEFINE x == [rec[r] EXCEPT !.pc = "handoff", !.item = entry]
  <2>2. x.pc = "handoff"
    BY <1>1 DEF RecRecord
  <2>3. Goes(r, x) \/ Goes(r, Skip(r, entry))
    BY <2>1
  <2> HIDE DEF x
  <2>4. ClosedRead(x, pr')
    BY <2>2 DEF ClosedRead
  <2> QED
    BY <2>3, <2>4, LeavingReads
<1>6. CASE FindPullRequest(r)
  BY <1>6, FindPullRequestReads
<1>7. CASE LoadReviews(r)
  <2> DEFINE snap == [rec[r].snap EXCEPT !.review = pr[PROf(rec[r].item, rec[r].snap)].review]
  <2>1. /\ rec[r].pc = "reviews" /\ UNCHANGED pr
        /\ Goes(r, Judged(r, rec[r].item, snap)) \/ Goes(r, Done(r))
    BY <1>7 DEF LoadReviews
  <2>2. rec[r].snap.state = "OPEN" /\ rec[r].snap \in PRRecord
    BY <1>1, <2>1 DEF CInv, RInv, IInv, SoundAt, ReadsOpen, RecRecord
  <2>3. snap.state = "OPEN"
    BY <2>2 DEF PRRecord
  <2> HIDE DEF snap
  <2>4. ClosedRead(Judged(r, rec[r].item, snap), pr')
    BY <1>1, <2>3, JudgedReads
  <2> QED
    BY <2>1, <2>4, LeavingReads
<1> QED
  BY <1>2, <1>4, <1>5, <1>6, <1>7 DEF Reconcile

LEMMA CInvKept ==
    ASSUME Undisturbed
    PROVE  CInv /\ [Next]_reconcileVars => CInv'
<1> SUFFICES ASSUME CInv, [Next]_reconcileVars PROVE CInv'
  OBVIOUS
<1>1. RInv' /\ IInv /\ AllIndexed
  BY RInvKept DEF CInv, RInv
<1>2. ASSUME NEW r \in Reconcilers, Reconcile(r) PROVE CInv'
  <2>1. PRsSettle
    BY <1>1, <1>2, EveryStepSettles DEF Next
  <2> QED
    BY <1>1, <1>2, <2>1, ReconcileReads, ReadMoves
<1>3. CASE Environment
  <2>1. PRsSettle
    BY <1>1, <1>3, EveryStepSettles DEF Next
  <2>2. ASSUME NEW r \in Reconcilers, Abort(r) PROVE CInv'
    BY <1>1, <2>1, <2>2, LeavingReads, ReadMoves DEF Abort
  <2>3. CASE UNCHANGED rec
    <3>1. AllIndexed'
      BY <2>1 DEF PRsSettle, AllIndexed
    <3>2. \A r \in Reconcilers : ClosedRead(rec[r], pr')
      BY <2>1, ReadStays DEF CInv
    <3> QED
      BY <1>1, <2>3, <3>1, <3>2 DEF CInv
  <2> QED
    BY <1>3, <2>2, <2>3 DEF Environment, PullRequestChanges, TaskChanges, LeaseExpires, OperatorClears
<1>4. CASE UNCHANGED reconcileVars
  BY <1>1, <1>4 DEF reconcileVars, CInv, AllIndexed, ClosedRead
<1> QED
  BY <1>2, <1>3, <1>4 DEF Next

LEMMA CInvariance ==
    ASSUME Undisturbed
    PROVE  Spec => []CInv
<1>1. Init => CInv
  <2> SUFFICES ASSUME Init PROVE CInv
    OBVIOUS
  <2>1. RInv
    BY RInvFirst DEF Undisturbed
  <2>2. AllIndexed
    BY DEF Init, AllIndexed, NoPR
  <2>3. ASSUME NEW r \in Reconcilers PROVE ClosedRead(rec[r], pr)
    BY DEF Init, IdleRec, ClosedRead
  <2> QED
    BY <2>1, <2>2, <2>3 DEF CInv
<1> QED
  BY <1>1, CInvKept, PTL DEF Spec

\* Only its own verdict moves the reconciler from the transition to the handoff,
\* and it moves the task at hand alone.
LEMMA DropIsTheVerdicts ==
    ASSUME RInv, Next, NEW r \in Reconcilers, rec[r].pc = "transition", rec'[r].pc = "handoff",
           NEW t \in Tasks, task'[t].stage # task[t].stage
    PROVE  t = rec[r].item.task
<1>1. TypeOK /\ rec \in [Reconcilers -> RecRecord]
  BY DEF RInv, IInv, TypeOK
<1>2. ~Environment
  <2>1. \A q \in Reconcilers : Abort(q) => rec'[q].pc = "idle"
    BY <1>1 DEF Abort, Goes, IdleRec
  <2>2. \A q \in Reconcilers : q = r
    BY DEF RInv, OneReconciler
  <2> QED
    BY <2>1, <2>2 DEF Environment, PullRequestChanges, TaskChanges, LeaseExpires, OperatorClears
<1>3. Reconcile(r)
  BY <1>2 DEF Next, RInv, OneReconciler
<1>4. ApplyVerdict(r)
  BY <1>3 DEF Reconcile, At, TickStart, ListWithdrawn, ListInReview, TickEnd, WithdrawExhausted,
     HandOff, FindPullRequest, LoadReviews, Gate, MarkReady, Arm, Claim
<1>5. /\ TransitionAllowed(rec[r].item.task, r)
      /\ Transition(rec[r].item.task, rec[r].verdict)
  BY <1>4 DEF ApplyVerdict
<1> QED
  BY <1>5, VerdictBecomes DEF Becomes

\* pickPullRequest's comment: a closed leftover never shadows the open PR that
\* replaced it, so that no task is dropped while it is still being worked.
THEOREM LeftoversDropNothing ==
    ASSUME Undisturbed
    PROVE  Spec => ClosedLeftoverDropsNothing
<1> DEFINE Drops ==
        \A t \in Tasks :
          (task[t].stage = "in_review" /\ task'[t].stage = "not_doing"
             /\ \E r \in Reconcilers : rec[r].pc = "transition" /\ rec'[r].pc = "handoff"
                                        /\ rec[r].snap.state = "CLOSED")
          => \A p \in PRsOf(t) : pr[p].state # "OPEN"
<1>1. CInv /\ Next => Drops
  <2> SUFFICES ASSUME CInv, Next, NEW t \in Tasks, NEW r \in Reconcilers,
                      task[t].stage = "in_review", task'[t].stage = "not_doing",
                      rec[r].pc = "transition", rec'[r].pc = "handoff",
                      rec[r].snap.state = "CLOSED",
                      NEW p \in PRsOf(t)
               PROVE  pr[p].state # "OPEN"
    OBVIOUS
  <2>1. t = rec[r].item.task
    BY DropIsTheVerdicts DEF CInv
  <2> QED
    BY <2>1 DEF CInv, ClosedRead, PRsOf
<1>2. CInv /\ [Next]_reconcileVars => [Drops]_reconcileVars
  BY <1>1
<1> QED
  BY <1>2, CInvariance, PTL DEF Spec, ClosedLeftoverDropsNothing
=============================================================================
