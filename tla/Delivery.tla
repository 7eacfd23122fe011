---------------------------- MODULE Delivery ----------------------------
(***************************************************************************)
(* Work from a plan to a release: the planning rows and the GitHub issues  *)
(* beside them (tasks, sprints, backlog, lineage of an epic's documents,   *)
(* pages promoted to tasks), the branches and worktrees they are done in,  *)
(* the audit of those, the gates, tags and propagation of a release, and   *)
(* the UI files a site copies from upstream.                               *)
(* These components share no state in `lw` (each reads and writes through  *)
(* a command of its own): a behaviour is one of one component, and v1, v2, *)
(* ... hold the variables of that one.                                     *)
(***************************************************************************)
EXTENDS Naturals, FiniteSets

CONSTANTS
    None, MaxFaults,
    Branches, Changes, Removers,                             \* worktrees
    Canonical, Legacy, Undeclared, Main, Expected,           \* the audit
    Clones, MaxCommits, FewCommits, Explicit,                \* tags
    Repos, PullRequests, Commands, MaxCuts,                  \* gates
    Worktrees, MaxMain, MaxOwn,                              \* propagation
    Tasks, Issues, SprintIds, Members, Planners, Limit,      \* tasks and sprints
    Backlogged, DependsOn, Ranks, ReadyLimit, ClosedLimit, Pickers, MaxChanges,
    Required, Recommended, Stories, Fixers, TaskThreshold,   \* lineage
    Pages, Titles, Pipelines, Machines, Hands, MachineOf,    \* promotion
    Files, Home, Units, Refers, Imports,                     \* UI files
    MaxRevision, MaxVersion, MaxAuthored, MaxCustomised

VARIABLES
    part,     \* the component this is a behaviour of
    v1, v2, v3, v4, v5, v6, v7, v8, v9, v10, v11, v12, \* its variables
    faults    \* the failures so far

Trees == INSTANCE Worktrees WITH heads <- v1, remote <- v2, base <- v3, fetched <- v4,
          merged <- v5, trees <- v6, dead <- v7, creator <- v8, rescued <- v9, sweep <- v10,
          remover <- v11, lost <- v12
Audit == INSTANCE GitAudit WITH dir <- v1, registered <- v2, unfit <- v3, hooked <- v4,
          audit <- v5, report <- v6, quiet <- v7
Tag == INSTANCE ReleaseTag WITH mainline <- v1, head <- v2, known <- v3, remote <- v4,
          tagger <- v5, irregular <- v6
Gates == INSTANCE ReleaseGates WITH flags <- v1, ledger <- v2, cuts <- v3, pull <- v4,
          command <- v5, disturbed <- v6, word <- v7
Propagate == INSTANCE ReleasePropagate WITH main <- v1, tracked <- v2, tree <- v3,
          run <- v4, result <- v5, interrupted <- v6, report <- v7
Sync == INSTANCE TaskSync WITH task <- v1, issue <- v2, pr <- v3, cmd <- v4, quiet <- v5,
          calm <- v6
Sprint == INSTANCE Sprints WITH sprint <- v1, task <- v2, spec <- v3, prd <- v4, cmd <- v5,
          overlap <- v6, Tasks <- Members, Commands <- Planners
Queue == INSTANCE Backlog WITH issue <- v1, rank <- v2, ready <- v3, task <- v4, pick <- v5,
          changes <- v6, Issues <- Backlogged
Documents == INSTANCE Lineage WITH epic <- v1, story <- v2, doc <- v3, site <- v4,
          fix <- v5, calm <- v6
Knowledge == INSTANCE KnowledgePromotion WITH page <- v1, tasks <- v2, binding <- v3,
          hand <- v4, shown <- v5
Ui == INSTANCE UiSync WITH tree <- v1, version <- v2, tags <- v3, local <- v4, aside <- v5,
          lock <- v6, seen <- v7, exact <- v8

ASSUME ConstantsAssumption ==
    /\ Audit!BoundsAssumption /\ Tag!CommitsAssumption
    /\ Gates!BoundsAssumption
    /\ Propagate!BoundsAssumption /\ Sync!BoundsAssumption /\ Sprint!BoundsAssumption
    /\ Queue!QueueAssumption /\ Documents!BoundsAssumption /\ Knowledge!PromotionAssumption
    /\ Ui!UnitsAreNames

\* The variables a component leaves over.
rest12 == <<v12>>
rest11 == <<v11, rest12>>
rest10 == <<v10, rest11>>
rest9 == <<v9, rest10>>
rest8 == <<v8, rest9>>
rest7 == <<v7, rest8>>
rest6 == <<v6, rest7>>
Spare12 == v12 = None
Spare11 == v11 = None /\ Spare12
Spare10 == v10 = None /\ Spare11
Spare9 == v9 = None /\ Spare10
Spare8 == v8 = None /\ Spare9
Spare7 == v7 = None /\ Spare8
Spare6 == v6 = None /\ Spare7

Init ==
    /\ faults = 0
    /\ \/ part = "worktrees" /\ Trees!Init
       \/ part = "audit" /\ Audit!Init /\ Spare8
       \/ part = "tag" /\ Tag!Init /\ Spare7
       \/ part = "gates" /\ Gates!Init /\ Spare8
       \/ part = "propagate" /\ Propagate!Init /\ Spare8
       \/ part = "tasks" /\ Sync!Init /\ Spare7
       \/ part = "sprints" /\ Sprint!Init /\ Spare7
       \/ part = "backlog" /\ Queue!Init /\ Spare7
       \/ part = "lineage" /\ Documents!Init /\ Spare7
       \/ part = "knowledge" /\ Knowledge!Init /\ Spare6
       \/ part = "ui" /\ Ui!Init /\ Spare9

Next ==
    /\ UNCHANGED part
    /\ \/ part = "worktrees" /\ Trees!Next /\ UNCHANGED faults
       \/ part = "audit" /\ Audit!Next /\ UNCHANGED rest8
       \/ part = "tag" /\ Tag!Next /\ UNCHANGED <<rest7, faults>>
       \/ part = "gates" /\ Gates!Next /\ UNCHANGED rest8
       \/ part = "propagate" /\ Propagate!Next /\ UNCHANGED rest8
       \/ part = "tasks" /\ Sync!Next /\ UNCHANGED rest7
       \/ part = "sprints" /\ Sprint!Next /\ UNCHANGED rest7
       \/ part = "backlog" /\ Queue!Next /\ UNCHANGED rest7
       \/ part = "lineage" /\ Documents!Next /\ UNCHANGED rest7
       \/ part = "knowledge" /\ Knowledge!Next /\ UNCHANGED rest6
       \/ part = "ui" /\ Ui!Next /\ UNCHANGED rest9

vars == <<part, faults, v1, v2, v3, v4, v5, v6, v7, v8, v9, v10, v11, v12>>
Spec == Init /\ [][Next]_vars

-----------------------------------------------------------------------------
(* Properties                                                              *)

\* Every variable keeps the type its component gives it.
TypeOK ==
    CASE part = "worktrees" -> Trees!TypeOK
      [] part = "audit" -> Audit!TypeOK
      [] part = "tag" -> Tag!TypeOK
      [] part = "gates" -> Gates!TypeOK
      [] part = "propagate" -> Propagate!TypeOK
      [] part = "tasks" -> Sync!TypeOK
      [] part = "sprints" -> Sprint!TypeOK
      [] part = "backlog" -> Queue!TypeOK
      [] part = "lineage" -> Documents!TypeOK
      [] part = "knowledge" -> Knowledge!TypeOK
      [] part = "ui" -> Ui!TypeOK

\* A removal or a sweep discards no edit it could have seen, but on the word of
\* the forge, which answers by branch name.
WorktreesKeepWork ==
    part = "worktrees" =>
        Trees!EditsSeenAreRescued /\ Trees!LocalProofsHold /\ Trees!AncestryDropsNothing

\* An undisturbed audit reports exactly what holds, and its fixes settle it.
AuditTellsAndSettles == [][part = "audit" => Audit!AuditTellsAndSettles]_vars

\* Tags are on main, and ordered as the commits they are of.
VersionsFollowMain == part = "tag" => Tag!VersionsFollowMain

\* A hold, or a sign-off that was cleared, stops every merge that begins later.
LastWordHolds == part = "gates" => Gates!LastWordHolds

\* A worktree reported green is clean, at the head CI ran on, on the candidate.
GreenIsOfTheHead == [][part = "propagate" => Propagate!GreenIsOfTheHead]_vars

\* A sync gives every issue one task, a sweep leaves no merged work open, and
\* merged work whose issue is closed is finished in the database.
TasksFollowGitHub ==
    [][part = "tasks" => Sync!IssuesAndTasksAgree /\ Sync!MergedWorkIsFinished']_vars

\* One active sprint, entered and completed through its gates.
SprintsKeepTheirGates == part = "sprints" => Sprint!SprintsKeepTheirGates

\* What is picked can be worked on, and what came before it could not.
PickIsActionable == part = "backlog" => Queue!PickIsActionable

\* However often it is run, `lineage fix` makes each document once.
OneDocumentOfAKind == [][part = "lineage" => Documents!OneDocumentOfAKind]_vars

\* A page becomes one task, whoever promotes it and however it is retitled.
APageBecomesOneTask == part = "knowledge" => Knowledge!APageBecomesOneTask

\* A pinned release has been taken in, and no sync overwrites a site's own text.
PinsAndCopiesAreTrue ==
    [][part = "ui" => Ui!PinTellsWhatIsIn' /\ Ui!CopiesAreSafe]_vars
=============================================================================
