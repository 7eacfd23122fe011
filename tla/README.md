# Models and proofs of lightwave-cli

`lw` is a Go command line for one operator's machines. Most of its commands are
short-lived processes that read some state, call something over the network or
on disk, and write some state back; launchd starts several of them again and
again, sessions and people work beside them, and none of them is told when
another one dies. This directory holds TLA+ models of the parts where that
matters, the TLC runs that check them on small instances, and TLAPS proofs, for
every size of the system, of every safety property the passing runs check.

All paths are relative to the repository; `src/` in PROJECT.json is its root.

- [Components](#components): the inventory
- [What is hard](#what-is-hard)
- [Modules](#modules): which module models which code, state by state
- [Runs](#runs): bounds, fairness, what each run shows
- [Proofs](#proofs)
- [Where the code and its comments disagree](#where-the-code-and-its-comments-disagree)
- [What the models leave out](#what-the-models-leave-out)
- [Plan](#plan)

## Components

| component | code | state it keeps | operations that change it | who else touches that state | modules |
|---|---|---|---|---|---|
| issue loop | `internal/cli/issue_loop_*.go`, `internal/github`, `internal/nulltickets` | none of its own: GitHub issues and PRs, the nulltickets queue | `lw issue promote`, `reconcile` | webhook receiver, workers, delivery hook, operators, a second reconciler | Nulltickets, PullRequestPolicy, IssuePromote, IssueReconcile, TaskReview |
| runbook engine | `internal/runbook` | `instance.yaml` and `audit.jsonl` of an instance | start, apply, step-complete, cancel, status `--require executed` | other `lw` processes, whoever changes the worktree or lightwave-core | RunbookEngine |
| secret rotation | `internal/secrets` | `secrets-exposure.jsonl` | `lw secret rotate` | SSM, launchd daemons, a second rotation | SecretRotation |
| knowledge bridge | `internal/knowledge` | prints under `specs/`, rows in Postgres, pages on Notion | `lw knowledge sync`, reindex, promote | people on Notion, editors of prints, another machine | NotionSync, KnowledgePromotion |
| worktrees and sweep | `internal/git`, `internal/worktreelock`, `internal/cli/worktree*.go`, `git_sweep.go` | branches, worktrees, `refs/rescue`, lock files | worktree create, gc, prune; `lw git sweep` | sessions, the forge, another gc | Worktrees |
| git audit | `internal/cli/git_handlers.go` | reports; hooks and registrations of a repo | `lw git audit --fix` | sessions | GitAudit |
| release gates | `internal/release`, `internal/cli/release_handlers.go` | feature flags, sign-off ledger, cuts | flag, cut, sign-off, merge | a second release command | ReleaseGates |
| release tags | `internal/cli/release_tag.go` | tags, and what they are on | `lw release tag` | another clone, pushes to main | ReleaseTag |
| release propagation | `internal/cli/release_propagate.go` | worktrees of a repo, its report | `lw release propagate` | the sessions in them | ReleasePropagate |
| task done | `internal/task` | artefact directories, archive, worktree | `lw task done` | sessions | TaskDone |
| agent sessions | `internal/agent` | one JSON record per agent | spawn, list, status, stop; the reaper | the agent process, a second `lw` | AgentSessions |
| planning store | `internal/db`, `internal/cli/task.go`, `github_*.go`, `sprint.go`, `lineage` | epics, sprints, stories, tasks, documents in Postgres; issues | tasks and their issues, sprints, picks, documents | people on GitHub, other terminals | TaskSync, Sprints, Backlog, Lineage |
| MCP server | `internal/mcp/server.go` and its tools | none; the persona file is the operator's | requests | the operator, other connections | McpServer |
| MCP listener | `internal/mcp/lifecycle.go` | a pidfile, a port | start, stop, restart | a second start | McpListener |
| v_core daemon | `internal/vcore` | one state file | start, stop | a second start | VcoreDaemon |
| local stack | `internal/cli/local.go` | a compose stack | up, down, restart, clean, exec | containers, other programs' ports | LocalStack |
| artefact numbering | `internal/adr`, `internal/mdtasks` | numbered files and an index | new, edit, close, index | a second `new` | Artefacts |
| file stores | `internal/memory`, `internal/voice` | key files | put, get, delete | a second writer | MemoryStore |
| UI copy-in | `internal/uisync` | copied files, a lock file with a pin per unit | add, sync | the developer who edits the copies, upstream releases | UiSync |
| home maintenance | `internal/maintenance`, `internal/homepolicy` | logs, archives, directories under home | rotate, prune | the daemons that write the logs | Maintenance |
| scheduled jobs | `internal/cron` | launchd agents | reconcile | launchd | - |
| generators | `internal/codegen`, `sst`, `docsfactory`, `blueprint` and others | none | render | nobody | - |
| front ends | `internal/aws`, `infra`, `observability`, `config`, most of `internal/cli` | none between commands | calls of vendor tools | nobody | - |

How they interact. The issue loop and the knowledge bridge are jobs that the
scheduler starts; the loop hands work to workers through nulltickets, workers
live in worktrees, and the delivery hook opens the PRs that the loop merges.
A runbook instance belongs to a worktree, and its receipt
(`status --require executed`) is what a release step asks for. The sweep, the
audit and the worktree commands act on the same clone as the sessions. Nobody
calls anybody: all of it goes through shared state, so the order of two
commands' steps is never given.

What makes each one correct:

- issue loop: an issue gets attempts in order and each with a cause; a task goes
  through a bounded number of reviews and is approved only when its PR merged;
  nothing is armed that was not judged at that head; every parked or merged task
  is dealt with in the end.
- runbook engine: nothing runs without the signature it needs; a receipt means
  that every step ran for real at the commit it names.
- secret rotation: what the exit code and the ledger say of the consumers is true.
- knowledge bridge: an edit on either side is merged or reported, never dropped;
  a page that is skipped is in sync; the sync comes to an end; a page becomes one
  task.
- worktrees and sweep: what a removal could have seen is on some ref afterwards.
- git audit: the report is what holds, and a fix settles it.
- release: a hold or a withdrawn sign-off stops the merges that begin after it;
  versions are on main and ordered as the commits; "green" is of the head it names.
- planning store: an issue has one task and one only, merged work is finished, a
  sprint passes its gates, a pick can be worked on, each document is made once.
- pidfiles, records and stores: a live process is the one its record names, no lost
  write, no number given twice, no file of a finished task gone.
- local stack: success means healthy. UI copies: a pin tells what was taken in and
  no sync overwrites what was written in the site.

## What is hard

PROJECT.json lists the hazards at their lines with the properties that speak of
them. In short:

- *A judgement outlives what it judged.* Reconcile decides on a listing and acts
  several calls later (`github/issue_loop.go:241`), Update re-reads the page and
  then patches it (`knowledge/notion.go:391`), the sweep proves a branch merged
  and deletes it after a prompt, the tag is computed before the prompt and pushed
  after it, a sprint passes its gates on rows that others change, the runbook
  engine works on the print it loaded at its start, CI runs in a worktree whose
  session goes on.
- *Half-done writes.* A process dies between two of its writes and its next run
  meets the result; a reply is lost and the call was executed; `os.WriteFile` has
  emptied a file it has not filled yet.
- *Idempotency keys and labels that consume requests* (`issue_loop_handlers.go:252`,
  `knowledge/promote.go:253`).
- *Overlap.* Two reconcilers, rotations, starts, puts, an apply beside a cancel;
  only the issue loop (leases), the knowledge bridge (a flock) and the numbering of
  decision records (a lock file) keep apart.
- *Liveness by repetition.* Nothing retries inside a command; what must happen
  in the end happens because launchd starts the command again, so whatever a
  failed run leaves must be something the next one picks up.

## Modules

```
 PullRequestPolicy   Nulltickets            TaskReview (abstract)
         \           /        \                 ^
        IssueReconcile     IssuePromote         |  Promise == INSTANCE
         |     \  .............\................|
         |   MCIssueReconcile  MCIssuePromote   IssuePromoteProofs (EXTENDS IssuePromote)
  IssueReconcileProofs (also of the refinement)
                                            NotionSync --- NotionSyncProofs
                                                |
                                            MCNotionSync

 Workstation == McpListener, VcoreDaemon, AgentSessions, McpServer, LocalStack, TaskDone,
                MemoryStore, Artefacts, Maintenance, SecretRotation, RunbookEngine
 Delivery    == Worktrees, GitAudit, ReleaseTag, ReleaseGates, ReleasePropagate,
                TaskSync, Sprints, Backlog, Lineage, KnowledgePromotion, UiSync

 SecretRotation --- SecretRotationProofs            RunbookEngine --- RunbookEngineProofs
                            ^                                                ^
                     Proved == INSTANCE                               Ran == INSTANCE
                            |                                                |
       Workstation --- WorkstationProofs ............................................

       Delivery --- PlanningProofs (TaskSync, Sprints, Backlog, Lineage, KnowledgePromotion)
                          |
                    DeliveryProofs (the rest, and TypeOK of Delivery)
```

Lines are EXTENDS, dotted ones and arrows INSTANCE. A module is a state machine over the
shared state and the program counters of the processes: one action per call that
another process can come between, and whatever a handler does between two such
calls is in one action. An MC module only gives constants values.

*Workstation* and *Delivery* instantiate components that share no state, of a
machine and of a repository. Composing them by interleaving would multiply state
spaces that cannot influence each other, so a behaviour of the composition is a
behaviour of one of them: `part` says of which, `v1`, `v2`, ... hold that
component's variables and `faults` the failures so far. It is a disjoint union,
a way to ask one question ("does every record tell the truth?") of several
components in one run, not a claim about their interplay. MCRunbookEngine, with
two commands on one instance, and McpListener and TaskSync on their own are the
modules of runs that expect a violation.

### Nulltickets, PullRequestPolicy, IssuePromote, IssueReconcile, TaskReview

*Nulltickets* is the queue as its client uses it (`internal/nulltickets`): `task`
maps each key to its stage, lease, version, body and attempts. A create under a
key that exists replays for the same body and is a conflict (409) for another;
a claim takes a lease; a transition names the version it read. It also has the
worker's side. The server is not in the repository, so those definitions are
marked external; every operation takes effect at once, and `Fault` is the
budget for calls that fail, replies that get lost and processes that die.

*PullRequestPolicy* is `decidePullRequest`, `handleChecks`, `FailedChecks`,
`PendingChecks` and the merge gate (`issue_loop_handlers.go:640-760`,
`issue_loop_merge_hold.go`) as operators over one snapshot of a PR.

*IssuePromote* adds `issue` (open, labels, text) and `prom`: where the one
polling process is, what listing it works through, which generation it tries.
Its actions are those of `issuePromoteHandler` and `retryIssue`, call by call:
list the ready issues, create a task each; list the retries, and for each try
generations until one is live, then remove the label. Beside it the webhook
receiver, an operator who labels and edits, issues that close and tasks that end.

*IssueReconcile* adds `pr` (state, head, draft, armed head, who opened it, checks
and review per head) and `rec`, one record per reconciler. A tick withdraws
exhausted tasks, goes over orphaned PRs and then over the tasks in review: find
the PR, read its reviews, decide, gate on required checks and operator-only
paths, arm auto-merge at the judged head, claim, transition, hand off to a person.
Beside it workers, pushes, reviews, checks, people who open, merge and close
PRs, and lease expiry.

*TaskReview* is what the loop promises of a task, without listings, snapshots,
leases or failures: three functions of the task - its stage, its review rounds
and whether a PR of it has merged - and six steps. `IssueReconcile!Promise` is
TaskReview with the stage read from the queue, the round from the queue's
version (half of it: the n-th review is at version 2n) and `merged` from GitHub.
`ReviewIsAsPromised == Promise!Spec` says that every step of IssueReconcile,
whoever takes it, is one of the six or leaves all three alone. It holds for one
reconciler at a time; two can apply one verdict to two rounds (below).

Time is abstracted: grace periods (a PR not found yet, a check still pending)
are choices. Report printing and dry runs leave no state and are left out.

### RunbookEngine

`print` is instance.yaml (status, per step its status and signature, dry run,
started, commit, edition hash and commit); `tree` and `core` are the worktree
and the lightwave-core checkout; `cmd` has one record per running command with
its own copy of the print; `seen` is history. Apply is split at every load, save
and step: observe drift, open and verify the edition, pause for a signature, run
a step, end it (re-check the edition, invalidate provenance), audit it, record
it, complete. Sign-off, deny, cancel and require-executed load and save. Save
may fail before the rename or after it. An init state may hold the print of an
older `lw` without the newer fields. Fingerprints, templates and inputs are
reduced to equal or different; one instance, so the latest-instance lookup is
the identity; a git error counts as drift, as in the code.

### SecretRotation

`version` is what SSM has, `loaded` what each consumer works with, `refresh` the
secret map's entry per consumer (a launchd label, nothing to do, a person),
`run` the invocations and `ledger` the exposure ledger. A run checks, writes the
successor, records it, kickstarts each label once, probes and concludes. Every
external call may fail, take effect and lose its reply, or kill the run.

### NotionSync, KnowledgePromotion

*NotionSync* is one page with one mapped property and its markdown body. `remote`
is the page on Notion, `page` and `binding` its two prints, `index` the Postgres
row, `engine` the running sync: its program counter, what it read (`ext`), what it
merged (`before`, `local`, `target`). `owner` and `bidirectional` are
configuration, chosen at the start. `had` is history: every value Notion ever had.

The actions follow `runDatabase`, `reconcile`, `Update` and `accept`
(`internal/knowledge/reconcile.go`, `notion.go`): list or skip, fetch the page
and then its body by two requests (the read may be torn), import a new page,
or merge three ways (`content.go:202`) and save the intent; on delivery
re-fetch and compare, PATCH the property, PATCH the body by replacing its old
text, read back; then read the print again and either save page, binding and
index in that order or fold an edit made meanwhile. Fail marks the binding as
`runDatabase` does. Reindex projects the print. People edit either side and
archive the page; calls fail, replies get lost, the process is killed.

Assumed of Notion: its stamp strictly increases with every change, a body PATCH
whose old text is gone is refused (an appended body counts as gone), and an
archived page takes no writes. `Files.Lock` keeps a second engine out, so there
is one; writers of prints do not take it, so they interleave with everything.

*KnowledgePromotion*: runs on several machines, each with its own prints (`binding`)
and its own lock, list the rows that are ready with a verified packet, look up the
print of each page, create the task under a key made from the page and save the
print. Titles change on Notion at any time; a create under a key with another
title is a 409.

### Worktrees, GitAudit

*Worktrees*: one name stands for an issue, its branch and its worktree. `heads` and
`remote` are branches as sets of changes with what they forked from, `base` and
`fetched` the forge's main and origin/main, `merged` the names of merged PRs, `trees`
the uncommitted changes per worktree, `dead` registrations without a directory,
`rescued` what `refs/rescue` anchors; `creator`, `sweep` and `remover` are the
commands; `lost` is history. Create adds, claims the lock and exits; gc and
prune check the holder, rescue and remove; the sweep fetches, scans, proves each
branch merged by one of three proofs (ancestry, tree on base, merged PR by
name), prompts, reads the tip and deletes. Sessions edit, commit, push and
attach; PRs merge or close between any two git calls.

*GitAudit*: `dir` is what lies at each place (nothing, an empty directory, a tree),
`registered` what git knows, `unfit` and `hooked` what the checks look at. The audit
lists, inspects each worktree, sweeps for orphans from the common parent, fixes if
asked and writes its report, while sessions add and remove worktrees.

### ReleaseGates, ReleaseTag, ReleasePropagate

*ReleaseGates*: `flags.toml`, the sign-off ledger and the list of cuts, each read,
changed and written by emptying and filling it; a merge reads hold, enabling flag,
verdict and sign-off once and then merges its PRs one by one. `word` remembers the
last word on the hold and on each repo's sign-off.

*ReleaseTag*: a main line of commits of three kinds, clones with a HEAD and tags of
their own, the remote's tags. A tag run fetches, computes the next version from
what it has, asks, creates the tag and pushes it. `irregular` counts failed pushes,
versions given by hand and HEADs that moved under a command; once something is
irregular a behaviour adds commits only up to `FewCommits` instead of `MaxCommits`.

*ReleasePropagate*: per worktree the commit it is based on, the commits on top and
whether it is dirty. For each worktree the propagation reads the status, fetches,
resolves the candidate, rebases, checks the base, reads the head, runs CI, looks at
head and status again and reports; the session of a blocked worktree is told.

### TaskSync, Sprints, Backlog, Lineage

The planning store by the commands that change it. *TaskSync* has the task rows,
the platform's issues and the PR of each task's branch: create a task and then its
issue and then the cross reference; sync, which finds the task of each issue by
stamp or by reference and makes one if neither is found; sweep of merged branches;
monitor and close-done. *Sprints* has the sprints, the tasks of an epic, the spec
files of the queue and the required document: create, plan, start behind its gates,
complete behind its own. *Backlog* is the ready queue and `pick`: one listing of
open issues, one of closed ones, one query per candidate. *Lineage* asks which
documents are missing and inserts them one by one.

### McpListener, McpServer, VcoreDaemon, AgentSessions, LocalStack

Processes and what is recorded about them. *McpListener*: every `lw` and every
listener is a pid; a start checks the pidfile, spawns a child that runs the same
start, writes the pidfile, waits for health; a stop signals, waits and removes.
*VcoreDaemon*: check, spawn, write the record; signal, wait five seconds, remove it.
*AgentSessions*: worktree, process, record; the reaper, a poller and a stop each
load, change and save. *McpServer*: connections serve one
request at a time; the tier is read from the persona file for every request.
*LocalStack*: preflight, compose up, poll until healthy or timed out; containers
come up, fail and exit in their own time, other programs take ports.

### TaskDone, MemoryStore, Artefacts, Maintenance, UiSync

Files. *TaskDone* archives a task's files into the tar of the month, removes them,
removes the worktree, closes the issue and notes the end. *MemoryStore* keeps names
and what they name apart: a put truncates `<path>.tmp`, fills it and renames it, and
two puts of a key share that name. *Artefacts* numbers decision records under a lock
file and task files by a scan; edits read a file and write it back. *Maintenance*
scans, plans, copies a log to an archive named after the second, and truncates it;
prunes directories that were empty when it looked. *UiSync* copies units with their
imports, and syncs three ways against the release its pin names; the text of a file
is the number of an upstream revision, or `Mine` for anything written in the site.

## Runs

Every run finishes within three minutes on two cores. CHECK_DEADLOCK is off
everywhere but in `runbook_cancel_lost`, because everything may really come to rest:
the budgets are spent and nobody acts.

| run | instance | shows |
|---|---|---|
| `promote` | 1 issue, 2 generations, 1 edit, webhook, 1 fault; fair | attempts have no gaps and a cause each, `status:retry` is consumed by an attempt and served |
| `promote_two_live_attempts` | the same without faults and edits | **violation**: a retry of a live, unedited issue queues a second live task |
| `review` | 1 reconciler, 2 heads of which one touches operator paths, 2 rounds, 1 fault | the loop implements TaskReview, each verdict fits its round, nothing is armed on operator paths |
| `overlap` | 2 reconcilers, PRs of people and of the hook, auto-merge off | approved means merged, armed on evidence about that head, the orphan sweep merges deliveries only |
| `reconcile_live` | 2 PRs of one task, auto-merge off, 1 fault; fair | exhausted tasks are withdrawn, merged work is closed, and with a search that does not lag a closed leftover drops nothing |
| `handoff_lost` | 1 fault; fair | **violation**: one failed call and an issue is never handed to a person |
| `runbook_cancel_lost` | 2 steps, 2 commands | **violation**: an apply at work overwrites a cancel |
| `notion_sync` | 3 values, every owner, 3 disturbances; fair | local and remote edits survive, skipped pages are in sync, the sync settles |
| `mcp_start` | 2 pids, nothing fails | **violation**: a start alone on the machine ends unhealthy |
| `description_lost` | 1 task, 1 issue, nothing fails | **violation**: create a task, then sync, and its description is gone |
| `workstation` | 11 components, see below, 1 fault each | records name what runs, nothing written is lost, what is reported is so |
| `delivery` | 11 components, see below, 1 fault each | custody of work, order of versions, gates, one task per issue and page, pins |

`workstation` (2.3 million states):

| property | of | says |
|---|---|---|
| `ProcessesAreRecorded` | McpListener, VcoreDaemon, AgentSessions | unless two commands were at work at once, the listener that serves and the daemon that lives are the recorded ones; whatever overlaps, a session on record as running has its worktree and one as exited is dead |
| `RevocationHolds` | McpServer | under a revoked persona nothing is written or dispatched but the request at work |
| `UpMeansHealthy` | LocalStack | in the step in which `up` reports success every critical service is healthy |
| `NothingWrittenIsLost` | TaskDone, MemoryStore, Artefacts | a finished task's files are in their directory or an archive; a value that a put reported is read, unless two puts overlapped; numbers are unique and edits kept (task files: one command at a time) |
| `NothingOfValueGoes` | Maintenance | no log line goes but those appended between the end of a copy and its truncate, no directory that held a file, no protected one |
| `RotationTellsTheTruth` | SecretRotation | a rotation that ends names every stale consumer, a verified row is true of all, a success has left both rows |
| `RunbookKeepsItsWord` | RunbookEngine | signatures, receipts, drift, audit, single execution and resumption, for one command at a time |

`delivery` (3.8 million states):

| property | of | says |
|---|---|---|
| `WorktreesKeepWork` | Worktrees | removals and deletions lose only what they could not have seen, or what the forge vouched for by name |
| `AuditTellsAndSettles` | GitAudit | an undisturbed report is exactly what holds, and a fix leaves nothing it inspected unfixed (unless a worktree sorts after the main checkout) |
| `VersionsFollowMain` | ReleaseTag | published versions are on main and ordered as their commits, by at least what the commits between ask for |
| `LastWordHolds` | ReleaseGates | a merge that began after the hold was set or the sign-off cleared merges nothing (unless a file was being rewritten) |
| `GreenIsOfTheHead` | ReleasePropagate | a worktree reported green is clean, at the head CI ran on, on the candidate |
| `TasksFollowGitHub` | TaskSync | an undisturbed sync makes a task only for an issue without one and leaves none without; merged work with a closed issue is finished |
| `SprintsKeepTheirGates` | Sprints | one active sprint, with its document; a completed one has no open task (exceptions named) |
| `PickIsActionable` | Backlog | what is picked had its dependencies over at some moment of the pick, what was passed over had not |
| `OneDocumentOfAKind` | Lineage | however often it is killed and rerun, a fix makes no document twice and leaves none missing |
| `APageBecomesOneTask` | KnowledgePromotion | whatever machine promotes it, whatever run died, however it is retitled |
| `PinsAndCopiesAreTrue` | UiSync | a pinned release has been taken in (unless text was copied that was never released, upstream came back to the text of an earlier release, or a unit was copied again over an unresolved `.upstream`); no sync overwrites a site's own text; an add brings every import |

Exceptions in these properties ("unless two puts overlapped") are history variables
of the modules (`alone`, `calm`, `quiet`, `disturbed`, `irregular`, `raced`,
`overlapped`, `window`, `exact`) and are there because the code really does otherwise
in that case; TLC refutes each property without its exception. What then goes wrong
is under [Where the code and its comments disagree](#where-the-code-and-its-comments-disagree).

Why these bounds. A property of two actors needs two of them and one object to
meet on; every run has that, and the second generation, PR, head, round, value,
release, month or run is there wherever a property speaks of an earlier or a later
one. One fault is enough where a fault is a lost or failed call or a kill at *any*
step: the hazards are single failures that a later run meets, and since runs repeat
without bound a second failure starts from a state that is reachable with a
first. `notion_sync` counts edits, archivings, failures and kills together: three
are a base, an edit on one side and something between (its safety properties also
hold with four where the property has owner reconcile, and are proved for any
number). The heads and rounds of `review` let a push fall between any two reads.
Versions count up to `MaxVersion`, enough for every transition of the rounds. In
`delivery` a clone tags three commits, one for each kind of version bump's order
against another, and two once something irregular happened (`FewCommits`). UiSync has
two units that import each other's files, two revisions and versions up to three: a
pin can be older than what was taken in, and upstream can come back in a third release
to the text of the first, which two releases would not show.
MemoryStore has three inodes, so a name can point at the file another put is still
filling. Symmetry is used only on interchangeable reconcilers, and in runs without
liveness properties.

Fairness. Weak fairness on the program's own steps, nothing on people, workers,
the forge or failures: `Promote` and each reconciler because launchd starts the
poll and the reconcile tick on an interval and a started process runs on or dies
(a kill is a fault and starts over), lease expiry and the search index because time
alone brings them, `Progress` of NotionSync because the job
`notion_knowledge_hygiene` runs the sync again. The liveness properties are
stated so that a person who never acts refutes none of them: `RetryIsServed`
allows that all generations are used, `Settles` allows a conflict or a delivery
that only a person can resolve. The components of Workstation and Delivery are run
by hand: nothing schedules them, so no fairness is assumed and no liveness claimed.

Every property of a passing run has a mutant in PROJECT.json: a plausible slip
in one definition (a dropped comparison, a label never removed, a reply trusted)
that makes TLC find the property violated under the run's own configuration. The
mutants stand beside the definitions they replace.

## Proofs

The proof modules prove `Spec => []P` or `Spec => [][A]_vars` for every value of
the constants: every invariant and every action property that a passing run checks
has its theorem (PROJECT.json, `theorems`). They assume what the modules assume of
their constants by name, and nothing else: types; that `None`, or "no lease", is
not one of the things it stands for the absence of; that the sets over which
something is counted or picked (tasks of a sprint, the backlog, rotations) are finite;
`FewCommits <= MaxCommits`, explicit versions are versions, `MaxSeconds`, `MaxMain` and
`MaxRuns` are not 0, and a unit has a name (`UnitsAreNames`). TLC evaluates all of
these on the runs. Where a theorem has one hypothesis more, it is
named in its ASSUME and told below, with the reason the property is false without it.

Each proof has the same shape. A property is about what is recorded, and a step that
breaks it would do so because of what some process read earlier, so the strengthening
`IInv` says for every process at every point what its copy, snapshot or listing still
means while the others move. TLC checked each strengthening as an invariant before it
was proved. One lemma per action shows that it keeps `IInv`; the last step is
temporal and combines them.

**IssueReconcileProofs**: any number of issues, tasks, PRs, commits, checks,
reconcilers, rounds and faults, whatever the switches. The properties speak of
the queue and of GitHub, but what reaches them is what a reconciler holds, so
the strengthening `IInv` says for every reconciler at every point what its
snapshot and verdict still mean while others move: it holds a PR that exists and
whose head has only grown (`HoldsPR`), a verdict "approved" stands on a merged PR
(`StandsOnMerge`), what is on its way to the gate was green on that head
(`HoldsGreen`), what is past the gate has every required check, and the files
that were read are those of a head at least as new (`PassedGate`). PRs never
shrink, change hands or unmerge (`PRsGrow`), which carries these facts over the
steps of everybody else. From it: `TypeCorrect`, `ClosedOnlyWhenMerged`,
`NeverArmsOperatorPaths`, `ArmingHasEvidence`, `SweepMergesDeliveriesOnly`.

*The refinement*, in the same module: IssueReconcile implements TaskReview, under one
more assumption, `OneReconciler`. A rejection is legal in TaskReview only while a round
is left; the code decides that from the version in its *listing*, calls before the
transition. So `RInv` adds to `IInv` that an entry listed for review is still in the
round it was listed in or its task has ended since (`StillThere`: nobody but the one
reconciler can take a task out of review other than to its end), that no task is
listed twice, that whoever is past the decision is in the review phase and rejects
only below the cap (`ListHolds`), and that versions are odd in work and even in
review (`VersionsFit`). A step without a verdict is one of three moves of the queue
or none (`PlainMove`), which keeps all this; a verdict takes its entry off the list.
Then every step is mapped: plain moves to Queue, Submit and GiveUp, the first merge
among a task's PRs to Merge, verdicts to Approve, Reject and GiveUp, all else to a
stutter (`NextMaps`). From it: `KeepsItsPromise` (the refinement) and
`VerdictsFitTheirRound`.

*Closed leftovers*: `LeftoversDropNothing` proves `ClosedLeftoverDropsNothing` under
`Undisturbed`: one reconciler, a search that does not lag, PRs opened by the delivery
hook only. `CInv` adds to `RInv` that every PR there is can be found (`AllIndexed`)
and that a verdict read from a closed PR is held only while the task has no open one
(`ClosedRead`). It holds when the PR is picked, because the pick ranks open before
closed (`PickIsFound`, over the sets that the code sorts), and stays so because a task
with a verdict pending is in review, where the hook opens nothing, and closed PRs
do not reopen (`PRsSettle`). Each of the three hypotheses is needed: another
reconciler's old snapshot, a PR the search does not show yet, and a person's PR for a
task in review each leave an open PR beside such a verdict.

**NotionSyncProofs**: any set of values, any owner of the property and any number
of edits, archivings, reindexes, failures and kills. `IInv` says what the engine
holds between two steps: everything it read was once on Notion and is either
still there or behind Notion's stamp (`Known`, `Reads`), the target of a delivery
keeps every local value Notion has not had and changes Notion's only where that
was the base or the print decides (`Delivers`), Update patches over the version
that was merged (`Patches`), what is accepted is what was read back (`Accepts`),
and what is saved is one of the two (`Saves`). The step that needs all of it is the
read-back: it replaces the target by what Notion returned, which keeps local
edits only because `Delivered` compared every changed field and every other one
was Notion's already. From it: `TypeCorrect`, `SkippedAlwaysInSync`,
`LocalEditsAlwaysSurvive`, `RemoteEditsAlwaysSurvive`.

**IssuePromoteProofs**: any set of issues, any cap on generations, any number of
edits, labels, webhooks and faults. A retry walks up the generations, and what it
passed must stay passed while others close, edit and create. `IInv` says that every
generation below the one at hand is `Spent`, dead or of another body than the one
listed (`PassedOver`; tasks never come back to life nor change their body), and that
once a task is found or made it has the body of the listing (`Found`). A create then
adds the first missing generation or replays, so no gap appears. From it:
`TypeCorrect`, `GenerationsHaveNoGap`, `LabelIsConsumedByAnAttempt`,
`FreshAttemptsHaveACause`.

**SecretRotationProofs**: any finite set of overlapping rotations, any number of
consumers, failed calls and kills. For each rotation `Fits` says which version it wrote
(`Names`), that what it kicked has that version (`Kicks`), that each consumer it has
passed holds it or is pending (`Passed`), that its rows are written (`Rows`) and what
its exit code means (`Ends`). The facts of one rotation hold over the steps of another
because versions and consumers only move forward (`Forward`); `Counted`, at most one
version per rotation past its write, keeps versions in range. From it:
`RotationsTellTheTruth`.

**RunbookEngineProofs**: any edition, any number of steps, kills and failed writes.
There are two invariants. `IInv` holds for any number of commands that save over one
another: since any copy of the print may be what the next Save leaves, `Sound` is said
of the print and of every copy (a signature in it was given, a step it calls completed
ran and has its audit row), and `Fits` adds what a command knows of the step at hand
(`Honest`) and that it has the outputs of everything its copy calls completed. From it:
`TypeCorrect`, `SignOffComesFirst`, `NothingCompletedUnaudited`, `ReceiptsMeanRan`,
`OutputsAlwaysSurvive`. So the overwritten prints of `runbook_cancel_lost` can lose a
cancel but never claim something that did not happen. `LoneIInv` is for commands that
come one after the other (`Commands = {p}`): the recorded commit is where every
executed step ended, is recorded once and voided by a drift (`Binds`, `BindsAtHand`),
the command's copy is the print on disk but for what the next Save will write
(`Mirrors`), and a step ran at most once more than failures explain (`Counted`). From
it: `ReceiptsBind` and `FinishedForGood`. With two commands these are false, as
`runbook_cancel_lost` shows, so that hypothesis cannot go.

**WorkstationProofs** proves the properties of Workstation, whose variables are named
otherwise and whose every step is one of the component at hand. Rotation and the
engine are carried over from their own modules by INSTANCE. The other nine have
their strengthening beside them, as `IInv` of the component:

- *McpListener*: whom a command acts on exists (`HasTarget`); while commands do not
  overlap, one is at work, with the child it spawned (`OneAtWork`), a listener that
  serves is in the pidfile and nobody is about to overwrite that (`KnowsWhoServes`), and
  who binds or signals is the one it names (`NamesItself`).
- *VcoreDaemon*: a record is of a daemon that was spawned (`SpawnedFirst`), and while
  commands do not overlap (`OneAtWork`) the one about to replace or remove it does not
  find a living daemon in it (`StaleWhenReplaced`).
- *AgentSessions*: until its process runs a session has no record
  (`UnsavedUntilRunning`), and whoever works on a record loaded one that was saved and
  does not take a living process for dead (`CopiesAreOfRecords`), however it overlaps.
- *McpServer*: the tier a request is handled under was declared at some moment since
  it came (`TierIsOfTheRequest`). *LocalStack*: a background `up` is in none of the
  phases of other commands (`PhaseFitsKind`).
- *TaskDone*: nothing is removed before the month's archive holds all of it
  (`ArchivedFirst`).
- *MemoryStore*: a put knows its key and value (`Knows`), no file has two names
  (`OneName`), and unless puts of a key overlapped its only writer (`OneWriter`) fills,
  from nothing, the file the temporary name names (`WritesTmp`).
- *Artefacts*: whoever numbers a record holds the lock, and its number is above all
  there are (`HoldsTheLock`, `NumberIsNext`); without overlap the same of task files
  (`OneAtWork`, `TaskIsNext`), and an edit writes back what the file still holds
  (`ReadIsCurrent`).
- *Maintenance*: an archive has a second and one copier (`Dated`, `OwnArchive`), the log
  about to be truncated is archived but for the window, also when it was truncated
  under a copy (`Truncatable`, `CutUnderCopy`), and a plan names only what may go
  (`PlansExpendable`).

Theorems: `RevocationAlwaysHolds`, `UpAlwaysMeansHealthy`, `ProcessesAreAlwaysRecorded`,
`NothingWrittenIsEverLost`, `NothingOfValueEverGoes`, `RotationAlwaysTellsTheTruth`,
`RunbookAlwaysKeepsItsWord` (for `Operators = {p}`, see above) and `TypesAreKept`.

**PlanningProofs** does the same for the planning store and the promotion of pages:

- *KnowledgePromotion*: the key of a task is its page (`KeyIsThePage`) and what a run
  works on was shown to it (`PromotableIsShown`, `RunsOnShown`), over any number of
  machines. *Lineage*: while `calm` there is one fixer past its prompt and what is on
  its list is exactly what is missing (`OneFixes`, `ListIsMissing`).
- *Sprints*: one start at a time and one active sprint unless starts overlapped
  (`OneStarts`, `OneActive`, `ActiveIsItsOwn`); what a gate told a command is so until a
  change makes the command unquiet (`GateTold`, `ListTold`).
- *Backlog*: a pick at work has seen all that is over or unfinished now (`KeepsSeen`),
  the closed ids it keeps among it (`KnownAreOver`); what left its list was found
  blocked (`PassedAreBlocked`) and what it chose was judged (`ChosenWasJudged`).
- *TaskSync*: references name what exists (`ReferencesExist`, `HoldsWhatExists`), a
  listing is true until somebody acts (`ListingHolds`), what an undisturbed sync or
  sweep has been through is settled (`SyncSettles`, `SweepSettles`), and while `calm` a
  task and its issue name each other and end together (`LinksAreStamped`,
  `ClosedIsFinished`, `MonitorFinishes`).

Theorems: `PagesBecomeOneTask`, `OneDocumentOfAKindAlways`, `SprintsAlwaysKeepTheirGates`,
`WhatIsPickedIsActionable`, `TasksAlwaysFollowGitHub`.

**DeliveryProofs** has the other six components of Delivery and its type invariant:

- *ReleaseGates*: unless `disturbed` one command rewrites (`OneRewrites`) and both the
  files and the text a command is about to write tell the last word
  (`FilesTellTheWord`, `TextsTellTheWord`); a merge that passed its gates passed them on
  a word that held when it began (`PassedGates`, `StillSo`).
- *ReleasePropagate*: the candidate is on main (`TargetIsOnMain`), what passed the base
  check contains it (`ContainsTarget`), and the head read before CI and the one read
  after it only grow (`HeadsGrow`): equal ends mean nothing came between.
- *ReleaseTag*: while nothing is `irregular`, the remote's versions form a ladder:
  they rise with their commits as the commits between ask for, and each next tag is the
  bump of the one below (`Ladder`); tags are on main (`OnMain`), a clone knows no tag the
  remote lacks but the one it is about to push (`KnownAreRemote`, `Created`), and what was
  computed before the prompt is the bump of a tag it could reach (`Computed`), so that
  either no tag came between or the push is refused. The rung below a commit is found
  by a least element (`NatLessThanWellFounded`).
- *Worktrees*: what was fetched is on the base (`FetchedIsOnBase`), what a removal saw
  is anchored (`SawIsAnchored`), what the sweep proved merged by ancestry is on the base
  for good (`ProvenIsOnBase`), and what it deletes is what it proved (`TargetIsCandidate`).
  `KeepsWork`, that no step drops more, is the conclusion for each action.
- *GitAudit*: unless disturbed, what was inspected holds and what was fixed stays so
  (`SeesWhatHolds`, `FixesHold`). *UiSync*: while `exact`, a text that upstream left
  is not released again (`TextsNeverComeBack`) and an unresolved `.upstream` is of a
  release no older than the pin (`AsideIsIn`).

Theorems: `LastWordAlwaysHolds`, `GreenIsAlwaysOfTheHead`, `VersionsAlwaysFollowMain`,
`WorktreesAlwaysKeepWork`, `AuditAlwaysTellsAndSettles`, `PinsAndCopiesAreAlwaysTrue`,
`TypesAreKept`.

Only model-checked: the liveness properties (`RetryIsServed`,
`ExhaustedTasksAreWithdrawn`, `MergedWorkIsClosed`, `Settles`), since fairness and
ENABLED are outside what TLAPS proves; and the five expected violations, which are
counterexamples. What a recursive definition computes for every input would be
outside too (the library's induction theorems take an operator as a parameter); no
module declares a RECURSIVE operator.

## Where the code and its comments disagree

Found by runs (PROJECT.json, `findings`):

1. `retryIssue` looks for "the first generation whose task is still live", but the
   idempotent body includes the labels, so adding `status:retry` makes the live
   generation answer 409 and a second one is queued.
2. A withdrawn task's issue "is handed to a person"; after one failed label call
   nothing ever does it.
3. A finished runbook instance must not come back to life; an apply at work saves
   its own copy over a cancel.
4. "Without it, start daemonizes": the parent writes the pid of its child before the
   child looks, and the child takes itself for a running server (`mcp/lifecycle.go:138-147`,
   `:185`).
5. "The captured description is never lost": the issue is filed from a row without it,
   and the next sync writes the issue's body over it (`cli/task.go:378`).

Seen while modelling, not the subject of a run:

- A closed leftover PR "must not shadow" the open one; with the lagging search the
  same comments describe, it does and the task is dropped (`ClosedLeftoverDropsNothing`
  with `LaggingSearch = TRUE`).
- Two reconcilers can apply one verdict to two rounds: the second listing is of the
  round the first one ended.
- `provenance.go:52-53` says drift voids the commit for good, but a second apply that
  loaded the print earlier writes it back; `audit.go:13` promises a row per step, but
  `recheckEdition` returns before the audit (`engine.go:285`).
- `notion.go:139-140` says the durable intent is reconciled by the next run; nothing
  reads `PendingContentJson` back (`knowledge/reconcile.go:386`). Two consequences: an
  interrupted delivery can come back as a false conflict, and a kill between the page
  and the binding of an import, followed by a person's revert on Notion, is taken for a
  local edit and written over the revert (the state is reached with three disturbances
  and is why `LocalEditsSurvive` and `RemoteEditsSurvive` speak of Notion's values and
  of the base).
- `docs/notion-bridge.md` says body updates are guarded by the old text; a body that was
  empty is replaced unguarded. `RemoteEditsSurvive` names that window.
- A page that was promoted and then retitled is answered 409 by every later run whose
  machine has no print of it.
- A squash-merged name is proof forever: commits made on a branch after its PR merged
  are deleted with `-D` (`git/sweep.go:221`). `LocalProofsHold` says it is the only way.
- When a deletion fails, the tips already deleted are not reported
  (`git_sweep.go:150` against the comment at 222).
- The worktree lock carries the pid of the `lw` that creates it and nobody calls
  Release, so it protects only while create runs (`lock.go:98`).
- A Put whose reply is lost leaves a rotated key without a row (`rotate.go:241`).
- A tag whose push failed stays in the clone, and the next run refuses it
  (`release_tag.go:400`).
- "Conflicts keep the old base so re-sync after resolution still three-ways correctly"
  (`uisync/sync.go:119`): the resolved file is a conflict with the same text again, at
  every sync (`ResolvedSyncSettles` in UiSync, which TLC refutes).
- "A reader never sees a partial write" (`memory.go:42`): two puts of one key share the
  temporary file (`ReadsAreWhole` in MemoryStore, which TLC refutes).
- Two overlapping starts of v_core, or of the MCP listener, leave a process that no
  record names; two overlapping sprint starts leave two active sprints; two picks choose
  one issue, since a pick claims nothing; two `task new` take one number.
- `confirmMCPDestruct` returns no error on "no", so its caller goes on.

## What the models leave out

- Issue loop: heads pushed in the same instant as the arming call (GitHub's own
  check of the head decides), starvation by `--limit` in reconcile (the order is
  gh's), ages and grace periods as numbers.
- Runbook: several instances, evidence files, templates, the catalog.
- Rotation: provider modes other than generate.
- Knowledge: migration, pagination, parsing of blocks, several pages of one sync
  (they share nothing but the lock), dry run.
- Worktrees: stashes, detached heads, a main checkout elsewhere than on main.
- Git audit: per-branch advice and the printing of the report.
- Planning store: listings, statistics, and edits of a single column: one statement each.
- MCP server: tool schemas and what the reading tools print.
- Home maintenance: the advice of `plan`; ceremony files, which one command writes whole.
- *Not modelled*: scheduled jobs (what is loaded and unloaded is a set difference of one
  read, launchd keeps the state); generators (functions from schema files to text, no
  state); vendor front ends (one call of a tool per command, nothing kept between
  commands but appended event lines); test helpers.

## Plan

Done: the models of all the components above, the refinement of TaskReview, and
proofs of every safety property that a run checks. What would come next:

1. Models: promote and reconcile over one queue (an issue of TaskReview per
   generation); the worktree removal of `lw task done` (`task/done.go:169-180`) as a
   third way out in Worktrees; the reconciliation of scheduled jobs as an operator checked against a reference
   definition.
2. The large commands of `internal/cli` that only compute a report or render a file in
   one go (`audit.go`, `sst.go`, `council.go`, `spec.go`), should they begin to keep state
   from one call to the next.
3. A weaker promise than TaskReview that two reconcilers keep as well: a verdict may
   be applied to the round after its own, but none twice to the same.
4. Should the code begin to keep commands apart where it does not today (an instance
   lock in `internal/runbook`, a lock on the key file in `internal/memory`), the
   exceptions in the properties and the hypotheses of the theorems go with it.
