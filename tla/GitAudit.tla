------------------------------ MODULE GitAudit ------------------------------
(***************************************************************************)
(* `lw git audit [--fix --apply] [--remote]` over one repo: what it finds  *)
(* about linked worktrees, hooks and branch protection, and what its fixes *)
(* do, while sessions add and remove worktrees between any two of its      *)
(* calls.                                                                  *)
(***************************************************************************)
EXTENDS Naturals, FiniteSets

CONSTANTS
    Canonical,     \* places under ~/.worktrees/{repo}
    Legacy,        \* places under {repo}/.worktrees; their paths sort after the repo's
    Undeclared,    \* places under a root no policy names
    Main,          \* the main checkout
    Expected,      \* required checks of the branch-protection stamp
    MaxFaults      \* git calls and hook installers that fail

\* Assumed of the constants; the module that composes this one states it.
BoundsAssumption ==
    MaxFaults \in Nat /\ Main \notin Canonical \cup Legacy \cup Undeclared

Places == Canonical \cup Legacy \cup Undeclared
Checkouts == Places \cup {Main}

VARIABLES
    dir,           \* per place: nothing, an empty directory, or a tree
    registered,    \* linked worktrees git knows
    unfit,         \* trees without .lw-worktree.yaml or older than 72 hours
    hooked,        \* checkouts with every required hook
    audit,         \* the audit at work
    report,        \* the report just written: its violations and the protection status
    faults,
    quiet          \* history: nobody else did anything since the audit began

vars == <<dir, registered, unfit, hooked, audit, report, faults, quiet>>

Codes == {"hooks_drift", "missing_marker_or_expired", "legacy_worktree_root",
          "undeclared_worktree_root", "prunable_registry_entry", "orphan_gitdir"}
Violations == Codes \X Checkouts
Statuses == {"unread", "match", "drift", "gap", "unverified"}

TypeOK ==
    /\ dir \in [Places -> {"absent", "empty", "tree"}]
    /\ registered \subseteq Places /\ unfit \subseteq Places
    /\ hooked \subseteq Checkouts
    /\ audit \in [pc : {"idle", "list", "inspect", "repo", "remote", "prune", "sweep", "hooks", "write"},
                 apply : BOOLEAN, listed : SUBSET Places, todo : SUBSET Checkouts, nodes : SUBSET Checkouts,
                 found : SUBSET Violations, protection : Statuses]
    /\ report \in [found : SUBSET Violations, protection : Statuses]
    /\ faults \in 0 .. MaxFaults /\ quiet \in BOOLEAN

NoReport == [found |-> {}, protection |-> "unread"]
Idle == [pc |-> "idle", apply |-> FALSE, listed |-> {}, todo |-> {},
         nodes |-> {}, found |-> {}, protection |-> "unread"]

Init ==
    /\ dir = [p \in Places |-> "absent"] /\ registered = {} /\ unfit = {}
    /\ hooked \in {{}, {Main}}
    /\ audit = Idle /\ report = NoReport
    /\ faults = 0 /\ quiet = FALSE

-----------------------------------------------------------------------------
Fail == faults < MaxFaults /\ faults' = faults + 1
Fine == UNCHANGED faults
tree == <<dir, registered, unfit>>
Go(pc) == audit' = [audit EXCEPT !.pc = pc]
Silent == UNCHANGED <<report, quiet>>

Start(apply) ==
    /\ audit.pc = "idle" /\ Fine
    /\ audit' = [Idle EXCEPT !.pc = "list", !.apply = apply]
    /\ quiet' = TRUE /\ UNCHANGED <<tree, hooked>>
    /\ report' = NoReport

\* An entry whose .git file is gone.
Prunable == {p \in registered : dir[p] # "tree"}

\* git worktree list --porcelain: the registry, and which entries are prunable.
List ==
    /\ audit.pc = "list" /\ Silent /\ Fine /\ UNCHANGED <<tree, hooked>>
    /\ audit' = [audit EXCEPT !.pc = "inspect", !.listed = registered, !.todo = registered \cup {Main},
                              !.found = {"prunable_registry_entry"} \X Prunable]

\* listInstalledHooks: a required hook is missing where the checkout's
\* configuration says its hooks are.
HooksDrift(p) == p \notin hooked

\* inspectGitCheckout and worktreePolicyViolations; a supplemental tree has
\* no violation by its root, and a canonical one none of its own.
ViolationsOf(p) ==
    {<<code, p>> : code \in
        (IF HooksDrift(p) THEN {"hooks_drift"} ELSE {})
        \cup (IF p \in Legacy THEN {"legacy_worktree_root"} ELSE {})
        \cup (IF p \in Undeclared THEN {"undeclared_worktree_root"} ELSE {})
        \cup (IF p \in unfit THEN {"missing_marker_or_expired"} ELSE {})}

\* A worktree without a directory, or one git fails on, is passed over.
Inspect ==
    /\ audit.pc = "inspect" /\ Silent /\ UNCHANGED <<tree, hooked>>
    /\ IF audit.todo = {} THEN Go("repo") /\ Fine
       ELSE \E p \in audit.todo :
           IF p = Main \/ (p \in Places /\ dir[p] = "tree")
           THEN /\ audit' = [audit EXCEPT !.todo = @ \ {p}, !.nodes = @ \cup {p}, !.found = @ \cup ViolationsOf(p)]
                /\ Fine
           ELSE audit' = [audit EXCEPT !.todo = @ \ {p}] /\ Fine

\* worktreeScanRoots: the roots of this repo; whoever is there and was not
\* listed is an orphan.
OrphansAgainst(listed) == {p \in Canonical \cup Legacy : dir[p] # "absent"} \ listed

\* Mutant: orphans are looked for under the canonical root only.
RepoLevelCanonical ==
    /\ audit.pc = "repo" /\ Silent /\ Fine /\ UNCHANGED <<tree, hooked>>
    /\ audit' = [audit EXCEPT !.pc = "remote",
                     !.found = @ \cup ({"orphan_gitdir"} \X (OrphansAgainst(audit.listed) \cap Canonical))]

RepoLevel ==
    /\ audit.pc = "repo" /\ Silent /\ Fine /\ UNCHANGED <<tree, hooked>>
    /\ audit' = [audit EXCEPT !.pc = "remote", !.found = @ \cup ({"orphan_gitdir"} \X OrphansAgainst(audit.listed))]

\* With --remote, whatever GitHub requires of main by now: compareRequiredChecks;
\* a 404 is no checks, any other error is no verdict.
ProtectionOf(actual) ==
    IF Expected = {} /\ actual = {} THEN "gap" ELSE IF actual = Expected THEN "match" ELSE "drift"

RemoteProtection ==
    /\ audit.pc = "remote" /\ Silent /\ UNCHANGED <<tree, hooked>>
    /\ LET next == IF audit.apply THEN "prune" ELSE "write"
       IN \/ /\ \E status \in {"unread"} \cup {ProtectionOf(live) : live \in SUBSET Expected} :
                    audit' = [audit EXCEPT !.pc = next, !.protection = status]
             /\ Fine
          \/ audit' = [audit EXCEPT !.pc = next, !.protection = "unverified"] /\ Fail

-----------------------------------------------------------------------------
(* applyGitFixes: whatever fails is passed over                            *)

Prune ==
    /\ audit.pc = "prune" /\ Go("sweep") /\ Silent /\ UNCHANGED <<dir, unfit, hooked>>
    /\ \/ registered' = registered \ Prunable /\ Fine
       \/ UNCHANGED registered /\ Fail

\* commonDirs keeps the last path of each repo: when a worktree sorts after
\* the main checkout, the root it derives from that one is not the repo's.
RootIsTheRepos == audit.nodes \cap Legacy = {}

\* Of the empty directories the scan saw, os.Remove takes those still empty.
RemoveEmpty ==
    /\ audit.pc = "sweep" /\ Go("hooks") /\ Silent /\ UNCHANGED <<registered, unfit, hooked>>
    /\ LET empty == {p \in Canonical : RootIsTheRepos /\ dir[p] = "empty"}
       IN \/ dir' = [p \in Places |-> IF p \in empty THEN "absent" ELSE dir[p]] /\ Fine
          \/ UNCHANGED dir /\ Fail

ReinstallHooks ==
    /\ audit.pc = "hooks" /\ Go("write") /\ Silent /\ UNCHANGED tree
    /\ LET drifted == {p \in audit.nodes : <<"hooks_drift", p>> \in audit.found}
       IN \/ hooked' = hooked \cup {p \in drifted : p = Main \/ (p \in Places /\ dir[p] = "tree")} /\ Fine
          \/ UNCHANGED hooked /\ Fail

\* What is written is what was found, before the fixes.
WriteReport ==
    /\ audit.pc = "write" /\ audit' = Idle /\ quiet' = FALSE /\ UNCHANGED <<tree, hooked>>
    /\ \/ report' = [found |-> audit.found, protection |-> audit.protection] /\ Fine
       \/ UNCHANGED report /\ Fail

-----------------------------------------------------------------------------
(* Sessions                                                                *)

Other == quiet' = FALSE /\ report' = NoReport /\ UNCHANGED <<audit, faults>>
Mkdir(p) == dir[p] = "absent" /\ dir' = [dir EXCEPT ![p] = "empty"] /\ Other
            /\ UNCHANGED <<registered, unfit, hooked>>
AddWorktree(p) ==
    /\ dir[p] = "empty" /\ p \notin registered /\ Other
    /\ dir' = [dir EXCEPT ![p] = "tree"] /\ registered' = registered \cup {p}
    /\ unfit' \in {unfit \cup {p}, unfit \ {p}}
    /\ hooked' \in {hooked \cup {p}, hooked \ {p}}
Vanish(p) == dir[p] # "absent" /\ dir' = [dir EXCEPT ![p] = "absent"] /\ Other
             /\ UNCHANGED <<registered, unfit, hooked>>
Age(p) == dir[p] = "tree" /\ p \notin unfit /\ unfit' = unfit \cup {p} /\ Other
          /\ UNCHANGED <<dir, registered, hooked>>

Next ==
    \/ \E apply \in BOOLEAN : Start(apply)
    \/ List \/ Inspect \/ RepoLevel \/ RemoteProtection \/ Prune \/ RemoveEmpty \/ ReinstallHooks \/ WriteReport
    \/ \E p \in Places : Mkdir(p) \/ AddWorktree(p) \/ Vanish(p) \/ Age(p)
Spec == Init /\ [][Next]_vars

-----------------------------------------------------------------------------
(* Properties                                                              *)

\* What a check of the whole repo would find now.
Whole == {Main} \cup {q \in registered : dir[q] = "tree"}
Actual ==
    (UNION {ViolationsOf(p) : p \in Whole})
    \cup ({"prunable_registry_entry"} \X Prunable)
    \cup ({"orphan_gitdir"} \X OrphansAgainst(registered))

\* When nobody else was at work and no call failed, the report written is
\* exactly what holds, and after a fix was applied no prunable entry and no
\* hook drift is left in what it inspected, nor an empty orphan - except when
\* a worktree whose path sorts after the main checkout misleads the sweep.
AuditTellsAndSettles ==
    audit.pc = "write" /\ audit'.pc = "idle" /\ quiet /\ faults = 0 /\ faults' = 0 =>
        IF ~audit.apply THEN report'.found = Actual
        ELSE /\ Prunable = {} /\ audit.nodes \subseteq hooked
             /\ RootIsTheRepos => \A p \in Canonical : dir[p] # "empty"

-----------------------------------------------------------------------------
(* The strengthening: what an audit nobody disturbed knows at each step.   *)

NodesAre(S) == audit.nodes = S /\ audit.found = ({"prunable_registry_entry"} \X Prunable)
                                               \cup UNION {ViolationsOf(p) : p \in S}

\* While it looks, it has found what holds of what it looked at.
SeesWhatHolds ==
    /\ audit.pc = "list" => audit.nodes = {} /\ audit.found = {} /\ audit.todo = {}
    /\ audit.pc \in {"inspect", "repo"} =>
           audit.listed = registered /\ audit.todo \subseteq registered \cup {Main} /\ NodesAre(Whole \ audit.todo)
    /\ audit.pc = "repo" => audit.todo = {}
    /\ audit.pc = "remote" \/ (audit.pc = "write" /\ ~audit.apply) => audit.nodes = Whole /\ audit.found = Actual

\* While it fixes, what it looked at stays there, and what it fixed stays fixed.
Fixing == audit.pc \in {"prune", "sweep", "hooks"} \/ (audit.pc = "write" /\ audit.apply)
FixesHold ==
    /\ audit.pc \in {"prune", "sweep", "hooks"} => audit.apply
    /\ Fixing => /\ \A p \in audit.nodes : p = Main \/ (p \in Places /\ dir[p] = "tree")
                 /\ \A p \in audit.nodes : p \notin hooked => <<"hooks_drift", p>> \in audit.found
    /\ Fixing /\ audit.pc # "prune" => Prunable = {}
    /\ Fixing /\ audit.pc \in {"hooks", "write"} /\ RootIsTheRepos => \A p \in Canonical : dir[p] # "empty"
    /\ Fixing /\ audit.pc = "write" => audit.nodes \subseteq hooked

IInv == TypeOK /\ (quiet /\ faults = 0 => SeesWhatHolds /\ FixesHold)
=============================================================================
