-------------------------- MODULE ReleasePropagate --------------------------
(***************************************************************************)
(* `lw release propagate`: bring every worktree of a repo onto a released  *)
(* commit of main and run its CI there, while the sessions that own the    *)
(* worktrees go on editing and committing and main goes on growing.        *)
(***************************************************************************)
EXTENDS Naturals

CONSTANTS
    Worktrees,
    MaxMain,     \* commits of main
    MaxOwn,      \* commits a session makes
    MaxFaults

\* Assumed of the constants; the module that composes this one states it.
BoundsAssumption == MaxMain \in Nat \ {0} /\ MaxOwn \in Nat /\ MaxFaults \in Nat

VARIABLES
    main,        \* origin/main: the number of its newest commit
    tracked,     \* the clone's refs/remotes/origin/main
    tree,        \* per worktree: the commit of main it is based on, the commits
                 \* on top of it, and whether there are uncommitted changes
    run,         \* the propagation: its candidate, where it is, what it read
    result,      \* per worktree: "none", "blocked", "preview" or "green"
    interrupted, \* sessions that got an interrupt
    report,      \* the report written last
    faults

vars == <<main, tracked, tree, run, result, interrupted, report, faults>>

\* 0 is a candidate that is no commit of main; MaxMain + 1 stands for none given.
Latest == MaxMain + 1
Candidates == 0 .. Latest
Head(t) == <<t.base, t.own>>

Resting == [pc |-> "idle", todo |-> {}, at |-> CHOOSE w \in Worktrees : TRUE, apply |-> FALSE,
            candidate |-> 0, target |-> 0, tested |-> <<0, 0>>, ranOn |-> <<0, 0>>]

TypeOK ==
    /\ main \in 1 .. MaxMain /\ tracked \in 1 .. MaxMain
    /\ tree \in [Worktrees -> [base : 1 .. MaxMain, own : 0 .. MaxOwn, dirty : BOOLEAN]]
    /\ run \in
           [pc : {"idle", "next", "status", "fetch", "resolve", "rebase", "base", "head", "ci", "after", "report"},
            todo : SUBSET Worktrees, at : Worktrees \cup {Resting.at}, apply : BOOLEAN, candidate : Candidates,
            target : 0 .. MaxMain, tested : (0 .. MaxMain) \X (0 .. MaxOwn),
            ranOn : (0 .. MaxMain) \X (0 .. MaxOwn)]
    /\ result \in [Worktrees -> {"none", "blocked", "preview", "green"}]
    /\ interrupted \subseteq Worktrees /\ report \in {"none", "completed", "failed"}
    /\ faults \in 0 .. MaxFaults

Init ==
    /\ main = 1 /\ tracked = 1
    /\ tree = [w \in Worktrees |-> [base |-> 1, own |-> 0, dirty |-> FALSE]]
    /\ run = Resting
    /\ result = [w \in Worktrees |-> "none"]
    /\ interrupted = {} /\ report = "none" /\ faults = 0

-----------------------------------------------------------------------------
W == run.at
Go(pc) == run' = [run EXCEPT !.pc = pc]
Fail == faults < MaxFaults /\ faults' = faults + 1
Fine == UNCHANGED faults
clone == <<main, tracked, tree>>
records == <<interrupted, report>>

\* A blocked worktree's session is told, if it has one and this is no preview.
Blocked ==
    /\ Go("next") /\ result' = [result EXCEPT ![W] = "blocked"]
    /\ interrupted' \in (IF run.apply THEN {interrupted, interrupted \cup {W}} ELSE {interrupted})
    /\ UNCHANGED report

Continue(pc) == Go(pc) /\ UNCHANGED <<result, records>>

\* The flag autonomous_release_session_propagate, the shape of --main-sha and
\* the audit of the worktrees come first; any of them ends the command.
Start(apply, candidate) ==
    /\ run.pc = "idle"
    /\ run' = [Resting EXCEPT !.pc = "next", !.todo = Worktrees, !.apply = apply, !.candidate = candidate]
    /\ result' = [w \in Worktrees |-> "none"]
    /\ UNCHANGED <<clone, records>> /\ Fine

NextWorktree ==
    /\ run.pc = "next" /\ UNCHANGED <<clone, result, records>> /\ Fine
    /\ IF run.todo = {} THEN Go("report")
       ELSE \E w \in run.todo : run' = [run EXCEPT !.pc = "status", !.at = w, !.todo = @ \ {w}]

\* A dirty worktree is never rebased; a preview ends after this check.
Status ==
    /\ run.pc = "status" /\ UNCHANGED clone
    /\ \/ tree[W].dirty /\ Blocked /\ Fine
       \/ Blocked /\ Fail
       \/ /\ ~tree[W].dirty /\ Fine
          /\ IF run.apply THEN Continue("fetch")
             ELSE Go("next") /\ result' = [result EXCEPT ![W] = "preview"] /\ UNCHANGED records

Fetch ==
    /\ run.pc = "fetch" /\ UNCHANGED <<main, tree>>
    /\ \/ tracked' = main /\ Continue("resolve") /\ Fine
       \/ Blocked /\ Fail /\ UNCHANGED tracked

\* The candidate must be on the main that was fetched, and the worktree must
\* not be based on a newer one.
Resolve ==
    /\ run.pc = "resolve" /\ UNCHANGED clone /\ Fine
    /\ LET target == IF run.candidate = Latest THEN tracked ELSE run.candidate
       IN IF target = 0 \/ target > tracked \/ target < tree[W].base THEN Blocked
          ELSE /\ run' = [run EXCEPT !.target = target, !.pc = IF tree[W].base = target THEN "base" ELSE "rebase"]
               /\ UNCHANGED <<result, records>>

\* git refuses a dirty tree, and a conflict is aborted.
Rebase ==
    /\ run.pc = "rebase" /\ UNCHANGED <<main, tracked>>
    /\ \/ /\ ~tree[W].dirty
          /\ tree' = [tree EXCEPT ![W].base = IF @ < run.target THEN run.target ELSE @]
          /\ Continue("base") /\ Fine
       \/ tree[W].dirty /\ Blocked /\ Fine /\ UNCHANGED tree
       \/ ~tree[W].dirty /\ tree[W].own > 0 /\ Blocked /\ Fine /\ UNCHANGED tree

CheckBase ==
    /\ run.pc = "base" /\ UNCHANGED clone
    /\ \/ tree[W].base = run.target /\ Continue("head") /\ Fine
       \/ tree[W].base # run.target /\ Blocked /\ Fine
       \/ Blocked /\ Fail

ReadHead ==
    /\ run.pc = "head" /\ UNCHANGED clone
    /\ \/ run' = [run EXCEPT !.pc = "ci", !.tested = Head(tree[W])] /\ UNCHANGED <<result, records>> /\ Fine
       \/ Blocked /\ Fail

\* CI reads the files at some moment of its run.
RunCI ==
    /\ run.pc = "ci" /\ UNCHANGED clone
    /\ \/ run' = [run EXCEPT !.pc = "after", !.ranOn = Head(tree[W])] /\ UNCHANGED <<result, records>> /\ Fine
       \/ Blocked /\ Fine

\* Mutant: only the status is looked at after CI.
CheckStatusAfter ==
    /\ run.pc = "after" /\ UNCHANGED clone
    /\ IF tree[W].dirty THEN Blocked
       ELSE Go("next") /\ result' = [result EXCEPT ![W] = "green"] /\ UNCHANGED records
    /\ Fine

\* The head CI ran on is still the head, and nothing is uncommitted.
CheckAfter ==
    /\ run.pc = "after" /\ UNCHANGED clone
    /\ \/ /\ Head(tree[W]) = run.tested /\ ~tree[W].dirty /\ Fine
          /\ Go("next") /\ result' = [result EXCEPT ![W] = "green"] /\ UNCHANGED records
       \/ (Head(tree[W]) # run.tested \/ tree[W].dirty) /\ Blocked /\ Fine
       \/ Blocked /\ Fail

\* The requested path, a time-stamped one and the latest one; a requested
\* path that is taken ends the command before the others are written.
WriteReport ==
    /\ run.pc = "report" /\ Go("idle") /\ UNCHANGED <<clone, result, interrupted>>
    /\ \/ /\ report' = IF ~run.apply THEN report
                       ELSE IF \E w \in Worktrees : result[w] = "blocked" THEN "failed" ELSE "completed"
          /\ Fine
       \/ UNCHANGED report /\ Fail

-----------------------------------------------------------------------------
\* Sessions and main.
Edit(w) ==
    /\ ~tree[w].dirty /\ tree' = [tree EXCEPT ![w].dirty = TRUE]
    /\ UNCHANGED <<main, tracked, run, result, records>> /\ Fine
Discard(w) ==
    /\ tree[w].dirty /\ tree' = [tree EXCEPT ![w].dirty = FALSE]
    /\ UNCHANGED <<main, tracked, run, result, records>> /\ Fine
Commit(w) ==
    /\ tree[w].dirty /\ tree[w].own < MaxOwn
    /\ tree' = [tree EXCEPT ![w].dirty = FALSE, ![w].own = @ + 1]
    /\ UNCHANGED <<main, tracked, run, result, records>> /\ Fine
SessionRebases(w) ==
    /\ ~tree[w].dirty /\ tree[w].base < tracked /\ tree' = [tree EXCEPT ![w].base = tracked]
    /\ UNCHANGED <<main, tracked, run, result, records>> /\ Fine
MainGrows ==
    /\ main < MaxMain /\ main' = main + 1
    /\ UNCHANGED <<tracked, tree, run, result, records>> /\ Fine

Next ==
    \/ \E apply \in BOOLEAN, candidate \in Candidates : Start(apply, candidate)
    \/ NextWorktree \/ Status \/ Fetch \/ Resolve \/ Rebase \/ CheckBase \/ ReadHead \/ RunCI
    \/ CheckAfter \/ WriteReport
    \/ \E w \in Worktrees : Edit(w) \/ Discard(w) \/ Commit(w) \/ SessionRebases(w)
    \/ MainGrows
Spec == Init /\ [][Next]_vars

-----------------------------------------------------------------------------
(* Property                                                                *)

\* A worktree is reported green in a step at which it has no uncommitted
\* change, its head is the one CI ran on, and that head contains the
\* candidate the run was asked for, whatever the session did meanwhile
\* ("source changed during CI; propagation proof invalid").
GreenIsOfTheHead ==
    \A w \in Worktrees : result[w] # "green" /\ result'[w] = "green" =>
        /\ ~tree[w].dirty /\ Head(tree[w]) = run.ranOn
        /\ run.target \in 1 .. tree[w].base

\* Why: from the check of the base on, the worktree contains the target; and
\* its head, read once before CI and once after, only ever grows, so that two
\* equal readings leave CI no other head to run on.
AtAWorktree == run.pc \notin {"idle", "next", "report"} => run.at \in Worktrees
TargetIsOnMain == run.pc \in {"rebase", "base", "head", "ci", "after"} => run.target > 0
ContainsTarget == run.pc \in {"head", "ci", "after"} => run.target <= tree[W].base
HeadsGrow ==
    /\ run.pc \in {"ci", "after"} => run.tested[1] <= tree[W].base /\ run.tested[2] <= tree[W].own
    /\ run.pc = "after" => /\ run.tested[1] <= run.ranOn[1] /\ run.ranOn[1] <= tree[W].base
                           /\ run.tested[2] <= run.ranOn[2] /\ run.ranOn[2] <= tree[W].own
IInv == TypeOK /\ AtAWorktree /\ TargetIsOnMain /\ ContainsTarget /\ HeadsGrow
=============================================================================
