--------------------------- MODULE RunbookEngine ---------------------------
(***************************************************************************)
(* internal/runbook: one runbook instance, its print on disk, and the `lw  *)
(* runbook` commands that load it, work on their copy and save it back.    *)
(* Every command is a process of its own.  Beside them the worktree and    *)
(* the lightwave-core checkout change, and a step may change either.       *)
(***************************************************************************)
EXTENDS Naturals, FiniteSets

CONSTANTS
    Steps,       \* the steps of the edition are 1 .. Steps
    Step,        \* each step: [runs, highBlast, dryAware : BOOLEAN, reads : set of steps]
    Commands,    \* the command processes that may be alive at one time
    MaxChanges,  \* bound on changes of the worktree and of lightwave-core
    MaxFaults,   \* bound on kills and failed writes
    MaxRuns      \* bound on the counting of one step's runs

StepIds == 1 .. Steps

\* Assumed of the constants; the module that composes this one states it.
RunbookAssumption ==
    /\ Steps \in Nat /\ MaxChanges \in Nat /\ MaxFaults \in Nat /\ MaxRuns \in Nat \ {0}
    /\ Step \in [StepIds -> [runs : BOOLEAN, highBlast : BOOLEAN, dryAware : BOOLEAN,
                             reads : SUBSET StepIds]]

VARIABLES
    print,    \* instance.yaml
    tree,     \* the worktree: a clean commit, modified, or switched to main
    core,     \* lightwave-core: what the runbook and its revision look like
    changes,  \* how often tree and core changed
    cmd,      \* the command processes, each with its copy of the print
    faults,   \* kills and failed writes so far
    seen      \* history: what was done, for the properties

runbookVars == <<print, tree, core, changes, cmd, faults, seen>>

Commits == {"c1", "c2"}
Trees == Commits \cup {"modified", "main"}

\* pinned, moved, edited: clean at three revisions, the last with other step
\* bytes; unclean: the bytes of pinned, not committed; gone: no such edition.
Cores == {"pinned", "moved", "edited", "unclean", "gone"}

\* cleanCommit: HEAD of a clean checkout, "" of a modified one.
CleanCommit(checkout) ==
    IF checkout \in {"modified", "unclean", "gone"} THEN "" ELSE checkout

\* editionFingerprint: the bytes the edition is made of.
Fingerprint(c) == IF c \in {"pinned", "moved", "unclean"} THEN "bytes" ELSE c

NoPrint == [status |-> "none"]
Undone == [status |-> "pending", signed |-> FALSE]

\* started is the pointer ExecutionStarted: a print of an older lw has none.
Prints == [status : {"pending", "running", "waiting_approval", "completed", "failed", "cancelled"},
           steps : [StepIds -> [status : {"pending", "completed", "skipped", "failed", "waiting_approval"},
                                signed : BOOLEAN]],
           dryRun : BOOLEAN, started : {"absent", "no", "yes"}, commit : Trees \cup {""},
           hash : {"bytes", "edited"}, editionCommit : Cores \cup {""}]

Finished(inst) == inst.status \in {"completed", "failed", "cancelled"}
StepOver(inst, s) == inst.steps[s].status \in {"completed", "skipped"}

\* The loop takes the steps in order and passes over those that are done.
Current(inst) == CHOOSE s \in StepIds : /\ ~StepOver(inst, s)
                                        /\ \A t \in 1 .. s - 1 : StepOver(inst, t)
AllOver(inst) == \A s \in StepIds : StepOver(inst, s)

\* verifyEdition, and the loading of index and edition before it.
EditionHolds(inst) ==
    /\ core # "gone"
    /\ Fingerprint(core) = inst.hash
    /\ inst.editionCommit # "" => CleanCommit(core) = inst.editionCommit

Drifted(inst) == inst.commit # "" /\ inst.commit # CleanCommit(tree)

\* completedOutputs: what the steps of earlier applies wrote.
CompletedOutputsForgotten(inst) == {}    \* mutant
CompletedOutputs(inst) == {s \in StepIds : Step[s].runs /\ inst.steps[s].status = "completed"}

\* A step that reads the output of one that left none is not rendered.
Renders(s, outputs) == Step[s].reads \subseteq outputs

\* The step does its work for real; else it is prose, skipped or refused.
Executes(inst, s, outputs) ==
    /\ Step[s].runs
    /\ Renders(s, outputs)
    /\ inst.dryRun => Step[s].dryAware

\* run, runScript, runInline, renderTemplate: what a step may come back with.
Outcomes(inst, s, outputs) ==
    IF ~Step[s].runs THEN {"ok"}
    ELSE IF Executes(inst, s, outputs) THEN {"ok", "fail"}
    ELSE IF inst.dryRun THEN {"skipped"} ELSE {"fail"}

\* The files a command works with are its own copy of the print and, in an
\* apply, the outputs gathered so far and the outcome of the step at hand.
Idle == [pc |-> "idle", inst |-> NoPrint, outputs |-> {}, outcome |-> "ok"]

At(p, pc) == cmd[p].pc = pc
Goto(p, pc) == [cmd[p] EXCEPT !.pc = pc]
Turn(p, next) == cmd' = [cmd EXCEPT ![p] = next]

Failed(inst) == [inst EXCEPT !.status = "failed", !.commit = ""]
WithStep(inst, s, status) == [inst EXCEPT !.steps[s].status = status]

\* Save: a new file renamed over the print, then the directory is synced.  It
\* may fail before the rename and, the print in place, after it.
Save(p, inst, next) ==
    \/ print' = inst /\ Turn(p, next) /\ UNCHANGED faults
    \/ /\ faults < MaxFaults /\ faults' = faults + 1
       /\ print' \in {print, inst}
       /\ Turn(p, Idle)

-----------------------------------------------------------------------------
(* Start; the other commands load the print first.                         *)

StartPrint(dry) ==
    [status |-> "pending", steps |-> [s \in StepIds |-> Undone], dryRun |-> dry, started |-> "no",
     commit |-> "", hash |-> Fingerprint(core), editionCommit |-> CleanCommit(core)]

Start(dry) ==
    /\ print = NoPrint
    /\ tree # "main" /\ core # "gone"
    /\ print' = StartPrint(dry)
    /\ UNCHANGED <<tree, core, changes, cmd, faults, seen>>

\* Every command reads the print before it does anything; an apply is refused
\* on main before that.
Load(p, what) ==
    /\ At(p, "idle") /\ print # NoPrint
    /\ what = "apply" => tree # "main"
    /\ Turn(p, [Idle EXCEPT !.pc = what, !.inst = print])
    /\ UNCHANGED <<print, tree, core, changes, faults, seen>>

-----------------------------------------------------------------------------
(* Apply                                                                   *)

\* Mutant: nobody compares the worktree with the recorded commit.
InvalidateProvenanceNever(p, next) == Turn(p, next) /\ UNCHANGED <<print, faults>>

\* invalidateProvenance: drift from the recorded commit voids it for good.
InvalidateProvenance(p, next) ==
    LET void == [cmd[p].inst EXCEPT !.commit = ""]
    IN  IF Drifted(cmd[p].inst)
        THEN Save(p, void, [next EXCEPT !.inst = void])
        ELSE Turn(p, next) /\ UNCHANGED <<print, faults>>

\* History: a command saw the drift, and its Save went through.
ObserveDrift(p) == seen.drift \/ (Drifted(cmd[p].inst) /\ print'.commit = "")

ApplyObserve(p) ==
    /\ At(p, "apply")
    /\ InvalidateProvenance(p, Goto(p, "open"))
    /\ seen' = [seen EXCEPT !.drift = ObserveDrift(p)]
    /\ UNCHANGED <<tree, core, changes>>

ApplyOpen(p) ==
    /\ At(p, "open")
    /\ LET inst == cmd[p].inst
       IN  \/ Finished(inst) /\ Turn(p, Idle) /\ UNCHANGED <<print, faults>>
           \/ /\ ~Finished(inst) /\ ~EditionHolds(inst)
              /\ Save(p, Failed(inst), Idle)
           \/ /\ ~Finished(inst) /\ EditionHolds(inst)
              /\ Turn(p, [pc |-> "next", inst |-> [inst EXCEPT !.status = "running"],
                          outputs |-> CompletedOutputs(inst), outcome |-> "ok"])
              /\ UNCHANGED <<print, faults>>
    /\ UNCHANGED <<tree, core, changes, seen>>

AwaitsSignoffNever(inst, s) == FALSE                                   \* mutant
AwaitsSignoff(inst, s) == Step[s].highBlast /\ ~inst.steps[s].signed

\* Mutant: the pause keeps only the mark of the step it stops at.
PausedWithoutProgress(inst, s) ==
    [inst EXCEPT !.status = "waiting_approval",
                 !.steps = [print.steps EXCEPT ![s].status = "waiting_approval"]]

Paused(inst, s) == [WithStep(inst, s, "waiting_approval") EXCEPT !.status = "waiting_approval"]

Pause(p) ==
    /\ At(p, "next") /\ ~AllOver(cmd[p].inst)
    /\ AwaitsSignoff(cmd[p].inst, Current(cmd[p].inst))
    /\ Save(p, Paused(cmd[p].inst, Current(cmd[p].inst)), Idle)
    /\ UNCHANGED <<tree, core, changes, seen>>

\* Mutant: every apply records the commit it finds.
BegunAnew(inst) ==
    IF inst.dryRun \/ inst.started = "absent" THEN inst
    ELSE [inst EXCEPT !.started = "yes",
                      !.commit = IF inst.editionCommit # "" THEN CleanCommit(tree) ELSE @]

\* The print as the first execution marks it: the commit is recorded only
\* there, and only under a pinned clean edition.
Begun(inst) ==
    IF inst.dryRun \/ inst.started # "no" THEN inst
    ELSE [inst EXCEPT !.started = "yes",
                      !.commit = IF inst.editionCommit # "" THEN CleanCommit(tree) ELSE @]

\* One run of a step begins: recheckEdition, beginExecution, run.
RunStep(p) ==
    /\ At(p, "next") /\ ~AllOver(cmd[p].inst)
    /\ LET inst == cmd[p].inst
           s == Current(inst)
           running == [cmd[p] EXCEPT !.pc = "running", !.inst = Begun(inst)]
       IN  /\ ~AwaitsSignoff(inst, s)
           /\ IF Step[s].runs /\ ~EditionHolds(inst)
              THEN Save(p, Failed(inst), Idle) /\ UNCHANGED seen
              ELSE /\ IF Step[s].runs /\ Begun(inst) # inst
                      THEN Save(p, Begun(inst), running)
                      ELSE Turn(p, [cmd[p] EXCEPT !.pc = "running"]) /\ UNCHANGED <<print, faults>>
                   /\ IF Executes(inst, s, cmd[p].outputs) /\ cmd'[p].pc = "running"
                      THEN seen' = [seen EXCEPT !.runs[s] = IF @ < MaxRuns THEN @ + 1 ELSE @]
                      ELSE UNCHANGED seen
    /\ UNCHANGED <<tree, core, changes>>

\* The step is back.  recheckEdition returns before any audit row.
EndStep(p) ==
    /\ At(p, "running")
    /\ LET inst == cmd[p].inst
           s == Current(inst)
       IN  \/ /\ ~EditionHolds(inst)
              /\ Save(p, Failed(inst), Idle)
              /\ UNCHANGED seen
           \/ /\ EditionHolds(inst)
              /\ \E outcome \in Outcomes(inst, s, cmd[p].outputs) :
                    InvalidateProvenance(p, [Goto(p, "ended") EXCEPT !.outcome = outcome])
              /\ seen' = [seen EXCEPT !.drift = ObserveDrift(p),
                                      !.endedAt[s] = CleanCommit(tree)]
    /\ UNCHANGED <<tree, core, changes>>

\* Mutant: a row that cannot be written is let go.
AuditStepBestEffort(p) ==
    /\ At(p, "ended")
    /\ Turn(p, Goto(p, "audited"))
    /\ \/ /\ UNCHANGED faults
          /\ seen' = [seen EXCEPT !.audited = @ \cup {Current(cmd[p].inst)}]
       \/ faults < MaxFaults /\ faults' = faults + 1 /\ UNCHANGED seen
    /\ UNCHANGED <<print, tree, core, changes>>

\* audit: the row of the step; a row that cannot be written fails it.
AuditStep(p) ==
    /\ At(p, "ended")
    /\ \/ /\ Turn(p, Goto(p, "audited"))
          /\ UNCHANGED faults
          /\ seen' = [seen EXCEPT !.audited = @ \cup {Current(cmd[p].inst)}]
       \/ /\ faults < MaxFaults /\ faults' = faults + 1
          /\ Turn(p, [Goto(p, "audited") EXCEPT !.outcome = "fail"])
          /\ UNCHANGED seen
    /\ UNCHANGED <<print, tree, core, changes>>

\* The outcome becomes the step's status: a failure is saved at once, all
\* else stays in the copy until the next Save.
Record(p) ==
    /\ At(p, "audited")
    /\ LET inst == cmd[p].inst
           s == Current(inst)
           status == IF cmd[p].outcome = "ok" THEN "completed" ELSE "skipped"
           wrote == IF Step[s].runs /\ cmd[p].outcome = "ok" THEN {s} ELSE {}
       IN  IF cmd[p].outcome = "fail"
           THEN Save(p, [WithStep(inst, s, "failed") EXCEPT !.status = "failed"], Idle)
           ELSE /\ Turn(p, [pc |-> "next", inst |-> WithStep(inst, s, status),
                            outputs |-> cmd[p].outputs \cup wrote, outcome |-> "ok"])
                /\ UNCHANGED <<print, faults>>
    /\ UNCHANGED <<tree, core, changes, seen>>

Complete(p) ==
    /\ At(p, "next") /\ AllOver(cmd[p].inst)
    /\ Save(p, [cmd[p].inst EXCEPT !.status = "completed"], Idle)
    /\ UNCHANGED <<tree, core, changes, seen>>

-----------------------------------------------------------------------------
(* StepComplete, Cancel, Status --require executed                         *)

\* Mutant: the signed step counts as done.
SignedIsCompleted(inst, s) ==
    [inst EXCEPT !.status = "running", !.steps[s] = [status |-> "completed", signed |-> TRUE]]

Signed(inst, s) ==
    [inst EXCEPT !.status = "running",
                 !.steps[s] = [status |-> IF @.status = "waiting_approval" THEN "pending" ELSE @.status,
                               signed |-> TRUE]]

\* Mutant: a sign-off does not ask whether the instance is over.
StepCompleteFinished(p, s) ==
    /\ At(p, "sign")
    /\ Save(p, Signed(cmd[p].inst, s), Idle)
    /\ seen' = [seen EXCEPT !.authorised = @ \cup {s}]
    /\ UNCHANGED <<tree, core, changes>>

StepComplete(p, s) ==
    /\ At(p, "sign")
    /\ IF Finished(cmd[p].inst)
       THEN Turn(p, Idle) /\ UNCHANGED <<print, faults, seen>>
       ELSE /\ Save(p, Signed(cmd[p].inst, s), Idle)
            /\ seen' = [seen EXCEPT !.authorised = @ \cup {s}]
    /\ UNCHANGED <<tree, core, changes>>

\* deny and defer: the step keeps what it had, an earlier sign-off included.
Deny(p) ==
    /\ At(p, "sign")
    /\ ~Finished(cmd[p].inst)
    /\ Save(p, [cmd[p].inst EXCEPT !.status = "waiting_approval"], Idle)
    /\ UNCHANGED <<tree, core, changes, seen>>

Cancel(p) ==
    /\ At(p, "cancel")
    /\ Save(p, [cmd[p].inst EXCEPT !.status = "cancelled"], Idle)
    /\ UNCHANGED <<tree, core, changes, seen>>

\* requireExecuted and requireExecutedSteps, without what they change.
RanForReal(inst) ==
    inst.status = "completed" /\ ~inst.dryRun /\ inst.started = "yes" /\ inst.editionCommit # ""

StepsExecuted(inst) ==
    \A s \in StepIds : /\ Step[s].runs
                       /\ inst.steps[s].status = "completed"
                       /\ Step[s].highBlast => inst.steps[s].signed

\* What the command answers now for the commit recorded in the print.
Accepts(inst) ==
    /\ inst # NoPrint
    /\ RanForReal(inst)
    /\ inst.commit # "" /\ ~Drifted(inst)
    /\ EditionHolds(inst)
    /\ StepsExecuted(inst)

\* named: whether --sha is the commit the print has.
RequireExecuted(p, named) ==
    /\ At(p, "require")
    /\ LET inst == cmd[p].inst
           void == [inst EXCEPT !.commit = ""]
       IN  IF RanForReal(inst) /\ (Drifted(inst) \/ (named /\ inst.commit # "" /\ ~EditionHolds(inst)))
           THEN /\ Save(p, void, Idle)
                /\ seen' = [seen EXCEPT !.drift = ObserveDrift(p)]
           ELSE Turn(p, Idle) /\ UNCHANGED <<print, faults, seen>>
    /\ UNCHANGED <<tree, core, changes>>

\* A start or an apply that is refused before it read or wrote anything.
Refused ==
    /\ tree = "main" \/ core = "gone"
    /\ UNCHANGED runbookVars

-----------------------------------------------------------------------------
(* The surroundings                                                        *)

Kill(p) ==
    /\ ~At(p, "idle")
    /\ faults < MaxFaults /\ faults' = faults + 1
    /\ Turn(p, Idle)
    /\ UNCHANGED <<print, tree, core, changes, seen>>

ChangeTree ==
    /\ changes < MaxChanges /\ changes' = changes + 1
    /\ tree' \in Trees \ {tree}
    /\ UNCHANGED <<print, core, cmd, faults, seen>>

ChangeCore ==
    /\ changes < MaxChanges /\ changes' = changes + 1
    /\ core' \in Cores \ {core}
    /\ UNCHANGED <<print, tree, cmd, faults, seen>>

-----------------------------------------------------------------------------

\* A print an older lw left: no marker, no revision.
LegacyPrint == [StartPrint(FALSE) EXCEPT !.started = "absent", !.editionCommit = ""]

Init ==
    /\ tree = "c1"
    /\ core \in {"pinned", "unclean"}
    /\ print \in {NoPrint, LegacyPrint}
    /\ changes = 0
    /\ faults = 0
    /\ cmd = [p \in Commands |-> Idle]
    /\ seen = [runs |-> [s \in StepIds |-> 0], endedAt |-> [s \in StepIds |-> ""],
               audited |-> {}, authorised |-> {}, drift |-> FALSE]

Apply(p) ==
    \/ ApplyObserve(p)
    \/ ApplyOpen(p)
    \/ Pause(p)
    \/ RunStep(p)
    \/ EndStep(p)
    \/ AuditStep(p)
    \/ Record(p)
    \/ Complete(p)

Next ==
    \/ \E dry \in BOOLEAN : Start(dry)
    \/ \E p \in Commands :
        \/ \E what \in {"apply", "sign", "cancel", "require"} : Load(p, what)
        \/ Apply(p)
        \/ \E s \in StepIds : StepComplete(p, s)
        \/ Deny(p)
        \/ Cancel(p)
        \/ \E named \in BOOLEAN : RequireExecuted(p, named)
        \/ Kill(p)
    \/ Refused
    \/ ChangeTree
    \/ ChangeCore

Spec == Init /\ [][Next]_runbookVars

-----------------------------------------------------------------------------
(* Properties                                                              *)

\* Every variable keeps its type.
TypeOK ==
    /\ print \in Prints \cup {NoPrint}
    /\ tree \in Trees /\ core \in Cores
    /\ changes \in 0 .. MaxChanges /\ faults \in 0 .. MaxFaults
    /\ cmd \in [Commands -> [pc : {"idle", "apply", "open", "next", "running", "ended", "audited",
                                   "sign", "cancel", "require"},
                             inst : Prints \cup {NoPrint}, outputs : SUBSET StepIds,
                             outcome : {"ok", "fail", "skipped"}]]
    /\ seen \in [runs : [StepIds -> 0 .. MaxRuns], endedAt : [StepIds -> Trees \cup {""}],
                 audited : SUBSET StepIds, authorised : SUBSET StepIds,
                 drift : BOOLEAN]

\* A step that waits for the operator never runs before an operator signed
\* that very step, whatever was killed, resumed, denied or run beside it.
UnsignedNeverRuns ==
    \A s \in StepIds : seen.runs[s] > 0 /\ Step[s].highBlast => s \in seen.authorised

\* `status --require executed` accepts an instance only when each of its steps
\* ran for real, left its audit row and had the sign-off it needs, though the
\* steps ran in several applies, some of them killed.
ReceiptMeansRan ==
    Accepts(print) =>
        \A s \in StepIds : /\ seen.runs[s] > 0 /\ s \in seen.audited
                           /\ Step[s].highBlast => s \in seen.authorised

\* The commit such a receipt names is the one the worktree was at, clean, when
\* each of the steps ended, also when it came back to it in between.
ReceiptBindsCommit ==
    Accepts(print) => \A s \in StepIds : seen.endedAt[s] = print.commit

\* Once a command saw the worktree away from the recorded commit, no return to
\* that commit makes a receipt of the instance again (provenance.go:53).
ObservedDriftVoids == seen.drift => ~Accepts(print)

\* A step runs twice only for a kill or a failed write: what was done before a
\* pause is in the print that the next apply resumes from.
RunsOnlyOnce == \A s \in StepIds : seen.runs[s] <= 1 + faults

\* A step the print calls completed has its audit row: a row that could not be
\* written fails the step.
CompletedIsAudited ==
    print # NoPrint =>
        \A s \in StepIds : print.steps[s].status = "completed" => s \in seen.audited

\* A step that runs for real finds the outputs of every earlier step it reads
\* that writes any, though a sign-off and another process may lie between them.
OutputsSurviveThePause ==
    \A p \in Commands :
        At(p, "running") /\ ~cmd[p].inst.dryRun =>
            LET s == Current(cmd[p].inst)
            IN  \A t \in Step[s].reads : t < s /\ Step[t].runs => t \in cmd[p].outputs

\* No work of a step begins on a print that is over, and no command takes an
\* instance that is over back to life; a cancellation may still overrule.
StaysFinished == print # NoPrint /\ Finished(print) => print'.status \in {print.status, "cancelled"}

FinishedStaysFinished == [][StaysFinished]_runbookVars

=============================================================================
