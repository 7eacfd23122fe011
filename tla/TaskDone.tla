------------------------------ MODULE TaskDone ------------------------------
(***************************************************************************)
(* `lw task done T-NNNN`: the artefacts of a task are archived and removed,*)
(* its worktree removed, its issue closed and the end noted in memory, each*)
(* a step that may fail or be cut off; the task's session may still write, *)
(* and a task may be taken up again later.                                 *)
(***************************************************************************)
EXTENDS Naturals, FiniteSets

CONSTANTS Files, Months, None, MaxFaults

\* Assumed of the constants; the module that composes this one states it.
BoundsAssumption == MaxFaults \in Nat /\ \A files \in SUBSET Files : files # None

VARIABLES
    artefacts,   \* the task's files, None without a directory
    archive,     \* per month: the files of its tar.gz, None without one
    worktree,    \* "none", "clean" or "dirty"
    issue, noted,
    month,       \* now
    run,         \* the command at work
    written,     \* history: files a session wrote that nobody deleted
    faults,
    calm         \* history: no session wrote while a command was at work, no
                 \* archive was replaced

vars == <<artefacts, archive, worktree, issue, noted, month, run, written, faults, calm>>

Idle == [pc |-> "idle", month |-> None, tree |-> FALSE, close |-> FALSE]
disk == <<artefacts, archive, worktree>>

TypeOK ==
    /\ artefacts \in (SUBSET Files) \cup {None} /\ archive \in [Months -> (SUBSET Files) \cup {None}]
    /\ worktree \in {"none", "clean", "dirty"} /\ issue \in {"open", "closed"} /\ noted \in SUBSET Months
    /\ month \in Months /\ written \subseteq Files /\ faults \in 0 .. MaxFaults /\ calm \in BOOLEAN
    /\ run \in [pc : {"idle", "tar", "remove", "worktree", "issue", "note"}, month : Months \cup {None},
                tree : BOOLEAN, close : BOOLEAN]

Init ==
    /\ artefacts = None /\ archive = [m \in Months |-> None] /\ worktree = "none"
    /\ issue = "open" /\ noted = {} /\ month \in Months /\ run = Idle
    /\ written = {} /\ faults = 0 /\ calm = TRUE

-----------------------------------------------------------------------------
Fine == UNCHANGED <<faults, calm>>
Fail == faults < MaxFaults /\ faults' = faults + 1 /\ UNCHANGED calm
Go(pc) == run' = [run EXCEPT !.pc = pc]

\* Without the directory the command ends with an error: so does a second
\* run after one that was cut off when the artefacts were gone.
Done(close) ==
    /\ run.pc = "idle" /\ artefacts # None /\ Fine
    /\ run' = [Idle EXCEPT !.pc = "tar", !.month = month, !.tree = (worktree # "none"), !.close = close]
    /\ UNCHANGED <<disk, issue, noted, month, written>>

Archived(files) ==
    /\ archive' = [archive EXCEPT ![run.month] = files]
    /\ calm' = (calm /\ archive[run.month] \in {None, files})

\* Mutant: an archive that failed does not end the command.
TarAnyway ==
    /\ run.pc = "tar" /\ Go("remove") /\ UNCHANGED <<artefacts, worktree, issue, noted, month, written>>
    /\ \/ Archived(artefacts) /\ UNCHANGED faults
       \/ UNCHANGED archive /\ Fail

\* tarGzDir: a temporary file, renamed over what the month holds of this task.
TarGzDir ==
    /\ run.pc = "tar" /\ UNCHANGED <<artefacts, worktree, issue, noted, month, written>>
    /\ \/ Archived(artefacts) /\ Go("remove") /\ UNCHANGED faults
       \/ UNCHANGED archive /\ run' = Idle /\ Fail

\* RemoveAll: what was written since goes too, and a failure may leave some.
RemoveArtefacts ==
    /\ run.pc = "remove" /\ UNCHANGED <<archive, worktree, issue, noted, month, written>>
    /\ \/ artefacts' = None /\ Go("worktree") /\ Fine
       \/ artefacts' \in SUBSET artefacts /\ run' = Idle /\ Fail

\* git worktree remove refuses a dirty tree; RemoveAll then takes it anyway.
RemoveWorktree ==
    /\ run.pc = "worktree" /\ Go("issue") /\ UNCHANGED <<artefacts, archive, issue, noted, month, written>>
    /\ \/ worktree' = (IF run.tree THEN "none" ELSE worktree) /\ Fine
       \/ UNCHANGED worktree /\ run.tree /\ Fail

CloseIssue ==
    /\ run.pc = "issue" /\ Go("note") /\ UNCHANGED <<disk, noted, month, written>>
    /\ \/ issue' = (IF run.close THEN "closed" ELSE issue) /\ Fine
       \/ UNCHANGED issue /\ run.close /\ Fail

Note ==
    /\ run.pc = "note" /\ run' = Idle /\ UNCHANGED <<disk, issue, month, written>>
    /\ \/ noted' = noted \cup {run.month} /\ Fine
       \/ UNCHANGED noted /\ Fail

Killed == run.pc # "idle" /\ run' = Idle /\ Fail /\ UNCHANGED <<disk, issue, noted, month, written>>

-----------------------------------------------------------------------------
(* The session, and time                                                   *)

WriteFile(f) ==
    /\ artefacts' = (IF artefacts = None THEN {f} ELSE artefacts \cup {f}) /\ written' = written \cup {f}
    /\ artefacts' # artefacts
    /\ calm' = (calm /\ run.pc = "idle")
    /\ UNCHANGED <<archive, worktree, issue, noted, month, run, faults>>
Worktree(w) == worktree # w /\ worktree' = w /\ UNCHANGED <<artefacts, archive, issue, noted, month, run, written, faults, calm>>
NextMonth == \E m \in Months \ {month} : month' = m /\ UNCHANGED <<disk, issue, noted, run, written, faults, calm>>

Next ==
    \/ \E close \in BOOLEAN : Done(close)
    \/ TarGzDir \/ RemoveArtefacts \/ RemoveWorktree \/ CloseIssue \/ Note \/ Killed
    \/ \E f \in Files : WriteFile(f)
    \/ \E w \in {"clean", "dirty"} : Worktree(w)
    \/ NextMonth
Spec == Init /\ [][Next]_vars

-----------------------------------------------------------------------------
(* Property                                                                *)

\* Wherever the command fails or is cut off, and however often it is run,
\* every file of the task is in its directory or in an archive - unless a
\* session wrote while it was at work, or an archive of the same month was
\* replaced by the next one.
FilesAreSomewhere ==
    calm => written \subseteq UNION ((({artefacts} \cup {archive[m] : m \in Months}) \ {None}))

\* The strengthening: a command knows its month and finds the directory until it
\* has removed it, and does not begin to before the archive holds all of it.
ArchivedFirst ==
    /\ run.pc # "idle" => run.month \in Months
    /\ run.pc \in {"tar", "remove"} => artefacts # None
    /\ calm /\ run.pc = "remove" => archive[run.month] = artefacts
IInv == TypeOK /\ ArchivedFirst /\ FilesAreSomewhere
=============================================================================
