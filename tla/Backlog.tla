------------------------------ MODULE Backlog ------------------------------
(***************************************************************************)
(* The ready queue on GitHub: `lw issue create`, `lw github ready`, and    *)
(* the choice `lw github pick` makes of what to work on next.  A pick is   *)
(* several calls (the open ready issues, the closed ones, the planning     *)
(* database once per issue) while issues and tasks change.                 *)
(***************************************************************************)
EXTENDS Naturals, Sequences, FiniteSets

CONSTANTS
    Issues,                    \* issue numbers: a larger one is newer
    DependsOn,                 \* issue -> the tasks its body names; a task has its issue's number
    Ranks,                     \* p1 .. p4, and what has no priority
    ReadyLimit, ClosedLimit,   \* gh issue list --limit
    Pickers, MaxChanges, MaxFaults

\* Assumed of the constants; the module that composes this one states it.
QueueAssumption ==
    /\ Issues \subseteq Nat \ {0} /\ IsFiniteSet(Issues) /\ Ranks \subseteq Nat
    /\ DependsOn \in [Issues -> SUBSET Issues]
    /\ {ReadyLimit, ClosedLimit, MaxChanges, MaxFaults} \subseteq Nat

VARIABLES
    issue,     \* "none", "open" or "closed"
    rank,      \* of the first priority label, or of the body
    ready,     \* issues with the label
    task,      \* the task's row: "none", "open" or "over" (done, cancelled, archived)
    pick,      \* the picks at work
    changes, faults

vars == <<issue, rank, ready, task, pick, changes, faults>>
world == <<issue, rank, ready, task, changes>>

\* known: ids of the closed issues, or Unread; list: what is still to look at;
\* the rest is history: tasks seen over, seen unfinished, or past verifying
\* since the pick began, and issues found blocked.
Unread == [read |-> FALSE, ids |-> {}]
Idle == [pc |-> "idle", list |-> <<>>, offered |-> {}, known |-> Unread, pool |-> FALSE,
         chosen |-> 0, over |-> {}, unfinished |-> {}, unverified |-> {}]

Closed == {i \in Issues : issue[i] = "closed"}
Over == Closed \cup {i \in Issues : task[i] = "over"}
Unfinished == {i \in Issues : task[i] = "open"}

Init ==
    /\ issue \in [Issues -> {"none", "open"}] /\ rank \in [Issues -> Ranks]
    /\ ready = {i \in Issues : issue[i] = "open"}
    /\ task \in [Issues -> {"none", "open"}]
    /\ pick = [p \in Pickers |-> Idle]
    /\ changes = 0 /\ faults = 0

Fail == faults < MaxFaults /\ faults' = faults + 1
Fine == UNCHANGED faults

-----------------------------------------------------------------------------
(* The tracker and the planning database move on, also under a pick.       *)

Witnessed == pick' = [p \in Pickers |->
    IF pick[p].pc \in {"idle", "end"} THEN pick[p]
    ELSE [pick[p] EXCEPT !.over = @ \cup Over', !.unfinished = @ \cup Unfinished']]

Change == changes < MaxChanges /\ changes' = changes + 1 /\ Witnessed /\ Fine

\* CreateCompliantIssue: the labels of its kind, never ready.  When the link
\* to the project fails the command fails, and the issue stays.
CreateIssue(i) ==
    /\ issue[i] = "none" /\ issue' = [issue EXCEPT ![i] = "open"]
    /\ UNCHANGED <<rank, ready, task>> /\ Change

\* markIssueReady, with a priority or without.
MarkReady(i, r) ==
    /\ issue[i] = "open" /\ ready' = ready \cup {i} /\ rank' = [rank EXCEPT ![i] = r]
    /\ UNCHANGED <<issue, task>> /\ Change

CloseIssue(i) == issue[i] = "open" /\ issue' = [issue EXCEPT ![i] = "closed"] /\ UNCHANGED <<rank, ready, task>> /\ Change
Reopen(i) == issue[i] = "closed" /\ issue' = [issue EXCEPT ![i] = "open"] /\ UNCHANGED <<rank, ready, task>> /\ Change
SetTask(i, status) == task[i] # status /\ task' = [task EXCEPT ![i] = status] /\ UNCHANGED <<issue, rank, ready>> /\ Change

-----------------------------------------------------------------------------
(* lw github pick                                                          *)

Newest(limit, S) == {i \in S : Cardinality({j \in S : j > i}) < limit}

\* Of one rank the newest stays first: the sort is stable. There is one such list.
Before(i, j) == rank[i] < rank[j] \/ (rank[i] = rank[j] /\ i > j)
SortByPriority(S) ==
    {s \in [1 .. Cardinality(S) -> S] :
        /\ \A i \in S : \E k \in DOMAIN s : s[k] = i
        /\ \A k, l \in DOMAIN s : k < l => Before(s[k], s[l])}

FetchReadyIssues(p) ==
    /\ pick[p].pc = "idle"
    /\ LET found == Newest(ReadyLimit, {i \in ready : issue[i] = "open"})
       IN found # {} /\ \E list \in SortByPriority(found) : pick' = [pick EXCEPT ![p] =
            [Idle EXCEPT !.pc = "closed", !.list = list, !.offered = found,
                         !.over = Over, !.unfinished = Unfinished]]
    /\ UNCHANGED world /\ Fine

\* No closed list and no database are not errors: they leave it open.
ClosedIssueTaskIDs(p) ==
    /\ pick[p].pc = "closed"
    /\ \/ Fine /\ pick' = [pick EXCEPT ![p].pc = "look", ![p].pool = TRUE,
                                       ![p].known = [read |-> TRUE, ids |-> Newest(ClosedLimit, Closed)]]
       \/ Fail /\ pick' = [pick EXCEPT ![p].pc = "look", ![p].pool = TRUE]
       \/ Fail /\ pick' = [pick EXCEPT ![p].pc = "look",
                                       ![p].known = [read |-> TRUE, ids |-> Newest(ClosedLimit, Closed)]]
    /\ UNCHANGED world

\* Mutant: the first dependency that is over decides.
DepsAnyOver(p, i, ids) ==
    \/ DependsOn[i] = {} \/ DependsOn[i] \cap ids # {}
    \/ \A d \in DependsOn[i] : ~pick[p].pool \/ task[d] # "open"

DepsOK(p, i, ids) == \A d \in DependsOn[i] : d \in ids \/ ~pick[p].pool \/ task[d] # "open"

Unverified(p, i, ids) == {d \in DependsOn[i] \ ids : ~pick[p].pool \/ task[d] = "none"}

\* depsOK on the first of the list.  A closed list that failed is asked for
\* again at each issue; a lookup that fails does not block.
Look(p) ==
    /\ pick[p].pc = "look" /\ pick[p].list # <<>>
    /\ LET i == Head(pick[p].list)
           known == pick[p].known
           choose(more) == pick' = [pick EXCEPT ![p].pc = "end", ![p].chosen = i, ![p].unverified = more]
           judge(ids) == IF DepsOK(p, i, ids) THEN choose(Unverified(p, i, ids))
                         ELSE pick' = [pick EXCEPT ![p].list = Tail(@)]
       IN \/ known.read /\ judge(known.ids) /\ Fine
          \/ ~known.read /\ judge(Newest(ClosedLimit, Closed)) /\ Fine
          \/ ~known.read /\ judge({}) /\ Fail
          \/ Fail /\ DependsOn[i] # {} /\ choose(DependsOn[i])
    /\ UNCHANGED world

\* Printed, found or not; the orchestrator comes back for more.
Answer(p) ==
    /\ pick[p].pc = "end" \/ (pick[p].pc = "look" /\ pick[p].list = <<>>)
    /\ pick' = [pick EXCEPT ![p] = Idle]
    /\ UNCHANGED world /\ Fine

Next ==
    \/ \E i \in Issues : \/ CreateIssue(i) \/ CloseIssue(i) \/ Reopen(i)
                         \/ \E r \in Ranks : MarkReady(i, r)
                         \/ \E status \in {"open", "over"} : SetTask(i, status)
    \/ \E p \in Pickers : FetchReadyIssues(p) \/ ClosedIssueTaskIDs(p) \/ Look(p) \/ Answer(p)

Spec == Init /\ [][Next]_vars

-----------------------------------------------------------------------------
(* Properties                                                              *)

\* Every variable keeps its type.
TypeOK ==
    /\ issue \in [Issues -> {"none", "open", "closed"}] /\ rank \in [Issues -> Ranks]
    /\ ready \subseteq Issues /\ task \in [Issues -> {"none", "open", "over"}]
    /\ pick \in [Pickers -> [pc : {"idle", "closed", "look", "end"}, list : Seq(Issues), offered : SUBSET Issues,
                            known : [read : BOOLEAN, ids : SUBSET Issues], pool : BOOLEAN, chosen : Issues \cup {0},
                            over : SUBSET Issues, unfinished : SUBSET Issues, unverified : SUBSET Issues]]
    /\ changes \in 0 .. MaxChanges /\ faults \in 0 .. MaxFaults

\* What is picked can be worked on: each of its dependencies was over at some
\* moment of the pick or could not be verified at all, and what came before it
\* in the queue had a dependency that was unfinished meanwhile.
PickIsActionable ==
    \A p \in Pickers : LET i == pick[p].chosen IN i # 0 =>
        /\ DependsOn[i] \subseteq pick[p].over \cup pick[p].unverified
        /\ \A j \in pick[p].offered : (\A k \in 1 .. Len(pick[p].list) : pick[p].list[k] # j) =>
              DependsOn[j] \cap pick[p].unfinished # {}

\* Why: a pick at work has seen all that is over or unfinished now, the closed
\* ids it keeps among them; what left its list was found blocked, and what it
\* chose was judged.
Listed(p, j) == \E k \in 1 .. Len(pick[p].list) : pick[p].list[k] = j
KeepsSeen ==
    \A p \in Pickers : pick[p].pc \in {"closed", "look"} =>
        Over \subseteq pick[p].over /\ Unfinished \subseteq pick[p].unfinished
KnownAreOver == \A p \in Pickers : pick[p].known.ids \subseteq pick[p].over
PassedAreBlocked ==
    \A p \in Pickers : \A j \in pick[p].offered : Listed(p, j) \/ DependsOn[j] \cap pick[p].unfinished # {}
ChosenWasJudged ==
    \A p \in Pickers : pick[p].chosen # 0 => DependsOn[pick[p].chosen] \subseteq pick[p].over \cup pick[p].unverified
IInv == TypeOK /\ KeepsSeen /\ KnownAreOver /\ PassedAreBlocked /\ ChosenWasJudged
=============================================================================
