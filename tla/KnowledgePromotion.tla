------------------------ MODULE KnowledgePromotion ------------------------
(***************************************************************************)
(* `lw knowledge promote` (internal/knowledge/promote.go): every row of a  *)
(* Notion database that is ready and has a verified context packet becomes *)
(* one nulltickets task, and an external_ref print records it.  Each       *)
(* machine has its own prints and its own lock; runs die, calls fail.      *)
(***************************************************************************)
EXTENDS Naturals, FiniteSets

CONSTANTS
    Pages, Titles, Pipelines,
    Machines, Hands, MachineOf,   \* runs, and the machine each is started on
    None, MaxFaults

\* Assumed of the constants; the module that composes this one states it.
PromotionAssumption ==
    MachineOf \in [Hands -> Machines] /\ None \notin Pages /\ MaxFaults \in Nat

VARIABLES
    page,      \* Notion: whether it is ready with a verified packet, and its title
    tasks,     \* nulltickets: the tasks, with the body each was made from
    binding,   \* the external_ref prints of each machine
    hand,      \* the runs
    shown,     \* history: the rows that were ever ready and verified
    faults

vars == <<page, tasks, binding, hand, shown, faults>>

\* taken: the row at hand; task: what nulltickets returned for it.
Row == [page : Pages, title : Titles]
Task == [key : Pages, row : Row, pipeline : Pipelines]
Idle == [pc |-> "idle", rows |-> {}, pipeline |-> None, taken |-> None, task |-> None]

Promotable == {row \in Row : page[row.page].ready /\ page[row.page].title = row.title}

Init ==
    /\ page \in [Pages -> [ready : BOOLEAN, title : Titles]]
    /\ tasks = {} /\ binding = [m \in Machines |-> [p \in Pages |-> None]]
    /\ hand = [h \in Hands |-> Idle]
    /\ shown = Promotable /\ faults = 0

At(h, pc) == hand[h].pc = pc
Go(h, state) == hand' = [hand EXCEPT ![h] = state]
NextRow(h) == Go(h, [hand[h] EXCEPT !.pc = "row", !.taken = None, !.task = None])
Fine == UNCHANGED faults
Fail == faults < MaxFaults /\ faults' = faults + 1

-----------------------------------------------------------------------------
(* Notion                                                                  *)

EditPage(p) ==
    /\ \E ready \in BOOLEAN, title \in Titles : page' = [page EXCEPT ![p] = [ready |-> ready, title |-> title]]
    /\ shown' = shown \cup Promotable'
    /\ UNCHANGED <<tasks, binding, hand, faults>>

-----------------------------------------------------------------------------
(* Promoter.Run                                                            *)

\* The lock of the print root, then the rows with their properties; what is
\* not verified is surfaced and left alone.  A dry run stops before its writes.
Lock(h) == \A g \in Hands : MachineOf[g] = MachineOf[h] => At(g, "idle")

Run(h) ==
    /\ At(h, "idle") /\ Lock(h) /\ Promotable # {}
    /\ \E pipeline \in Pipelines :
         Go(h, [Idle EXCEPT !.pc = "row", !.rows = Promotable, !.pipeline = pipeline])
    /\ UNCHANGED <<page, tasks, binding, shown, faults>>

\* LoadPromotion: any error reads as a page that was not promoted.
LoadPromotion(h) ==
    /\ At(h, "row")
    /\ \E row \in hand[h].rows :
         LET rest == [hand[h] EXCEPT !.rows = @ \ {row}]
             create == [rest EXCEPT !.pc = "create", !.taken = row]
         IN IF binding[MachineOf[h]][row.page] = None THEN Go(h, create) /\ Fine
            ELSE (Go(h, rest) /\ Fine) \/ (Go(h, create) /\ Fail)
    /\ UNCHANGED <<page, tasks, binding, shown>>

\* Mutant: the key tells two titles of one page apart.
KeyOfTitle(row) == row
Key(row) == row.page

\* POST /tasks with an Idempotency-Key: the same key and body give the task
\* there is, the same key and another body are refused, and a reply may be
\* lost after the task was made.
CreateTask(h) ==
    LET row == hand[h].taken
        body == [key |-> Key(row), row |-> row, pipeline |-> hand[h].pipeline]
        stored == {t \in tasks : t.key = body.key}
    IN  /\ At(h, "create")
        /\ IF stored \subseteq {body}
           THEN \/ /\ tasks' = tasks \cup {body}
                   /\ Go(h, [hand[h] EXCEPT !.pc = "bind", !.task = body]) /\ Fine
                \/ tasks' \in {tasks, tasks \cup {body}} /\ NextRow(h) /\ Fail
           ELSE NextRow(h) /\ UNCHANGED tasks /\ Fine
        /\ UNCHANGED <<page, binding, shown>>

SaveBinding(h) ==
    /\ At(h, "bind")
    /\ \/ binding' = [binding EXCEPT ![MachineOf[h]][hand[h].taken.page] = hand[h].task] /\ Fine
       \/ UNCHANGED binding /\ Fail
    /\ NextRow(h) /\ UNCHANGED <<page, tasks, shown>>

Report(h) == At(h, "row") /\ hand[h].rows = {} /\ Go(h, Idle) /\ UNCHANGED <<page, tasks, binding, shown, faults>>

\* The system releases the lock of a run that dies.
Killed(h) == ~At(h, "idle") /\ Go(h, Idle) /\ Fail /\ UNCHANGED <<page, tasks, binding, shown>>

Next ==
    \/ \E p \in Pages : EditPage(p)
    \/ \E h \in Hands : Run(h) \/ LoadPromotion(h) \/ CreateTask(h) \/ SaveBinding(h) \/ Report(h) \/ Killed(h)

Spec == Init /\ [][Next]_vars

-----------------------------------------------------------------------------
(* Properties                                                              *)

\* Every variable keeps its type.
TypeOK ==
    /\ page \in [Pages -> [ready : BOOLEAN, title : Titles]] /\ shown \subseteq Row
    /\ tasks \subseteq Task
    /\ binding \in [Machines -> [Pages -> tasks \cup {None}]]
    /\ hand \in [Hands -> [pc : {"idle", "row", "create", "bind"}, rows : SUBSET Row,
                           pipeline : Pipelines \cup {None}, taken : Row \cup {None}, task : Task \cup {None}]]
    /\ faults \in 0 .. MaxFaults

\* A page becomes at most one task, however many machines promote it, to
\* whatever pipeline, and however its title changes between a run that died and
\* the next; each was made from a row that was once ready with a verified
\* packet, and every print names the task of its own page.
APageBecomesOneTask ==
    /\ \A s, t \in tasks : s.row.page = t.row.page => s = t
    /\ \A t \in tasks : t.row \in shown
    /\ \A m \in Machines, p \in Pages :
          binding[m][p] # None => binding[m][p] \in tasks /\ binding[m][p].row.page = p

\* Why it does: the key is the page, whatever its title; what is promotable is
\* shown; and a run works on rows that were, for a task that is stored.
KeyIsThePage == \A t \in tasks : t.key = t.row.page
PromotableIsShown == Promotable \subseteq shown
RunsOnShown ==
    \A h \in Hands :
        /\ hand[h].rows \subseteq shown
        /\ ~At(h, "idle") => hand[h].pipeline \in Pipelines
        /\ hand[h].pc \in {"create", "bind"} => hand[h].taken \in shown
        /\ At(h, "bind") => hand[h].task \in tasks /\ hand[h].task.row = hand[h].taken
IInv == TypeOK /\ KeyIsThePage /\ PromotableIsShown /\ RunsOnShown /\ APageBecomesOneTask
=============================================================================
