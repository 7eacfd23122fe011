------------------------- MODULE IssuePromoteProofs -------------------------
(***************************************************************************)
(* What lw issue promote guarantees for every set of issues, every cap on  *)
(* generations and any number of edits, labels, webhooks and faults.       *)
(***************************************************************************)
EXTENDS IssuePromote, WellFoundedInduction, TLAPS

-----------------------------------------------------------------------------
(* The strengthening: what a tick knows of the queue between its calls.    *)

\* An attempt that no request with this body can be answered by: it is dead, or
\* the issue reads differently now.  It is so for good.
Spent(t, body) == Exists(t) /\ (~Live(task[t]) \/ task[t].body # body)

\* At work on a retry, every generation below the one at hand is spent.
PassedOver ==
    prom.pc \in {"retry", "created", "unlabel"} /\ prom.todo # {} =>
        \A h \in Generations : h < prom.gen => Spent(TaskOf(Current.issue, h), Current.body)

\* Once the task is found or made it has the body of the listing.
Found ==
    prom.pc \in {"created", "unlabel"} => Exists(Key) /\ task[Key].body = Current.body

IInv == TypeOK /\ NoGenerationGap /\ PassedOver /\ Found

-----------------------------------------------------------------------------
(* The entry at hand.                                                      *)

LEMMA EntryAtHand ==
    ASSUME TypeOK, prom.todo # {}
    PROVE  /\ Current \in prom.todo
           /\ Current.issue \in Issues /\ Current.body \in Bodies
           /\ prom.gen \in Generations /\ Key \in Tasks
<1> DEFINE numbers == {e.issue : e \in prom.todo}
<1>1. prom.todo \subseteq Entry /\ prom.gen \in Generations
  BY DEF TypeOK
<1>2. \A e \in prom.todo : e.issue \in Issues /\ e.body \in Bodies /\ e.issue \in Nat
  BY <1>1, QueueAssumption DEF Entry
<1>3. numbers \in SUBSET Nat /\ numbers # {}
  BY <1>2
<1>4. PICK n \in numbers : \A m \in numbers : n <= m
  <2> HIDE DEF numbers
  <2>1. PICK n \in numbers : \A m \in numbers : ~(<<m, n>> \in OpToRel(<, Nat))
    BY <1>3, NatLessThanWellFounded, WFMin
  <2>2. \A x, y \in Nat : x <= y \/ <<y, x>> \in OpToRel(<, Nat)
    BY DEF OpToRel
  <2> QED
    BY <1>3, <2>1, <2>2
<1>5. \E e \in prom.todo : \A f \in prom.todo : e.issue <= f.issue
  BY <1>4
<1>6. Current \in prom.todo
  BY <1>5 DEF Current
<1> QED
  BY <1>1, <1>2, <1>6 DEF Key, TaskOf, Tasks

-----------------------------------------------------------------------------
(* What the queue does, whoever asks.                                      *)

\* A stored task keeps its body, and one that is dead stays dead.
Onward ==
    \A t \in Tasks : Exists(t) =>
        /\ Exists(t)' /\ task'[t].body = task[t].body
        /\ Live(task'[t]) => Live(task[t])

NoNewTask == \A t \in Tasks : Exists(t)' => Exists(t)

LEMMA CreateTaskDoes ==
    ASSUME QueueTypeOK, NEW t \in Tasks, NEW body \in Bodies, CreateTask(t, body)
    PROVE  /\ task' \in [Tasks -> TaskRecord]
           /\ Onward /\ Exists(t)'
           /\ \A u \in Tasks : Exists(u)' => u = t \/ Exists(u)
           /\ ~Exists(t) => task'[t].body = body
<1> DEFINE new == [NoTask EXCEPT !.stage = "in_development", !.version = 1, !.body = body]
<1>1. new \in TaskRecord /\ new.stage = "in_development" /\ new.body = body
  BY DEF NoTask, NoBody, TaskRecord, Stages, Ages, Bodies
<1>2. task \in [Tasks -> TaskRecord]
  BY DEF QueueTypeOK
<1> HIDE DEF new
<1>3. CASE Exists(t)
  BY <1>2, <1>3 DEF CreateTask, Onward, Exists
<1>4. CASE ~Exists(t)
  <2>1. task' = [task EXCEPT ![t] = new]
    BY <1>4 DEF CreateTask, new
  <2> QED
    BY <1>1, <1>2, <1>4, <2>1 DEF Onward, Exists
<1> QED
  BY <1>3, <1>4

LEMMA TaskEndsDoes ==
    ASSUME TypeOK, NEW t \in Tasks, TaskEnds(t)
    PROVE  /\ task' \in [Tasks -> TaskRecord] /\ faults' = faults
           /\ Onward /\ NoNewTask
<1>0. task \in [Tasks -> TaskRecord]
  BY DEF TypeOK, QueueTypeOK
<1>1. CASE WorkerExhaust(t)
  <2>1. task' = [task EXCEPT ![t].parked = TRUE] /\ faults' = faults
    BY <1>1 DEF WorkerExhaust
  <2>2. task' \in [Tasks -> TaskRecord]
    BY <1>0, <2>1 DEF TaskRecord
  <2> QED
    BY <1>0, <2>1, <2>2 DEF TaskRecord, Onward, NoNewTask, Exists, Live
<1>2. ASSUME NEW stage \in Terminal, MoveTo(t, stage, task[t].version), faults' = faults,
             task[t].stage = "in_development"
      PROVE  /\ task' \in [Tasks -> TaskRecord] /\ faults' = faults
             /\ Onward /\ NoNewTask
  <2>1. task' = [task EXCEPT ![t] = [task[t] EXCEPT !.stage = stage, !.version = task[t].version,
                                                    !.age = "fresh", !.lease = NoLease]]
    BY <1>0, <1>2 DEF MoveTo
  <2>2. task' \in [Tasks -> TaskRecord]
    BY <1>0, <2>1 DEF TaskRecord, Terminal, Stages, Ages
  <2>3. \A u \in Tasks : u # t => task'[u] = task[u]
    BY <1>0, <2>1
  <2>4. task'[t].stage = stage /\ task'[t].body = task[t].body
    BY <1>0, <2>1 DEF TaskRecord
  <2> QED
    BY <1>2, <2>2, <2>3, <2>4 DEF Onward, NoNewTask, Exists, Live, Terminal
<1>3. CASE WorkerDrop(t)
  BY <1>2, <1>3 DEF WorkerDrop, Terminal
<1>4. CASE /\ task[t].stage = "in_development" /\ ~task[t].parked
           /\ MoveTo(t, "closed", task[t].version) /\ UNCHANGED faults
  BY <1>2, <1>4 DEF Terminal
<1> QED
  BY <1>1, <1>3, <1>4 DEF TaskEnds

LEMMA FaultFine == ASSUME TypeOK, Fault PROVE faults' \in 0 .. MaxFaults
BY QueueAssumption DEF Fault, TypeOK, QueueTypeOK

\* A spent attempt stays spent.
LEMMA SpentStays ==
    ASSUME Onward, NEW t \in Tasks, NEW body, Spent(t, body)
    PROVE  Spent(t, body)'
BY DEF Spent, Onward

\* No gap opens while no task is made.
LEMMA NoNewGap ==
    ASSUME NoGenerationGap, Onward, NoNewTask
    PROVE  NoGenerationGap'
<1> SUFFICES ASSUME NEW i \in Issues, NEW g \in Generations, Exists(TaskOf(i, g))',
                    NEW h \in 1 .. g
             PROVE  Exists(TaskOf(i, h))'
  BY DEF NoGenerationGap
<1>1. h \in Generations
  BY QueueAssumption DEF Generations
<1>2. TaskOf(i, g) \in Tasks /\ TaskOf(i, h) \in Tasks
  BY <1>1 DEF TaskOf, Tasks
<1>3. Exists(TaskOf(i, h))
  BY <1>2 DEF NoGenerationGap, NoNewTask
<1> QED
  BY <1>2, <1>3 DEF Onward

\* Nor when the task that is made has all the generations before it.
LEMMA NewTaskLeavesNoGap ==
    ASSUME NoGenerationGap, Onward, NEW i \in Issues, NEW g \in Generations,
           \A u \in Tasks : Exists(u)' => u = TaskOf(i, g) \/ Exists(u),
           Exists(TaskOf(i, g))',
           \A h \in Generations : h < g => Exists(TaskOf(i, h))
    PROVE  NoGenerationGap'
<1> SUFFICES ASSUME NEW j \in Issues, NEW k \in Generations, Exists(TaskOf(j, k))',
                    NEW h \in 1 .. k
             PROVE  Exists(TaskOf(j, h))'
  BY DEF NoGenerationGap
<1>1. h \in Generations /\ h \in Nat /\ k \in Nat /\ g \in Nat /\ h <= k
  BY QueueAssumption DEF Generations
<1>2. TaskOf(j, k) \in Tasks /\ TaskOf(j, h) \in Tasks
  BY <1>1 DEF TaskOf, Tasks
<1>3. CASE Exists(TaskOf(j, k))
  BY <1>2, <1>3 DEF NoGenerationGap, Onward
<1>4. CASE TaskOf(j, k) = TaskOf(i, g)
  <2>1. j = i /\ k = g
    BY <1>4 DEF TaskOf
  <2>2. CASE h = k
    BY <2>1, <2>2
  <2>3. CASE h < k
    BY <1>1, <1>2, <2>1, <2>3 DEF Onward
  <2> QED
    BY <1>1, <2>2, <2>3
<1> QED
  BY <1>2, <1>3, <1>4

-----------------------------------------------------------------------------
(* The initial states.                                                     *)

LEMMA InitIInv == ASSUME Init PROVE IInv
<1>1. NoTask \in TaskRecord
  BY DEF NoTask, NoBody, TaskRecord, Stages, Ages, Bodies
<1>2. QueueTypeOK
  BY <1>1, QueueAssumption DEF Init, QueueInit, QueueTypeOK
<1>3. issue \in [Issues -> IssueRecord]
  <2>1. \A l \in SUBSET Labels : [open |-> TRUE, labels |-> l, text |-> 0] \in IssueRecord
    BY PromoteAssumption DEF IssueRecord
  <2> QED
    BY <2>1 DEF Init
<1>4. prom = Idle /\ 1 \in Generations
  BY QueueAssumption DEF Init, Generations
<1>5. TypeOK
  BY <1>2, <1>3, <1>4 DEF TypeOK, Idle
<1>6. \A i \in Issues : \A g \in Generations : ~Exists(TaskOf(i, g))
  BY DEF Init, QueueInit, Exists, NoTask, TaskOf, Tasks
<1> QED
  BY <1>4, <1>5, <1>6 DEF IInv, NoGenerationGap, PassedOver, Found, Idle

-----------------------------------------------------------------------------
(* A step that leaves the process where it is.                             *)

LEMMA OthersKeep ==
    ASSUME IInv, prom' = prom, Onward, NoGenerationGap',
           task' \in [Tasks -> TaskRecord], faults' \in 0 .. MaxFaults,
           issue' \in [Issues -> IssueRecord]
    PROVE  IInv'
<1>1. TypeOK'
  BY DEF IInv, TypeOK, QueueTypeOK
<1>2. Current' = Current /\ Key' = Key
  BY DEF Current, Key
<1>3. PassedOver'
  <2> SUFFICES ASSUME prom.pc \in {"retry", "created", "unlabel"}, prom.todo # {},
                      NEW h \in Generations, h < prom.gen
               PROVE  Spent(TaskOf(Current.issue, h), Current.body)'
    BY <1>2 DEF PassedOver, Spent, Exists, Live
  <2>1. TaskOf(Current.issue, h) \in Tasks
    BY EntryAtHand DEF IInv, TaskOf, Tasks
  <2>2. Spent(TaskOf(Current.issue, h), Current.body)
    BY DEF IInv, PassedOver
  <2> QED
    BY <1>2, <2>1, <2>2, SpentStays DEF Spent, Exists, Live
<1>4. Found'
  <2> SUFFICES ASSUME prom.pc \in {"created", "unlabel"}
               PROVE  Exists(Key)' /\ task'[Key].body = Current.body
    BY <1>2 DEF Found
  <2>1. Key \in Tasks
    BY EntryAtHand DEF IInv, TypeOK
  <2> QED
    BY <1>2, <2>1 DEF IInv, Found, Onward, Exists
<1> QED
  BY <1>1, <1>3, <1>4 DEF IInv

LEMMA QueueStill ==
    ASSUME IInv, task' = task
    PROVE  /\ Onward /\ NoNewTask /\ NoGenerationGap'
           /\ task' \in [Tasks -> TaskRecord]
           /\ faults' = faults => faults' \in 0 .. MaxFaults
<1>1. Onward /\ NoNewTask
  BY DEF Onward, NoNewTask, Exists
<1> QED
  BY <1>1, NoNewGap DEF IInv, TypeOK, QueueTypeOK

LEMMA WebhookKeeps == ASSUME IInv, NEW i \in Issues, WebhookPromote(i) PROVE IInv'
<1>1. TaskOf(i, 1) \in Tasks /\ 1 \in Generations
  BY QueueAssumption DEF TaskOf, Tasks, Generations
<1>2. WebhookBody(i) \in Bodies
  BY PromoteAssumption DEF WebhookBody, Bodies, IInv, TypeOK, IssueRecord
<1>3. /\ task' \in [Tasks -> TaskRecord] /\ Onward /\ Exists(TaskOf(i, 1))'
      /\ \A u \in Tasks : Exists(u)' => u = TaskOf(i, 1) \/ Exists(u)
  BY <1>1, <1>2, CreateTaskDoes DEF WebhookPromote, IInv, TypeOK
<1>4. \A h \in Generations : ~(h < 1)
  BY DEF Generations
<1>5. NoGenerationGap'
  BY <1>1, <1>3, <1>4, NewTaskLeavesNoGap DEF IInv
<1> QED
  BY <1>3, <1>5, OthersKeep DEF WebhookPromote, IInv, TypeOK, QueueTypeOK

LEMMA OperatorKeeps ==
    ASSUME IInv, NEW i \in Issues, OperatorLabels(i) \/ OperatorEdits(i) \/ IssueCloses(i)
    PROVE  IInv'
<1>0. issue \in [Issues -> IssueRecord] /\ MaxEdits \in Nat
  BY PromoteAssumption DEF IInv, TypeOK
<1>1. issue' \in [Issues -> IssueRecord]
  <2>1. CASE OperatorLabels(i)
    <3>1. PICK label \in Labels : issue' = [issue EXCEPT ![i].labels =
                    IF label = "needs-operator" THEN @ \ {label} ELSE @ \cup {label}]
      BY <2>1 DEF OperatorLabels
    <3>2. (IF label = "needs-operator" THEN issue[i].labels \ {label}
                                       ELSE issue[i].labels \cup {label}) \in SUBSET Labels
      BY <1>0 DEF IssueRecord
    <3> QED
      BY <1>0, <3>1, <3>2 DEF IssueRecord
  <2>2. CASE OperatorEdits(i)
    <3>1. issue[i].text + 1 \in 0 .. MaxEdits
      BY <1>0, <2>2 DEF OperatorEdits, IssueRecord
    <3> QED
      BY <1>0, <2>2, <3>1 DEF OperatorEdits, IssueRecord
  <2>3. CASE IssueCloses(i)
    BY <1>0, <2>3 DEF IssueCloses, IssueRecord
  <2> QED
    BY <2>1, <2>2, <2>3
<1>2. task' = task /\ faults' = faults /\ prom' = prom
  BY DEF OperatorLabels, OperatorEdits, IssueCloses
<1> QED
  BY <1>1, <1>2, QueueStill, OthersKeep

LEMMA TaskEndsKeeps == ASSUME IInv, NEW t \in Tasks, TaskEnds(t) PROVE IInv'
<1>1. task' \in [Tasks -> TaskRecord] /\ faults' = faults /\ Onward /\ NoNewTask
  BY TaskEndsDoes DEF IInv
<1>2. issue' = issue /\ prom' = prom
  BY DEF TaskEnds
<1> QED
  BY <1>1, <1>2, NoNewGap, OthersKeep DEF IInv, TypeOK, QueueTypeOK

-----------------------------------------------------------------------------
(* A step of the process.                                                  *)

Procs == [pc : {"idle", "ready", "retry", "created", "unlabel"},
          todo : SUBSET Entry, gen : Generations]

\* Where nothing is found yet, and no generation passed over, nothing is claimed.
LEMMA FreshStartKeeps ==
    ASSUME IInv, Onward, NoGenerationGap',
           task' \in [Tasks -> TaskRecord], faults' \in 0 .. MaxFaults,
           issue' \in [Issues -> IssueRecord],
           prom' \in Procs, prom'.pc \in {"idle", "ready", "retry"}, prom'.gen = 1
    PROVE  IInv'
<1>1. TypeOK'
  BY DEF IInv, TypeOK, QueueTypeOK, Procs
<1>2. \A h \in Generations : ~(h < 1)
  BY DEF Generations
<1> QED
  BY <1>1, <1>2 DEF IInv, PassedOver, Found

LEMMA NextEntryFine ==
    ASSUME IInv
    PROVE  NextEntry \in Procs /\ NextEntry.pc = "retry" /\ NextEntry.gen = 1
<1>1. prom \in Procs /\ 1 \in Generations
  BY QueueAssumption DEF IInv, TypeOK, Procs, Generations
<1> QED
  BY <1>1 DEF NextEntry, Procs

\* The next generation is tried once the one at hand is spent.
LEMMA NextGenerationKeeps ==
    ASSUME IInv, UNCHANGED <<task, issue>>, faults' \in 0 .. MaxFaults,
           prom.todo # {}, prom.pc \in {"retry", "created", "unlabel"},
           Spent(Key, Current.body), prom' = NextGeneration
    PROVE  IInv'
<1>0. prom \in Procs /\ MaxGenerations \in Nat /\ issue' \in [Issues -> IssueRecord]
  BY QueueAssumption DEF IInv, TypeOK, Procs
<1>1. CASE prom.gen < MaxGenerations
  <2>1. prom.gen + 1 \in Generations /\ prom.gen \in Nat
    BY <1>0, <1>1 DEF Procs, Generations
  <2>2. /\ prom' \in Procs /\ prom'.pc = "retry" /\ prom'.gen = prom.gen + 1
        /\ prom'.todo = prom.todo
    BY <1>0, <1>1, <2>1 DEF NextGeneration, Procs
  <2>3. Current' = Current
    BY <2>2 DEF Current
  <2>4. TypeOK'
    BY <2>2 DEF IInv, TypeOK, QueueTypeOK, Procs
  <2>5. PassedOver'
    <3> SUFFICES ASSUME NEW h \in Generations, h < prom.gen + 1
                 PROVE  Spent(TaskOf(Current.issue, h), Current.body)
      BY <2>2, <2>3 DEF PassedOver, Spent, Exists, Live
    <3>1. CASE h < prom.gen
      BY <3>1 DEF IInv, PassedOver
    <3>2. CASE h = prom.gen
      BY <3>2 DEF Key
    <3> QED
      BY <2>1, <3>1, <3>2 DEF Generations
  <2> QED
    BY <2>2, <2>4, <2>5, QueueStill DEF IInv, Found
<1>2. CASE ~(prom.gen < MaxGenerations)
  <2>1. prom' = NextEntry
    BY <1>2 DEF NextGeneration
  <2> QED
    BY <1>0, <2>1, NextEntryFine, QueueStill, FreshStartKeeps
<1> QED
  BY <1>1, <1>2

LEMMA StartKeeps == ASSUME IInv, PromoteStart \/ PromoteListRetries PROVE IInv'
<1>1. PICK label \in {"status:ready", "status:retry"}, pc \in {"ready", "retry"} : \E listing \in ListOpenIssues(label) :
          prom' = [Idle EXCEPT !.pc = pc, !.todo = Snapshot(listing)]
  BY DEF PromoteStart, PromoteListRetries
<1>2. PICK listing \in ListOpenIssues(label) :
          prom' = [Idle EXCEPT !.pc = pc, !.todo = Snapshot(listing)]
  BY <1>1
<1>3. listing \subseteq Issues
  BY DEF ListOpenIssues
<1>4. \A i \in Issues : Body(i) \in Bodies
  BY PromoteAssumption DEF Body, Bodies, IInv, TypeOK, IssueRecord
<1>5. Snapshot(listing) \in SUBSET Entry
  BY <1>3, <1>4 DEF Snapshot, Entry
<1>6. prom' \in Procs /\ prom'.pc = pc /\ prom'.gen = 1
  <2>1. 1 \in Generations
    BY QueueAssumption DEF Generations
  <2> QED
    BY <1>2, <1>5, <2>1 DEF Idle, Procs
<1>7. UNCHANGED <<task, faults, issue>>
  BY DEF PromoteStart, PromoteListRetries
<1> QED
  BY <1>6, <1>7, QueueStill, FreshStartKeeps DEF IInv, TypeOK

LEMMA EndKeeps == ASSUME IInv, PromoteEnd \/ PromoteAbort PROVE IInv'
<1>1. prom' = Idle /\ UNCHANGED <<task, issue>> /\ (faults' = faults \/ Fault)
  BY DEF PromoteEnd, PromoteAbort
<1>2. prom' \in Procs /\ prom'.pc = "idle" /\ prom'.gen = 1
  BY <1>1, QueueAssumption DEF Idle, Procs, Generations
<1>3. faults' \in 0 .. MaxFaults
  BY <1>1, FaultFine DEF IInv, TypeOK, QueueTypeOK
<1> QED
  BY <1>1, <1>2, <1>3, QueueStill, FreshStartKeeps DEF IInv, TypeOK

LEMMA PromoteIssueKeeps == ASSUME IInv, PromoteIssue PROVE IInv'
<1>0. /\ prom \in Procs /\ prom.pc = "ready" /\ prom.todo # {} /\ 1 \in Generations
      /\ Current.issue \in Issues /\ Current.body \in Bodies
      /\ issue' \in [Issues -> IssueRecord]
  BY EntryAtHand, QueueAssumption DEF IInv, TypeOK, Procs, PromoteIssue, Generations
<1>1. PICK i \in Issues, body \in Bodies : i = Current.issue /\ body = Current.body
  BY <1>0
<1>2. prom' \in Procs /\ prom'.pc = "ready"
  BY <1>0 DEF PromoteIssue, Procs
<1>3. /\ CreateTask(TaskOf(i, 1), body) \/ task' = task
      /\ faults' = faults \/ Fault
  BY <1>1 DEF PromoteIssue
<1>4. faults' \in 0 .. MaxFaults
  BY <1>3, FaultFine DEF IInv, TypeOK, QueueTypeOK
<1>5. Onward /\ task' \in [Tasks -> TaskRecord] /\ NoGenerationGap'
  <2>1. CASE CreateTask(TaskOf(i, 1), body)
    <3>0. TaskOf(i, 1) \in Tasks
      BY <1>0 DEF TaskOf, Tasks
    <3>1. /\ task' \in [Tasks -> TaskRecord] /\ Onward /\ Exists(TaskOf(i, 1))'
          /\ \A u \in Tasks : Exists(u)' => u = TaskOf(i, 1) \/ Exists(u)
      BY <2>1, <3>0, CreateTaskDoes DEF IInv, TypeOK
    <3>2. \A h \in Generations : ~(h < 1)
      BY DEF Generations
    <3> QED
      BY <1>0, <3>1, <3>2, NewTaskLeavesNoGap DEF IInv
  <2>2. CASE task' = task
    BY <2>2, QueueStill
  <2> QED
    BY <1>3, <2>1, <2>2
<1>6. TypeOK'
  BY <1>0, <1>2, <1>4, <1>5 DEF TypeOK, QueueTypeOK, Procs
<1> QED
  BY <1>2, <1>5, <1>6 DEF IInv, PassedOver, Found

\* The queue gains the key at hand, below which every generation is there.
LEMMA KeyCreated ==
    ASSUME IInv, prom.pc = "retry", prom.todo # {}, CreateTask(Key, Current.body)
    PROVE  /\ Onward /\ task' \in [Tasks -> TaskRecord] /\ NoGenerationGap'
           /\ task'[Key].stage # "absent"
           /\ \A u \in Tasks : Exists(u)' => u = Key \/ Exists(u)
           /\ ~Exists(Key) \/ task[Key].body = Current.body => task'[Key].body = Current.body
<1>0. Current.issue \in Issues /\ Current.body \in Bodies /\ prom.gen \in Generations
  BY EntryAtHand DEF IInv
<1>1. PICK i \in Issues, g \in Generations, body \in Bodies :
          i = Current.issue /\ g = prom.gen /\ body = Current.body
  BY <1>0
<1>2. Key = TaskOf(i, g) /\ TaskOf(i, g) \in Tasks /\ CreateTask(TaskOf(i, g), body)
  BY <1>1 DEF Key, TaskOf, Tasks
<1>3. /\ task' \in [Tasks -> TaskRecord] /\ Onward /\ Exists(TaskOf(i, g))'
      /\ \A u \in Tasks : Exists(u)' => u = TaskOf(i, g) \/ Exists(u)
      /\ ~Exists(TaskOf(i, g)) => task'[TaskOf(i, g)].body = body
  BY <1>2, CreateTaskDoes DEF IInv, TypeOK
<1>4. \A h \in Generations : h < g => Exists(TaskOf(i, h))
  BY <1>1 DEF IInv, PassedOver, Spent
<1>5. NoGenerationGap'
  BY <1>3, <1>4, NewTaskLeavesNoGap DEF IInv
<1>6. Exists(TaskOf(i, g)) => task'[TaskOf(i, g)].body = task[TaskOf(i, g)].body
  BY <1>2, <1>3 DEF Onward
<1>7. task'[TaskOf(i, g)].stage # "absent"
  BY <1>3 DEF Exists
<1> QED
  BY <1>1, <1>2, <1>3, <1>5, <1>6, <1>7

LEMMA RetryCreateKeeps == ASSUME IInv, RetryCreate PROVE IInv'
<1>0. prom.pc = "retry" /\ prom.todo # {} /\ issue' = issue
  BY DEF RetryCreate
<1>1. CASE Conflicts(Key, Current.body) /\ prom' = NextGeneration /\ UNCHANGED <<task, faults>>
  <2>1. Spent(Key, Current.body)
    BY <1>1 DEF Conflicts, Spent
  <2> QED
    BY <1>0, <1>1, <2>1, NextGenerationKeeps DEF IInv, TypeOK, QueueTypeOK
<1>2. CASE /\ ~Conflicts(Key, Current.body) /\ CreateTask(Key, Current.body)
           /\ prom' = [prom EXCEPT !.pc = "created"] /\ UNCHANGED faults
  <2>1. /\ Onward /\ task' \in [Tasks -> TaskRecord] /\ NoGenerationGap'
        /\ task'[Key].stage # "absent" /\ task'[Key].body = Current.body
    BY <1>0, <1>2, KeyCreated DEF Conflicts
  <2>2. /\ prom' \in Procs /\ prom'.pc = "created" /\ prom'.todo = prom.todo
        /\ prom'.gen = prom.gen
    BY <1>2 DEF IInv, TypeOK, Procs
  <2>3. Current' = Current /\ Key' = Key
    BY <2>2 DEF Current, Key
  <2>4. TypeOK'
    BY <1>0, <1>2, <2>1, <2>2 DEF IInv, TypeOK, QueueTypeOK, Procs
  <2>5. Found'
    BY <2>1, <2>3 DEF Found, Exists
  <2>6. PassedOver'
    <3> SUFFICES ASSUME NEW h \in Generations, h < prom.gen
                 PROVE  Spent(TaskOf(Current.issue, h), Current.body)'
      BY <2>2, <2>3 DEF PassedOver, Spent, Exists, Live
    <3>1. TaskOf(Current.issue, h) \in Tasks
      BY <1>0, EntryAtHand DEF IInv, TaskOf, Tasks
    <3>2. Spent(TaskOf(Current.issue, h), Current.body)
      BY <1>0 DEF IInv, PassedOver
    <3> QED
      BY <2>1, <2>3, <3>1, <3>2, SpentStays DEF Spent, Exists, Live
  <2> QED
    BY <2>1, <2>4, <2>5, <2>6 DEF IInv
<1> QED
  BY <1>1, <1>2 DEF RetryCreate

LEMMA RetryCreateFailsKeeps == ASSUME IInv, RetryCreateFails PROVE IInv'
<1>0. /\ prom.pc = "retry" /\ prom.todo # {} /\ issue' = issue /\ Fault /\ prom' = NextEntry
      /\ UNCHANGED task \/ CreateTask(Key, Current.body)
  BY DEF RetryCreateFails
<1>1. Onward /\ task' \in [Tasks -> TaskRecord] /\ NoGenerationGap'
  BY <1>0, KeyCreated, QueueStill
<1>2. faults' \in 0 .. MaxFaults
  BY <1>0, FaultFine DEF IInv
<1> QED
  BY <1>0, <1>1, <1>2, NextEntryFine, FreshStartKeeps DEF IInv, TypeOK

LEMMA RetryGetKeeps == ASSUME IInv, RetryGet PROVE IInv'
<1>0. prom.pc = "created" /\ prom.todo # {} /\ UNCHANGED <<task, issue>>
  BY DEF RetryGet, IInv, TypeOK
<1>1. CASE Live(task[Key]) /\ prom' = [prom EXCEPT !.pc = "unlabel"] /\ UNCHANGED faults
  <2>1. /\ prom' \in Procs /\ prom'.pc = "unlabel" /\ prom'.todo = prom.todo
        /\ prom'.gen = prom.gen
    BY <1>1 DEF IInv, TypeOK, Procs
  <2>2. Current' = Current /\ Key' = Key
    BY <2>1 DEF Current, Key
  <2> QED
    BY <1>0, <1>1, <2>1, <2>2, QueueStill
    DEF IInv, TypeOK, QueueTypeOK, Procs, Found, PassedOver, Spent, Exists, Live
<1>2. CASE ~Live(task[Key]) /\ prom' = NextGeneration /\ UNCHANGED faults
  <2>1. Spent(Key, Current.body)
    BY <1>0, <1>2 DEF IInv, Found, Spent
  <2> QED
    BY <1>0, <1>2, <2>1, NextGenerationKeeps DEF IInv, TypeOK, QueueTypeOK
<1>3. CASE prom' = NextEntry /\ Fault
  <2>1. faults' \in 0 .. MaxFaults
    BY <1>3, FaultFine DEF IInv
  <2> QED
    BY <1>0, <1>3, <2>1, NextEntryFine, QueueStill, FreshStartKeeps DEF IInv, TypeOK
<1> QED
  BY <1>1, <1>2, <1>3 DEF RetryGet

LEMMA RetryUnlabelKeeps == ASSUME IInv, RetryUnlabel PROVE IInv'
<1>0. /\ prom.pc = "unlabel" /\ prom.todo # {} /\ prom' = NextEntry /\ task' = task
      /\ faults' = faults \/ Fault
  BY DEF RetryUnlabel, IInv, TypeOK
<1>1. Current.issue \in Issues
  BY <1>0, EntryAtHand DEF IInv
<1>2. issue' \in [Issues -> IssueRecord]
  BY <1>1 DEF RetryUnlabel, IInv, TypeOK, IssueRecord
<1>3. faults' \in 0 .. MaxFaults
  BY <1>0, FaultFine DEF IInv, TypeOK, QueueTypeOK
<1> QED
  BY <1>0, <1>2, <1>3, NextEntryFine, QueueStill, FreshStartKeeps

-----------------------------------------------------------------------------
(* The invariant.                                                          *)

LEMMA NextKeeps == ASSUME IInv, [Next]_promoteVars PROVE IInv'
<1>1. CASE Promote
  BY <1>1, StartKeeps, PromoteIssueKeeps, EndKeeps, RetryCreateKeeps, RetryCreateFailsKeeps,
     RetryGetKeeps, RetryUnlabelKeeps DEF Promote
<1>2. CASE Environment
  BY <1>2, EndKeeps, WebhookKeeps, OperatorKeeps, TaskEndsKeeps DEF Environment
<1>3. CASE UNCHANGED promoteVars
  BY <1>3, QueueStill, OthersKeep DEF promoteVars, IInv, TypeOK
<1> QED
  BY <1>1, <1>2, <1>3 DEF Next

\* The strengthening is an invariant of promote and of everything beside it.
THEOREM Inductive == Spec => []IInv
<1>1. Init => IInv
  BY InitIInv
<1>2. IInv /\ [Next]_promoteVars => IInv'
  BY NextKeeps
<1> QED
  BY <1>1, <1>2, PTL DEF Spec

-----------------------------------------------------------------------------
(* What follows from it.                                                   *)

\* Issues, tasks and the process have their types for every set of issues.
THEOREM TypeCorrect == Spec => []TypeOK
<1>1. IInv => TypeOK
  BY DEF IInv
<1> QED
  BY <1>1, Inductive, PTL

\* retryIssue uses the generations in order, without a gap, whatever fails, is
\* killed or is made by the webhook receiver in between.
THEOREM GenerationsHaveNoGap == Spec => []NoGenerationGap
<1>1. IInv => NoGenerationGap
  BY DEF IInv
<1> QED
  BY <1>1, Inductive, PTL

\* status:retry is removed only for a stored attempt that has the body the issue
\* had in this tick's listing.
THEOREM LabelIsConsumedByAnAttempt == Spec => []RetryLabelConsumedByAnAttempt
<1>1. IInv => RetryLabelConsumedByAnAttempt
  BY DEF IInv, Found, RetryLabelConsumedByAnAttempt
<1> QED
  BY <1>1, Inductive, PTL

\* A fresh attempt follows one that is dead or that was of another text.
THEOREM FreshAttemptsHaveACause == Spec => FreshAttemptNeedsACause
<1> DEFINE Caused ==
        \A i \in Issues : \A g \in Generations \ {1} :
          (~Exists(TaskOf(i, g)) /\ Exists(TaskOf(i, g))') =>
              \/ ~Live(task[TaskOf(i, g - 1)])
              \/ task[TaskOf(i, g - 1)].body # task'[TaskOf(i, g)].body
<1>1. IInv /\ [Next]_promoteVars => [Caused]_promoteVars
  <2> SUFFICES ASSUME IInv, Next, NEW i \in Issues, NEW g \in Generations \ {1},
                      ~Exists(TaskOf(i, g)), Exists(TaskOf(i, g))'
               PROVE  \/ ~Live(task[TaskOf(i, g - 1)])
                      \/ task[TaskOf(i, g - 1)].body # task'[TaskOf(i, g)].body
    OBVIOUS
  <2>1. /\ TaskOf(i, g) \in Tasks /\ g - 1 \in Generations /\ g - 1 < g
        /\ \A j \in Issues : TaskOf(j, 1) # TaskOf(i, g)
    BY QueueAssumption DEF TaskOf, Tasks, Generations
  <2>2. task' # task
    BY DEF Exists
  <2>3. ~(NoNewTask)
    BY <2>1 DEF NoNewTask
  <2>4. ASSUME NEW t \in Tasks, TaskEnds(t) PROVE FALSE
    BY <2>3, <2>4, TaskEndsDoes DEF IInv
  <2>5. ASSUME NEW j \in Issues, NEW body \in Bodies, CreateTask(TaskOf(j, 1), body) PROVE FALSE
    <3>1. TaskOf(j, 1) \in Tasks
      BY QueueAssumption DEF TaskOf, Tasks, Generations
    <3> QED
      BY <2>1, <2>5, <3>1, CreateTaskDoes DEF IInv, TypeOK
  <2>6. ASSUME NEW j \in Issues, WebhookPromote(j) PROVE FALSE
    <3>1. WebhookBody(j) \in Bodies
      BY PromoteAssumption DEF WebhookBody, Bodies, IInv, TypeOK, IssueRecord
    <3>2. PICK body \in Bodies : body = WebhookBody(j)
      BY <3>1
    <3> QED
      BY <2>5, <2>6, <3>2 DEF WebhookPromote
  <2>7. ASSUME PromoteIssue PROVE FALSE
    <3>1. Current.issue \in Issues /\ Current.body \in Bodies
      BY <2>7, EntryAtHand DEF PromoteIssue, IInv
    <3>2. PICK j \in Issues, body \in Bodies : j = Current.issue /\ body = Current.body
      BY <3>1
    <3> QED
      BY <2>2, <2>5, <2>7, <3>2 DEF PromoteIssue
  <2>8. CASE RetryCreate \/ RetryCreateFails
    <3>1. prom.pc = "retry" /\ prom.todo # {} /\ CreateTask(Key, Current.body)
      BY <2>2, <2>8 DEF RetryCreate, RetryCreateFails
    <3>2. TaskOf(i, g) = Key
      BY <2>1, <3>1, KeyCreated
    <3>3. i = Current.issue /\ g = prom.gen
      BY <3>2 DEF Key, TaskOf
    <3>4. task'[TaskOf(i, g)].body = Current.body
      BY <3>1, <3>2, KeyCreated
    <3>5. Spent(TaskOf(i, g - 1), Current.body)
      BY <2>1, <3>1, <3>3 DEF IInv, PassedOver
    <3> QED
      BY <3>4, <3>5 DEF Spent
  <2> QED
    BY <2>2, <2>4, <2>6, <2>7, <2>8 DEF Next, Promote, Environment, PromoteStart,
       PromoteListRetries, PromoteEnd, RetryGet, RetryUnlabel, PromoteAbort, OperatorLabels,
       OperatorEdits, IssueCloses
<1> QED
  BY <1>1, Inductive, PTL DEF Spec, FreshAttemptNeedsACause
=============================================================================
