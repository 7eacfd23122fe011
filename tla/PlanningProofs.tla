--------------------------- MODULE PlanningProofs ---------------------------
(***************************************************************************)
(* What holds of the planning rows - pages, documents, sprints, backlog    *)
(* and tasks - for every value of the constants, component by component.   *)
(***************************************************************************)
EXTENDS Delivery, Sequences, FiniteSetTheorems, TLAPS

-----------------------------------------------------------------------------
(* Pages that become tasks.                                                *)

KnowledgeRuns ==
    [pc : {"idle", "row", "create", "bind"}, rows : SUBSET Knowledge!Row,
     pipeline : Pipelines \cup {None}, taken : Knowledge!Row \cup {None}, task : Knowledge!Task \cup {None}]
KnowledgeHands == v4 \in [Hands -> KnowledgeRuns]
KnowledgeTypes ==
    /\ v5 \subseteq Knowledge!Row /\ v2 \subseteq Knowledge!Task
    /\ v3 \in [Machines -> [Pages -> v2 \cup {None}]] /\ faults \in 0 .. MaxFaults
KnowledgePages == v1 \in [Pages -> [ready : BOOLEAN, title : Titles]]

\* One goes on with a record of its own, and the others with theirs.
LEMMA KnowledgeGoes ==
    ASSUME KnowledgeHands, NEW h \in Hands, NEW r \in KnowledgeRuns, v4' = [v4 EXCEPT ![h] = r]
    PROVE  /\ KnowledgeHands' /\ v4'[h] = r
           /\ \A g \in Hands : g # h => v4'[g] = v4[g]
BY DEF KnowledgeHands

LEMMA KnowledgeRecords ==
    /\ Knowledge!Idle \in KnowledgeRuns
    /\ \A pc \in {"idle", "row", "create", "bind"}, rows \in SUBSET Knowledge!Row, pipeline \in Pipelines \cup {None} :
          [Knowledge!Idle EXCEPT !.pc = pc, !.rows = rows, !.pipeline = pipeline] \in KnowledgeRuns
    /\ \A r \in KnowledgeRuns, rows \in SUBSET Knowledge!Row :
          [r EXCEPT !.rows = rows] \in KnowledgeRuns
    /\ \A r \in KnowledgeRuns, rows \in SUBSET Knowledge!Row, pc \in {"idle", "row", "create", "bind"}, taken \in Knowledge!Row \cup {None} :
          [r EXCEPT !.rows = rows, !.pc = pc, !.taken = taken] \in KnowledgeRuns
    /\ \A r \in KnowledgeRuns, pc \in {"idle", "row", "create", "bind"}, task \in Knowledge!Task \cup {None} :
          [r EXCEPT !.pc = pc, !.task = task] \in KnowledgeRuns
    /\ \A r \in KnowledgeRuns, pc \in {"idle", "row", "create", "bind"}, taken \in Knowledge!Row \cup {None}, task \in Knowledge!Task \cup {None} :
          [r EXCEPT !.pc = pc, !.taken = taken, !.task = task] \in KnowledgeRuns
<1>1. Knowledge!Idle \in KnowledgeRuns
  BY ConstantsAssumption DEF Knowledge!Idle, KnowledgeRuns
<1>2. \A pc \in {"idle", "row", "create", "bind"}, rows \in SUBSET Knowledge!Row, pipeline \in Pipelines \cup {None} :
          [Knowledge!Idle EXCEPT !.pc = pc, !.rows = rows, !.pipeline = pipeline] \in KnowledgeRuns
  BY <1>1 DEF KnowledgeRuns
<1>3. \A r \in KnowledgeRuns, rows \in SUBSET Knowledge!Row :
          [r EXCEPT !.rows = rows] \in KnowledgeRuns
  BY <1>1 DEF KnowledgeRuns
<1>4. \A r \in KnowledgeRuns, rows \in SUBSET Knowledge!Row, pc \in {"idle", "row", "create", "bind"}, taken \in Knowledge!Row \cup {None} :
          [r EXCEPT !.rows = rows, !.pc = pc, !.taken = taken] \in KnowledgeRuns
  BY <1>1 DEF KnowledgeRuns
<1>5. \A r \in KnowledgeRuns, pc \in {"idle", "row", "create", "bind"}, task \in Knowledge!Task \cup {None} :
          [r EXCEPT !.pc = pc, !.task = task] \in KnowledgeRuns
  BY <1>1 DEF KnowledgeRuns
<1>6. \A r \in KnowledgeRuns, pc \in {"idle", "row", "create", "bind"}, taken \in Knowledge!Row \cup {None}, task \in Knowledge!Task \cup {None} :
          [r EXCEPT !.pc = pc, !.taken = taken, !.task = task] \in KnowledgeRuns
  BY <1>1 DEF KnowledgeRuns
<1> QED
  BY <1>1, <1>2, <1>3, <1>4, <1>5, <1>6

LEMMA KnowledgeStarts == ASSUME Knowledge!Init PROVE Knowledge!IInv
<1>1. /\ MaxFaults \in Nat /\ v2 = {} /\ v3 = [m \in Machines |-> [p \in Pages |-> None]]
      /\ v4 = [h \in Hands |-> Knowledge!Idle] /\ v5 = Knowledge!Promotable /\ faults = 0
      /\ v1 \in [Pages -> [ready : BOOLEAN, title : Titles]]
  BY ConstantsAssumption DEF Knowledge!Init, Knowledge!PromotionAssumption
<1>2. KnowledgeHands
  BY <1>1, KnowledgeRecords DEF KnowledgeHands
<1>3. \A h \in Hands : v4[h].pc = "idle" /\ v4[h].rows = {}
  BY <1>1 DEF Knowledge!Idle
<1>4. v5 \subseteq Knowledge!Row
  BY <1>1 DEF Knowledge!Promotable
<1>5. Knowledge!TypeOK
  BY <1>1, <1>2, <1>4 DEF Knowledge!TypeOK, KnowledgeHands, KnowledgeRuns
<1> QED
  BY <1>1, <1>3, <1>5 DEF Knowledge!IInv, Knowledge!KeyIsThePage, Knowledge!PromotableIsShown, Knowledge!RunsOnShown,
     Knowledge!APageBecomesOneTask, Knowledge!At

LEMMA KnowledgeNext ==
    ASSUME Knowledge!IInv, Knowledge!Next
    PROVE  Knowledge!IInv'
<1> USE DEF Knowledge!At, Knowledge!Go, Knowledge!Fine, Knowledge!Fail, Knowledge!Key
<1> DEFINE Goal == KnowledgeHands' /\ KnowledgeTypes' /\ KnowledgePages' /\ Knowledge!KeyIsThePage' /\ Knowledge!PromotableIsShown' /\ Knowledge!RunsOnShown' /\ Knowledge!APageBecomesOneTask'
<1>0. /\ KnowledgeHands /\ KnowledgeTypes /\ KnowledgePages /\ Knowledge!KeyIsThePage /\ Knowledge!PromotableIsShown
      /\ Knowledge!RunsOnShown /\ Knowledge!APageBecomesOneTask
      /\ MachineOf \in [Hands -> Machines] /\ None \notin Pages /\ MaxFaults \in Nat
  BY ConstantsAssumption DEF Knowledge!PromotionAssumption, Knowledge!IInv, Knowledge!TypeOK, KnowledgeHands, KnowledgeRuns, KnowledgeTypes, KnowledgePages
<1>1. ASSUME NEW p \in Pages, Knowledge!EditPage(p)
      PROVE  Goal
  <2>1. KnowledgeHands'
    BY <1>0, <1>1 DEF Knowledge!EditPage, KnowledgeHands
  <2>2. KnowledgeTypes'
    BY <1>0, <1>1 DEF Knowledge!EditPage, KnowledgeTypes, Knowledge!Promotable
  <2>3. KnowledgePages'
    <3>1. PICK ready \in BOOLEAN, title \in Titles : v1' = [v1 EXCEPT ![p] = [ready |-> ready, title |-> title]]
      BY <1>1 DEF Knowledge!EditPage
    <3>2. [ready |-> ready, title |-> title] \in [ready : BOOLEAN, title : Titles]
      OBVIOUS
    <3> QED
      BY <1>0, <3>1, <3>2 DEF KnowledgePages
  <2>4. Knowledge!KeyIsThePage'
    BY <1>0, <1>1 DEF Knowledge!EditPage, Knowledge!KeyIsThePage
  <2>5. Knowledge!PromotableIsShown'
    BY <1>0, <1>1 DEF Knowledge!EditPage, Knowledge!PromotableIsShown, Knowledge!Promotable
  <2>6. Knowledge!RunsOnShown'
    BY <1>0, <1>1 DEF Knowledge!EditPage, Knowledge!RunsOnShown, Knowledge!PromotableIsShown
  <2>7. Knowledge!APageBecomesOneTask'
    BY <1>0, <1>1 DEF Knowledge!EditPage, Knowledge!APageBecomesOneTask, Knowledge!KeyIsThePage, KnowledgeTypes
  <2> QED
    BY <2>1, <2>2, <2>3, <2>4, <2>5, <2>6, <2>7
<1>2. ASSUME NEW h \in Hands, NEW pipeline \in Pipelines, Knowledge!At(h, "idle"), v4' = [v4 EXCEPT ![h] = [Knowledge!Idle EXCEPT !.pc = "row", !.rows = Knowledge!Promotable, !.pipeline = pipeline]],
         UNCHANGED <<v1, v2, v3, v5, faults>>
      PROVE  Goal
  <2>1. CASE /\ UNCHANGED <<v1, v2, v3, v5, faults>>
             /\ v4' = [v4 EXCEPT ![h] = [Knowledge!Idle EXCEPT !.pc = "row", !.rows = Knowledge!Promotable, !.pipeline = pipeline]]
    <3>h. /\ KnowledgeHands'
          /\ v4'[h].pc = "row" /\ v4'[h].rows = Knowledge!Promotable /\ v4'[h].pipeline = pipeline /\ v4'[h].taken = None /\ v4'[h].task = None
          /\ \A g \in Hands : g # h => v4'[g] = v4[g]
      <4>1. "row" \in {"idle", "row", "create", "bind"} /\ Knowledge!Promotable \in SUBSET Knowledge!Row /\ pipeline \in Pipelines \cup {None}
        BY <1>0, <2>1 DEF Knowledge!Promotable
      <4>2. [Knowledge!Idle EXCEPT !.pc = "row", !.rows = Knowledge!Promotable, !.pipeline = pipeline] \in KnowledgeRuns
        BY <1>0, <4>1, KnowledgeRecords DEF KnowledgeHands
      <4>3. LET r == [Knowledge!Idle EXCEPT !.pc = "row", !.rows = Knowledge!Promotable, !.pipeline = pipeline] IN r.pc = "row" /\ r.rows = Knowledge!Promotable /\ r.pipeline = pipeline /\ r.taken = None /\ r.task = None
        BY DEF Knowledge!Idle
      <4> HIDE DEF Knowledge!Idle
      <4> DEFINE r == [Knowledge!Idle EXCEPT !.pc = "row", !.rows = Knowledge!Promotable, !.pipeline = pipeline]
      <4>4. v4' = [v4 EXCEPT ![h] = r]
        BY <2>1
      <4>5. r \in KnowledgeRuns /\ r.pc = "row" /\ r.rows = Knowledge!Promotable /\ r.pipeline = pipeline /\ r.taken = None /\ r.task = None
        BY <4>2, <4>3
      <4> HIDE DEF r
      <4> QED
        BY <1>0, <4>4, <4>5, KnowledgeGoes
    <3>1. KnowledgeHands'
      BY <3>h
    <3>2. KnowledgeTypes'
      BY <1>0, <2>1, <3>h DEF KnowledgeTypes
    <3>3. KnowledgePages'
      BY <1>0, <2>1, <3>h DEF KnowledgePages
    <3>4. Knowledge!KeyIsThePage'
      BY <1>0, <2>1, <3>h DEF Knowledge!KeyIsThePage
    <3>5. Knowledge!PromotableIsShown'
      BY <1>0, <2>1, <3>h DEF Knowledge!PromotableIsShown, Knowledge!Promotable
    <3>6. Knowledge!RunsOnShown'
      BY <1>0, <2>1, <3>h DEF Knowledge!RunsOnShown, Knowledge!PromotableIsShown
    <3>7. Knowledge!APageBecomesOneTask'
      BY <1>0, <2>1, <3>h DEF Knowledge!APageBecomesOneTask, Knowledge!KeyIsThePage, KnowledgeTypes
    <3> QED
      BY <3>1, <3>2, <3>3, <3>4, <3>5, <3>6, <3>7
  <2> QED
    BY <1>2, <2>1 DEF Knowledge!At
<1>3. ASSUME NEW h \in Hands, NEW row \in v4[h].rows, v4[h].pc = "row", UNCHANGED <<v1, v2, v3, v5>>, (Knowledge!Fine \/ Knowledge!Fail),
         v4' \in {[v4 EXCEPT ![h] = [v4[h] EXCEPT !.rows = @ \ {row}]], [v4 EXCEPT ![h] = [[v4[h] EXCEPT !.rows = @ \ {row}] EXCEPT !.pc = "create", !.taken = row]]}
      PROVE  Goal
  <2>1. CASE /\ UNCHANGED <<v1, v2, v3, v5>>
             /\ (Knowledge!Fine \/ Knowledge!Fail)
             /\ v4' = [v4 EXCEPT ![h] = [v4[h] EXCEPT !.rows = v4[h].rows \ {row}]]
    <3>h. /\ KnowledgeHands'
          /\ v4'[h].pc = v4[h].pc /\ v4'[h].rows = v4[h].rows \ {row} /\ v4'[h].pipeline = v4[h].pipeline /\ v4'[h].taken = v4[h].taken /\ v4'[h].task = v4[h].task
          /\ \A g \in Hands : g # h => v4'[g] = v4[g]
      <4>1. v4[h].rows \ {row} \in SUBSET Knowledge!Row
        BY <1>0, <2>1 DEF KnowledgeHands, KnowledgeRuns
      <4>2. [v4[h] EXCEPT !.rows = v4[h].rows \ {row}] \in KnowledgeRuns
        BY <1>0, <4>1, KnowledgeRecords DEF KnowledgeHands
      <4>3. LET r == [v4[h] EXCEPT !.rows = v4[h].rows \ {row}] IN r.pc = v4[h].pc /\ r.rows = v4[h].rows \ {row} /\ r.pipeline = v4[h].pipeline /\ r.taken = v4[h].taken /\ r.task = v4[h].task
        BY <1>0 DEF KnowledgeHands, KnowledgeRuns
      <4> HIDE DEF Knowledge!Idle
      <4> DEFINE r == [v4[h] EXCEPT !.rows = v4[h].rows \ {row}]
      <4>4. v4' = [v4 EXCEPT ![h] = r]
        BY <2>1
      <4>5. r \in KnowledgeRuns /\ r.pc = v4[h].pc /\ r.rows = v4[h].rows \ {row} /\ r.pipeline = v4[h].pipeline /\ r.taken = v4[h].taken /\ r.task = v4[h].task
        BY <4>2, <4>3
      <4> HIDE DEF r
      <4> QED
        BY <1>0, <4>4, <4>5, KnowledgeGoes
    <3>1. KnowledgeHands'
      BY <3>h
    <3>2. KnowledgeTypes'
      BY <1>0, <2>1, <3>h DEF KnowledgeTypes
    <3>3. KnowledgePages'
      BY <1>0, <2>1, <3>h DEF KnowledgePages
    <3>4. Knowledge!KeyIsThePage'
      BY <1>0, <2>1, <3>h DEF Knowledge!KeyIsThePage
    <3>5. Knowledge!PromotableIsShown'
      BY <1>0, <2>1, <3>h DEF Knowledge!PromotableIsShown, Knowledge!Promotable
    <3>6. Knowledge!RunsOnShown'
      BY <1>0, <2>1, <3>h DEF Knowledge!RunsOnShown, Knowledge!PromotableIsShown
    <3>7. Knowledge!APageBecomesOneTask'
      BY <1>0, <2>1, <3>h DEF Knowledge!APageBecomesOneTask, Knowledge!KeyIsThePage, KnowledgeTypes
    <3> QED
      BY <3>1, <3>2, <3>3, <3>4, <3>5, <3>6, <3>7
  <2>2. CASE /\ UNCHANGED <<v1, v2, v3, v5>>
             /\ (Knowledge!Fine \/ Knowledge!Fail)
             /\ v4' = [v4 EXCEPT ![h] = [v4[h] EXCEPT !.rows = v4[h].rows \ {row}, !.pc = "create", !.taken = row]]
    <3>h. /\ KnowledgeHands'
          /\ v4'[h].pc = "create" /\ v4'[h].rows = v4[h].rows \ {row} /\ v4'[h].pipeline = v4[h].pipeline /\ v4'[h].taken = row /\ v4'[h].task = v4[h].task
          /\ \A g \in Hands : g # h => v4'[g] = v4[g]
      <4>1. v4[h].rows \ {row} \in SUBSET Knowledge!Row /\ "create" \in {"idle", "row", "create", "bind"} /\ row \in Knowledge!Row \cup {None}
        BY <1>0, <2>2 DEF KnowledgeHands, KnowledgeRuns
      <4>2. [v4[h] EXCEPT !.rows = v4[h].rows \ {row}, !.pc = "create", !.taken = row] \in KnowledgeRuns
        BY <1>0, <4>1, KnowledgeRecords DEF KnowledgeHands
      <4>3. LET r == [v4[h] EXCEPT !.rows = v4[h].rows \ {row}, !.pc = "create", !.taken = row] IN r.pc = "create" /\ r.rows = v4[h].rows \ {row} /\ r.pipeline = v4[h].pipeline /\ r.taken = row /\ r.task = v4[h].task
        BY <1>0 DEF KnowledgeHands, KnowledgeRuns
      <4> HIDE DEF Knowledge!Idle
      <4> DEFINE r == [v4[h] EXCEPT !.rows = v4[h].rows \ {row}, !.pc = "create", !.taken = row]
      <4>4. v4' = [v4 EXCEPT ![h] = r]
        BY <2>2
      <4>5. r \in KnowledgeRuns /\ r.pc = "create" /\ r.rows = v4[h].rows \ {row} /\ r.pipeline = v4[h].pipeline /\ r.taken = row /\ r.task = v4[h].task
        BY <4>2, <4>3
      <4> HIDE DEF r
      <4> QED
        BY <1>0, <4>4, <4>5, KnowledgeGoes
    <3>r. row \in v5 /\ v4[h].rows \subseteq v5
      BY <1>0 DEF Knowledge!RunsOnShown
    <3>1. KnowledgeHands'
      BY <3>h
    <3>2. KnowledgeTypes'
      BY <1>0, <2>2, <3>h, <3>r, <1>3 DEF KnowledgeTypes
    <3>3. KnowledgePages'
      BY <1>0, <2>2, <3>h, <3>r, <1>3 DEF KnowledgePages
    <3>4. Knowledge!KeyIsThePage'
      BY <1>0, <2>2, <3>h, <3>r, <1>3 DEF Knowledge!KeyIsThePage
    <3>5. Knowledge!PromotableIsShown'
      BY <1>0, <2>2, <3>h, <3>r, <1>3 DEF Knowledge!PromotableIsShown, Knowledge!Promotable
    <3>6. Knowledge!RunsOnShown'
      BY <1>0, <2>2, <3>h, <3>r, <1>3 DEF Knowledge!RunsOnShown, Knowledge!PromotableIsShown
    <3>7. Knowledge!APageBecomesOneTask'
      BY <1>0, <2>2, <3>h, <3>r, <1>3 DEF Knowledge!APageBecomesOneTask, Knowledge!KeyIsThePage, KnowledgeTypes
    <3> QED
      BY <3>1, <3>2, <3>3, <3>4, <3>5, <3>6, <3>7
  <2> QED
    BY <1>3, <2>1, <2>2 DEF KnowledgeRuns
<1>4. ASSUME NEW h \in Hands, Knowledge!CreateTask(h)
      PROVE  Goal
  <2> DEFINE body == [key |-> v4[h].taken.page, row |-> v4[h].taken, pipeline |-> v4[h].pipeline]
  <2>b. /\ body \in Knowledge!Task /\ body.row = v4[h].taken /\ body.key = body.row.page
        /\ v4[h].pc = "create" /\ v4[h].taken \in v5
    BY <1>0, <1>4 DEF Knowledge!CreateTask, Knowledge!RunsOnShown, KnowledgeTypes, Knowledge!Task, Knowledge!Row
  <2>c. \/ /\ {t \in v2 : t.key = body.key} \subseteq {body} /\ v2' = v2 \cup {body} /\ Knowledge!Fine
           /\ v4' = [v4 EXCEPT ![h] = [v4[h] EXCEPT !.pc = "bind", !.task = body]]
        \/ /\ {t \in v2 : t.key = body.key} \subseteq {body} /\ v2' = v2 \cup {body} /\ (Knowledge!Fine \/ Knowledge!Fail)
           /\ Knowledge!NextRow(h)
        \/ v2' = v2 /\ (Knowledge!Fine \/ Knowledge!Fail) /\ Knowledge!NextRow(h)
    BY <1>4 DEF Knowledge!CreateTask
  <2>d. UNCHANGED <<v1, v3, v5>>
    BY <1>4 DEF Knowledge!CreateTask
  <2> HIDE DEF body
  <2>1. CASE /\ {t \in v2 : t.key = body.key} \subseteq {body} /\ v2' = v2 \cup {body}
             /\ Knowledge!Fine
             /\ v4' = [v4 EXCEPT ![h] = [v4[h] EXCEPT !.pc = "bind", !.task = body]]
    <3>h. /\ KnowledgeHands'
          /\ v4'[h].pc = "bind" /\ v4'[h].rows = v4[h].rows /\ v4'[h].pipeline = v4[h].pipeline /\ v4'[h].taken = v4[h].taken /\ v4'[h].task = body
          /\ \A g \in Hands : g # h => v4'[g] = v4[g]
      <4>1. "bind" \in {"idle", "row", "create", "bind"} /\ body \in Knowledge!Task \cup {None}
        BY <1>0, <2>1, <2>b
      <4>2. [v4[h] EXCEPT !.pc = "bind", !.task = body] \in KnowledgeRuns
        BY <1>0, <4>1, KnowledgeRecords DEF KnowledgeHands
      <4>3. LET r == [v4[h] EXCEPT !.pc = "bind", !.task = body] IN r.pc = "bind" /\ r.rows = v4[h].rows /\ r.pipeline = v4[h].pipeline /\ r.taken = v4[h].taken /\ r.task = body
        BY <1>0 DEF KnowledgeHands, KnowledgeRuns
      <4> HIDE DEF Knowledge!Idle
      <4> DEFINE r == [v4[h] EXCEPT !.pc = "bind", !.task = body]
      <4>4. v4' = [v4 EXCEPT ![h] = r]
        BY <2>1
      <4>5. r \in KnowledgeRuns /\ r.pc = "bind" /\ r.rows = v4[h].rows /\ r.pipeline = v4[h].pipeline /\ r.taken = v4[h].taken /\ r.task = body
        BY <4>2, <4>3
      <4> HIDE DEF r
      <4> QED
        BY <1>0, <4>4, <4>5, KnowledgeGoes
    <3>1. KnowledgeHands'
      BY <3>h
    <3>2. KnowledgeTypes'
      BY <1>0, <2>1, <3>h, <2>b, <2>d DEF KnowledgeTypes
    <3>3. KnowledgePages'
      BY <1>0, <2>1, <3>h, <2>b, <2>d DEF KnowledgePages
    <3>4. Knowledge!KeyIsThePage'
      BY <1>0, <2>1, <3>h, <2>b, <2>d DEF Knowledge!KeyIsThePage
    <3>5. Knowledge!PromotableIsShown'
      BY <1>0, <2>1, <3>h, <2>b, <2>d DEF Knowledge!PromotableIsShown, Knowledge!Promotable
    <3>6. Knowledge!RunsOnShown'
      BY <1>0, <2>1, <3>h, <2>b, <2>d DEF Knowledge!RunsOnShown, Knowledge!PromotableIsShown
    <3>7. Knowledge!APageBecomesOneTask'
      BY <1>0, <2>1, <3>h, <2>b, <2>d DEF Knowledge!APageBecomesOneTask, Knowledge!KeyIsThePage, KnowledgeTypes
    <3> QED
      BY <3>1, <3>2, <3>3, <3>4, <3>5, <3>6, <3>7
  <2>2. CASE /\ {t \in v2 : t.key = body.key} \subseteq {body} /\ v2' = v2 \cup {body}
             /\ (Knowledge!Fine \/ Knowledge!Fail)
             /\ v4' = [v4 EXCEPT ![h] = [v4[h] EXCEPT !.pc = "row", !.taken = None, !.task = None]]
    <3>h. /\ KnowledgeHands'
          /\ v4'[h].pc = "row" /\ v4'[h].rows = v4[h].rows /\ v4'[h].pipeline = v4[h].pipeline /\ v4'[h].taken = None /\ v4'[h].task = None
          /\ \A g \in Hands : g # h => v4'[g] = v4[g]
      <4>1. "row" \in {"idle", "row", "create", "bind"} /\ None \in Knowledge!Row \cup {None} /\ None \in Knowledge!Task \cup {None}
        BY <1>0, <2>2
      <4>2. [v4[h] EXCEPT !.pc = "row", !.taken = None, !.task = None] \in KnowledgeRuns
        BY <1>0, <4>1, KnowledgeRecords DEF KnowledgeHands
      <4>3. LET r == [v4[h] EXCEPT !.pc = "row", !.taken = None, !.task = None] IN r.pc = "row" /\ r.rows = v4[h].rows /\ r.pipeline = v4[h].pipeline /\ r.taken = None /\ r.task = None
        BY <1>0 DEF KnowledgeHands, KnowledgeRuns
      <4> HIDE DEF Knowledge!Idle
      <4> DEFINE r == [v4[h] EXCEPT !.pc = "row", !.taken = None, !.task = None]
      <4>4. v4' = [v4 EXCEPT ![h] = r]
        BY <2>2
      <4>5. r \in KnowledgeRuns /\ r.pc = "row" /\ r.rows = v4[h].rows /\ r.pipeline = v4[h].pipeline /\ r.taken = None /\ r.task = None
        BY <4>2, <4>3
      <4> HIDE DEF r
      <4> QED
        BY <1>0, <4>4, <4>5, KnowledgeGoes
    <3>1. KnowledgeHands'
      BY <3>h
    <3>2. KnowledgeTypes'
      BY <1>0, <2>2, <3>h, <2>b, <2>d DEF KnowledgeTypes
    <3>3. KnowledgePages'
      BY <1>0, <2>2, <3>h, <2>b, <2>d DEF KnowledgePages
    <3>4. Knowledge!KeyIsThePage'
      BY <1>0, <2>2, <3>h, <2>b, <2>d DEF Knowledge!KeyIsThePage
    <3>5. Knowledge!PromotableIsShown'
      BY <1>0, <2>2, <3>h, <2>b, <2>d DEF Knowledge!PromotableIsShown, Knowledge!Promotable
    <3>6. Knowledge!RunsOnShown'
      BY <1>0, <2>2, <3>h, <2>b, <2>d DEF Knowledge!RunsOnShown, Knowledge!PromotableIsShown
    <3>7. Knowledge!APageBecomesOneTask'
      BY <1>0, <2>2, <3>h, <2>b, <2>d DEF Knowledge!APageBecomesOneTask, Knowledge!KeyIsThePage, KnowledgeTypes
    <3> QED
      BY <3>1, <3>2, <3>3, <3>4, <3>5, <3>6, <3>7
  <2>3. CASE /\ v2' = v2
             /\ (Knowledge!Fine \/ Knowledge!Fail)
             /\ v4' = [v4 EXCEPT ![h] = [v4[h] EXCEPT !.pc = "row", !.taken = None, !.task = None]]
    <3>h. /\ KnowledgeHands'
          /\ v4'[h].pc = "row" /\ v4'[h].rows = v4[h].rows /\ v4'[h].pipeline = v4[h].pipeline /\ v4'[h].taken = None /\ v4'[h].task = None
          /\ \A g \in Hands : g # h => v4'[g] = v4[g]
      <4>1. "row" \in {"idle", "row", "create", "bind"} /\ None \in Knowledge!Row \cup {None} /\ None \in Knowledge!Task \cup {None}
        BY <1>0, <2>3
      <4>2. [v4[h] EXCEPT !.pc = "row", !.taken = None, !.task = None] \in KnowledgeRuns
        BY <1>0, <4>1, KnowledgeRecords DEF KnowledgeHands
      <4>3. LET r == [v4[h] EXCEPT !.pc = "row", !.taken = None, !.task = None] IN r.pc = "row" /\ r.rows = v4[h].rows /\ r.pipeline = v4[h].pipeline /\ r.taken = None /\ r.task = None
        BY <1>0 DEF KnowledgeHands, KnowledgeRuns
      <4> HIDE DEF Knowledge!Idle
      <4> DEFINE r == [v4[h] EXCEPT !.pc = "row", !.taken = None, !.task = None]
      <4>4. v4' = [v4 EXCEPT ![h] = r]
        BY <2>3
      <4>5. r \in KnowledgeRuns /\ r.pc = "row" /\ r.rows = v4[h].rows /\ r.pipeline = v4[h].pipeline /\ r.taken = None /\ r.task = None
        BY <4>2, <4>3
      <4> HIDE DEF r
      <4> QED
        BY <1>0, <4>4, <4>5, KnowledgeGoes
    <3>1. KnowledgeHands'
      BY <3>h
    <3>2. KnowledgeTypes'
      BY <1>0, <2>3, <3>h, <2>b, <2>d DEF KnowledgeTypes
    <3>3. KnowledgePages'
      BY <1>0, <2>3, <3>h, <2>b, <2>d DEF KnowledgePages
    <3>4. Knowledge!KeyIsThePage'
      BY <1>0, <2>3, <3>h, <2>b, <2>d DEF Knowledge!KeyIsThePage
    <3>5. Knowledge!PromotableIsShown'
      BY <1>0, <2>3, <3>h, <2>b, <2>d DEF Knowledge!PromotableIsShown, Knowledge!Promotable
    <3>6. Knowledge!RunsOnShown'
      BY <1>0, <2>3, <3>h, <2>b, <2>d DEF Knowledge!RunsOnShown, Knowledge!PromotableIsShown
    <3>7. Knowledge!APageBecomesOneTask'
      BY <1>0, <2>3, <3>h, <2>b, <2>d DEF Knowledge!APageBecomesOneTask, Knowledge!KeyIsThePage, KnowledgeTypes
    <3> QED
      BY <3>1, <3>2, <3>3, <3>4, <3>5, <3>6, <3>7
  <2> QED
    BY <1>4, <2>1, <2>2, <2>3, <2>c, <2>d DEF Knowledge!NextRow
<1>5. ASSUME NEW h \in Hands, Knowledge!SaveBinding(h)
      PROVE  Goal
  <2>1. CASE /\ v4[h].pc = "bind"
             /\ \/ v3' = [v3 EXCEPT ![MachineOf[h]][v4[h].taken.page] = v4[h].task]
                \/ v3' = v3
             /\ UNCHANGED <<v1, v2, v5>>
             /\ (Knowledge!Fine \/ Knowledge!Fail)
             /\ v4' = [v4 EXCEPT ![h] = [v4[h] EXCEPT !.pc = "row", !.taken = None, !.task = None]]
    <3>h. /\ KnowledgeHands'
          /\ v4'[h].pc = "row" /\ v4'[h].rows = v4[h].rows /\ v4'[h].pipeline = v4[h].pipeline /\ v4'[h].taken = None /\ v4'[h].task = None
          /\ \A g \in Hands : g # h => v4'[g] = v4[g]
      <4>1. "row" \in {"idle", "row", "create", "bind"} /\ None \in Knowledge!Row \cup {None} /\ None \in Knowledge!Task \cup {None}
        BY <1>0, <2>1
      <4>2. [v4[h] EXCEPT !.pc = "row", !.taken = None, !.task = None] \in KnowledgeRuns
        BY <1>0, <4>1, KnowledgeRecords DEF KnowledgeHands
      <4>3. LET r == [v4[h] EXCEPT !.pc = "row", !.taken = None, !.task = None] IN r.pc = "row" /\ r.rows = v4[h].rows /\ r.pipeline = v4[h].pipeline /\ r.taken = None /\ r.task = None
        BY <1>0 DEF KnowledgeHands, KnowledgeRuns
      <4> HIDE DEF Knowledge!Idle
      <4> DEFINE r == [v4[h] EXCEPT !.pc = "row", !.taken = None, !.task = None]
      <4>4. v4' = [v4 EXCEPT ![h] = r]
        BY <2>1
      <4>5. r \in KnowledgeRuns /\ r.pc = "row" /\ r.rows = v4[h].rows /\ r.pipeline = v4[h].pipeline /\ r.taken = None /\ r.task = None
        BY <4>2, <4>3
      <4> HIDE DEF r
      <4> QED
        BY <1>0, <4>4, <4>5, KnowledgeGoes
    <3>b. v4[h].taken \in Knowledge!Row /\ v4[h].taken.page \in Pages /\ v4[h].task \in v2
          /\ v4[h].task.row.page = v4[h].taken.page
      BY <1>0, <2>1 DEF Knowledge!RunsOnShown, KnowledgeTypes, Knowledge!Row
    <3>1. KnowledgeHands'
      BY <3>h
    <3>2. KnowledgeTypes'
      BY <1>0, <2>1, <3>h, <3>b DEF KnowledgeTypes
    <3>3. KnowledgePages'
      BY <1>0, <2>1, <3>h, <3>b DEF KnowledgePages
    <3>4. Knowledge!KeyIsThePage'
      BY <1>0, <2>1, <3>h, <3>b DEF Knowledge!KeyIsThePage
    <3>5. Knowledge!PromotableIsShown'
      BY <1>0, <2>1, <3>h, <3>b DEF Knowledge!PromotableIsShown, Knowledge!Promotable
    <3>6. Knowledge!RunsOnShown'
      BY <1>0, <2>1, <3>h, <3>b DEF Knowledge!RunsOnShown, Knowledge!PromotableIsShown
    <3>7. Knowledge!APageBecomesOneTask'
      BY <1>0, <2>1, <3>h, <3>b DEF Knowledge!APageBecomesOneTask, Knowledge!KeyIsThePage, KnowledgeTypes
    <3> QED
      BY <3>1, <3>2, <3>3, <3>4, <3>5, <3>6, <3>7
  <2> QED
    BY <1>5, <2>1 DEF Knowledge!SaveBinding, Knowledge!NextRow
<1>6. ASSUME NEW h \in Hands, Knowledge!Report(h) \/ Knowledge!Killed(h)
      PROVE  Goal
  <2>1. CASE /\ UNCHANGED <<v1, v2, v3, v5>>
             /\ (Knowledge!Fine \/ Knowledge!Fail)
             /\ v4' = [v4 EXCEPT ![h] = Knowledge!Idle]
    <3>h. /\ KnowledgeHands'
          /\ v4'[h].pc = "idle" /\ v4'[h].rows = {} /\ v4'[h].pipeline = None /\ v4'[h].taken = None /\ v4'[h].task = None
          /\ \A g \in Hands : g # h => v4'[g] = v4[g]
      <4>2. Knowledge!Idle \in KnowledgeRuns
        BY <1>0, KnowledgeRecords DEF KnowledgeHands
      <4>3. LET r == Knowledge!Idle IN r.pc = "idle" /\ r.rows = {} /\ r.pipeline = None /\ r.taken = None /\ r.task = None
        BY DEF Knowledge!Idle
      <4> HIDE DEF Knowledge!Idle
      <4> DEFINE r == Knowledge!Idle
      <4>4. v4' = [v4 EXCEPT ![h] = r]
        BY <2>1
      <4>5. r \in KnowledgeRuns /\ r.pc = "idle" /\ r.rows = {} /\ r.pipeline = None /\ r.taken = None /\ r.task = None
        BY <4>2, <4>3
      <4> HIDE DEF r
      <4> QED
        BY <1>0, <4>4, <4>5, KnowledgeGoes
    <3>1. KnowledgeHands'
      BY <3>h
    <3>2. KnowledgeTypes'
      BY <1>0, <2>1, <3>h DEF KnowledgeTypes
    <3>3. KnowledgePages'
      BY <1>0, <2>1, <3>h DEF KnowledgePages
    <3>4. Knowledge!KeyIsThePage'
      BY <1>0, <2>1, <3>h DEF Knowledge!KeyIsThePage
    <3>5. Knowledge!PromotableIsShown'
      BY <1>0, <2>1, <3>h DEF Knowledge!PromotableIsShown, Knowledge!Promotable
    <3>6. Knowledge!RunsOnShown'
      BY <1>0, <2>1, <3>h DEF Knowledge!RunsOnShown, Knowledge!PromotableIsShown
    <3>7. Knowledge!APageBecomesOneTask'
      BY <1>0, <2>1, <3>h DEF Knowledge!APageBecomesOneTask, Knowledge!KeyIsThePage, KnowledgeTypes
    <3> QED
      BY <3>1, <3>2, <3>3, <3>4, <3>5, <3>6, <3>7
  <2> QED
    BY <1>6, <2>1 DEF Knowledge!Report, Knowledge!Killed
<1> QED
  BY <1>1, <1>2, <1>3, <1>4, <1>5, <1>6 DEF Knowledge!Next, Knowledge!IInv, Knowledge!TypeOK, KnowledgeHands, KnowledgeRuns, KnowledgeTypes, KnowledgePages, Knowledge!Run, Knowledge!LoadPromotion

LEMMA KnowledgeRests == Knowledge!IInv /\ UNCHANGED Knowledge!vars => Knowledge!IInv'
BY DEF Knowledge!vars, Knowledge!IInv, Knowledge!TypeOK, Knowledge!KeyIsThePage, Knowledge!PromotableIsShown, Knowledge!RunsOnShown, Knowledge!APageBecomesOneTask, Knowledge!At, Knowledge!Promotable

LEMMA KnowledgeHolds == Spec => [](part = "knowledge" => Knowledge!IInv)
<1> DEFINE Kept == part = "knowledge" => Knowledge!IInv
<1>1. Init => Kept
  BY KnowledgeStarts DEF Init
<1>2. Kept /\ [Next]_vars => Kept'
  BY KnowledgeNext, KnowledgeRests DEF Next, vars, Knowledge!vars
<1> QED
  BY <1>1, <1>2, PTL DEF Spec

\* A page becomes at most one task, for any number of pages, machines and runs,
\* however it is retitled and wherever a run dies (internal/knowledge/promote.go).
THEOREM PagesBecomeOneTask == Spec => []APageBecomesOneTask
<1>1. (part = "knowledge" => Knowledge!IInv) => APageBecomesOneTask
  BY DEF APageBecomesOneTask, Knowledge!IInv
<1> QED
  BY <1>1, KnowledgeHolds, PTL

-----------------------------------------------------------------------------
(* The documents of an epic.                                               *)

FixPcs == {"idle", "prompt", "recheck", "create"}
FixTodos == SUBSET Documents!Slots
FixBools == BOOLEAN
FixRuns == [pc : FixPcs, todo : FixTodos, quiet : FixBools]
FixHands == v5 \in [Fixers -> FixRuns]
FixTypes ==
    /\ v1 \in {"none", "active", "archived"} /\ v4 \in 0 .. Documents!MaxCopies
    /\ faults \in 0 .. MaxFaults
FixCalm == v6 \in BOOLEAN
FixStories == DOMAIN v2 \subseteq Stories /\ v2 \in [DOMAIN v2 -> 0 .. TaskThreshold]
FixDocs == v3 \in [Documents!Slots -> 0 .. Documents!MaxCopies]

LEMMA DocumentsTyped == Documents!TypeOK <=> FixHands /\ FixTypes /\ FixCalm /\ FixStories /\ FixDocs
BY DEF Documents!TypeOK, FixHands, FixTypes, FixCalm, FixStories, FixDocs, FixRuns, FixPcs, FixTodos, FixBools


\* One goes on with a record of its own, and the others with theirs.
LEMMA DocumentsGoes ==
    ASSUME FixHands, NEW f \in Fixers, NEW r \in FixRuns, v5' = [v5 EXCEPT ![f] = r]
    PROVE  /\ FixHands' /\ v5'[f] = r
           /\ \A g \in Fixers : g # f => v5'[g] = v5[g]
BY DEF FixHands

LEMMA DocumentsRecords ==
    /\ Documents!Idle \in FixRuns
    /\ \A r \in FixRuns, pc \in FixPcs :
          [r EXCEPT !.pc = pc] \in FixRuns
    /\ \A r \in FixRuns, todo \in FixTodos :
          [r EXCEPT !.todo = todo] \in FixRuns
<1>1. Documents!Idle \in FixRuns
  BY ConstantsAssumption DEF Documents!Idle, FixRuns, FixPcs, FixTodos, FixBools
<1>2. \A r \in FixRuns, pc \in FixPcs :
          [r EXCEPT !.pc = pc] \in FixRuns
  BY <1>1 DEF FixRuns
<1>3. \A r \in FixRuns, todo \in FixTodos :
          [r EXCEPT !.todo = todo] \in FixRuns
  BY <1>1 DEF FixRuns
<1> QED
  BY <1>1, <1>2, <1>3

LEMMA DocumentsStarts == ASSUME Documents!Init PROVE Documents!IInv
<1>1. /\ v1 = "none" /\ v2 = <<>> /\ v4 \in {0, 1} /\ v3 = [d \in Documents!Slots |-> 0]
      /\ v5 = [f \in Fixers |-> Documents!Idle] /\ faults = 0 /\ v6 = TRUE /\ MaxFaults \in Nat
  BY ConstantsAssumption DEF Documents!Init, Documents!BoundsAssumption
<1>2. FixHands
  BY <1>1, DocumentsRecords DEF FixHands
<1>3. FixTypes
  <2>1. v1 \in {"none", "active", "archived"}
    BY <1>1
  <2>2. v4 \in 0 .. Documents!MaxCopies /\ faults \in 0 .. MaxFaults
    BY <1>1 DEF Documents!MaxCopies
  <2> QED
    BY <2>1, <2>2 DEF FixTypes
<1>4. FixStories
  BY <1>1 DEF FixStories
<1>5. FixDocs
  BY <1>1 DEF FixDocs, Documents!MaxCopies
<1>6. \A f \in Fixers : v5[f].pc = "idle"
  BY <1>1 DEF Documents!Idle
<1>7. FixCalm
  BY <1>1 DEF FixCalm
<1> QED
  BY <1>2, <1>3, <1>4, <1>5, <1>6, <1>7, DocumentsTyped DEF Documents!IInv, Documents!OneFixes, Documents!ListIsMissing

LEMMA DocumentsNext ==
    ASSUME Documents!IInv, Documents!Next
    PROVE  Documents!IInv'
<1> USE DEF Documents!Fine, Documents!Fail
<1> DEFINE Goal == FixHands' /\ FixTypes' /\ FixCalm' /\ FixStories' /\ FixDocs' /\ Documents!OneFixes' /\ Documents!ListIsMissing'
<1>0. /\ FixHands /\ FixTypes /\ FixCalm /\ FixStories /\ FixDocs /\ Documents!OneFixes /\ Documents!ListIsMissing
      /\ TaskThreshold \in Nat \ {0} /\ MaxFaults \in Nat
  BY DocumentsTyped, ConstantsAssumption DEF Documents!BoundsAssumption, Documents!IInv
<1>p. \A read : Documents!Missing(read) \in FixTodos
  BY <1>0 DEF Documents!Missing, FixTodos, FixStories, Documents!Slots
<1>1. ASSUME Documents!Statement, v6' = v6, FixTypes', FixStories', FixDocs'
      PROVE  Goal
  <2>1. /\ FixHands'
        /\ \A f \in Fixers : v5'[f].pc = v5[f].pc /\ (v5'[f].quiet => v5[f].pc = "idle")
    <3>1. ASSUME NEW f \in Fixers
          PROVE  LET r == [v5[f] EXCEPT !.quiet = (v5[f].pc = "idle")]
                 IN r \in FixRuns /\ r.pc = v5[f].pc /\ (r.quiet => v5[f].pc = "idle")
      <4>1. v5[f] \in FixRuns /\ (v5[f].pc = "idle") \in FixBools
        BY <1>0 DEF FixHands, FixBools
      <4> QED
        BY <4>1 DEF FixRuns
    <3>2. v5' = [f \in Fixers |-> [v5[f] EXCEPT !.quiet = (v5[f].pc = "idle")]]
      BY <1>1 DEF Documents!Statement
    <3> QED
      BY <3>1, <3>2 DEF FixHands
  <2> QED
    BY <1>0, <1>1, <2>1 DEF FixCalm, Documents!OneFixes, Documents!ListIsMissing
<1>2. ASSUME NEW f \in Fixers, Documents!Check(f)
      PROVE  Goal
  <2>1. CASE /\ v5[f].pc = "idle"
             /\ UNCHANGED <<v1, v2, v3, v4>>
             /\ Documents!Fine
             /\ v5' = [v5 EXCEPT ![f] = [pc |-> "prompt", todo |-> Documents!Missing(Documents!Present), quiet |-> TRUE]]
    <3>h. /\ FixHands'
          /\ v5'[f].pc = "prompt" /\ v5'[f].todo = Documents!Missing(Documents!Present) /\ v5'[f].quiet = TRUE
          /\ \A g \in Fixers : g # f => v5'[g] = v5[g]
      <4>1. "prompt" \in FixPcs /\ Documents!Missing(Documents!Present) \in FixTodos /\ TRUE \in FixBools
        BY <1>0, <2>1, <1>p DEF FixPcs, FixBools
      <4>2. [pc |-> "prompt", todo |-> Documents!Missing(Documents!Present), quiet |-> TRUE] \in FixRuns
        BY <4>1 DEF FixRuns
      <4> DEFINE r == [pc |-> "prompt", todo |-> Documents!Missing(Documents!Present), quiet |-> TRUE]
      <4>3. r \in FixRuns /\ r.pc = "prompt" /\ r.todo = Documents!Missing(Documents!Present) /\ r.quiet = TRUE
        BY <4>2
      <4>4. v5' = [v5 EXCEPT ![f] = r]
        BY <2>1
      <4> HIDE DEF r
      <4> QED
        BY <1>0, <4>3, <4>4, DocumentsGoes
    <3>1. FixHands'
      BY <3>h
    <3>2. FixTypes'
      BY <1>0, <2>1, <3>h DEF FixTypes
    <3>3. FixCalm'
      BY <1>0, <2>1, <3>h DEF FixCalm
    <3>4. FixStories'
      BY <1>0, <2>1, <3>h DEF FixStories
    <3>5. FixDocs'
      BY <1>0, <2>1, <3>h DEF FixDocs
    <3>6. Documents!OneFixes'
      BY <1>0, <2>1, <3>h DEF Documents!OneFixes
    <3>7. Documents!ListIsMissing'
      BY <1>0, <2>1, <3>h DEF Documents!ListIsMissing, Documents!Missing, Documents!Present
    <3> QED
      BY <3>1, <3>2, <3>3, <3>4, <3>5, <3>6, <3>7
  <2>2. ASSUME NEW read, /\ v5[f].pc = "idle"
             /\ UNCHANGED <<v1, v2, v3, v4>>
             /\ Documents!Fail
             /\ read \in SUBSET Documents!Present
             /\ v5' = [v5 EXCEPT ![f] = [pc |-> "prompt", todo |-> Documents!Missing(read), quiet |-> TRUE]]
        PROVE  Goal
    <3>h. /\ FixHands'
          /\ v5'[f].pc = "prompt" /\ v5'[f].todo = Documents!Missing(read) /\ v5'[f].quiet = TRUE
          /\ \A g \in Fixers : g # f => v5'[g] = v5[g]
      <4>1. "prompt" \in FixPcs /\ Documents!Missing(read) \in FixTodos /\ TRUE \in FixBools
        BY <1>0, <2>2, <1>p DEF FixPcs, FixBools
      <4>2. [pc |-> "prompt", todo |-> Documents!Missing(read), quiet |-> TRUE] \in FixRuns
        BY <4>1 DEF FixRuns
      <4> DEFINE r == [pc |-> "prompt", todo |-> Documents!Missing(read), quiet |-> TRUE]
      <4>3. r \in FixRuns /\ r.pc = "prompt" /\ r.todo = Documents!Missing(read) /\ r.quiet = TRUE
        BY <4>2
      <4>4. v5' = [v5 EXCEPT ![f] = r]
        BY <2>2
      <4> HIDE DEF r
      <4> QED
        BY <1>0, <4>3, <4>4, DocumentsGoes
    <3>1. FixHands'
      BY <3>h
    <3>2. FixTypes'
      BY <1>0, <2>2, <3>h DEF FixTypes
    <3>3. FixCalm'
      BY <1>0, <2>2, <3>h DEF FixCalm
    <3>4. FixStories'
      BY <1>0, <2>2, <3>h DEF FixStories
    <3>5. FixDocs'
      BY <1>0, <2>2, <3>h DEF FixDocs
    <3>6. Documents!OneFixes'
      BY <1>0, <2>2, <3>h DEF Documents!OneFixes
    <3>7. Documents!ListIsMissing'
      BY <1>0, <2>2, <3>h DEF Documents!ListIsMissing, Documents!Missing, Documents!Present
    <3> QED
      BY <3>1, <3>2, <3>3, <3>4, <3>5, <3>6, <3>7
  <2>3. CASE /\ v5[f].pc = "idle"
             /\ UNCHANGED <<v1, v2, v3, v4>>
             /\ Documents!Fail
             /\ v5' = [v5 EXCEPT ![f] = Documents!Idle]
    <3>h. /\ FixHands'
          /\ v5'[f].pc = "idle" /\ v5'[f].todo = {} /\ v5'[f].quiet = TRUE
          /\ \A g \in Fixers : g # f => v5'[g] = v5[g]
      <4>2. Documents!Idle \in FixRuns
        BY <1>0, DocumentsRecords DEF FixHands
      <4>3. LET r == Documents!Idle IN r.pc = "idle" /\ r.todo = {} /\ r.quiet = TRUE
        BY DEF Documents!Idle
      <4> HIDE DEF Documents!Idle
      <4> DEFINE r == Documents!Idle
      <4>4. v5' = [v5 EXCEPT ![f] = r]
        BY <2>3
      <4>5. r \in FixRuns /\ r.pc = "idle" /\ r.todo = {} /\ r.quiet = TRUE
        BY <4>2, <4>3
      <4> HIDE DEF r
      <4> QED
        BY <1>0, <4>4, <4>5, DocumentsGoes
    <3>1. FixHands'
      BY <3>h
    <3>2. FixTypes'
      BY <1>0, <2>3, <3>h DEF FixTypes
    <3>3. FixCalm'
      BY <1>0, <2>3, <3>h DEF FixCalm
    <3>4. FixStories'
      BY <1>0, <2>3, <3>h DEF FixStories
    <3>5. FixDocs'
      BY <1>0, <2>3, <3>h DEF FixDocs
    <3>6. Documents!OneFixes'
      BY <1>0, <2>3, <3>h DEF Documents!OneFixes
    <3>7. Documents!ListIsMissing'
      BY <1>0, <2>3, <3>h DEF Documents!ListIsMissing, Documents!Missing, Documents!Present
    <3> QED
      BY <3>1, <3>2, <3>3, <3>4, <3>5, <3>6, <3>7
  <2> QED
    BY <1>2, <2>1, <2>2, <2>3 DEF Documents!Check, Documents!End, Documents!rows, Documents!CheckLineage
<1>3. ASSUME NEW f \in Fixers, Documents!Told(f) \/ Documents!Killed(f)
      PROVE  Goal
  <2>1. CASE /\ UNCHANGED <<v1, v2, v3, v4>>
             /\ (Documents!Fine \/ Documents!Fail)
             /\ v5' = [v5 EXCEPT ![f] = Documents!Idle]
    <3>h. /\ FixHands'
          /\ v5'[f].pc = "idle" /\ v5'[f].todo = {} /\ v5'[f].quiet = TRUE
          /\ \A g \in Fixers : g # f => v5'[g] = v5[g]
      <4>2. Documents!Idle \in FixRuns
        BY <1>0, DocumentsRecords DEF FixHands
      <4>3. LET r == Documents!Idle IN r.pc = "idle" /\ r.todo = {} /\ r.quiet = TRUE
        BY DEF Documents!Idle
      <4> HIDE DEF Documents!Idle
      <4> DEFINE r == Documents!Idle
      <4>4. v5' = [v5 EXCEPT ![f] = r]
        BY <2>1
      <4>5. r \in FixRuns /\ r.pc = "idle" /\ r.todo = {} /\ r.quiet = TRUE
        BY <4>2, <4>3
      <4> HIDE DEF r
      <4> QED
        BY <1>0, <4>4, <4>5, DocumentsGoes
    <3>1. FixHands'
      BY <3>h
    <3>2. FixTypes'
      BY <1>0, <2>1, <3>h DEF FixTypes
    <3>3. FixCalm'
      BY <1>0, <2>1, <3>h DEF FixCalm
    <3>4. FixStories'
      BY <1>0, <2>1, <3>h DEF FixStories
    <3>5. FixDocs'
      BY <1>0, <2>1, <3>h DEF FixDocs
    <3>6. Documents!OneFixes'
      BY <1>0, <2>1, <3>h DEF Documents!OneFixes
    <3>7. Documents!ListIsMissing'
      BY <1>0, <2>1, <3>h DEF Documents!ListIsMissing, Documents!Missing, Documents!Present
    <3> QED
      BY <3>1, <3>2, <3>3, <3>4, <3>5, <3>6, <3>7
  <2> QED
    BY <1>3, <2>1 DEF Documents!Told, Documents!End, Documents!rows, Documents!Killed
<1>4. ASSUME NEW f \in Fixers, Documents!FixLineage(f)
      PROVE  Goal
  <2>1. CASE /\ v5[f].pc = "prompt"
             /\ UNCHANGED <<v1, v2, v3, v4>>
             /\ UNCHANGED faults
             /\ v6' = (v6 /\ \A g \in Fixers \ {f} : v5[g].pc \notin {"recheck", "create"})
             /\ v5' = [v5 EXCEPT ![f] = [v5[f] EXCEPT !.pc = "recheck"]]
    <3>h. /\ FixHands'
          /\ v5'[f].pc = "recheck" /\ v5'[f].todo = v5[f].todo /\ v5'[f].quiet = v5[f].quiet
          /\ \A g \in Fixers : g # f => v5'[g] = v5[g]
      <4>1. "recheck" \in FixPcs
        BY <1>0, <2>1 DEF FixPcs
      <4>2. [v5[f] EXCEPT !.pc = "recheck"] \in FixRuns
        BY <1>0, <4>1, DocumentsRecords DEF FixHands
      <4>3. LET r == [v5[f] EXCEPT !.pc = "recheck"] IN r.pc = "recheck" /\ r.todo = v5[f].todo /\ r.quiet = v5[f].quiet
        BY <1>0 DEF FixHands, FixRuns
      <4> HIDE DEF Documents!Idle
      <4> DEFINE r == [v5[f] EXCEPT !.pc = "recheck"]
      <4>4. v5' = [v5 EXCEPT ![f] = r]
        BY <2>1
      <4>5. r \in FixRuns /\ r.pc = "recheck" /\ r.todo = v5[f].todo /\ r.quiet = v5[f].quiet
        BY <4>2, <4>3
      <4> HIDE DEF r
      <4> QED
        BY <1>0, <4>4, <4>5, DocumentsGoes
    <3>1. FixHands'
      BY <3>h
    <3>2. FixTypes'
      BY <1>0, <2>1, <3>h DEF FixTypes
    <3>3. FixCalm'
      BY <1>0, <2>1, <3>h DEF FixCalm
    <3>4. FixStories'
      BY <1>0, <2>1, <3>h DEF FixStories
    <3>5. FixDocs'
      BY <1>0, <2>1, <3>h DEF FixDocs
    <3>6. Documents!OneFixes'
      BY <1>0, <2>1, <3>h DEF Documents!OneFixes
    <3>7. Documents!ListIsMissing'
      BY <1>0, <2>1, <3>h DEF Documents!ListIsMissing, Documents!Missing, Documents!Present
    <3> QED
      BY <3>1, <3>2, <3>3, <3>4, <3>5, <3>6, <3>7
  <2> QED
    BY <1>4, <2>1 DEF Documents!FixLineage, Documents!End, Documents!rows
<1>5. ASSUME NEW f \in Fixers, Documents!Recheck(f)
      PROVE  Goal
  <2>1. CASE /\ v5[f].pc = "recheck"
             /\ UNCHANGED <<v1, v2, v3, v4>>
             /\ Documents!Fine
             /\ v5' = [v5 EXCEPT ![f] = [pc |-> "create", todo |-> Documents!Missing(Documents!Present), quiet |-> TRUE]]
    <3>h. /\ FixHands'
          /\ v5'[f].pc = "create" /\ v5'[f].todo = Documents!Missing(Documents!Present) /\ v5'[f].quiet = TRUE
          /\ \A g \in Fixers : g # f => v5'[g] = v5[g]
      <4>1. "create" \in FixPcs /\ Documents!Missing(Documents!Present) \in FixTodos /\ TRUE \in FixBools
        BY <1>0, <2>1, <1>p DEF FixPcs, FixBools
      <4>2. [pc |-> "create", todo |-> Documents!Missing(Documents!Present), quiet |-> TRUE] \in FixRuns
        BY <4>1 DEF FixRuns
      <4> DEFINE r == [pc |-> "create", todo |-> Documents!Missing(Documents!Present), quiet |-> TRUE]
      <4>3. r \in FixRuns /\ r.pc = "create" /\ r.todo = Documents!Missing(Documents!Present) /\ r.quiet = TRUE
        BY <4>2
      <4>4. v5' = [v5 EXCEPT ![f] = r]
        BY <2>1
      <4> HIDE DEF r
      <4> QED
        BY <1>0, <4>3, <4>4, DocumentsGoes
    <3>1. FixHands'
      BY <3>h
    <3>2. FixTypes'
      BY <1>0, <2>1, <3>h DEF FixTypes
    <3>3. FixCalm'
      BY <1>0, <2>1, <3>h DEF FixCalm
    <3>4. FixStories'
      BY <1>0, <2>1, <3>h DEF FixStories
    <3>5. FixDocs'
      BY <1>0, <2>1, <3>h DEF FixDocs
    <3>6. Documents!OneFixes'
      BY <1>0, <2>1, <3>h DEF Documents!OneFixes
    <3>7. Documents!ListIsMissing'
      BY <1>0, <2>1, <3>h DEF Documents!ListIsMissing, Documents!Missing, Documents!Present
    <3> QED
      BY <3>1, <3>2, <3>3, <3>4, <3>5, <3>6, <3>7
  <2>2. ASSUME NEW read, /\ v5[f].pc = "recheck"
             /\ UNCHANGED <<v1, v2, v3, v4>>
             /\ Documents!Fail
             /\ read \in SUBSET Documents!Present
             /\ v5' = [v5 EXCEPT ![f] = [pc |-> "create", todo |-> Documents!Missing(read), quiet |-> TRUE]]
        PROVE  Goal
    <3>h. /\ FixHands'
          /\ v5'[f].pc = "create" /\ v5'[f].todo = Documents!Missing(read) /\ v5'[f].quiet = TRUE
          /\ \A g \in Fixers : g # f => v5'[g] = v5[g]
      <4>1. "create" \in FixPcs /\ Documents!Missing(read) \in FixTodos /\ TRUE \in FixBools
        BY <1>0, <2>2, <1>p DEF FixPcs, FixBools
      <4>2. [pc |-> "create", todo |-> Documents!Missing(read), quiet |-> TRUE] \in FixRuns
        BY <4>1 DEF FixRuns
      <4> DEFINE r == [pc |-> "create", todo |-> Documents!Missing(read), quiet |-> TRUE]
      <4>3. r \in FixRuns /\ r.pc = "create" /\ r.todo = Documents!Missing(read) /\ r.quiet = TRUE
        BY <4>2
      <4>4. v5' = [v5 EXCEPT ![f] = r]
        BY <2>2
      <4> HIDE DEF r
      <4> QED
        BY <1>0, <4>3, <4>4, DocumentsGoes
    <3>1. FixHands'
      BY <3>h
    <3>2. FixTypes'
      BY <1>0, <2>2, <3>h DEF FixTypes
    <3>3. FixCalm'
      BY <1>0, <2>2, <3>h DEF FixCalm
    <3>4. FixStories'
      BY <1>0, <2>2, <3>h DEF FixStories
    <3>5. FixDocs'
      BY <1>0, <2>2, <3>h DEF FixDocs
    <3>6. Documents!OneFixes'
      BY <1>0, <2>2, <3>h DEF Documents!OneFixes
    <3>7. Documents!ListIsMissing'
      BY <1>0, <2>2, <3>h DEF Documents!ListIsMissing, Documents!Missing, Documents!Present
    <3> QED
      BY <3>1, <3>2, <3>3, <3>4, <3>5, <3>6, <3>7
  <2>3. CASE /\ v5[f].pc = "recheck"
             /\ UNCHANGED <<v1, v2, v3, v4>>
             /\ Documents!Fail
             /\ v5' = [v5 EXCEPT ![f] = Documents!Idle]
    <3>h. /\ FixHands'
          /\ v5'[f].pc = "idle" /\ v5'[f].todo = {} /\ v5'[f].quiet = TRUE
          /\ \A g \in Fixers : g # f => v5'[g] = v5[g]
      <4>2. Documents!Idle \in FixRuns
        BY <1>0, DocumentsRecords DEF FixHands
      <4>3. LET r == Documents!Idle IN r.pc = "idle" /\ r.todo = {} /\ r.quiet = TRUE
        BY DEF Documents!Idle
      <4> HIDE DEF Documents!Idle
      <4> DEFINE r == Documents!Idle
      <4>4. v5' = [v5 EXCEPT ![f] = r]
        BY <2>3
      <4>5. r \in FixRuns /\ r.pc = "idle" /\ r.todo = {} /\ r.quiet = TRUE
        BY <4>2, <4>3
      <4> HIDE DEF r
      <4> QED
        BY <1>0, <4>4, <4>5, DocumentsGoes
    <3>1. FixHands'
      BY <3>h
    <3>2. FixTypes'
      BY <1>0, <2>3, <3>h DEF FixTypes
    <3>3. FixCalm'
      BY <1>0, <2>3, <3>h DEF FixCalm
    <3>4. FixStories'
      BY <1>0, <2>3, <3>h DEF FixStories
    <3>5. FixDocs'
      BY <1>0, <2>3, <3>h DEF FixDocs
    <3>6. Documents!OneFixes'
      BY <1>0, <2>3, <3>h DEF Documents!OneFixes
    <3>7. Documents!ListIsMissing'
      BY <1>0, <2>3, <3>h DEF Documents!ListIsMissing, Documents!Missing, Documents!Present
    <3> QED
      BY <3>1, <3>2, <3>3, <3>4, <3>5, <3>6, <3>7
  <2> QED
    BY <1>5, <2>1, <2>2, <2>3 DEF Documents!Recheck, Documents!End, Documents!rows, Documents!CheckLineage
<1>6. ASSUME NEW f \in Fixers, Documents!CreateDocument(f), v5[f].todo = {}
      PROVE  Goal
  <2>1. CASE /\ UNCHANGED <<v1, v2, v3, v4>>
             /\ Documents!Fine
             /\ v5' = [v5 EXCEPT ![f] = Documents!Idle]
    <3>h. /\ FixHands'
          /\ v5'[f].pc = "idle" /\ v5'[f].todo = {} /\ v5'[f].quiet = TRUE
          /\ \A g \in Fixers : g # f => v5'[g] = v5[g]
      <4>2. Documents!Idle \in FixRuns
        BY <1>0, DocumentsRecords DEF FixHands
      <4>3. LET r == Documents!Idle IN r.pc = "idle" /\ r.todo = {} /\ r.quiet = TRUE
        BY DEF Documents!Idle
      <4> HIDE DEF Documents!Idle
      <4> DEFINE r == Documents!Idle
      <4>4. v5' = [v5 EXCEPT ![f] = r]
        BY <2>1
      <4>5. r \in FixRuns /\ r.pc = "idle" /\ r.todo = {} /\ r.quiet = TRUE
        BY <4>2, <4>3
      <4> HIDE DEF r
      <4> QED
        BY <1>0, <4>4, <4>5, DocumentsGoes
    <3>1. FixHands'
      BY <3>h
    <3>2. FixTypes'
      BY <1>0, <2>1, <3>h DEF FixTypes
    <3>3. FixCalm'
      BY <1>0, <2>1, <3>h DEF FixCalm
    <3>4. FixStories'
      BY <1>0, <2>1, <3>h DEF FixStories
    <3>5. FixDocs'
      BY <1>0, <2>1, <3>h DEF FixDocs
    <3>6. Documents!OneFixes'
      BY <1>0, <2>1, <3>h DEF Documents!OneFixes
    <3>7. Documents!ListIsMissing'
      BY <1>0, <2>1, <3>h DEF Documents!ListIsMissing, Documents!Missing, Documents!Present
    <3> QED
      BY <3>1, <3>2, <3>3, <3>4, <3>5, <3>6, <3>7
  <2> QED
    BY <1>6, <2>1 DEF Documents!CreateDocument, Documents!End, Documents!rows
<1>7. ASSUME NEW f \in Fixers, NEW d \in v5[f].todo, v5[f].pc = "create", UNCHANGED <<v1, v2>>, Documents!SiteFor(TRUE) \/ Documents!SiteFor(FALSE), Documents!Fine \/ Documents!Fail,
         \/ v3' = [v3 EXCEPT ![d] = IF @ < Documents!MaxCopies THEN @ + 1 ELSE @] /\ v5' = [v5 EXCEPT ![f] = [v5[f] EXCEPT !.todo = @ \ {d}]]
         \/ v3' = v3 /\ v5' = [v5 EXCEPT ![f] = Documents!Idle] /\ Documents!Fail
      PROVE  Goal
  <2>s. v4' \in 0 .. Documents!MaxCopies
    BY <1>0, <1>7 DEF Documents!SiteFor, FixTypes, Documents!MaxCopies
  <2>1. CASE /\ v5[f].pc = "create"
             /\ UNCHANGED <<v1, v2>>
             /\ v4' \in 0 .. Documents!MaxCopies
             /\ (Documents!Fine \/ Documents!Fail)
             /\ v3' = [v3 EXCEPT ![d] = IF @ < Documents!MaxCopies THEN @ + 1 ELSE @]
             /\ v5' = [v5 EXCEPT ![f] = [v5[f] EXCEPT !.todo = v5[f].todo \ {d}]]
    <3>h. /\ FixHands'
          /\ v5'[f].pc = v5[f].pc /\ v5'[f].todo = v5[f].todo \ {d} /\ v5'[f].quiet = v5[f].quiet
          /\ \A g \in Fixers : g # f => v5'[g] = v5[g]
      <4>1. v5[f].todo \ {d} \in FixTodos
        BY <1>0, <2>1 DEF FixTodos, FixHands, FixRuns
      <4>2. [v5[f] EXCEPT !.todo = v5[f].todo \ {d}] \in FixRuns
        BY <1>0, <4>1, DocumentsRecords DEF FixHands
      <4>3. LET r == [v5[f] EXCEPT !.todo = v5[f].todo \ {d}] IN r.pc = v5[f].pc /\ r.todo = v5[f].todo \ {d} /\ r.quiet = v5[f].quiet
        BY <1>0 DEF FixHands, FixRuns
      <4> HIDE DEF Documents!Idle
      <4> DEFINE r == [v5[f] EXCEPT !.todo = v5[f].todo \ {d}]
      <4>4. v5' = [v5 EXCEPT ![f] = r]
        BY <2>1
      <4>5. r \in FixRuns /\ r.pc = v5[f].pc /\ r.todo = v5[f].todo \ {d} /\ r.quiet = v5[f].quiet
        BY <4>2, <4>3
      <4> HIDE DEF r
      <4> QED
        BY <1>0, <4>4, <4>5, DocumentsGoes
    <3>d. d \in Documents!Slots /\ v3[d] \in 0 .. 2
      BY <1>0 DEF FixHands, FixRuns, FixTodos, FixDocs, Documents!MaxCopies
    <3>1. FixHands'
      BY <3>h
    <3>2. FixTypes'
      BY <1>0, <2>1, <3>h, <3>d DEF FixTypes
    <3>3. FixCalm'
      BY <1>0, <2>1, <3>h, <3>d DEF FixCalm
    <3>4. FixStories'
      BY <1>0, <2>1, <3>h, <3>d DEF FixStories
    <3>5. FixDocs'
      BY <1>0, <2>1, <3>d DEF FixDocs, Documents!MaxCopies
    <3>6. Documents!OneFixes'
      BY <1>0, <2>1, <3>h, <3>d DEF Documents!OneFixes
    <3>7. Documents!ListIsMissing'
      <4>1. v6' => v6 /\ \A g \in Fixers : v5[g].pc = "create" => g = f
        BY <1>0, <2>1 DEF Documents!OneFixes, FixCalm
      <4>2. v6 /\ v5[f].quiet => v5[f].todo = Documents!Missing(Documents!Present) /\ v3[d] = 0
        BY <1>0, <2>1, <3>d DEF Documents!ListIsMissing, Documents!Missing, Documents!Present, FixStories, Documents!Slots
      <4>3. v3[d] = 0 => v3' = [v3 EXCEPT ![d] = 1]
        BY <2>1 DEF Documents!MaxCopies
      <4>4. v3[d] = 0 => Documents!Missing(Documents!Present)' = Documents!Missing(Documents!Present) \ {d}
        <5> SUFFICES ASSUME v3[d] = 0 PROVE Documents!Missing(Documents!Present)' = Documents!Missing(Documents!Present) \ {d}
          OBVIOUS
        <5>1. \A e \in Documents!Slots : (v3'[e] > 0) = (v3[e] > 0 \/ e = d)
          BY <1>0, <3>d, <4>3 DEF FixDocs
        <5>2. DOMAIN v2' = DOMAIN v2 /\ v2' = v2 /\ DOMAIN v2 \subseteq Documents!Slots
          BY <1>0, <2>1 DEF FixStories, Documents!Slots
        <5>3. Documents!Present' = Documents!Present \cup {d}
          BY <3>d, <5>1 DEF Documents!Present
        <5> QED
          BY <5>2, <5>3 DEF Documents!Missing
      <4> QED
        BY <4>1, <4>2, <4>4, <3>h, <2>1 DEF Documents!ListIsMissing
    <3> QED
      BY <3>1, <3>2, <3>3, <3>4, <3>5, <3>6, <3>7
  <2>2. CASE /\ v5[f].pc = "create"
             /\ UNCHANGED <<v1, v2, v3>>
             /\ v4' \in 0 .. Documents!MaxCopies
             /\ Documents!Fail
             /\ v5' = [v5 EXCEPT ![f] = Documents!Idle]
    <3>h. /\ FixHands'
          /\ v5'[f].pc = "idle" /\ v5'[f].todo = {} /\ v5'[f].quiet = TRUE
          /\ \A g \in Fixers : g # f => v5'[g] = v5[g]
      <4>2. Documents!Idle \in FixRuns
        BY <1>0, DocumentsRecords DEF FixHands
      <4>3. LET r == Documents!Idle IN r.pc = "idle" /\ r.todo = {} /\ r.quiet = TRUE
        BY DEF Documents!Idle
      <4> HIDE DEF Documents!Idle
      <4> DEFINE r == Documents!Idle
      <4>4. v5' = [v5 EXCEPT ![f] = r]
        BY <2>2
      <4>5. r \in FixRuns /\ r.pc = "idle" /\ r.todo = {} /\ r.quiet = TRUE
        BY <4>2, <4>3
      <4> HIDE DEF r
      <4> QED
        BY <1>0, <4>4, <4>5, DocumentsGoes
    <3>1. FixHands'
      BY <3>h
    <3>2. FixTypes'
      BY <1>0, <2>2, <3>h DEF FixTypes
    <3>3. FixCalm'
      BY <1>0, <2>2, <3>h DEF FixCalm
    <3>4. FixStories'
      BY <1>0, <2>2, <3>h DEF FixStories
    <3>5. FixDocs'
      BY <1>0, <2>2, <3>h DEF FixDocs
    <3>6. Documents!OneFixes'
      BY <1>0, <2>2, <3>h DEF Documents!OneFixes
    <3>7. Documents!ListIsMissing'
      BY <1>0, <2>2, <3>h DEF Documents!ListIsMissing, Documents!Missing, Documents!Present
    <3> QED
      BY <3>1, <3>2, <3>3, <3>4, <3>5, <3>6, <3>7
  <2> HIDE DEF Documents!Fine, Documents!Fail, Goal
  <2> QED
    BY <1>7, <2>1, <2>2, <2>s DEF Documents!End
<1>8. ASSUME Documents!CreateEpic \/ Documents!UpdateEpic PROVE Goal
  <2>1. Documents!Statement /\ v6' = v6 /\ v1' \in {"none", "active", "archived"} /\ UNCHANGED <<v2, v3, v4, faults>>
    BY <1>8 DEF Documents!CreateEpic, Documents!UpdateEpic, Documents!Statement
  <2> QED
    BY <1>0, <1>1, <2>1 DEF FixTypes, FixStories, FixDocs
<1>9. ASSUME NEW s \in Stories, Documents!CreateStory(s) \/ Documents!SetTasks(s) PROVE Goal
  <2>1. Documents!Statement /\ v6' = v6 /\ UNCHANGED <<v1, v3, v4, faults>>
    BY <1>9 DEF Documents!CreateStory, Documents!SetTasks, Documents!Statement
  <2>2. FixStories'
    BY <1>0, <1>9 DEF Documents!CreateStory, Documents!SetTasks, FixStories
  <2>3. FixTypes' /\ FixDocs'
    BY <1>0, <2>1 DEF FixTypes, FixDocs
  <2> QED
    BY <1>1, <2>1, <2>2, <2>3
<1>10. ASSUME NEW d \in Documents!Slots, Documents!EditDocument(d) PROVE Goal
  <2>1. Documents!Statement /\ v6' = v6 /\ UNCHANGED <<v1, v2, v4, faults>>
    BY <1>10 DEF Documents!EditDocument, Documents!Statement
  <2>2. FixDocs'
    BY <1>0, <1>10 DEF Documents!EditDocument, FixDocs, Documents!MaxCopies
  <2>3. FixTypes' /\ FixStories'
    BY <1>0, <2>1 DEF FixTypes, FixStories
  <2> QED
    BY <1>1, <2>1, <2>2, <2>3
<1>11. ASSUME NEW f \in Fixers, Documents!CreateDocument(f) PROVE Goal
  <2>1. CASE v5[f].todo = {}
    BY <1>6, <1>11, <2>1
  <2>2. CASE v5[f].todo # {}
    <3>1. v5[f].pc = "create" /\ UNCHANGED <<v1, v2>>
      BY <1>11 DEF Documents!CreateDocument
    <3>2. PICK d \in v5[f].todo :
             \/ /\ \E read \in BOOLEAN : Documents!SiteFor(read) /\ (IF read THEN Documents!Fine ELSE Documents!Fail)
                /\ v5' = [v5 EXCEPT ![f] = [v5[f] EXCEPT !.todo = @ \ {d}]]
                /\ v3' = [v3 EXCEPT ![d] = IF @ < Documents!MaxCopies THEN @ + 1 ELSE @]
             \/ Documents!SiteFor(TRUE) /\ v3' = v3 /\ Documents!End(f) /\ Documents!Fail
      BY <1>11, <2>2 DEF Documents!CreateDocument
    <3>3. (Documents!SiteFor(TRUE) \/ Documents!SiteFor(FALSE)) /\ (Documents!Fine \/ Documents!Fail)
      BY <3>2
    <3>4. \/ v3' = [v3 EXCEPT ![d] = IF @ < Documents!MaxCopies THEN @ + 1 ELSE @] /\ v5' = [v5 EXCEPT ![f] = [v5[f] EXCEPT !.todo = @ \ {d}]]
          \/ v3' = v3 /\ v5' = [v5 EXCEPT ![f] = Documents!Idle] /\ Documents!Fail
      BY <3>2 DEF Documents!End
    <3> QED
      BY <1>7, <3>1, <3>3, <3>4
  <2> QED
    BY <2>1, <2>2
<1>12. (FixHands /\ FixTypes /\ FixCalm /\ FixStories /\ FixDocs)' => Documents!TypeOK'
  BY DocumentsTyped, PTL
<1> HIDE DEF Goal, Documents!Fine, Documents!Fail
<1>13. ASSUME Goal PROVE Documents!IInv'
  BY <1>12, <1>13 DEF Goal, Documents!IInv
<1>14. Goal
  BY <1>2, <1>3, <1>4, <1>5, <1>8, <1>9, <1>10, <1>11 DEF Documents!Next
<1> QED
  BY <1>13, <1>14

LEMMA DocumentsRests == Documents!IInv /\ UNCHANGED Documents!vars => Documents!IInv'
<1> SUFFICES ASSUME Documents!IInv, UNCHANGED Documents!vars PROVE Documents!IInv'
  OBVIOUS
<1>0. UNCHANGED <<v1, v2, v3, v4, v5, faults, v6>> /\ Documents!IInv
  BY DEF Documents!vars
<1>1. Documents!TypeOK'
  BY <1>0 DEF Documents!IInv, Documents!TypeOK
<1>2. Documents!OneFixes'
  BY <1>0 DEF Documents!IInv, Documents!OneFixes
<1>3. Documents!ListIsMissing'
  BY <1>0 DEF Documents!IInv, Documents!ListIsMissing, Documents!Missing, Documents!Present
<1> QED
  BY <1>1, <1>2, <1>3 DEF Documents!IInv

LEMMA DocumentsHolds == Spec => [](part = "lineage" => Documents!IInv)
<1> DEFINE Kept == part = "lineage" => Documents!IInv
<1>1. Init => Kept
  BY DocumentsStarts DEF Init
<1>2. Kept /\ [Next]_vars => Kept'
  BY DocumentsNext, DocumentsRests DEF Next, vars, Documents!vars
<1> QED
  BY <1>1, <1>2, PTL DEF Spec

\* Run and run again, and killed half-way, `lineage fix` makes no document twice
\* and ends with none missing, for any number of terminals, stories and kinds of
\* document - but where a query was cut short, fixes overlapped or rows changed
\* under it (internal/db/lineage.go).
THEOREM OneDocumentOfAKindAlways == Spec => OneDocumentOfAKind
<1>1. Documents!IInv /\ [Next]_vars => (part = "lineage" => Documents!OneDocumentOfAKind)
  <2> SUFFICES ASSUME Documents!IInv, [Next]_vars, part = "lineage", NEW f \in Fixers,
                      v5[f].pc = "create", v6, v5[f].quiet
               PROVE  /\ \A d \in Documents!Slots : v3'[d] > 1 => v3[d] > 1
                      /\ (v5'[f].pc = "idle" /\ v6') => Documents!Missing(Documents!Present) = {}
    BY DEF Documents!OneDocumentOfAKind
  <2>0. /\ FixHands /\ FixTypes /\ FixCalm /\ FixStories /\ FixDocs /\ Documents!OneFixes /\ Documents!ListIsMissing
    BY DocumentsTyped DEF Documents!IInv
  <2>1. /\ v5[f].todo = Documents!Missing(Documents!Present)
        /\ \A g \in Fixers : v5[g].pc \in {"recheck", "create"} => g = f
    BY <2>0 DEF Documents!OneFixes, Documents!ListIsMissing
  <2>2. CASE UNCHANGED vars
    BY <2>2 DEF vars
  <2>3. ASSUME Documents!Statement, v3' = v3 \/ \E e \in Documents!Slots : v3' = [v3 EXCEPT ![e] = IF @ = 0 THEN 1 ELSE 0]
        PROVE  /\ \A d \in Documents!Slots : v3'[d] > 1 => v3[d] > 1
               /\ v5'[f].pc = "create"
    <3>1. v5'[f].pc = "create"
      <4>1. v5'[f] = [v5[f] EXCEPT !.quiet = (v5[f].pc = "idle")] /\ v5[f] \in FixRuns
        BY <2>0, <2>3 DEF Documents!Statement, FixHands
      <4> QED
        BY <4>1 DEF FixRuns
    <3>2. \A d \in Documents!Slots : v3'[d] = v3[d] \/ v3'[d] \in {0, 1}
      BY <2>0, <2>3 DEF FixDocs
    <3> QED
      BY <3>1, <3>2
  <2>5. ASSUME NEW g \in Fixers, Documents!Check(g) \/ Documents!Told(g) \/ Documents!FixLineage(g) \/ Documents!Recheck(g)
        PROVE  v3' = v3 /\ v5'[f].pc = "create"
    <3>1. g # f /\ v3' = v3
      BY <2>5 DEF Documents!Check, Documents!Told, Documents!FixLineage, Documents!Recheck, Documents!rows
    <3>2. v5'[f] = v5[f]
      BY <2>0, <2>5, <3>1 DEF Documents!Check, Documents!Told, Documents!FixLineage, Documents!Recheck, Documents!CheckLineage,
         Documents!End, FixHands
    <3> QED
      BY <3>1, <3>2
  <2>6. ASSUME NEW g \in Fixers, Documents!Killed(g)
        PROVE  v3' = v3 /\ (v6' => v5'[f].pc = "create")
    <3>1. v3' = v3 /\ ~v6'
      BY <2>6 DEF Documents!Killed, Documents!rows, Documents!Fail
    <3> QED
      BY <3>1
  <2>7. ASSUME NEW g \in Fixers, Documents!CreateDocument(g)
        PROVE  /\ \A d \in Documents!Slots : v3'[d] > 1 => v3[d] > 1
               /\ (v5'[f].pc = "idle" /\ v6') => Documents!Missing(Documents!Present) = {}
    <3>1. g = f
      BY <2>1, <2>7 DEF Documents!CreateDocument
    <3>2. CASE v5[f].todo = {}
      BY <2>1, <2>7, <3>1, <3>2 DEF Documents!CreateDocument
    <3>3. CASE v5[f].todo # {}
      <4>1. PICK d \in v5[f].todo :
               \/ /\ v5' = [v5 EXCEPT ![f].todo = @ \ {d}]
                  /\ v3' = [v3 EXCEPT ![d] = IF @ < Documents!MaxCopies THEN @ + 1 ELSE @]
               \/ v3' = v3 /\ ~v6'
        BY <2>7, <3>1, <3>3 DEF Documents!CreateDocument, Documents!Fail
      <4>2. d \in Documents!Slots /\ v3[d] = 0
        BY <2>0, <2>1 DEF Documents!Missing, Documents!Present, FixStories, FixDocs, Documents!Slots, Documents!MaxCopies
      <4>3. CASE v3' = v3 /\ ~v6'
        BY <4>3
      <4>4. CASE /\ v5' = [v5 EXCEPT ![f].todo = @ \ {d}]
                 /\ v3' = [v3 EXCEPT ![d] = IF @ < Documents!MaxCopies THEN @ + 1 ELSE @]
        <5>1. v5'[f].pc = "create"
          BY <2>0, <4>4 DEF FixHands, FixRuns
        <5>2. \A e \in Documents!Slots : v3'[e] = v3[e] \/ v3'[e] = 1
          BY <2>0, <4>2, <4>4 DEF FixDocs, Documents!MaxCopies
        <5> QED
          BY <5>1, <5>2
      <4> QED
        BY <4>1, <4>3, <4>4
    <3> QED
      BY <3>2, <3>3
  <2>8. CASE Documents!Next
    <3>1. CASE Documents!CreateEpic \/ Documents!UpdateEpic \/ \E s \in Stories : Documents!CreateStory(s) \/ Documents!SetTasks(s)
      <4>1. Documents!Statement /\ v3' = v3
        BY <3>1 DEF Documents!CreateEpic, Documents!UpdateEpic, Documents!CreateStory, Documents!SetTasks
      <4> QED
        BY <2>3, <4>1
    <3>2. ASSUME NEW e \in Documents!Slots, Documents!EditDocument(e)
          PROVE  /\ \A d \in Documents!Slots : v3'[d] > 1 => v3[d] > 1
                 /\ v5'[f].pc = "create"
      <4>1. Documents!Statement /\ v3' = [v3 EXCEPT ![e] = IF @ = 0 THEN 1 ELSE 0]
        BY <3>2 DEF Documents!EditDocument
      <4> QED
        BY <2>3, <4>1
    <3> QED
      BY <2>5, <2>6, <2>7, <2>8, <3>1, <3>2 DEF Documents!Next
  <2> QED
    BY <2>2, <2>8 DEF Next
<1>2. Spec => [][part = "lineage" => Documents!OneDocumentOfAKind]_vars
  BY <1>1, DocumentsHolds, PTL DEF Spec
<1> QED
  BY <1>2 DEF OneDocumentOfAKind

-----------------------------------------------------------------------------
(* Sprints and their gates.                                                *)

PlanOps == {"none", "start", "complete", "autoplan"}
PlanPcs == {"idle", "sprint", "assign", "guard", "gate", "activate", "move", "update", "file"}
PlanSprintIds == SprintIds \cup {None}
PlanTodos == SUBSET Members
PlanBools == BOOLEAN
PlanRuns ==
    [op : PlanOps, pc : PlanPcs, s : PlanSprintIds, seen : PlanTodos, force : PlanBools, quiet : PlanBools]
PlanHands == v5 \in [Planners -> PlanRuns]
PlanSprints == v1 \in [SprintIds -> {"none", "planned", "active", "completed"}]
PlanTask == [in : PlanSprintIds, done : PlanBools]
PlanTasks == v2 \in [Members -> PlanTask]
PlanSpecs == v3 \in [SprintIds -> SUBSET Sprint!Dirs]
PlanFaults == faults \in 0 .. MaxFaults
PlanFlags == v4 \in BOOLEAN /\ v6 \in BOOLEAN

LEMMA SprintTyped ==
    Sprint!TypeOK <=> PlanHands /\ PlanSprints /\ PlanTasks /\ PlanSpecs /\ PlanFaults /\ PlanFlags
BY DEF Sprint!TypeOK, PlanHands, PlanSprints, PlanTasks, PlanSpecs, PlanFaults, PlanFlags, PlanRuns, PlanOps, PlanPcs,
   PlanSprintIds, PlanTodos, PlanBools, PlanTask, Sprint!Ops, Sprint!Pcs

LEMMA SprintConstants == Limit \in Nat \ {0} /\ MaxFaults \in Nat /\ IsFiniteSet(Members)
BY ConstantsAssumption DEF Sprint!BoundsAssumption, Sprint!IsFiniteSet, IsFiniteSet

\* A list that is not cut short is of all the sprint's tasks.
LEMMA WholeList ==
    ASSUME NEW T \in SUBSET Members, NEW ts \in SUBSET T, Sprint!Cardinality(ts) = Sprint!Cardinality(T)
    PROVE  ts = T
<1>1. \A S : Sprint!Cardinality(S) = Cardinality(S)
  BY DEF Sprint!Cardinality, Cardinality, Sprint!IsFiniteSet, IsFiniteSet
<1>2. IsFiniteSet(T)
  BY SprintConstants, FS_Subset
<1> QED
  BY <1>1, <1>2, FS_Subset


\* One goes on with a record of its own, and the others with theirs.
LEMMA SprintGoes ==
    ASSUME PlanHands, NEW c \in Planners, NEW r \in PlanRuns, v5' = [v5 EXCEPT ![c] = r]
    PROVE  /\ PlanHands' /\ v5'[c] = r
           /\ \A g \in Planners : g # c => v5'[g] = v5[g]
BY DEF PlanHands

LEMMA SprintRecords ==
    /\ Sprint!Idle \in PlanRuns
    /\ \A op \in PlanOps, pc \in PlanPcs, seen \in PlanTodos :
          [Sprint!Idle EXCEPT !.op = op, !.pc = pc, !.seen = seen] \in PlanRuns
    /\ \A r \in PlanRuns, pc \in PlanPcs, s \in PlanSprintIds :
          [r EXCEPT !.pc = pc, !.s = s] \in PlanRuns
    /\ \A r \in PlanRuns, seen \in PlanTodos :
          [r EXCEPT !.seen = seen] \in PlanRuns
    /\ \A op \in PlanOps, pc \in PlanPcs, s \in PlanSprintIds, force \in PlanBools :
          [Sprint!Idle EXCEPT !.op = op, !.pc = pc, !.s = s, !.force = force] \in PlanRuns
    /\ \A r \in PlanRuns, pc \in PlanPcs :
          [r EXCEPT !.pc = pc] \in PlanRuns
    /\ \A r \in PlanRuns, pc \in PlanPcs, force \in PlanBools, quiet \in PlanBools :
          [r EXCEPT !.pc = pc, !.force = force, !.quiet = quiet] \in PlanRuns
    /\ \A op \in PlanOps, pc \in PlanPcs, s \in PlanSprintIds, quiet \in PlanBools :
          [Sprint!Idle EXCEPT !.op = op, !.pc = pc, !.s = s, !.quiet = quiet] \in PlanRuns
<1>1. Sprint!Idle \in PlanRuns
  BY ConstantsAssumption DEF Sprint!Idle, PlanRuns, PlanOps, PlanPcs, PlanSprintIds, PlanTodos, PlanBools
<1>2. \A op \in PlanOps, pc \in PlanPcs, seen \in PlanTodos :
          [Sprint!Idle EXCEPT !.op = op, !.pc = pc, !.seen = seen] \in PlanRuns
  BY <1>1 DEF PlanRuns
<1>3. \A r \in PlanRuns, pc \in PlanPcs, s \in PlanSprintIds :
          [r EXCEPT !.pc = pc, !.s = s] \in PlanRuns
  BY <1>1 DEF PlanRuns
<1>4. \A r \in PlanRuns, seen \in PlanTodos :
          [r EXCEPT !.seen = seen] \in PlanRuns
  BY <1>1 DEF PlanRuns
<1>5. \A op \in PlanOps, pc \in PlanPcs, s \in PlanSprintIds, force \in PlanBools :
          [Sprint!Idle EXCEPT !.op = op, !.pc = pc, !.s = s, !.force = force] \in PlanRuns
  BY <1>1 DEF PlanRuns
<1>6. \A r \in PlanRuns, pc \in PlanPcs :
          [r EXCEPT !.pc = pc] \in PlanRuns
  BY <1>1 DEF PlanRuns
<1>7. \A r \in PlanRuns, pc \in PlanPcs, force \in PlanBools, quiet \in PlanBools :
          [r EXCEPT !.pc = pc, !.force = force, !.quiet = quiet] \in PlanRuns
  BY <1>1 DEF PlanRuns
<1>8. \A op \in PlanOps, pc \in PlanPcs, s \in PlanSprintIds, quiet \in PlanBools :
          [Sprint!Idle EXCEPT !.op = op, !.pc = pc, !.s = s, !.quiet = quiet] \in PlanRuns
  BY <1>1 DEF PlanRuns
<1> QED
  BY <1>1, <1>2, <1>3, <1>4, <1>5, <1>6, <1>7, <1>8

\* What is written is news to the others.
LEMMA PlanNoticed ==
    ASSUME PlanHands, NEW c \in Planners, NEW r \in PlanRuns, v5' = [Sprint!Noticed(c) EXCEPT ![c] = r]
    PROVE  /\ PlanHands' /\ v5'[c] = r
           /\ \A g \in Planners : g # c =>
                 /\ v5'[g].op = v5[g].op /\ v5'[g].pc = v5[g].pc /\ v5'[g].s = v5[g].s /\ v5'[g].seen = v5[g].seen
                 /\ v5'[g].force = v5[g].force /\ ~v5'[g].quiet
<1>1. \A g \in Planners : LET q == [v5[g] EXCEPT !.quiet = FALSE] IN
          /\ q \in PlanRuns /\ q.op = v5[g].op /\ q.pc = v5[g].pc /\ q.s = v5[g].s /\ q.seen = v5[g].seen
          /\ q.force = v5[g].force /\ ~q.quiet
  <2> TAKE g \in Planners
  <2>1. v5[g] \in PlanRuns /\ FALSE \in PlanBools
    BY DEF PlanHands, PlanBools
  <2> QED
    BY <2>1 DEF PlanRuns
<1>2. \A g \in Planners : g # c => v5'[g] = [v5[g] EXCEPT !.quiet = FALSE]
  BY DEF Sprint!Noticed
<1>3. v5'[c] = r /\ v5' = [g \in Planners |-> v5'[g]]
  BY DEF Sprint!Noticed
<1>4. \A g \in Planners : g # c =>
          /\ v5'[g] \in PlanRuns /\ v5'[g].op = v5[g].op /\ v5'[g].pc = v5[g].pc /\ v5'[g].s = v5[g].s
          /\ v5'[g].seen = v5[g].seen /\ v5'[g].force = v5[g].force /\ ~v5'[g].quiet
  <2> TAKE g \in Planners
  <2> HAVE g # c
  <2> DEFINE q == [v5[g] EXCEPT !.quiet = FALSE]
  <2>1. /\ q \in PlanRuns /\ q.op = v5[g].op /\ q.pc = v5[g].pc /\ q.s = v5[g].s /\ q.seen = v5[g].seen
        /\ q.force = v5[g].force /\ ~q.quiet
    BY <1>1
  <2>2. v5'[g] = q
    BY <1>2
  <2> HIDE DEF q
  <2> QED
    BY <2>1, <2>2
<1>5. \A g \in Planners : v5'[g] \in PlanRuns
  BY <1>3, <1>4
<1>6. PlanHands'
  BY <1>3, <1>5 DEF PlanHands
<1> QED
  BY <1>3, <1>4, <1>6

LEMMA SprintStarts == ASSUME Sprint!Init PROVE Sprint!IInv
<1>1. /\ v1 = [s \in SprintIds |-> "none"] /\ v2 = [t \in Members |-> [in |-> None, done |-> FALSE]]
      /\ v3 = [s \in SprintIds |-> {}] /\ v4 \in BOOLEAN /\ v5 = [c \in Planners |-> Sprint!Idle]
      /\ faults = 0 /\ v6 = FALSE
  BY DEF Sprint!Init
<1>2. PlanHands
  BY <1>1, SprintRecords DEF PlanHands
<1>3. PlanSprints
  BY <1>1 DEF PlanSprints
<1>4. PlanTasks
  <2>1. [in |-> None, done |-> FALSE] \in PlanTask
    BY DEF PlanTask, PlanSprintIds, PlanBools
  <2> QED
    BY <1>1, <2>1 DEF PlanTasks
<1>5. PlanSpecs
  BY <1>1 DEF PlanSpecs
<1>6. PlanFaults
  BY <1>1, SprintConstants DEF PlanFaults
<1>7. PlanFlags
  BY <1>1 DEF PlanFlags
<1>8. \A c \in Planners : v5[c].op = "none" /\ v5[c].pc = "idle"
  BY <1>1 DEF Sprint!Idle
<1>9. Sprint!Active = {}
  BY <1>1 DEF Sprint!Active
<1>10. Sprint!TypeOK
  BY <1>2, <1>3, <1>4, <1>5, <1>6, <1>7, SprintTyped
<1> QED
  BY <1>8, <1>9, <1>10 DEF Sprint!IInv, Sprint!OthersPlan, Sprint!OneStarts, Sprint!OneActive, Sprint!ActiveIsItsOwn,
     Sprint!GateTold, Sprint!ListTold

LEMMA SprintNext ==
    ASSUME Sprint!IInv, Sprint!Next
    PROVE  Sprint!IInv'
<1> USE DEF Sprint!Fine, Sprint!Fail, Sprint!At
<1> DEFINE Goal == PlanHands' /\ PlanSprints' /\ PlanTasks' /\ PlanSpecs' /\ PlanFaults' /\ PlanFlags' /\ Sprint!OthersPlan' /\ Sprint!OneStarts' /\ Sprint!OneActive' /\ Sprint!ActiveIsItsOwn' /\ Sprint!GateTold' /\ Sprint!ListTold'
<1>0. /\ PlanHands /\ PlanSprints /\ PlanTasks /\ PlanSpecs /\ PlanFaults /\ PlanFlags /\ Sprint!OthersPlan /\ Sprint!OneStarts
      /\ Sprint!OneActive /\ Sprint!ActiveIsItsOwn /\ Sprint!GateTold /\ Sprint!ListTold
      /\ Limit \in Nat \ {0} /\ MaxFaults \in Nat /\ IsFiniteSet(Members)
  BY SprintTyped, SprintConstants DEF Sprint!IInv
<1>1. ASSUME Sprint!Statement, PlanSprints', PlanTasks', PlanSpecs', PlanFlags', v6 => v6', ~v6' => Sprint!Active' \subseteq Sprint!Active
      PROVE  Goal
  <2>1. /\ PlanHands'
        /\ \A c \in Planners : /\ v5'[c].op = v5[c].op /\ v5'[c].pc = v5[c].pc /\ v5'[c].s = v5[c].s
                               /\ (v5'[c].quiet => v5[c].op = "none")
    <3>1. ASSUME NEW c \in Planners
          PROVE  LET r == [v5[c] EXCEPT !.quiet = (v5[c].op = "none")]
                 IN r \in PlanRuns /\ r.op = v5[c].op /\ r.pc = v5[c].pc /\ r.s = v5[c].s /\ (r.quiet => v5[c].op = "none")
      <4>1. v5[c] \in PlanRuns /\ (v5[c].op = "none") \in PlanBools
        BY <1>0 DEF PlanHands, PlanBools
      <4> QED
        BY <4>1 DEF PlanRuns
    <3>2. v5' = [c \in Planners |-> [v5[c] EXCEPT !.quiet = (v5[c].op = "none")]]
      BY <1>1 DEF Sprint!Statement
    <3> QED
      BY <3>1, <3>2 DEF PlanHands
  <2>2. PlanFaults'
    BY <1>0, <1>1 DEF Sprint!Statement, PlanFaults
  <2>3. Sprint!OthersPlan' /\ Sprint!OneStarts'
    BY <1>0, <1>1, <2>1 DEF Sprint!OthersPlan, Sprint!OneStarts
  <2>4. Sprint!OneActive' /\ Sprint!ActiveIsItsOwn'
    BY <1>0, <1>1, <2>1 DEF Sprint!OneActive, Sprint!ActiveIsItsOwn
  <2>5. Sprint!GateTold' /\ Sprint!ListTold'
    BY <2>1 DEF Sprint!GateTold, Sprint!ListTold
  <2> QED
    BY <1>1, <2>1, <2>2, <2>3, <2>4, <2>5
<1>2. ASSUME NEW c \in Planners, NEW ready \in SUBSET Members, v5[c].op = "none", UNCHANGED <<v1, v2, v3, v4, faults, v6>>,
         v5' = [v5 EXCEPT ![c] = [Sprint!Idle EXCEPT !.op = "autoplan", !.pc = "sprint", !.seen = ready]]
      PROVE  Goal
  <2>1. CASE /\ UNCHANGED <<v1, v2, v3, v4, v6>>
             /\ Sprint!Fine
             /\ v5' = [v5 EXCEPT ![c] = [Sprint!Idle EXCEPT !.op = "autoplan", !.pc = "sprint", !.seen = ready]]
    <3>h. /\ PlanHands'
          /\ v5'[c].op = "autoplan" /\ v5'[c].pc = "sprint" /\ v5'[c].s = None /\ v5'[c].seen = ready /\ v5'[c].force = FALSE /\ v5'[c].quiet = TRUE
          /\ \A g \in Planners : g # c => v5'[g] = v5[g]
      <4>1. "autoplan" \in PlanOps /\ "sprint" \in PlanPcs /\ ready \in PlanTodos
        BY <1>0, <2>1 DEF PlanOps, PlanPcs, PlanSprintIds, PlanTodos, PlanBools
      <4>2. [Sprint!Idle EXCEPT !.op = "autoplan", !.pc = "sprint", !.seen = ready] \in PlanRuns
        BY <1>0, <4>1, SprintRecords DEF PlanHands
      <4>3. LET r == [Sprint!Idle EXCEPT !.op = "autoplan", !.pc = "sprint", !.seen = ready] IN r.op = "autoplan" /\ r.pc = "sprint" /\ r.s = None /\ r.seen = ready /\ r.force = FALSE /\ r.quiet = TRUE
        BY DEF Sprint!Idle
      <4> HIDE DEF Sprint!Idle
      <4> DEFINE r == [Sprint!Idle EXCEPT !.op = "autoplan", !.pc = "sprint", !.seen = ready]
      <4>4. v5' = [v5 EXCEPT ![c] = r]
        BY <2>1
      <4>5. r \in PlanRuns /\ r.op = "autoplan" /\ r.pc = "sprint" /\ r.s = None /\ r.seen = ready /\ r.force = FALSE /\ r.quiet = TRUE
        BY <4>2, <4>3
      <4> HIDE DEF r
      <4> QED
        BY <1>0, <4>4, <4>5, SprintGoes
    <3>1. PlanHands'
      BY <3>h
    <3>2. PlanSprints'
      BY <1>0, <2>1, <3>h DEF PlanSprints
    <3>3. PlanTasks'
      BY <1>0, <2>1, <3>h DEF PlanTasks
    <3>4. PlanSpecs'
      BY <1>0, <2>1, <3>h DEF PlanSpecs
    <3>5. PlanFaults'
      BY <1>0, <2>1, <3>h DEF PlanFaults
    <3>6. PlanFlags'
      BY <1>0, <2>1, <3>h DEF PlanFlags
    <3>7. Sprint!OthersPlan'
      BY <1>0, <2>1, <3>h DEF Sprint!OthersPlan
    <3>8. Sprint!OneStarts'
      BY <1>0, <2>1, <3>h DEF Sprint!OneStarts
    <3>9. Sprint!OneActive'
      BY <1>0, <2>1, <3>h DEF Sprint!OneActive, Sprint!Active, PlanSprints
    <3>10. Sprint!ActiveIsItsOwn'
      BY <1>0, <2>1, <3>h DEF Sprint!ActiveIsItsOwn, Sprint!Active, PlanSprints, Sprint!OneStarts
    <3>11. Sprint!GateTold'
      BY <1>0, <2>1, <3>h DEF Sprint!GateTold
    <3>12. Sprint!ListTold'
      BY <1>0, <2>1, <3>h DEF Sprint!ListTold, Sprint!TasksOf
    <3> QED
      BY <3>1, <3>2, <3>3, <3>4, <3>5, <3>6, <3>7, <3>8, <3>9, <3>10, <3>11, <3>12
  <2> QED
    BY <1>2, <2>1 DEF Sprint!End
<1>3. ASSUME NEW c \in Planners, NEW s \in SprintIds, v5[c].pc = "sprint", UNCHANGED <<v2, v3, v4, faults, v6>>, v1' = [v1 EXCEPT ![s] = "planned"],
         v5' = [Sprint!Noticed(c) EXCEPT ![c].pc = "assign", ![c].s = s]
      PROVE  Goal
  <2>1. CASE /\ v5[c].pc = "sprint"
             /\ UNCHANGED <<v2, v3, v4, v6>>
             /\ v1' = [v1 EXCEPT ![s] = "planned"]
             /\ Sprint!Fine
             /\ v5' = [Sprint!Noticed(c) EXCEPT ![c].pc = "assign", ![c].s = s]
    <3>h. /\ PlanHands'
          /\ v5'[c].op = v5[c].op /\ v5'[c].pc = "assign" /\ v5'[c].s = s /\ v5'[c].seen = v5[c].seen /\ v5'[c].force = v5[c].force /\ v5'[c].quiet = v5[c].quiet
          /\ \A g \in Planners : g # c => v5'[g].op = v5[g].op /\ v5'[g].pc = v5[g].pc /\ v5'[g].s = v5[g].s /\ v5'[g].seen = v5[g].seen /\ v5'[g].force = v5[g].force /\ ~v5'[g].quiet
      <4>1. "assign" \in PlanPcs /\ s \in PlanSprintIds
        BY <1>0, <2>1 DEF PlanOps, PlanPcs, PlanSprintIds, PlanTodos, PlanBools
      <4>2. [v5[c] EXCEPT !.pc = "assign", !.s = s] \in PlanRuns
        BY <1>0, <4>1, SprintRecords DEF PlanHands
      <4>3. LET r == [v5[c] EXCEPT !.pc = "assign", !.s = s] IN r.op = v5[c].op /\ r.pc = "assign" /\ r.s = s /\ r.seen = v5[c].seen /\ r.force = v5[c].force /\ r.quiet = v5[c].quiet
        BY <1>0 DEF PlanHands, PlanRuns
      <4> HIDE DEF Sprint!Idle
      <4> DEFINE r == [v5[c] EXCEPT !.pc = "assign", !.s = s]
      <4>4. v5' = [Sprint!Noticed(c) EXCEPT ![c] = r]
        BY <2>1, <1>0 DEF Sprint!Noticed, PlanHands
      <4>5. r \in PlanRuns /\ r.op = v5[c].op /\ r.pc = "assign" /\ r.s = s /\ r.seen = v5[c].seen /\ r.force = v5[c].force /\ r.quiet = v5[c].quiet
        BY <4>2, <4>3
      <4> HIDE DEF r
      <4>6. r \in PlanRuns
        BY <4>5
      <4>7. PlanHands' /\ v5'[c] = r /\ \A g \in Planners : g # c => v5'[g].op = v5[g].op /\ v5'[g].pc = v5[g].pc /\ v5'[g].s = v5[g].s /\ v5'[g].seen = v5[g].seen /\ v5'[g].force = v5[g].force /\ ~v5'[g].quiet
        BY <1>0, <4>4, <4>6, PlanNoticed
      <4> QED
        BY <4>5, <4>7
    <3>n. \A g \in Planners : v5'[g].op = v5[g].op /\ (g # c => ~v5'[g].quiet)
      BY <3>h
    <3>p. v5[c].op = "autoplan"
      BY <1>0, <2>1 DEF Sprint!OthersPlan
    <3>1. PlanHands'
      BY <3>h
    <3>2. PlanSprints'
      BY <1>0, <2>1, <3>h DEF PlanSprints
    <3>3. PlanTasks'
      BY <1>0, <2>1, <3>h DEF PlanTasks
    <3>4. PlanSpecs'
      BY <1>0, <2>1, <3>h DEF PlanSpecs
    <3>5. PlanFaults'
      BY <1>0, <2>1, <3>h DEF PlanFaults
    <3>6. PlanFlags'
      BY <1>0, <2>1, <3>h DEF PlanFlags
    <3>7. Sprint!OthersPlan'
      BY <1>0, <2>1, <3>h DEF Sprint!OthersPlan
    <3>8. Sprint!OneStarts'
      BY <1>0, <2>1, <3>n DEF Sprint!OneStarts
    <3>9. Sprint!OneActive'
      BY <1>0, <2>1, <3>h DEF Sprint!OneActive, Sprint!Active, PlanSprints
    <3>10. Sprint!ActiveIsItsOwn'
      <4>1. \A g \in Planners : v5'[g].op = "start" /\ v5'[g].pc \in {"gate", "activate"} =>
                v5[g].op = "start" /\ v5[g].pc \in {"gate", "activate"} /\ v5'[g].s = v5[g].s
        BY <3>h, <3>p
      <4>2. Sprint!Active' \subseteq Sprint!Active /\ v6' = v6
        BY <1>0, <2>1, <3>h DEF Sprint!Active, PlanSprints
      <4> QED
        BY <1>0, <4>1, <4>2 DEF Sprint!ActiveIsItsOwn
    <3>11. Sprint!GateTold'
      BY <1>0, <2>1, <3>h DEF Sprint!GateTold
    <3>12. Sprint!ListTold'
      BY <3>n, <3>p DEF Sprint!ListTold
    <3> QED
      BY <3>1, <3>2, <3>3, <3>4, <3>5, <3>6, <3>7, <3>8, <3>9, <3>10, <3>11, <3>12
  <2> QED
    BY <1>3, <2>1 DEF Sprint!End
<1>4. ASSUME NEW c \in Planners, NEW t \in v5[c].seen, v5[c].pc = "assign", UNCHANGED <<v1, v3, v4, v6>>, Sprint!Fine \/ Sprint!Fail, v2' = [v2 EXCEPT ![t].in = v5[c].s] \/ v2' = v2,
         v5' = [Sprint!Noticed(c) EXCEPT ![c].seen = v5[c].seen \ {t}]
      PROVE  Goal
  <2>1. CASE /\ v5[c].pc = "assign"
             /\ UNCHANGED <<v1, v3, v4, v6>>
             /\ v2' = [v2 EXCEPT ![t].in = v5[c].s] \/ v2' = v2
             /\ (Sprint!Fine \/ Sprint!Fail)
             /\ v5' = [Sprint!Noticed(c) EXCEPT ![c].seen = v5[c].seen \ {t}]
    <3>h. /\ PlanHands'
          /\ v5'[c].op = v5[c].op /\ v5'[c].pc = v5[c].pc /\ v5'[c].s = v5[c].s /\ v5'[c].seen = v5[c].seen \ {t} /\ v5'[c].force = v5[c].force /\ v5'[c].quiet = v5[c].quiet
          /\ \A g \in Planners : g # c => v5'[g].op = v5[g].op /\ v5'[g].pc = v5[g].pc /\ v5'[g].s = v5[g].s /\ v5'[g].seen = v5[g].seen /\ v5'[g].force = v5[g].force /\ ~v5'[g].quiet
      <4>1. v5[c].seen \ {t} \in PlanTodos
        BY <1>0, <2>1 DEF PlanHands, PlanRuns, PlanTodos
      <4>2. [v5[c] EXCEPT !.seen = v5[c].seen \ {t}] \in PlanRuns
        BY <1>0, <4>1, SprintRecords DEF PlanHands
      <4>3. LET r == [v5[c] EXCEPT !.seen = v5[c].seen \ {t}] IN r.op = v5[c].op /\ r.pc = v5[c].pc /\ r.s = v5[c].s /\ r.seen = v5[c].seen \ {t} /\ r.force = v5[c].force /\ r.quiet = v5[c].quiet
        BY <1>0 DEF PlanHands, PlanRuns
      <4> HIDE DEF Sprint!Idle
      <4> DEFINE r == [v5[c] EXCEPT !.seen = v5[c].seen \ {t}]
      <4>4. v5' = [Sprint!Noticed(c) EXCEPT ![c] = r]
        BY <2>1, <1>0 DEF Sprint!Noticed, PlanHands
      <4>5. r \in PlanRuns /\ r.op = v5[c].op /\ r.pc = v5[c].pc /\ r.s = v5[c].s /\ r.seen = v5[c].seen \ {t} /\ r.force = v5[c].force /\ r.quiet = v5[c].quiet
        BY <4>2, <4>3
      <4> HIDE DEF r
      <4>6. r \in PlanRuns
        BY <4>5
      <4>7. PlanHands' /\ v5'[c] = r /\ \A g \in Planners : g # c => v5'[g].op = v5[g].op /\ v5'[g].pc = v5[g].pc /\ v5'[g].s = v5[g].s /\ v5'[g].seen = v5[g].seen /\ v5'[g].force = v5[g].force /\ ~v5'[g].quiet
        BY <1>0, <4>4, <4>6, PlanNoticed
      <4> QED
        BY <4>5, <4>7
    <3>n. \A g \in Planners : v5'[g].op = v5[g].op /\ (g # c => ~v5'[g].quiet)
      BY <3>h
    <3>p. v5[c].op = "autoplan"
      BY <1>0, <2>1 DEF Sprint!OthersPlan
    <3>1. PlanHands'
      BY <3>h
    <3>2. PlanSprints'
      BY <1>0, <2>1, <3>h DEF PlanSprints
    <3>3. PlanTasks'
      <4>1. v5[c].s \in PlanSprintIds /\ v5[c].seen \subseteq Members
        BY <1>0 DEF PlanHands, PlanRuns, PlanTodos
      <4> DEFINE q == [v2[t] EXCEPT !.in = v5[c].s]
      <4>2. t \in Members /\ q \in PlanTask
        <5>1. v2[t] \in PlanTask
          BY <1>0, <4>1 DEF PlanTasks
        <5> QED
          BY <4>1, <5>1 DEF PlanTask
      <4>3. v2' = [v2 EXCEPT ![t] = q] \/ v2' = v2
        BY <2>1
      <4>4. v2 \in [Members -> PlanTask]
        BY <1>0 DEF PlanTasks
      <4> HIDE DEF q
      <4>5. CASE v2' = [v2 EXCEPT ![t] = q]
        BY <4>2, <4>4, <4>5 DEF PlanTasks
      <4>6. CASE v2' = v2
        BY <4>4, <4>6 DEF PlanTasks
      <4> QED
        BY <4>3, <4>5, <4>6
    <3>4. PlanSpecs'
      BY <1>0, <2>1, <3>h DEF PlanSpecs
    <3>5. PlanFaults'
      BY <1>0, <2>1, <3>h DEF PlanFaults
    <3>6. PlanFlags'
      BY <1>0, <2>1, <3>h DEF PlanFlags
    <3>7. Sprint!OthersPlan'
      BY <1>0, <2>1, <3>h DEF Sprint!OthersPlan
    <3>8. Sprint!OneStarts'
      BY <1>0, <2>1, <3>n DEF Sprint!OneStarts
    <3>9. Sprint!OneActive'
      BY <1>0, <2>1, <3>h DEF Sprint!OneActive, Sprint!Active, PlanSprints
    <3>10. Sprint!ActiveIsItsOwn'
      BY <1>0, <2>1, <3>h DEF Sprint!ActiveIsItsOwn, Sprint!Active, PlanSprints, Sprint!OneStarts
    <3>11. Sprint!GateTold'
      BY <1>0, <2>1, <3>h DEF Sprint!GateTold
    <3>12. Sprint!ListTold'
      BY <3>n, <3>p DEF Sprint!ListTold
    <3> QED
      BY <3>1, <3>2, <3>3, <3>4, <3>5, <3>6, <3>7, <3>8, <3>9, <3>10, <3>11, <3>12
  <2> QED
    BY <1>4, <2>1 DEF Sprint!End
<1>5. ASSUME NEW c \in Planners, NEW s \in SprintIds, NEW skipGate \in BOOLEAN, Sprint!Start(c, s, skipGate)
      PROVE  Goal
  <2>1. CASE /\ v5[c].op = "none"
             /\ UNCHANGED <<v1, v2, v3, v4>>
             /\ Sprint!Fine
             /\ v6' = (v6 \/ \E d \in Planners : v5[d].op = "start")
             /\ v5' = [v5 EXCEPT ![c] = [Sprint!Idle EXCEPT !.op = "start", !.pc = "guard", !.s = s, !.force = skipGate]]
    <3>h. /\ PlanHands'
          /\ v5'[c].op = "start" /\ v5'[c].pc = "guard" /\ v5'[c].s = s /\ v5'[c].seen = {} /\ v5'[c].force = skipGate /\ v5'[c].quiet = TRUE
          /\ \A g \in Planners : g # c => v5'[g] = v5[g]
      <4>1. "start" \in PlanOps /\ "guard" \in PlanPcs /\ s \in PlanSprintIds /\ skipGate \in PlanBools
        BY <1>0, <2>1 DEF PlanOps, PlanPcs, PlanSprintIds, PlanTodos, PlanBools
      <4>2. [Sprint!Idle EXCEPT !.op = "start", !.pc = "guard", !.s = s, !.force = skipGate] \in PlanRuns
        BY <1>0, <4>1, SprintRecords DEF PlanHands
      <4>3. LET r == [Sprint!Idle EXCEPT !.op = "start", !.pc = "guard", !.s = s, !.force = skipGate] IN r.op = "start" /\ r.pc = "guard" /\ r.s = s /\ r.seen = {} /\ r.force = skipGate /\ r.quiet = TRUE
        BY DEF Sprint!Idle
      <4> HIDE DEF Sprint!Idle
      <4> DEFINE r == [Sprint!Idle EXCEPT !.op = "start", !.pc = "guard", !.s = s, !.force = skipGate]
      <4>4. v5' = [v5 EXCEPT ![c] = r]
        BY <2>1
      <4>5. r \in PlanRuns /\ r.op = "start" /\ r.pc = "guard" /\ r.s = s /\ r.seen = {} /\ r.force = skipGate /\ r.quiet = TRUE
        BY <4>2, <4>3
      <4> HIDE DEF r
      <4> QED
        BY <1>0, <4>4, <4>5, SprintGoes
    <3>1. PlanHands'
      BY <3>h
    <3>2. PlanSprints'
      BY <1>0, <2>1, <3>h DEF PlanSprints
    <3>3. PlanTasks'
      BY <1>0, <2>1, <3>h DEF PlanTasks
    <3>4. PlanSpecs'
      BY <1>0, <2>1, <3>h DEF PlanSpecs
    <3>5. PlanFaults'
      BY <1>0, <2>1, <3>h DEF PlanFaults
    <3>6. PlanFlags'
      BY <1>0, <2>1, <3>h DEF PlanFlags
    <3>7. Sprint!OthersPlan'
      BY <1>0, <2>1, <3>h DEF Sprint!OthersPlan
    <3>8. Sprint!OneStarts'
      BY <1>0, <2>1, <3>h DEF Sprint!OneStarts
    <3>9. Sprint!OneActive'
      BY <1>0, <2>1, <3>h DEF Sprint!OneActive, Sprint!Active, PlanSprints
    <3>10. Sprint!ActiveIsItsOwn'
      BY <1>0, <2>1, <3>h DEF Sprint!ActiveIsItsOwn, Sprint!Active, PlanSprints, Sprint!OneStarts
    <3>11. Sprint!GateTold'
      BY <1>0, <2>1, <3>h DEF Sprint!GateTold
    <3>12. Sprint!ListTold'
      BY <1>0, <2>1, <3>h DEF Sprint!ListTold, Sprint!TasksOf
    <3> QED
      BY <3>1, <3>2, <3>3, <3>4, <3>5, <3>6, <3>7, <3>8, <3>9, <3>10, <3>11, <3>12
  <2> QED
    BY <1>5, <2>1 DEF Sprint!Start, Sprint!End, Sprint!Go, Sprint!db
<1>6. ASSUME NEW c \in Planners, Sprint!Guard(c)
      PROVE  Goal
  <2>1. CASE /\ v5[c].op = "start"
             /\ v5[c].pc = "guard"
             /\ UNCHANGED <<v1, v2, v3, v4, v6>>
             /\ Sprint!Fine
             /\ Sprint!Active = {} \/ v5[c].s \in Sprint!Active
             /\ v5' = [v5 EXCEPT ![c] = [v5[c] EXCEPT !.pc = "gate"]]
    <3>h. /\ PlanHands'
          /\ v5'[c].op = v5[c].op /\ v5'[c].pc = "gate" /\ v5'[c].s = v5[c].s /\ v5'[c].seen = v5[c].seen /\ v5'[c].force = v5[c].force /\ v5'[c].quiet = v5[c].quiet
          /\ \A g \in Planners : g # c => v5'[g] = v5[g]
      <4>1. "gate" \in PlanPcs
        BY <1>0, <2>1 DEF PlanOps, PlanPcs, PlanSprintIds, PlanTodos, PlanBools
      <4>2. [v5[c] EXCEPT !.pc = "gate"] \in PlanRuns
        BY <1>0, <4>1, SprintRecords DEF PlanHands
      <4>3. LET r == [v5[c] EXCEPT !.pc = "gate"] IN r.op = v5[c].op /\ r.pc = "gate" /\ r.s = v5[c].s /\ r.seen = v5[c].seen /\ r.force = v5[c].force /\ r.quiet = v5[c].quiet
        BY <1>0 DEF PlanHands, PlanRuns
      <4> HIDE DEF Sprint!Idle
      <4> DEFINE r == [v5[c] EXCEPT !.pc = "gate"]
      <4>4. v5' = [v5 EXCEPT ![c] = r]
        BY <2>1
      <4>5. r \in PlanRuns /\ r.op = v5[c].op /\ r.pc = "gate" /\ r.s = v5[c].s /\ r.seen = v5[c].seen /\ r.force = v5[c].force /\ r.quiet = v5[c].quiet
        BY <4>2, <4>3
      <4> HIDE DEF r
      <4> QED
        BY <1>0, <4>4, <4>5, SprintGoes
    <3>a. ~v6 => Sprint!Active \subseteq {v5[c].s}
      BY <1>0, <2>1 DEF Sprint!OneActive
    <3>1. PlanHands'
      BY <3>h
    <3>2. PlanSprints'
      BY <1>0, <2>1, <3>h, <3>a DEF PlanSprints
    <3>3. PlanTasks'
      BY <1>0, <2>1, <3>h, <3>a DEF PlanTasks
    <3>4. PlanSpecs'
      BY <1>0, <2>1, <3>h, <3>a DEF PlanSpecs
    <3>5. PlanFaults'
      BY <1>0, <2>1, <3>h, <3>a DEF PlanFaults
    <3>6. PlanFlags'
      BY <1>0, <2>1, <3>h, <3>a DEF PlanFlags
    <3>7. Sprint!OthersPlan'
      BY <1>0, <2>1, <3>h, <3>a DEF Sprint!OthersPlan
    <3>8. Sprint!OneStarts'
      BY <1>0, <2>1, <3>h, <3>a DEF Sprint!OneStarts
    <3>9. Sprint!OneActive'
      BY <1>0, <2>1, <3>h, <3>a DEF Sprint!OneActive, Sprint!Active, PlanSprints
    <3>10. Sprint!ActiveIsItsOwn'
      BY <1>0, <2>1, <3>h, <3>a DEF Sprint!ActiveIsItsOwn, Sprint!Active, PlanSprints, Sprint!OneStarts
    <3>11. Sprint!GateTold'
      BY <1>0, <2>1, <3>h, <3>a DEF Sprint!GateTold
    <3>12. Sprint!ListTold'
      BY <1>0, <2>1, <3>h, <3>a DEF Sprint!ListTold, Sprint!TasksOf
    <3> QED
      BY <3>1, <3>2, <3>3, <3>4, <3>5, <3>6, <3>7, <3>8, <3>9, <3>10, <3>11, <3>12
  <2>2. CASE /\ UNCHANGED <<v1, v2, v3, v4, v6>>
             /\ (Sprint!Fine \/ Sprint!Fail)
             /\ v5' = [v5 EXCEPT ![c] = Sprint!Idle]
    <3>h. /\ PlanHands'
          /\ v5'[c].op = "none" /\ v5'[c].pc = "idle" /\ v5'[c].s = None /\ v5'[c].seen = {} /\ v5'[c].force = FALSE /\ v5'[c].quiet = TRUE
          /\ \A g \in Planners : g # c => v5'[g] = v5[g]
      <4>2. Sprint!Idle \in PlanRuns
        BY <1>0, SprintRecords DEF PlanHands
      <4>3. LET r == Sprint!Idle IN r.op = "none" /\ r.pc = "idle" /\ r.s = None /\ r.seen = {} /\ r.force = FALSE /\ r.quiet = TRUE
        BY DEF Sprint!Idle
      <4> HIDE DEF Sprint!Idle
      <4> DEFINE r == Sprint!Idle
      <4>4. v5' = [v5 EXCEPT ![c] = r]
        BY <2>2
      <4>5. r \in PlanRuns /\ r.op = "none" /\ r.pc = "idle" /\ r.s = None /\ r.seen = {} /\ r.force = FALSE /\ r.quiet = TRUE
        BY <4>2, <4>3
      <4> HIDE DEF r
      <4> QED
        BY <1>0, <4>4, <4>5, SprintGoes
    <3>1. PlanHands'
      BY <3>h
    <3>2. PlanSprints'
      BY <1>0, <2>2, <3>h DEF PlanSprints
    <3>3. PlanTasks'
      BY <1>0, <2>2, <3>h DEF PlanTasks
    <3>4. PlanSpecs'
      BY <1>0, <2>2, <3>h DEF PlanSpecs
    <3>5. PlanFaults'
      BY <1>0, <2>2, <3>h DEF PlanFaults
    <3>6. PlanFlags'
      BY <1>0, <2>2, <3>h DEF PlanFlags
    <3>7. Sprint!OthersPlan'
      BY <1>0, <2>2, <3>h DEF Sprint!OthersPlan
    <3>8. Sprint!OneStarts'
      BY <1>0, <2>2, <3>h DEF Sprint!OneStarts
    <3>9. Sprint!OneActive'
      BY <1>0, <2>2, <3>h DEF Sprint!OneActive, Sprint!Active, PlanSprints
    <3>10. Sprint!ActiveIsItsOwn'
      BY <1>0, <2>2, <3>h DEF Sprint!ActiveIsItsOwn, Sprint!Active, PlanSprints, Sprint!OneStarts
    <3>11. Sprint!GateTold'
      BY <1>0, <2>2, <3>h DEF Sprint!GateTold
    <3>12. Sprint!ListTold'
      BY <1>0, <2>2, <3>h DEF Sprint!ListTold, Sprint!TasksOf
    <3> QED
      BY <3>1, <3>2, <3>3, <3>4, <3>5, <3>6, <3>7, <3>8, <3>9, <3>10, <3>11, <3>12
  <2> QED
    BY <1>6, <2>1, <2>2 DEF Sprint!Guard, Sprint!End, Sprint!Go, Sprint!db
<1>7. ASSUME NEW c \in Planners, Sprint!Gate(c)
      PROVE  Goal
  <2>1. CASE /\ v5[c].op = "start"
             /\ v5[c].pc = "gate"
             /\ UNCHANGED <<v1, v2, v3, v4, v6>>
             /\ Sprint!Fine
             /\ v5' = [v5 EXCEPT ![c] = [v5[c] EXCEPT !.pc = "activate", !.force = FALSE, !.quiet = FALSE]]
    <3>h. /\ PlanHands'
          /\ v5'[c].op = v5[c].op /\ v5'[c].pc = "activate" /\ v5'[c].s = v5[c].s /\ v5'[c].seen = v5[c].seen /\ v5'[c].force = FALSE /\ v5'[c].quiet = FALSE
          /\ \A g \in Planners : g # c => v5'[g] = v5[g]
      <4>1. "activate" \in PlanPcs /\ FALSE \in PlanBools /\ FALSE \in PlanBools
        BY <1>0, <2>1 DEF PlanOps, PlanPcs, PlanSprintIds, PlanTodos, PlanBools
      <4>2. [v5[c] EXCEPT !.pc = "activate", !.force = FALSE, !.quiet = FALSE] \in PlanRuns
        BY <1>0, <4>1, SprintRecords DEF PlanHands
      <4>3. LET r == [v5[c] EXCEPT !.pc = "activate", !.force = FALSE, !.quiet = FALSE] IN r.op = v5[c].op /\ r.pc = "activate" /\ r.s = v5[c].s /\ r.seen = v5[c].seen /\ r.force = FALSE /\ r.quiet = FALSE
        BY <1>0 DEF PlanHands, PlanRuns
      <4> HIDE DEF Sprint!Idle
      <4> DEFINE r == [v5[c] EXCEPT !.pc = "activate", !.force = FALSE, !.quiet = FALSE]
      <4>4. v5' = [v5 EXCEPT ![c] = r]
        BY <2>1
      <4>5. r \in PlanRuns /\ r.op = v5[c].op /\ r.pc = "activate" /\ r.s = v5[c].s /\ r.seen = v5[c].seen /\ r.force = FALSE /\ r.quiet = FALSE
        BY <4>2, <4>3
      <4> HIDE DEF r
      <4> QED
        BY <1>0, <4>4, <4>5, SprintGoes
    <3>1. PlanHands'
      BY <3>h
    <3>2. PlanSprints'
      BY <1>0, <2>1, <3>h DEF PlanSprints
    <3>3. PlanTasks'
      BY <1>0, <2>1, <3>h DEF PlanTasks
    <3>4. PlanSpecs'
      BY <1>0, <2>1, <3>h DEF PlanSpecs
    <3>5. PlanFaults'
      BY <1>0, <2>1, <3>h DEF PlanFaults
    <3>6. PlanFlags'
      BY <1>0, <2>1, <3>h DEF PlanFlags
    <3>7. Sprint!OthersPlan'
      BY <1>0, <2>1, <3>h DEF Sprint!OthersPlan
    <3>8. Sprint!OneStarts'
      BY <1>0, <2>1, <3>h DEF Sprint!OneStarts
    <3>9. Sprint!OneActive'
      BY <1>0, <2>1, <3>h DEF Sprint!OneActive, Sprint!Active, PlanSprints
    <3>10. Sprint!ActiveIsItsOwn'
      BY <1>0, <2>1, <3>h DEF Sprint!ActiveIsItsOwn, Sprint!Active, PlanSprints, Sprint!OneStarts
    <3>11. Sprint!GateTold'
      BY <1>0, <2>1, <3>h DEF Sprint!GateTold
    <3>12. Sprint!ListTold'
      BY <1>0, <2>1, <3>h DEF Sprint!ListTold, Sprint!TasksOf
    <3> QED
      BY <3>1, <3>2, <3>3, <3>4, <3>5, <3>6, <3>7, <3>8, <3>9, <3>10, <3>11, <3>12
  <2>2. CASE /\ v5[c].op = "start"
             /\ v5[c].pc = "gate"
             /\ UNCHANGED <<v1, v2, v3, v4, v6>>
             /\ Sprint!Fine
             /\ v4
             /\ v5' = [v5 EXCEPT ![c] = [v5[c] EXCEPT !.pc = "activate"]]
    <3>h. /\ PlanHands'
          /\ v5'[c].op = v5[c].op /\ v5'[c].pc = "activate" /\ v5'[c].s = v5[c].s /\ v5'[c].seen = v5[c].seen /\ v5'[c].force = v5[c].force /\ v5'[c].quiet = v5[c].quiet
          /\ \A g \in Planners : g # c => v5'[g] = v5[g]
      <4>1. "activate" \in PlanPcs
        BY <1>0, <2>2 DEF PlanOps, PlanPcs, PlanSprintIds, PlanTodos, PlanBools
      <4>2. [v5[c] EXCEPT !.pc = "activate"] \in PlanRuns
        BY <1>0, <4>1, SprintRecords DEF PlanHands
      <4>3. LET r == [v5[c] EXCEPT !.pc = "activate"] IN r.op = v5[c].op /\ r.pc = "activate" /\ r.s = v5[c].s /\ r.seen = v5[c].seen /\ r.force = v5[c].force /\ r.quiet = v5[c].quiet
        BY <1>0 DEF PlanHands, PlanRuns
      <4> HIDE DEF Sprint!Idle
      <4> DEFINE r == [v5[c] EXCEPT !.pc = "activate"]
      <4>4. v5' = [v5 EXCEPT ![c] = r]
        BY <2>2
      <4>5. r \in PlanRuns /\ r.op = v5[c].op /\ r.pc = "activate" /\ r.s = v5[c].s /\ r.seen = v5[c].seen /\ r.force = v5[c].force /\ r.quiet = v5[c].quiet
        BY <4>2, <4>3
      <4> HIDE DEF r
      <4> QED
        BY <1>0, <4>4, <4>5, SprintGoes
    <3>1. PlanHands'
      BY <3>h
    <3>2. PlanSprints'
      BY <1>0, <2>2, <3>h DEF PlanSprints
    <3>3. PlanTasks'
      BY <1>0, <2>2, <3>h DEF PlanTasks
    <3>4. PlanSpecs'
      BY <1>0, <2>2, <3>h DEF PlanSpecs
    <3>5. PlanFaults'
      BY <1>0, <2>2, <3>h DEF PlanFaults
    <3>6. PlanFlags'
      BY <1>0, <2>2, <3>h DEF PlanFlags
    <3>7. Sprint!OthersPlan'
      BY <1>0, <2>2, <3>h DEF Sprint!OthersPlan
    <3>8. Sprint!OneStarts'
      BY <1>0, <2>2, <3>h DEF Sprint!OneStarts
    <3>9. Sprint!OneActive'
      BY <1>0, <2>2, <3>h DEF Sprint!OneActive, Sprint!Active, PlanSprints
    <3>10. Sprint!ActiveIsItsOwn'
      BY <1>0, <2>2, <3>h DEF Sprint!ActiveIsItsOwn, Sprint!Active, PlanSprints, Sprint!OneStarts
    <3>11. Sprint!GateTold'
      BY <1>0, <2>2, <3>h DEF Sprint!GateTold
    <3>12. Sprint!ListTold'
      BY <1>0, <2>2, <3>h DEF Sprint!ListTold, Sprint!TasksOf
    <3> QED
      BY <3>1, <3>2, <3>3, <3>4, <3>5, <3>6, <3>7, <3>8, <3>9, <3>10, <3>11, <3>12
  <2>3. CASE /\ UNCHANGED <<v1, v2, v3, v4, v6>>
             /\ (Sprint!Fine \/ Sprint!Fail)
             /\ v5' = [v5 EXCEPT ![c] = Sprint!Idle]
    <3>h. /\ PlanHands'
          /\ v5'[c].op = "none" /\ v5'[c].pc = "idle" /\ v5'[c].s = None /\ v5'[c].seen = {} /\ v5'[c].force = FALSE /\ v5'[c].quiet = TRUE
          /\ \A g \in Planners : g # c => v5'[g] = v5[g]
      <4>2. Sprint!Idle \in PlanRuns
        BY <1>0, SprintRecords DEF PlanHands
      <4>3. LET r == Sprint!Idle IN r.op = "none" /\ r.pc = "idle" /\ r.s = None /\ r.seen = {} /\ r.force = FALSE /\ r.quiet = TRUE
        BY DEF Sprint!Idle
      <4> HIDE DEF Sprint!Idle
      <4> DEFINE r == Sprint!Idle
      <4>4. v5' = [v5 EXCEPT ![c] = r]
        BY <2>3
      <4>5. r \in PlanRuns /\ r.op = "none" /\ r.pc = "idle" /\ r.s = None /\ r.seen = {} /\ r.force = FALSE /\ r.quiet = TRUE
        BY <4>2, <4>3
      <4> HIDE DEF r
      <4> QED
        BY <1>0, <4>4, <4>5, SprintGoes
    <3>1. PlanHands'
      BY <3>h
    <3>2. PlanSprints'
      BY <1>0, <2>3, <3>h DEF PlanSprints
    <3>3. PlanTasks'
      BY <1>0, <2>3, <3>h DEF PlanTasks
    <3>4. PlanSpecs'
      BY <1>0, <2>3, <3>h DEF PlanSpecs
    <3>5. PlanFaults'
      BY <1>0, <2>3, <3>h DEF PlanFaults
    <3>6. PlanFlags'
      BY <1>0, <2>3, <3>h DEF PlanFlags
    <3>7. Sprint!OthersPlan'
      BY <1>0, <2>3, <3>h DEF Sprint!OthersPlan
    <3>8. Sprint!OneStarts'
      BY <1>0, <2>3, <3>h DEF Sprint!OneStarts
    <3>9. Sprint!OneActive'
      BY <1>0, <2>3, <3>h DEF Sprint!OneActive, Sprint!Active, PlanSprints
    <3>10. Sprint!ActiveIsItsOwn'
      BY <1>0, <2>3, <3>h DEF Sprint!ActiveIsItsOwn, Sprint!Active, PlanSprints, Sprint!OneStarts
    <3>11. Sprint!GateTold'
      BY <1>0, <2>3, <3>h DEF Sprint!GateTold
    <3>12. Sprint!ListTold'
      BY <1>0, <2>3, <3>h DEF Sprint!ListTold, Sprint!TasksOf
    <3> QED
      BY <3>1, <3>2, <3>3, <3>4, <3>5, <3>6, <3>7, <3>8, <3>9, <3>10, <3>11, <3>12
  <2> QED
    BY <1>7, <2>1, <2>2, <2>3 DEF Sprint!Gate, Sprint!End, Sprint!Go, Sprint!db
<1>8. ASSUME NEW c \in Planners, Sprint!Activate(c)
      PROVE  Goal
  <2>1. CASE /\ v5[c].op = "start"
             /\ v5[c].pc = "activate"
             /\ UNCHANGED <<v2, v3, v4, v6>>
             /\ Sprint!Fine
             /\ v1' = [v1 EXCEPT ![v5[c].s] = "active"]
             /\ v5' = [Sprint!Noticed(c) EXCEPT ![c].pc = "move"]
    <3>h. /\ PlanHands'
          /\ v5'[c].op = v5[c].op /\ v5'[c].pc = "move" /\ v5'[c].s = v5[c].s /\ v5'[c].seen = v5[c].seen /\ v5'[c].force = v5[c].force /\ v5'[c].quiet = v5[c].quiet
          /\ \A g \in Planners : g # c => v5'[g].op = v5[g].op /\ v5'[g].pc = v5[g].pc /\ v5'[g].s = v5[g].s /\ v5'[g].seen = v5[g].seen /\ v5'[g].force = v5[g].force /\ ~v5'[g].quiet
      <4>1. "move" \in PlanPcs
        BY <1>0, <2>1 DEF PlanOps, PlanPcs, PlanSprintIds, PlanTodos, PlanBools
      <4>2. [v5[c] EXCEPT !.pc = "move"] \in PlanRuns
        BY <1>0, <4>1, SprintRecords DEF PlanHands
      <4>3. LET r == [v5[c] EXCEPT !.pc = "move"] IN r.op = v5[c].op /\ r.pc = "move" /\ r.s = v5[c].s /\ r.seen = v5[c].seen /\ r.force = v5[c].force /\ r.quiet = v5[c].quiet
        BY <1>0 DEF PlanHands, PlanRuns
      <4> HIDE DEF Sprint!Idle
      <4> DEFINE r == [v5[c] EXCEPT !.pc = "move"]
      <4>4. v5' = [Sprint!Noticed(c) EXCEPT ![c] = r]
        BY <2>1, <1>0 DEF Sprint!Noticed, PlanHands
      <4>5. r \in PlanRuns /\ r.op = v5[c].op /\ r.pc = "move" /\ r.s = v5[c].s /\ r.seen = v5[c].seen /\ r.force = v5[c].force /\ r.quiet = v5[c].quiet
        BY <4>2, <4>3
      <4> HIDE DEF r
      <4>6. r \in PlanRuns
        BY <4>5
      <4>7. PlanHands' /\ v5'[c] = r /\ \A g \in Planners : g # c => v5'[g].op = v5[g].op /\ v5'[g].pc = v5[g].pc /\ v5'[g].s = v5[g].s /\ v5'[g].seen = v5[g].seen /\ v5'[g].force = v5[g].force /\ ~v5'[g].quiet
        BY <1>0, <4>4, <4>6, PlanNoticed
      <4> QED
        BY <4>5, <4>7
    <3>n. \A g \in Planners : v5'[g].op = v5[g].op /\ (g # c => ~v5'[g].quiet)
      BY <3>h
    <3>1. PlanHands'
      BY <3>h
    <3>2. PlanSprints'
      BY <1>0, <2>1, <3>h DEF PlanSprints
    <3>3. PlanTasks'
      BY <1>0, <2>1, <3>h DEF PlanTasks
    <3>4. PlanSpecs'
      BY <1>0, <2>1, <3>h DEF PlanSpecs
    <3>5. PlanFaults'
      BY <1>0, <2>1, <3>h DEF PlanFaults
    <3>6. PlanFlags'
      BY <1>0, <2>1, <3>h DEF PlanFlags
    <3>7. Sprint!OthersPlan'
      BY <1>0, <2>1, <3>h DEF Sprint!OthersPlan
    <3>8. Sprint!OneStarts'
      BY <1>0, <2>1, <3>n DEF Sprint!OneStarts
    <3>9. Sprint!OneActive'
      <4>1. ~v6 => Sprint!Active \subseteq {v5[c].s}
        BY <1>0, <2>1 DEF Sprint!ActiveIsItsOwn
      <4>2. Sprint!Active' \subseteq Sprint!Active \cup {v5[c].s}
        BY <1>0, <2>1 DEF Sprint!Active, PlanSprints
      <4>3. v6' = v6
        BY <2>1
      <4>4. ~v6 => Sprint!Active' \subseteq {v5[c].s}
        BY <4>1, <4>2
      <4> QED
        BY <4>3, <4>4 DEF Sprint!OneActive
    <3>10. Sprint!ActiveIsItsOwn'
      BY <1>0, <2>1, <3>h DEF Sprint!ActiveIsItsOwn, Sprint!Active, PlanSprints, Sprint!OneStarts
    <3>11. Sprint!GateTold'
      BY <1>0, <2>1, <3>h DEF Sprint!GateTold
    <3>12. Sprint!ListTold'
      BY <1>0, <2>1, <3>h DEF Sprint!ListTold, Sprint!TasksOf
    <3> QED
      BY <3>1, <3>2, <3>3, <3>4, <3>5, <3>6, <3>7, <3>8, <3>9, <3>10, <3>11, <3>12
  <2>2. CASE /\ UNCHANGED <<v1, v2, v3, v4, v6>>
             /\ Sprint!Fail
             /\ v5' = [v5 EXCEPT ![c] = Sprint!Idle]
    <3>h. /\ PlanHands'
          /\ v5'[c].op = "none" /\ v5'[c].pc = "idle" /\ v5'[c].s = None /\ v5'[c].seen = {} /\ v5'[c].force = FALSE /\ v5'[c].quiet = TRUE
          /\ \A g \in Planners : g # c => v5'[g] = v5[g]
      <4>2. Sprint!Idle \in PlanRuns
        BY <1>0, SprintRecords DEF PlanHands
      <4>3. LET r == Sprint!Idle IN r.op = "none" /\ r.pc = "idle" /\ r.s = None /\ r.seen = {} /\ r.force = FALSE /\ r.quiet = TRUE
        BY DEF Sprint!Idle
      <4> HIDE DEF Sprint!Idle
      <4> DEFINE r == Sprint!Idle
      <4>4. v5' = [v5 EXCEPT ![c] = r]
        BY <2>2
      <4>5. r \in PlanRuns /\ r.op = "none" /\ r.pc = "idle" /\ r.s = None /\ r.seen = {} /\ r.force = FALSE /\ r.quiet = TRUE
        BY <4>2, <4>3
      <4> HIDE DEF r
      <4> QED
        BY <1>0, <4>4, <4>5, SprintGoes
    <3>1. PlanHands'
      BY <3>h
    <3>2. PlanSprints'
      BY <1>0, <2>2, <3>h DEF PlanSprints
    <3>3. PlanTasks'
      BY <1>0, <2>2, <3>h DEF PlanTasks
    <3>4. PlanSpecs'
      BY <1>0, <2>2, <3>h DEF PlanSpecs
    <3>5. PlanFaults'
      BY <1>0, <2>2, <3>h DEF PlanFaults
    <3>6. PlanFlags'
      BY <1>0, <2>2, <3>h DEF PlanFlags
    <3>7. Sprint!OthersPlan'
      BY <1>0, <2>2, <3>h DEF Sprint!OthersPlan
    <3>8. Sprint!OneStarts'
      BY <1>0, <2>2, <3>h DEF Sprint!OneStarts
    <3>9. Sprint!OneActive'
      BY <1>0, <2>2, <3>h DEF Sprint!OneActive, Sprint!Active, PlanSprints
    <3>10. Sprint!ActiveIsItsOwn'
      BY <1>0, <2>2, <3>h DEF Sprint!ActiveIsItsOwn, Sprint!Active, PlanSprints, Sprint!OneStarts
    <3>11. Sprint!GateTold'
      BY <1>0, <2>2, <3>h DEF Sprint!GateTold
    <3>12. Sprint!ListTold'
      BY <1>0, <2>2, <3>h DEF Sprint!ListTold, Sprint!TasksOf
    <3> QED
      BY <3>1, <3>2, <3>3, <3>4, <3>5, <3>6, <3>7, <3>8, <3>9, <3>10, <3>11, <3>12
  <2> QED
    BY <1>8, <2>1, <2>2 DEF Sprint!Activate, Sprint!End, Sprint!Go, Sprint!db
<1>9. ASSUME NEW c \in Planners, Sprint!MoveToActive(c) \/ Sprint!CompleteFile(c)
      PROVE  Goal
  <2>s. PlanSpecs'
    BY <1>0, <1>9 DEF Sprint!MoveToActive, Sprint!CompleteFile, Sprint!Moved, PlanSpecs, Sprint!Dirs
  <2>1. CASE /\ UNCHANGED <<v1, v2, v4, v6>>
             /\ (Sprint!Fine \/ Sprint!Fail)
             /\ PlanSpecs'
             /\ v5' = [v5 EXCEPT ![c] = Sprint!Idle]
    <3>h. /\ PlanHands'
          /\ v5'[c].op = "none" /\ v5'[c].pc = "idle" /\ v5'[c].s = None /\ v5'[c].seen = {} /\ v5'[c].force = FALSE /\ v5'[c].quiet = TRUE
          /\ \A g \in Planners : g # c => v5'[g] = v5[g]
      <4>2. Sprint!Idle \in PlanRuns
        BY <1>0, SprintRecords DEF PlanHands
      <4>3. LET r == Sprint!Idle IN r.op = "none" /\ r.pc = "idle" /\ r.s = None /\ r.seen = {} /\ r.force = FALSE /\ r.quiet = TRUE
        BY DEF Sprint!Idle
      <4> HIDE DEF Sprint!Idle
      <4> DEFINE r == Sprint!Idle
      <4>4. v5' = [v5 EXCEPT ![c] = r]
        BY <2>1
      <4>5. r \in PlanRuns /\ r.op = "none" /\ r.pc = "idle" /\ r.s = None /\ r.seen = {} /\ r.force = FALSE /\ r.quiet = TRUE
        BY <4>2, <4>3
      <4> HIDE DEF r
      <4> QED
        BY <1>0, <4>4, <4>5, SprintGoes
    <3>1. PlanHands'
      BY <3>h
    <3>2. PlanSprints'
      BY <1>0, <2>1, <3>h DEF PlanSprints
    <3>3. PlanTasks'
      BY <1>0, <2>1, <3>h DEF PlanTasks
    <3>4. PlanSpecs'
      BY <1>0, <2>1, <3>h DEF PlanSpecs
    <3>5. PlanFaults'
      BY <1>0, <2>1, <3>h DEF PlanFaults
    <3>6. PlanFlags'
      BY <1>0, <2>1, <3>h DEF PlanFlags
    <3>7. Sprint!OthersPlan'
      BY <1>0, <2>1, <3>h DEF Sprint!OthersPlan
    <3>8. Sprint!OneStarts'
      BY <1>0, <2>1, <3>h DEF Sprint!OneStarts
    <3>9. Sprint!OneActive'
      BY <1>0, <2>1, <3>h DEF Sprint!OneActive, Sprint!Active, PlanSprints
    <3>10. Sprint!ActiveIsItsOwn'
      BY <1>0, <2>1, <3>h DEF Sprint!ActiveIsItsOwn, Sprint!Active, PlanSprints, Sprint!OneStarts
    <3>11. Sprint!GateTold'
      BY <1>0, <2>1, <3>h DEF Sprint!GateTold
    <3>12. Sprint!ListTold'
      BY <1>0, <2>1, <3>h DEF Sprint!ListTold, Sprint!TasksOf
    <3> QED
      BY <3>1, <3>2, <3>3, <3>4, <3>5, <3>6, <3>7, <3>8, <3>9, <3>10, <3>11, <3>12
  <2> QED
    BY <1>9, <2>1, <2>s DEF Sprint!MoveToActive, Sprint!End, Sprint!Go, Sprint!db, Sprint!CompleteFile
<1>10. ASSUME NEW c \in Planners, NEW s \in SprintIds, NEW q \in PlanBools, v5[c].op = "none", UNCHANGED <<v1, v2, v3, v4, faults, v6>>,
         q => (Sprint!Cardinality(Sprint!TasksOf(s)) <= Limit =>
                    Sprint!TasksOf(s) # {} /\ \A t \in Sprint!TasksOf(s) : v2[t].done),
         v5' = [v5 EXCEPT ![c] = [Sprint!Idle EXCEPT !.op = "complete", !.pc = "update", !.s = s, !.quiet = q]]
      PROVE  Goal
  <2>1. CASE /\ v5[c].op = "none"
             /\ UNCHANGED <<v1, v2, v3, v4, v6>>
             /\ Sprint!Fine
             /\ v5' = [v5 EXCEPT ![c] = [Sprint!Idle EXCEPT !.op = "complete", !.pc = "update", !.s = s, !.quiet = q]]
    <3>h. /\ PlanHands'
          /\ v5'[c].op = "complete" /\ v5'[c].pc = "update" /\ v5'[c].s = s /\ v5'[c].seen = {} /\ v5'[c].force = FALSE /\ v5'[c].quiet = q
          /\ \A g \in Planners : g # c => v5'[g] = v5[g]
      <4>1. "complete" \in PlanOps /\ "update" \in PlanPcs /\ s \in PlanSprintIds /\ q \in PlanBools
        BY <1>0, <2>1 DEF PlanOps, PlanPcs, PlanSprintIds
      <4>2. [Sprint!Idle EXCEPT !.op = "complete", !.pc = "update", !.s = s, !.quiet = q] \in PlanRuns
        BY <1>0, <4>1, SprintRecords DEF PlanHands
      <4>3. LET r == [Sprint!Idle EXCEPT !.op = "complete", !.pc = "update", !.s = s, !.quiet = q] IN r.op = "complete" /\ r.pc = "update" /\ r.s = s /\ r.seen = {} /\ r.force = FALSE /\ r.quiet = q
        BY DEF Sprint!Idle
      <4> HIDE DEF Sprint!Idle
      <4> DEFINE r == [Sprint!Idle EXCEPT !.op = "complete", !.pc = "update", !.s = s, !.quiet = q]
      <4>4. v5' = [v5 EXCEPT ![c] = r]
        BY <2>1
      <4>5. r \in PlanRuns /\ r.op = "complete" /\ r.pc = "update" /\ r.s = s /\ r.seen = {} /\ r.force = FALSE /\ r.quiet = q
        BY <4>2, <4>3
      <4> HIDE DEF r
      <4> QED
        BY <1>0, <4>4, <4>5, SprintGoes
    <3>1. PlanHands'
      BY <3>h
    <3>2. PlanSprints'
      BY <1>0, <2>1, <3>h DEF PlanSprints
    <3>3. PlanTasks'
      BY <1>0, <2>1, <3>h DEF PlanTasks
    <3>4. PlanSpecs'
      BY <1>0, <2>1, <3>h DEF PlanSpecs
    <3>5. PlanFaults'
      BY <1>0, <2>1, <3>h DEF PlanFaults
    <3>6. PlanFlags'
      BY <1>0, <2>1, <3>h DEF PlanFlags
    <3>7. Sprint!OthersPlan'
      BY <1>0, <2>1, <3>h DEF Sprint!OthersPlan
    <3>8. Sprint!OneStarts'
      BY <1>0, <2>1, <3>h DEF Sprint!OneStarts
    <3>9. Sprint!OneActive'
      BY <1>0, <2>1, <3>h DEF Sprint!OneActive, Sprint!Active, PlanSprints
    <3>10. Sprint!ActiveIsItsOwn'
      BY <1>0, <2>1, <3>h DEF Sprint!ActiveIsItsOwn, Sprint!Active, PlanSprints, Sprint!OneStarts
    <3>11. Sprint!GateTold'
      BY <1>0, <2>1, <3>h DEF Sprint!GateTold
    <3>12. Sprint!ListTold'
      <4>1. \A x : Sprint!TasksOf(x)' = Sprint!TasksOf(x)
        BY <2>1 DEF Sprint!TasksOf
      <4>2. v2' = v2 /\ Sprint!ListTold
        BY <1>0, <2>1
      <4> SUFFICES ASSUME NEW g \in Planners, v5'[g].op = "complete", v5'[g].quiet,
                          Sprint!Cardinality(Sprint!TasksOf(v5'[g].s)) <= Limit
                   PROVE  Sprint!TasksOf(v5'[g].s) # {} /\ \A t \in Sprint!TasksOf(v5'[g].s) : v2[t].done
        BY <4>1, <4>2 DEF Sprint!ListTold
      <4>3. CASE g = c
        BY <1>10, <3>h, <4>3
      <4>4. CASE g # c
        BY <3>h, <4>2, <4>4 DEF Sprint!ListTold
      <4> QED
        BY <4>3, <4>4
    <3> QED
      BY <3>1, <3>2, <3>3, <3>4, <3>5, <3>6, <3>7, <3>8, <3>9, <3>10, <3>11, <3>12
  <2> QED
    BY <1>10, <2>1 DEF Sprint!End
<1>11. ASSUME NEW c \in Planners, Sprint!CompleteUpdate(c)
      PROVE  Goal
  <2>1. CASE /\ v5[c].op = "complete"
             /\ v5[c].pc = "update"
             /\ UNCHANGED <<v2, v3, v4, v6>>
             /\ Sprint!Fine
             /\ v1' = [v1 EXCEPT ![v5[c].s] = "completed"]
             /\ v5' = [Sprint!Noticed(c) EXCEPT ![c].pc = "file"]
    <3>h. /\ PlanHands'
          /\ v5'[c].op = v5[c].op /\ v5'[c].pc = "file" /\ v5'[c].s = v5[c].s /\ v5'[c].seen = v5[c].seen /\ v5'[c].force = v5[c].force /\ v5'[c].quiet = v5[c].quiet
          /\ \A g \in Planners : g # c => v5'[g].op = v5[g].op /\ v5'[g].pc = v5[g].pc /\ v5'[g].s = v5[g].s /\ v5'[g].seen = v5[g].seen /\ v5'[g].force = v5[g].force /\ ~v5'[g].quiet
      <4>1. "file" \in PlanPcs
        BY <1>0, <2>1 DEF PlanOps, PlanPcs, PlanSprintIds, PlanTodos, PlanBools
      <4>2. [v5[c] EXCEPT !.pc = "file"] \in PlanRuns
        BY <1>0, <4>1, SprintRecords DEF PlanHands
      <4>3. LET r == [v5[c] EXCEPT !.pc = "file"] IN r.op = v5[c].op /\ r.pc = "file" /\ r.s = v5[c].s /\ r.seen = v5[c].seen /\ r.force = v5[c].force /\ r.quiet = v5[c].quiet
        BY <1>0 DEF PlanHands, PlanRuns
      <4> HIDE DEF Sprint!Idle
      <4> DEFINE r == [v5[c] EXCEPT !.pc = "file"]
      <4>4. v5' = [Sprint!Noticed(c) EXCEPT ![c] = r]
        BY <2>1, <1>0 DEF Sprint!Noticed, PlanHands
      <4>5. r \in PlanRuns /\ r.op = v5[c].op /\ r.pc = "file" /\ r.s = v5[c].s /\ r.seen = v5[c].seen /\ r.force = v5[c].force /\ r.quiet = v5[c].quiet
        BY <4>2, <4>3
      <4> HIDE DEF r
      <4>6. r \in PlanRuns
        BY <4>5
      <4>7. PlanHands' /\ v5'[c] = r /\ \A g \in Planners : g # c => v5'[g].op = v5[g].op /\ v5'[g].pc = v5[g].pc /\ v5'[g].s = v5[g].s /\ v5'[g].seen = v5[g].seen /\ v5'[g].force = v5[g].force /\ ~v5'[g].quiet
        BY <1>0, <4>4, <4>6, PlanNoticed
      <4> QED
        BY <4>5, <4>7
    <3>n. \A g \in Planners : v5'[g].op = v5[g].op /\ (g # c => ~v5'[g].quiet)
      BY <3>h
    <3>1. PlanHands'
      BY <3>h
    <3>2. PlanSprints'
      BY <1>0, <2>1, <3>h DEF PlanSprints
    <3>3. PlanTasks'
      BY <1>0, <2>1, <3>h DEF PlanTasks
    <3>4. PlanSpecs'
      BY <1>0, <2>1, <3>h DEF PlanSpecs
    <3>5. PlanFaults'
      BY <1>0, <2>1, <3>h DEF PlanFaults
    <3>6. PlanFlags'
      BY <1>0, <2>1, <3>h DEF PlanFlags
    <3>7. Sprint!OthersPlan'
      BY <1>0, <2>1, <3>h DEF Sprint!OthersPlan
    <3>8. Sprint!OneStarts'
      BY <1>0, <2>1, <3>n DEF Sprint!OneStarts
    <3>9. Sprint!OneActive'
      BY <1>0, <2>1, <3>h DEF Sprint!OneActive, Sprint!Active, PlanSprints
    <3>10. Sprint!ActiveIsItsOwn'
      BY <1>0, <2>1, <3>h DEF Sprint!ActiveIsItsOwn, Sprint!Active, PlanSprints, Sprint!OneStarts
    <3>11. Sprint!GateTold'
      BY <1>0, <2>1, <3>h DEF Sprint!GateTold
    <3>12. Sprint!ListTold'
      BY <1>0, <2>1, <3>h DEF Sprint!ListTold, Sprint!TasksOf
    <3> QED
      BY <3>1, <3>2, <3>3, <3>4, <3>5, <3>6, <3>7, <3>8, <3>9, <3>10, <3>11, <3>12
  <2>2. CASE /\ UNCHANGED <<v1, v2, v3, v4, v6>>
             /\ Sprint!Fail
             /\ v5' = [v5 EXCEPT ![c] = Sprint!Idle]
    <3>h. /\ PlanHands'
          /\ v5'[c].op = "none" /\ v5'[c].pc = "idle" /\ v5'[c].s = None /\ v5'[c].seen = {} /\ v5'[c].force = FALSE /\ v5'[c].quiet = TRUE
          /\ \A g \in Planners : g # c => v5'[g] = v5[g]
      <4>2. Sprint!Idle \in PlanRuns
        BY <1>0, SprintRecords DEF PlanHands
      <4>3. LET r == Sprint!Idle IN r.op = "none" /\ r.pc = "idle" /\ r.s = None /\ r.seen = {} /\ r.force = FALSE /\ r.quiet = TRUE
        BY DEF Sprint!Idle
      <4> HIDE DEF Sprint!Idle
      <4> DEFINE r == Sprint!Idle
      <4>4. v5' = [v5 EXCEPT ![c] = r]
        BY <2>2
      <4>5. r \in PlanRuns /\ r.op = "none" /\ r.pc = "idle" /\ r.s = None /\ r.seen = {} /\ r.force = FALSE /\ r.quiet = TRUE
        BY <4>2, <4>3
      <4> HIDE DEF r
      <4> QED
        BY <1>0, <4>4, <4>5, SprintGoes
    <3>1. PlanHands'
      BY <3>h
    <3>2. PlanSprints'
      BY <1>0, <2>2, <3>h DEF PlanSprints
    <3>3. PlanTasks'
      BY <1>0, <2>2, <3>h DEF PlanTasks
    <3>4. PlanSpecs'
      BY <1>0, <2>2, <3>h DEF PlanSpecs
    <3>5. PlanFaults'
      BY <1>0, <2>2, <3>h DEF PlanFaults
    <3>6. PlanFlags'
      BY <1>0, <2>2, <3>h DEF PlanFlags
    <3>7. Sprint!OthersPlan'
      BY <1>0, <2>2, <3>h DEF Sprint!OthersPlan
    <3>8. Sprint!OneStarts'
      BY <1>0, <2>2, <3>h DEF Sprint!OneStarts
    <3>9. Sprint!OneActive'
      BY <1>0, <2>2, <3>h DEF Sprint!OneActive, Sprint!Active, PlanSprints
    <3>10. Sprint!ActiveIsItsOwn'
      BY <1>0, <2>2, <3>h DEF Sprint!ActiveIsItsOwn, Sprint!Active, PlanSprints, Sprint!OneStarts
    <3>11. Sprint!GateTold'
      BY <1>0, <2>2, <3>h DEF Sprint!GateTold
    <3>12. Sprint!ListTold'
      BY <1>0, <2>2, <3>h DEF Sprint!ListTold, Sprint!TasksOf
    <3> QED
      BY <3>1, <3>2, <3>3, <3>4, <3>5, <3>6, <3>7, <3>8, <3>9, <3>10, <3>11, <3>12
  <2> QED
    BY <1>11, <2>1, <2>2 DEF Sprint!CompleteUpdate, Sprint!End, Sprint!Go, Sprint!db
<1>12. ASSUME NEW c \in Planners, Sprint!Killed(c)
      PROVE  Goal
  <2>1. CASE /\ UNCHANGED <<v1, v2, v3, v4, v6>>
             /\ Sprint!Fail
             /\ v5' = [v5 EXCEPT ![c] = Sprint!Idle]
    <3>h. /\ PlanHands'
          /\ v5'[c].op = "none" /\ v5'[c].pc = "idle" /\ v5'[c].s = None /\ v5'[c].seen = {} /\ v5'[c].force = FALSE /\ v5'[c].quiet = TRUE
          /\ \A g \in Planners : g # c => v5'[g] = v5[g]
      <4>2. Sprint!Idle \in PlanRuns
        BY <1>0, SprintRecords DEF PlanHands
      <4>3. LET r == Sprint!Idle IN r.op = "none" /\ r.pc = "idle" /\ r.s = None /\ r.seen = {} /\ r.force = FALSE /\ r.quiet = TRUE
        BY DEF Sprint!Idle
      <4> HIDE DEF Sprint!Idle
      <4> DEFINE r == Sprint!Idle
      <4>4. v5' = [v5 EXCEPT ![c] = r]
        BY <2>1
      <4>5. r \in PlanRuns /\ r.op = "none" /\ r.pc = "idle" /\ r.s = None /\ r.seen = {} /\ r.force = FALSE /\ r.quiet = TRUE
        BY <4>2, <4>3
      <4> HIDE DEF r
      <4> QED
        BY <1>0, <4>4, <4>5, SprintGoes
    <3>1. PlanHands'
      BY <3>h
    <3>2. PlanSprints'
      BY <1>0, <2>1, <3>h DEF PlanSprints
    <3>3. PlanTasks'
      BY <1>0, <2>1, <3>h DEF PlanTasks
    <3>4. PlanSpecs'
      BY <1>0, <2>1, <3>h DEF PlanSpecs
    <3>5. PlanFaults'
      BY <1>0, <2>1, <3>h DEF PlanFaults
    <3>6. PlanFlags'
      BY <1>0, <2>1, <3>h DEF PlanFlags
    <3>7. Sprint!OthersPlan'
      BY <1>0, <2>1, <3>h DEF Sprint!OthersPlan
    <3>8. Sprint!OneStarts'
      BY <1>0, <2>1, <3>h DEF Sprint!OneStarts
    <3>9. Sprint!OneActive'
      BY <1>0, <2>1, <3>h DEF Sprint!OneActive, Sprint!Active, PlanSprints
    <3>10. Sprint!ActiveIsItsOwn'
      BY <1>0, <2>1, <3>h DEF Sprint!ActiveIsItsOwn, Sprint!Active, PlanSprints, Sprint!OneStarts
    <3>11. Sprint!GateTold'
      BY <1>0, <2>1, <3>h DEF Sprint!GateTold
    <3>12. Sprint!ListTold'
      BY <1>0, <2>1, <3>h DEF Sprint!ListTold, Sprint!TasksOf
    <3> QED
      BY <3>1, <3>2, <3>3, <3>4, <3>5, <3>6, <3>7, <3>8, <3>9, <3>10, <3>11, <3>12
  <2> QED
    BY <1>12, <2>1 DEF Sprint!Killed, Sprint!End, Sprint!Go, Sprint!db
<1>13. ASSUME NEW c \in Planners, UNCHANGED <<v1, v2, v3, v4, v6>>, Sprint!Fine \/ Sprint!Fail, Sprint!End(c)
      PROVE  Goal
  <2>1. CASE /\ UNCHANGED <<v1, v2, v3, v4, v6>>
             /\ (Sprint!Fine \/ Sprint!Fail)
             /\ v5' = [v5 EXCEPT ![c] = Sprint!Idle]
    <3>h. /\ PlanHands'
          /\ v5'[c].op = "none" /\ v5'[c].pc = "idle" /\ v5'[c].s = None /\ v5'[c].seen = {} /\ v5'[c].force = FALSE /\ v5'[c].quiet = TRUE
          /\ \A g \in Planners : g # c => v5'[g] = v5[g]
      <4>2. Sprint!Idle \in PlanRuns
        BY <1>0, SprintRecords DEF PlanHands
      <4>3. LET r == Sprint!Idle IN r.op = "none" /\ r.pc = "idle" /\ r.s = None /\ r.seen = {} /\ r.force = FALSE /\ r.quiet = TRUE
        BY DEF Sprint!Idle
      <4> HIDE DEF Sprint!Idle
      <4> DEFINE r == Sprint!Idle
      <4>4. v5' = [v5 EXCEPT ![c] = r]
        BY <2>1
      <4>5. r \in PlanRuns /\ r.op = "none" /\ r.pc = "idle" /\ r.s = None /\ r.seen = {} /\ r.force = FALSE /\ r.quiet = TRUE
        BY <4>2, <4>3
      <4> HIDE DEF r
      <4> QED
        BY <1>0, <4>4, <4>5, SprintGoes
    <3>1. PlanHands'
      BY <3>h
    <3>2. PlanSprints'
      BY <1>0, <2>1, <3>h DEF PlanSprints
    <3>3. PlanTasks'
      BY <1>0, <2>1, <3>h DEF PlanTasks
    <3>4. PlanSpecs'
      BY <1>0, <2>1, <3>h DEF PlanSpecs
    <3>5. PlanFaults'
      BY <1>0, <2>1, <3>h DEF PlanFaults
    <3>6. PlanFlags'
      BY <1>0, <2>1, <3>h DEF PlanFlags
    <3>7. Sprint!OthersPlan'
      BY <1>0, <2>1, <3>h DEF Sprint!OthersPlan
    <3>8. Sprint!OneStarts'
      BY <1>0, <2>1, <3>h DEF Sprint!OneStarts
    <3>9. Sprint!OneActive'
      BY <1>0, <2>1, <3>h DEF Sprint!OneActive, Sprint!Active, PlanSprints
    <3>10. Sprint!ActiveIsItsOwn'
      BY <1>0, <2>1, <3>h DEF Sprint!ActiveIsItsOwn, Sprint!Active, PlanSprints, Sprint!OneStarts
    <3>11. Sprint!GateTold'
      BY <1>0, <2>1, <3>h DEF Sprint!GateTold
    <3>12. Sprint!ListTold'
      BY <1>0, <2>1, <3>h DEF Sprint!ListTold, Sprint!TasksOf
    <3> QED
      BY <3>1, <3>2, <3>3, <3>4, <3>5, <3>6, <3>7, <3>8, <3>9, <3>10, <3>11, <3>12
  <2> HIDE DEF Sprint!Fine, Sprint!Fail, Goal
  <2> QED
    BY <1>13, <2>1 DEF Sprint!End
<1>a. ASSUME NEW s \in SprintIds, NEW status \in {"planned", "active", "completed"},
             Sprint!CreateSprint(s, status) \/ Sprint!UpdateSprint(s, status)
      PROVE  Goal
  <2>1. Sprint!Statement /\ UNCHANGED <<v2, v3, v4>> /\ v1' = [v1 EXCEPT ![s] = status] /\ v6' = (v6 \/ status = "active")
    BY <1>a DEF Sprint!CreateSprint, Sprint!UpdateSprint
  <2>2. PlanSprints' /\ PlanTasks' /\ PlanSpecs'
    BY <1>0, <2>1 DEF PlanSprints, PlanTasks, PlanSpecs
  <2>3. PlanFlags'
    BY <1>0, <2>1 DEF PlanFlags
  <2>4. (v6 => v6') /\ (~v6' => Sprint!Active' \subseteq Sprint!Active)
    BY <1>0, <2>1 DEF Sprint!Active, PlanSprints
  <2> QED
    BY <1>1, <2>1, <2>2, <2>3, <2>4
<1>b. ASSUME NEW s \in SprintIds, Sprint!PlanSprint(s) PROVE Goal
  <2>1. UNCHANGED <<v1, v2, v4, v5, faults, v6>> /\ PlanSpecs'
    BY <1>0, <1>b DEF Sprint!PlanSprint, Sprint!db, PlanSpecs, Sprint!Dirs
  <2> QED
    BY <1>0, <2>1 DEF PlanHands, PlanSprints, PlanTasks, PlanFaults, PlanFlags, Sprint!OthersPlan, Sprint!OneStarts,
       Sprint!OneActive, Sprint!ActiveIsItsOwn, Sprint!Active, Sprint!GateTold, Sprint!ListTold, Sprint!TasksOf
<1>c. ASSUME Sprint!EditDocument PROVE Goal
  <2>1. Sprint!Statement /\ UNCHANGED <<v1, v2, v3, v6>> /\ v4' = ~v4
    BY <1>c DEF Sprint!EditDocument, Sprint!db
  <2>2. PlanSprints' /\ PlanTasks' /\ PlanSpecs' /\ PlanFlags'
    BY <1>0, <2>1 DEF PlanSprints, PlanTasks, PlanSpecs, PlanFlags
  <2> QED
    BY <1>1, <2>1, <2>2 DEF Sprint!Active
<1>d. ASSUME NEW t \in Members, Sprint!UpdateTask(t) PROVE Goal
  <2>1. Sprint!Statement /\ UNCHANGED <<v1, v3, v4, v6>>
    BY <1>d DEF Sprint!UpdateTask
  <2>2. PICK s \in PlanSprintIds, done \in PlanBools : v2' = [v2 EXCEPT ![t] = [in |-> s, done |-> done]]
    BY <1>d DEF Sprint!UpdateTask, PlanSprintIds, PlanBools
  <2>3. PlanTasks'
    BY <1>0, <2>2 DEF PlanTasks, PlanTask
  <2>4. PlanSprints' /\ PlanSpecs' /\ PlanFlags'
    BY <1>0, <2>1 DEF PlanSprints, PlanSpecs, PlanFlags
  <2> QED
    BY <1>1, <2>1, <2>3, <2>4 DEF Sprint!Active
<1>e. ASSUME NEW c \in Planners, Sprint!AutoPlan(c) PROVE Goal
  <2>1. PICK ready \in SUBSET Members :
           v5' = [v5 EXCEPT ![c] = [Sprint!Idle EXCEPT !.op = "autoplan", !.pc = "sprint", !.seen = ready]]
    BY <1>e DEF Sprint!AutoPlan
  <2>2. v5[c].op = "none" /\ UNCHANGED <<v1, v2, v3, v4, faults, v6>>
    BY <1>e DEF Sprint!AutoPlan, Sprint!db
  <2> QED
    BY <1>2, <2>1, <2>2
<1>f. ASSUME NEW c \in Planners, Sprint!AutoPlanSprint(c) PROVE Goal
  <2>1. CASE \E s \in SprintIds :
               /\ v1' = [v1 EXCEPT ![s] = "planned"]
               /\ v5' = [Sprint!Noticed(c) EXCEPT ![c].pc = "assign", ![c].s = s] /\ Sprint!Fine
    BY <1>f, <1>3, <2>1 DEF Sprint!AutoPlanSprint
  <2>2. CASE v1' = v1 /\ Sprint!End(c) /\ Sprint!Fail
    BY <1>f, <1>13, <2>2 DEF Sprint!AutoPlanSprint
  <2> QED
    BY <1>f, <2>1, <2>2 DEF Sprint!AutoPlanSprint
<1>g. ASSUME NEW c \in Planners, Sprint!AutoPlanAssign(c) PROVE Goal
  <2>0. v5[c].pc = "assign" /\ UNCHANGED <<v1, v3, v4, v6>>
    BY <1>g DEF Sprint!AutoPlanAssign
  <2>1. CASE v5[c].seen = {}
    <3>1. Sprint!End(c) /\ v2' = v2 /\ Sprint!Fine
      BY <1>g, <2>1 DEF Sprint!AutoPlanAssign
    <3> QED
      BY <1>13, <2>0, <3>1
  <2>2. CASE v5[c].seen # {}
    <3>1. PICK t \in v5[c].seen :
             /\ v5' = [Sprint!Noticed(c) EXCEPT ![c].seen = @ \ {t}]
             /\ Sprint!Fine \/ Sprint!Fail
             /\ v2' = [v2 EXCEPT ![t].in = v5[c].s] \/ v2' = v2
      BY <1>g, <2>2 DEF Sprint!AutoPlanAssign
    <3>2. v5' = [Sprint!Noticed(c) EXCEPT ![c].seen = v5[c].seen \ {t}]
      BY <1>0, <3>1 DEF Sprint!Noticed, PlanHands
    <3> QED
      BY <1>4, <2>0, <3>1, <3>2
  <2> QED
    BY <2>1, <2>2
<1>k. ASSUME NEW c \in Planners, NEW s \in SprintIds, NEW force \in BOOLEAN, Sprint!Complete(c, s, force)
      PROVE  Goal
  <2>1. ~force => (Sprint!Cardinality(Sprint!TasksOf(s)) <= Limit =>
                    Sprint!TasksOf(s) # {} /\ \A t \in Sprint!TasksOf(s) : v2[t].done)
    <3> SUFFICES ASSUME ~force, Sprint!Cardinality(Sprint!TasksOf(s)) <= Limit
                 PROVE  Sprint!TasksOf(s) # {} /\ \A t \in Sprint!TasksOf(s) : v2[t].done
      OBVIOUS
    <3>1. PICK ts \in Sprint!Listed(s) : ts # {} /\ \A t \in ts : v2[t].done
      BY <1>k DEF Sprint!Complete
    <3>2. ts \in SUBSET Sprint!TasksOf(s) /\ Sprint!Cardinality(ts) = Sprint!Cardinality(Sprint!TasksOf(s))
      BY <3>1 DEF Sprint!Listed
    <3>3. Sprint!TasksOf(s) \in SUBSET Members
      BY DEF Sprint!TasksOf
    <3>4. ts = Sprint!TasksOf(s)
      BY <3>2, <3>3, WholeList
    <3> QED
      BY <3>1, <3>4
  <2> DEFINE q == ~force
  <2>2. q \in PlanBools
    BY DEF PlanBools
  <2>3. v5[c].op = "none" /\ UNCHANGED <<v1, v2, v3, v4, faults, v6>>
    BY <1>k DEF Sprint!Complete, Sprint!db
  <2>4. v5' = [v5 EXCEPT ![c] = [Sprint!Idle EXCEPT !.op = "complete", !.pc = "update", !.s = s, !.quiet = q]]
    BY <1>k DEF Sprint!Complete
  <2>5. q => (Sprint!Cardinality(Sprint!TasksOf(s)) <= Limit =>
                 Sprint!TasksOf(s) # {} /\ \A t \in Sprint!TasksOf(s) : v2[t].done)
    BY <2>1
  <2> HIDE DEF q
  <2> QED
    BY <1>10, <2>2, <2>3, <2>4, <2>5
<1>h. (PlanHands /\ PlanSprints /\ PlanTasks /\ PlanSpecs /\ PlanFaults /\ PlanFlags)' => Sprint!TypeOK'
  BY SprintTyped, PTL
<1> HIDE DEF Goal, Sprint!Fine, Sprint!Fail, Sprint!At
<1>i. ASSUME Goal PROVE Sprint!IInv'
  BY <1>h, <1>i DEF Goal, Sprint!IInv
<1>j. Goal
  BY <1>5, <1>6, <1>7, <1>8, <1>9, <1>11, <1>12, <1>a, <1>b, <1>c, <1>d, <1>e, <1>f, <1>g, <1>k DEF Sprint!Next
<1> QED
  BY <1>i, <1>j

LEMMA SprintRests == Sprint!IInv /\ UNCHANGED Sprint!vars => Sprint!IInv'
<1> SUFFICES ASSUME Sprint!IInv, UNCHANGED Sprint!vars PROVE Sprint!IInv'
  OBVIOUS
<1>0. UNCHANGED <<v1, v2, v3, v4, v5, faults, v6>> /\ Sprint!IInv
  BY DEF Sprint!vars
<1>1. Sprint!TypeOK'
  BY <1>0 DEF Sprint!IInv, Sprint!TypeOK
<1>2. Sprint!OthersPlan'
  BY <1>0 DEF Sprint!IInv, Sprint!OthersPlan
<1>3. Sprint!OneStarts'
  BY <1>0 DEF Sprint!IInv, Sprint!OneStarts
<1>4. Sprint!OneActive'
  BY <1>0 DEF Sprint!IInv, Sprint!OneActive, Sprint!Active
<1>5. Sprint!ActiveIsItsOwn'
  BY <1>0 DEF Sprint!IInv, Sprint!ActiveIsItsOwn, Sprint!Active
<1>6. Sprint!GateTold'
  BY <1>0 DEF Sprint!IInv, Sprint!GateTold
<1>7. Sprint!ListTold'
  BY <1>0 DEF Sprint!IInv, Sprint!ListTold, Sprint!TasksOf
<1> QED
  BY <1>1, <1>2, <1>3, <1>4, <1>5, <1>6, <1>7 DEF Sprint!IInv

LEMMA SprintHolds == Spec => [](part = "sprints" => Sprint!IInv)
<1> DEFINE Kept == part = "sprints" => Sprint!IInv
<1>1. Init => Kept
  BY SprintStarts DEF Init
<1>2. Kept /\ [Next]_vars => Kept'
  BY SprintNext, SprintRests DEF Next, vars, Sprint!vars
<1> QED
  BY <1>1, <1>2, PTL DEF Spec

\* One sprint is active, with its document there, and a completed one has no
\* open task, for any number of sprints, tasks and terminals - but where starts
\* overlapped, a status was set by hand, a gate was skipped, something changed
\* under the command or the tasks were more than one query returns
\* (internal/cli/sprint.go).
THEOREM SprintsAlwaysKeepTheirGates == Spec => []SprintsKeepTheirGates
<1>1. (part = "sprints" => Sprint!IInv) => SprintsKeepTheirGates
  <2> SUFFICES ASSUME Sprint!IInv PROVE Sprint!SprintsKeepTheirGates
    BY DEF SprintsKeepTheirGates
  <2>1. v6 \/ Sprint!Cardinality(Sprint!Active) <= 1
    <3> SUFFICES ASSUME ~v6 PROVE Sprint!Cardinality(Sprint!Active) <= 1
      OBVIOUS
    <3>1. Sprint!Cardinality(Sprint!Active) = Cardinality(Sprint!Active)
      BY DEF Sprint!Cardinality, Cardinality, Sprint!IsFiniteSet, IsFiniteSet
    <3>2. CASE Sprint!Active = {}
      BY <3>1, <3>2, FS_EmptySet
    <3>3. CASE Sprint!Active # {}
      <4>1. PICK s : Sprint!Active = {s}
        BY <3>3 DEF Sprint!IInv, Sprint!OneActive
      <4> QED
        BY <3>1, <4>1, FS_Singleton
    <3> QED
      BY <3>2, <3>3
  <2> QED
    BY <2>1 DEF Sprint!IInv, Sprint!GateTold, Sprint!ListTold, Sprint!SprintsKeepTheirGates, Sprint!At
<1> QED
  BY <1>1, SprintHolds, PTL

-----------------------------------------------------------------------------
(* What is picked from the ready queue.                                    *)

PickPcs == {"idle", "closed", "look", "end"}
PickLists == Seq(Backlogged)
IssueSets == SUBSET Backlogged
PickBools == BOOLEAN
PickKnown == [read : PickBools, ids : IssueSets]
PickChoices == Backlogged \cup {0}
PickRuns ==
    [pc : PickPcs, list : PickLists, offered : IssueSets, known : PickKnown, pool : PickBools,
     chosen : PickChoices, over : IssueSets, unfinished : IssueSets, unverified : IssueSets]
PickHands == v5 \in [Pickers -> PickRuns]
QueueWorld ==
    /\ v1 \in [Backlogged -> {"none", "open", "closed"}] /\ v2 \in [Backlogged -> Ranks]
    /\ v3 \subseteq Backlogged /\ v4 \in [Backlogged -> {"none", "open", "over"}]
QueueBounds == v6 \in 0 .. MaxChanges /\ faults \in 0 .. MaxFaults

LEMMA QueueTyped == Queue!TypeOK <=> PickHands /\ QueueWorld /\ QueueBounds
BY DEF Queue!TypeOK, PickHands, QueueWorld, QueueBounds, PickRuns, PickPcs, PickLists, IssueSets, PickBools,
   PickKnown, PickChoices

LEMMA QueueConstants ==
    /\ Backlogged \subseteq Nat \ {0} /\ DependsOn \in [Backlogged -> SUBSET Backlogged]
    /\ MaxChanges \in Nat /\ MaxFaults \in Nat /\ IsFiniteSet(Backlogged)
BY ConstantsAssumption DEF Queue!QueueAssumption, Queue!IsFiniteSet, IsFiniteSet


\* One goes on with a record of its own, and the others with theirs.
LEMMA QueueGoes ==
    ASSUME PickHands, NEW c \in Pickers, NEW r \in PickRuns, v5' = [v5 EXCEPT ![c] = r]
    PROVE  /\ PickHands' /\ v5'[c] = r
           /\ \A g \in Pickers : g # c => v5'[g] = v5[g]
BY DEF PickHands

LEMMA QueueRecords ==
    /\ Queue!Idle \in PickRuns
    /\ \A pc \in PickPcs, list \in PickLists, offered \in IssueSets, over \in IssueSets, unfinished \in IssueSets :
          [Queue!Idle EXCEPT !.pc = pc, !.list = list, !.offered = offered, !.over = over, !.unfinished = unfinished] \in PickRuns
    /\ \A r \in PickRuns, pc \in PickPcs, pool \in PickBools, known \in PickKnown :
          [r EXCEPT !.pc = pc, !.pool = pool, !.known = known] \in PickRuns
    /\ \A r \in PickRuns, pc \in PickPcs, pool \in PickBools :
          [r EXCEPT !.pc = pc, !.pool = pool] \in PickRuns
    /\ \A r \in PickRuns, pc \in PickPcs, known \in PickKnown :
          [r EXCEPT !.pc = pc, !.known = known] \in PickRuns
    /\ \A r \in PickRuns, pc \in PickPcs, chosen \in PickChoices, unverified \in IssueSets :
          [r EXCEPT !.pc = pc, !.chosen = chosen, !.unverified = unverified] \in PickRuns
    /\ \A r \in PickRuns, list \in PickLists :
          [r EXCEPT !.list = list] \in PickRuns
<1>1. Queue!Idle \in PickRuns
  BY ConstantsAssumption DEF Queue!Idle, PickRuns, PickPcs, PickLists, IssueSets, PickBools, PickKnown, PickChoices, Queue!Unread
<1>2. \A pc \in PickPcs, list \in PickLists, offered \in IssueSets, over \in IssueSets, unfinished \in IssueSets :
          [Queue!Idle EXCEPT !.pc = pc, !.list = list, !.offered = offered, !.over = over, !.unfinished = unfinished] \in PickRuns
  BY <1>1 DEF PickRuns
<1>3. \A r \in PickRuns, pc \in PickPcs, pool \in PickBools, known \in PickKnown :
          [r EXCEPT !.pc = pc, !.pool = pool, !.known = known] \in PickRuns
  BY <1>1 DEF PickRuns
<1>4. \A r \in PickRuns, pc \in PickPcs, pool \in PickBools :
          [r EXCEPT !.pc = pc, !.pool = pool] \in PickRuns
  BY <1>1 DEF PickRuns
<1>5. \A r \in PickRuns, pc \in PickPcs, known \in PickKnown :
          [r EXCEPT !.pc = pc, !.known = known] \in PickRuns
  BY <1>1 DEF PickRuns
<1>6. \A r \in PickRuns, pc \in PickPcs, chosen \in PickChoices, unverified \in IssueSets :
          [r EXCEPT !.pc = pc, !.chosen = chosen, !.unverified = unverified] \in PickRuns
  BY <1>1 DEF PickRuns
<1>7. \A r \in PickRuns, list \in PickLists :
          [r EXCEPT !.list = list] \in PickRuns
  BY <1>1 DEF PickRuns
<1> QED
  BY <1>1, <1>2, <1>3, <1>4, <1>5, <1>6, <1>7

LEMMA QueueStarts == ASSUME Queue!Init PROVE Queue!IInv
<1>1. PickHands
  BY QueueRecords DEF Queue!Init, PickHands
<1>2. QueueWorld
  BY QueueConstants DEF Queue!Init, QueueWorld
<1>3. QueueBounds
  BY QueueConstants DEF Queue!Init, QueueBounds
<1>4. \A p \in Pickers : /\ v5[p].pc = "idle" /\ v5[p].chosen = 0 /\ v5[p].known.ids = {} /\ v5[p].offered = {}
  BY DEF Queue!Init, Queue!Idle, Queue!Unread
<1>5. Queue!TypeOK
  BY <1>1, <1>2, <1>3, QueueTyped
<1> QED
  BY <1>4, <1>5 DEF Queue!IInv, Queue!KeepsSeen, Queue!KnownAreOver, Queue!PassedAreBlocked, Queue!ChosenWasJudged

LEMMA QueueNext ==
    ASSUME Queue!IInv, Queue!Next
    PROVE  Queue!IInv'
<1> USE DEF Queue!Fine, Queue!Fail
<1> DEFINE Goal == PickHands' /\ QueueWorld' /\ QueueBounds' /\ Queue!KeepsSeen' /\ Queue!KnownAreOver' /\ Queue!PassedAreBlocked' /\ Queue!ChosenWasJudged'
<1>0. /\ PickHands /\ QueueWorld /\ QueueBounds /\ Queue!KeepsSeen /\ Queue!KnownAreOver
      /\ Queue!PassedAreBlocked /\ Queue!ChosenWasJudged
      /\ Backlogged \subseteq Nat \ {0} /\ DependsOn \in [Backlogged -> SUBSET Backlogged]
      /\ MaxChanges \in Nat /\ MaxFaults \in Nat
  BY QueueTyped, QueueConstants DEF Queue!IInv
<1>1. ASSUME Queue!Change, QueueWorld' PROVE Goal
  <2>1. /\ PickHands'
        /\ \A p \in Pickers :
              /\ v5'[p].pc = v5[p].pc /\ v5'[p].list = v5[p].list /\ v5'[p].offered = v5[p].offered
              /\ v5'[p].known = v5[p].known /\ v5'[p].chosen = v5[p].chosen /\ v5'[p].unverified = v5[p].unverified
              /\ v5[p].over \subseteq v5'[p].over /\ v5[p].unfinished \subseteq v5'[p].unfinished
              /\ v5[p].pc \in {"closed", "look"} =>
                     Queue!Over' \subseteq v5'[p].over /\ Queue!Unfinished' \subseteq v5'[p].unfinished
    <3> DEFINE w(p) == [v5[p] EXCEPT !.over = v5[p].over \cup Queue!Over', !.unfinished = v5[p].unfinished \cup Queue!Unfinished']
               n(p) == IF v5[p].pc \in {"idle", "end"} THEN v5[p] ELSE w(p)
    <3>1. Queue!Over' \in IssueSets /\ Queue!Unfinished' \in IssueSets
      BY DEF IssueSets, Queue!Over, Queue!Closed, Queue!Unfinished
    <3>2. ASSUME NEW p \in Pickers
          PROVE  /\ w(p) \in PickRuns
                 /\ w(p).pc = v5[p].pc /\ w(p).list = v5[p].list /\ w(p).offered = v5[p].offered
                 /\ w(p).known = v5[p].known /\ w(p).chosen = v5[p].chosen /\ w(p).unverified = v5[p].unverified
                 /\ w(p).over = v5[p].over \cup Queue!Over' /\ w(p).unfinished = v5[p].unfinished \cup Queue!Unfinished'
      <4>1. v5[p] \in PickRuns
        BY <1>0 DEF PickHands
      <4> DEFINE o == v5[p].over \cup Queue!Over'
                 u == v5[p].unfinished \cup Queue!Unfinished'
      <4>2. o \in IssueSets /\ u \in IssueSets
        BY <3>1, <4>1 DEF PickRuns, IssueSets
      <4> HIDE DEF o, u
      <4> DEFINE q == [v5[p] EXCEPT !.over = o, !.unfinished = u]
      <4>3. /\ q \in PickRuns /\ q.pc = v5[p].pc /\ q.list = v5[p].list /\ q.offered = v5[p].offered
            /\ q.known = v5[p].known /\ q.chosen = v5[p].chosen /\ q.unverified = v5[p].unverified
            /\ q.over = o /\ q.unfinished = u
        BY <4>1, <4>2 DEF PickRuns
      <4>4. w(p) = q
        BY DEF o, u
      <4>5. o = v5[p].over \cup Queue!Over' /\ u = v5[p].unfinished \cup Queue!Unfinished'
        BY DEF o, u
      <4> HIDE DEF w, q
      <4>6. /\ w(p) \in PickRuns /\ w(p).pc = v5[p].pc /\ w(p).list = v5[p].list /\ w(p).offered = v5[p].offered
            /\ w(p).known = v5[p].known /\ w(p).chosen = v5[p].chosen /\ w(p).unverified = v5[p].unverified
            /\ w(p).over = o /\ w(p).unfinished = u
        BY <4>3, <4>4
      <4> QED
        BY <4>5, <4>6
    <3>3. v5' = [p \in Pickers |-> n(p)]
      BY <1>1 DEF Queue!Change, Queue!Witnessed
    <3> HIDE DEF w
    <3>4. ASSUME NEW p \in Pickers
          PROVE  /\ v5'[p] \in PickRuns
                 /\ v5'[p] = IF v5[p].pc \in {"idle", "end"} THEN v5[p] ELSE w(p)
      <4>1. v5'[p] = n(p) /\ v5[p] \in PickRuns
        BY <1>0, <3>3 DEF PickHands
      <4> QED
        BY <3>2, <4>1
    <3>5. PickHands'
      BY <3>3, <3>4 DEF PickHands
    <3> HIDE DEF n
    <3> QED
      BY <3>2, <3>4, <3>5
  <2>2. QueueBounds'
    BY <1>0, <1>1 DEF Queue!Change, QueueBounds
  <2>3. Queue!KeepsSeen'
    BY <2>1 DEF Queue!KeepsSeen
  <2>4. Queue!KnownAreOver'
    BY <1>0, <2>1 DEF Queue!KnownAreOver
  <2>5. Queue!PassedAreBlocked'
    <3> SUFFICES ASSUME NEW p \in Pickers, NEW j \in v5'[p].offered, ~Queue!Listed(p, j)'
                 PROVE  DependsOn[j] \cap v5'[p].unfinished # {}
      BY DEF Queue!PassedAreBlocked
    <3>1. j \in v5[p].offered /\ ~Queue!Listed(p, j)
      BY <2>1 DEF Queue!Listed
    <3> QED
      BY <1>0, <2>1, <3>1 DEF Queue!PassedAreBlocked
  <2>6. Queue!ChosenWasJudged'
    BY <1>0, <2>1 DEF Queue!ChosenWasJudged
  <2> QED
    BY <1>1, <2>1, <2>2, <2>3, <2>4, <2>5, <2>6
<1>2. ASSUME NEW c \in Pickers, NEW found \in IssueSets, NEW list \in PickLists, UNCHANGED <<v1, v2, v3, v4, v6, faults>>,
         \A j \in found : \E k \in 1 .. Len(list) : list[k] = j,
         v5' = [v5 EXCEPT ![c] = [Queue!Idle EXCEPT !.pc = "closed", !.list = list, !.offered = found, !.over = Queue!Over, !.unfinished = Queue!Unfinished]]
      PROVE  Goal
  <2>1. CASE /\ UNCHANGED <<v1, v2, v3, v4, v6>>
             /\ Queue!Fine
             /\ \A j \in found : \E k \in 1 .. Len(list) : list[k] = j
             /\ v5' = [v5 EXCEPT ![c] = [Queue!Idle EXCEPT !.pc = "closed", !.list = list, !.offered = found, !.over = Queue!Over, !.unfinished = Queue!Unfinished]]
    <3>h. /\ PickHands'
          /\ v5'[c].pc = "closed" /\ v5'[c].list = list /\ v5'[c].offered = found /\ v5'[c].known = Queue!Unread /\ v5'[c].pool = FALSE /\ v5'[c].chosen = 0 /\ v5'[c].over = Queue!Over /\ v5'[c].unfinished = Queue!Unfinished /\ v5'[c].unverified = {}
          /\ \A g \in Pickers : g # c => v5'[g] = v5[g]
      <4>1. "closed" \in PickPcs /\ list \in PickLists /\ found \in IssueSets /\ Queue!Over \in IssueSets /\ Queue!Unfinished \in IssueSets
        BY <1>0, <2>1 DEF PickPcs, IssueSets, Queue!Over, Queue!Closed, Queue!Unfinished
      <4>2. [Queue!Idle EXCEPT !.pc = "closed", !.list = list, !.offered = found, !.over = Queue!Over, !.unfinished = Queue!Unfinished] \in PickRuns
        BY <1>0, <4>1, QueueRecords DEF PickHands
      <4>3. LET r == [Queue!Idle EXCEPT !.pc = "closed", !.list = list, !.offered = found, !.over = Queue!Over, !.unfinished = Queue!Unfinished] IN r.pc = "closed" /\ r.list = list /\ r.offered = found /\ r.known = Queue!Unread /\ r.pool = FALSE /\ r.chosen = 0 /\ r.over = Queue!Over /\ r.unfinished = Queue!Unfinished /\ r.unverified = {}
        BY DEF Queue!Idle
      <4> HIDE DEF Queue!Idle
      <4> DEFINE r == [Queue!Idle EXCEPT !.pc = "closed", !.list = list, !.offered = found, !.over = Queue!Over, !.unfinished = Queue!Unfinished]
      <4>4. v5' = [v5 EXCEPT ![c] = r]
        BY <2>1
      <4>5. r \in PickRuns /\ r.pc = "closed" /\ r.list = list /\ r.offered = found /\ r.known = Queue!Unread /\ r.pool = FALSE /\ r.chosen = 0 /\ r.over = Queue!Over /\ r.unfinished = Queue!Unfinished /\ r.unverified = {}
        BY <4>2, <4>3
      <4> HIDE DEF r
      <4> QED
        BY <1>0, <4>4, <4>5, QueueGoes
    <3>1. PickHands'
      BY <3>h
    <3>2. QueueWorld'
      BY <1>0, <2>1, <3>h DEF QueueWorld
    <3>3. QueueBounds'
      BY <1>0, <2>1, <3>h DEF QueueBounds
    <3>4. Queue!KeepsSeen'
      BY <1>0, <2>1, <3>h DEF Queue!KeepsSeen, Queue!Over, Queue!Closed, Queue!Unfinished
    <3>5. Queue!KnownAreOver'
      BY <1>0, <3>h DEF Queue!KnownAreOver, Queue!Unread
    <3>6. Queue!PassedAreBlocked'
      BY <1>0, <2>1, <3>h DEF Queue!PassedAreBlocked, Queue!Listed
    <3>7. Queue!ChosenWasJudged'
      BY <1>0, <2>1, <3>h DEF Queue!ChosenWasJudged
    <3> QED
      BY <3>1, <3>2, <3>3, <3>4, <3>5, <3>6, <3>7
  <2> QED
    BY <1>2, <2>1 DEF Queue!Idle
<1>3. ASSUME NEW c \in Pickers, NEW q \in PickKnown, q.ids \subseteq v5[c].over, v5[c].pc = "closed", UNCHANGED <<v1, v2, v3, v4, v6>>, Queue!Fine \/ Queue!Fail,
         v5' = [v5 EXCEPT ![c].pc = "look", ![c].pool = TRUE, ![c].known = q] \/ v5' = [v5 EXCEPT ![c].pc = "look", ![c].pool = TRUE]
         \/ v5' = [v5 EXCEPT ![c].pc = "look", ![c].known = q]
      PROVE  Goal
  <2>1. CASE /\ v5[c].pc = "closed"
             /\ UNCHANGED <<v1, v2, v3, v4, v6>>
             /\ (Queue!Fine \/ Queue!Fail)
             /\ q \in PickKnown
             /\ q.ids \subseteq v5[c].over
             /\ v5' = [v5 EXCEPT ![c] = [v5[c] EXCEPT !.pc = "look", !.pool = TRUE, !.known = q]]
    <3>h. /\ PickHands'
          /\ v5'[c].pc = "look" /\ v5'[c].list = v5[c].list /\ v5'[c].offered = v5[c].offered /\ v5'[c].known = q /\ v5'[c].pool = TRUE /\ v5'[c].chosen = v5[c].chosen /\ v5'[c].over = v5[c].over /\ v5'[c].unfinished = v5[c].unfinished /\ v5'[c].unverified = v5[c].unverified
          /\ \A g \in Pickers : g # c => v5'[g] = v5[g]
      <4>1. "look" \in PickPcs /\ TRUE \in PickBools /\ q \in PickKnown
        BY <1>0, <2>1 DEF PickPcs, PickBools
      <4>2. [v5[c] EXCEPT !.pc = "look", !.pool = TRUE, !.known = q] \in PickRuns
        BY <1>0, <4>1, QueueRecords DEF PickHands
      <4>3. LET r == [v5[c] EXCEPT !.pc = "look", !.pool = TRUE, !.known = q] IN r.pc = "look" /\ r.list = v5[c].list /\ r.offered = v5[c].offered /\ r.known = q /\ r.pool = TRUE /\ r.chosen = v5[c].chosen /\ r.over = v5[c].over /\ r.unfinished = v5[c].unfinished /\ r.unverified = v5[c].unverified
        BY <1>0 DEF PickHands, PickRuns
      <4> HIDE DEF Queue!Idle
      <4> DEFINE r == [v5[c] EXCEPT !.pc = "look", !.pool = TRUE, !.known = q]
      <4>4. v5' = [v5 EXCEPT ![c] = r]
        BY <2>1
      <4>5. r \in PickRuns /\ r.pc = "look" /\ r.list = v5[c].list /\ r.offered = v5[c].offered /\ r.known = q /\ r.pool = TRUE /\ r.chosen = v5[c].chosen /\ r.over = v5[c].over /\ r.unfinished = v5[c].unfinished /\ r.unverified = v5[c].unverified
        BY <4>2, <4>3
      <4> HIDE DEF r
      <4> QED
        BY <1>0, <4>4, <4>5, QueueGoes
    <3>1. PickHands'
      BY <3>h
    <3>2. QueueWorld'
      BY <1>0, <2>1, <3>h DEF QueueWorld
    <3>3. QueueBounds'
      BY <1>0, <2>1, <3>h DEF QueueBounds
    <3>4. Queue!KeepsSeen'
      BY <1>0, <2>1, <3>h DEF Queue!KeepsSeen, Queue!Over, Queue!Closed, Queue!Unfinished
    <3>5. Queue!KnownAreOver'
      BY <1>0, <2>1, <3>h DEF Queue!KnownAreOver
    <3>6. Queue!PassedAreBlocked'
      BY <1>0, <2>1, <3>h DEF Queue!PassedAreBlocked, Queue!Listed
    <3>7. Queue!ChosenWasJudged'
      BY <1>0, <2>1, <3>h DEF Queue!ChosenWasJudged
    <3> QED
      BY <3>1, <3>2, <3>3, <3>4, <3>5, <3>6, <3>7
  <2>2. CASE /\ v5[c].pc = "closed"
             /\ UNCHANGED <<v1, v2, v3, v4, v6>>
             /\ (Queue!Fine \/ Queue!Fail)
             /\ v5' = [v5 EXCEPT ![c] = [v5[c] EXCEPT !.pc = "look", !.pool = TRUE]]
    <3>h. /\ PickHands'
          /\ v5'[c].pc = "look" /\ v5'[c].list = v5[c].list /\ v5'[c].offered = v5[c].offered /\ v5'[c].known = v5[c].known /\ v5'[c].pool = TRUE /\ v5'[c].chosen = v5[c].chosen /\ v5'[c].over = v5[c].over /\ v5'[c].unfinished = v5[c].unfinished /\ v5'[c].unverified = v5[c].unverified
          /\ \A g \in Pickers : g # c => v5'[g] = v5[g]
      <4>1. "look" \in PickPcs /\ TRUE \in PickBools
        BY <1>0, <2>2 DEF PickPcs, PickBools
      <4>2. [v5[c] EXCEPT !.pc = "look", !.pool = TRUE] \in PickRuns
        BY <1>0, <4>1, QueueRecords DEF PickHands
      <4>3. LET r == [v5[c] EXCEPT !.pc = "look", !.pool = TRUE] IN r.pc = "look" /\ r.list = v5[c].list /\ r.offered = v5[c].offered /\ r.known = v5[c].known /\ r.pool = TRUE /\ r.chosen = v5[c].chosen /\ r.over = v5[c].over /\ r.unfinished = v5[c].unfinished /\ r.unverified = v5[c].unverified
        BY <1>0 DEF PickHands, PickRuns
      <4> HIDE DEF Queue!Idle
      <4> DEFINE r == [v5[c] EXCEPT !.pc = "look", !.pool = TRUE]
      <4>4. v5' = [v5 EXCEPT ![c] = r]
        BY <2>2
      <4>5. r \in PickRuns /\ r.pc = "look" /\ r.list = v5[c].list /\ r.offered = v5[c].offered /\ r.known = v5[c].known /\ r.pool = TRUE /\ r.chosen = v5[c].chosen /\ r.over = v5[c].over /\ r.unfinished = v5[c].unfinished /\ r.unverified = v5[c].unverified
        BY <4>2, <4>3
      <4> HIDE DEF r
      <4> QED
        BY <1>0, <4>4, <4>5, QueueGoes
    <3>1. PickHands'
      BY <3>h
    <3>2. QueueWorld'
      BY <1>0, <2>2, <3>h DEF QueueWorld
    <3>3. QueueBounds'
      BY <1>0, <2>2, <3>h DEF QueueBounds
    <3>4. Queue!KeepsSeen'
      BY <1>0, <2>2, <3>h DEF Queue!KeepsSeen, Queue!Over, Queue!Closed, Queue!Unfinished
    <3>5. Queue!KnownAreOver'
      BY <1>0, <2>2, <3>h DEF Queue!KnownAreOver
    <3>6. Queue!PassedAreBlocked'
      BY <1>0, <2>2, <3>h DEF Queue!PassedAreBlocked, Queue!Listed
    <3>7. Queue!ChosenWasJudged'
      BY <1>0, <2>2, <3>h DEF Queue!ChosenWasJudged
    <3> QED
      BY <3>1, <3>2, <3>3, <3>4, <3>5, <3>6, <3>7
  <2>3. CASE /\ v5[c].pc = "closed"
             /\ UNCHANGED <<v1, v2, v3, v4, v6>>
             /\ (Queue!Fine \/ Queue!Fail)
             /\ q \in PickKnown
             /\ q.ids \subseteq v5[c].over
             /\ v5' = [v5 EXCEPT ![c] = [v5[c] EXCEPT !.pc = "look", !.known = q]]
    <3>h. /\ PickHands'
          /\ v5'[c].pc = "look" /\ v5'[c].list = v5[c].list /\ v5'[c].offered = v5[c].offered /\ v5'[c].known = q /\ v5'[c].pool = v5[c].pool /\ v5'[c].chosen = v5[c].chosen /\ v5'[c].over = v5[c].over /\ v5'[c].unfinished = v5[c].unfinished /\ v5'[c].unverified = v5[c].unverified
          /\ \A g \in Pickers : g # c => v5'[g] = v5[g]
      <4>1. "look" \in PickPcs /\ q \in PickKnown
        BY <1>0, <2>3 DEF PickPcs, PickBools
      <4>2. [v5[c] EXCEPT !.pc = "look", !.known = q] \in PickRuns
        BY <1>0, <4>1, QueueRecords DEF PickHands
      <4>3. LET r == [v5[c] EXCEPT !.pc = "look", !.known = q] IN r.pc = "look" /\ r.list = v5[c].list /\ r.offered = v5[c].offered /\ r.known = q /\ r.pool = v5[c].pool /\ r.chosen = v5[c].chosen /\ r.over = v5[c].over /\ r.unfinished = v5[c].unfinished /\ r.unverified = v5[c].unverified
        BY <1>0 DEF PickHands, PickRuns
      <4> HIDE DEF Queue!Idle
      <4> DEFINE r == [v5[c] EXCEPT !.pc = "look", !.known = q]
      <4>4. v5' = [v5 EXCEPT ![c] = r]
        BY <2>3
      <4>5. r \in PickRuns /\ r.pc = "look" /\ r.list = v5[c].list /\ r.offered = v5[c].offered /\ r.known = q /\ r.pool = v5[c].pool /\ r.chosen = v5[c].chosen /\ r.over = v5[c].over /\ r.unfinished = v5[c].unfinished /\ r.unverified = v5[c].unverified
        BY <4>2, <4>3
      <4> HIDE DEF r
      <4> QED
        BY <1>0, <4>4, <4>5, QueueGoes
    <3>1. PickHands'
      BY <3>h
    <3>2. QueueWorld'
      BY <1>0, <2>3, <3>h DEF QueueWorld
    <3>3. QueueBounds'
      BY <1>0, <2>3, <3>h DEF QueueBounds
    <3>4. Queue!KeepsSeen'
      BY <1>0, <2>3, <3>h DEF Queue!KeepsSeen, Queue!Over, Queue!Closed, Queue!Unfinished
    <3>5. Queue!KnownAreOver'
      BY <1>0, <2>3, <3>h DEF Queue!KnownAreOver
    <3>6. Queue!PassedAreBlocked'
      BY <1>0, <2>3, <3>h DEF Queue!PassedAreBlocked, Queue!Listed
    <3>7. Queue!ChosenWasJudged'
      BY <1>0, <2>3, <3>h DEF Queue!ChosenWasJudged
    <3> QED
      BY <3>1, <3>2, <3>3, <3>4, <3>5, <3>6, <3>7
  <2> QED
    BY <1>3, <2>1, <2>2, <2>3 DEF Queue!Idle
<1>4. ASSUME NEW c \in Pickers, NEW i \in Backlogged, NEW more \in IssueSets, v5[c].pc = "look", UNCHANGED <<v1, v2, v3, v4, v6>>, Queue!Fine \/ Queue!Fail,
         DependsOn[i] \subseteq v5[c].over \cup more,
         v5' = [v5 EXCEPT ![c].pc = "end", ![c].chosen = i, ![c].unverified = more]
      PROVE  Goal
  <2>1. CASE /\ v5[c].pc = "look"
             /\ UNCHANGED <<v1, v2, v3, v4, v6>>
             /\ (Queue!Fine \/ Queue!Fail)
             /\ DependsOn[i] \subseteq v5[c].over \cup more
             /\ v5' = [v5 EXCEPT ![c] = [v5[c] EXCEPT !.pc = "end", !.chosen = i, !.unverified = more]]
    <3>h. /\ PickHands'
          /\ v5'[c].pc = "end" /\ v5'[c].list = v5[c].list /\ v5'[c].offered = v5[c].offered /\ v5'[c].known = v5[c].known /\ v5'[c].pool = v5[c].pool /\ v5'[c].chosen = i /\ v5'[c].over = v5[c].over /\ v5'[c].unfinished = v5[c].unfinished /\ v5'[c].unverified = more
          /\ \A g \in Pickers : g # c => v5'[g] = v5[g]
      <4>1. "end" \in PickPcs /\ i \in PickChoices /\ more \in IssueSets
        BY <1>0, <2>1 DEF PickPcs, PickChoices
      <4>2. [v5[c] EXCEPT !.pc = "end", !.chosen = i, !.unverified = more] \in PickRuns
        BY <1>0, <4>1, QueueRecords DEF PickHands
      <4>3. LET r == [v5[c] EXCEPT !.pc = "end", !.chosen = i, !.unverified = more] IN r.pc = "end" /\ r.list = v5[c].list /\ r.offered = v5[c].offered /\ r.known = v5[c].known /\ r.pool = v5[c].pool /\ r.chosen = i /\ r.over = v5[c].over /\ r.unfinished = v5[c].unfinished /\ r.unverified = more
        BY <1>0 DEF PickHands, PickRuns
      <4> HIDE DEF Queue!Idle
      <4> DEFINE r == [v5[c] EXCEPT !.pc = "end", !.chosen = i, !.unverified = more]
      <4>4. v5' = [v5 EXCEPT ![c] = r]
        BY <2>1
      <4>5. r \in PickRuns /\ r.pc = "end" /\ r.list = v5[c].list /\ r.offered = v5[c].offered /\ r.known = v5[c].known /\ r.pool = v5[c].pool /\ r.chosen = i /\ r.over = v5[c].over /\ r.unfinished = v5[c].unfinished /\ r.unverified = more
        BY <4>2, <4>3
      <4> HIDE DEF r
      <4> QED
        BY <1>0, <4>4, <4>5, QueueGoes
    <3>1. PickHands'
      BY <3>h
    <3>2. QueueWorld'
      BY <1>0, <2>1, <3>h DEF QueueWorld
    <3>3. QueueBounds'
      BY <1>0, <2>1, <3>h DEF QueueBounds
    <3>4. Queue!KeepsSeen'
      BY <1>0, <2>1, <3>h DEF Queue!KeepsSeen, Queue!Over, Queue!Closed, Queue!Unfinished
    <3>5. Queue!KnownAreOver'
      BY <1>0, <2>1, <3>h DEF Queue!KnownAreOver
    <3>6. Queue!PassedAreBlocked'
      BY <1>0, <2>1, <3>h DEF Queue!PassedAreBlocked, Queue!Listed
    <3>7. Queue!ChosenWasJudged'
      BY <1>0, <2>1, <3>h DEF Queue!ChosenWasJudged
    <3> QED
      BY <3>1, <3>2, <3>3, <3>4, <3>5, <3>6, <3>7
  <2> QED
    BY <1>4, <2>1 DEF Queue!Idle
<1>5. ASSUME NEW c \in Pickers, v5[c].pc = "look", v5[c].list # <<>>, UNCHANGED <<v1, v2, v3, v4, v6>>, Queue!Fine \/ Queue!Fail,
         DependsOn[Head(v5[c].list)] \cap v5[c].unfinished # {},
         v5' = [v5 EXCEPT ![c].list = Tail(v5[c].list)]
      PROVE  Goal
  <2>1. CASE /\ v5[c].pc = "look"
             /\ v5[c].list # <<>>
             /\ UNCHANGED <<v1, v2, v3, v4, v6>>
             /\ (Queue!Fine \/ Queue!Fail)
             /\ DependsOn[Head(v5[c].list)] \cap v5[c].unfinished # {}
             /\ v5' = [v5 EXCEPT ![c] = [v5[c] EXCEPT !.list = Tail(v5[c].list)]]
    <3>h. /\ PickHands'
          /\ v5'[c].pc = v5[c].pc /\ v5'[c].list = Tail(v5[c].list) /\ v5'[c].offered = v5[c].offered /\ v5'[c].known = v5[c].known /\ v5'[c].pool = v5[c].pool /\ v5'[c].chosen = v5[c].chosen /\ v5'[c].over = v5[c].over /\ v5'[c].unfinished = v5[c].unfinished /\ v5'[c].unverified = v5[c].unverified
          /\ \A g \in Pickers : g # c => v5'[g] = v5[g]
      <4>1. Tail(v5[c].list) \in PickLists
        BY <1>0, <2>1 DEF PickHands, PickRuns, PickLists
      <4>2. [v5[c] EXCEPT !.list = Tail(v5[c].list)] \in PickRuns
        BY <1>0, <4>1, QueueRecords DEF PickHands
      <4>3. LET r == [v5[c] EXCEPT !.list = Tail(v5[c].list)] IN r.pc = v5[c].pc /\ r.list = Tail(v5[c].list) /\ r.offered = v5[c].offered /\ r.known = v5[c].known /\ r.pool = v5[c].pool /\ r.chosen = v5[c].chosen /\ r.over = v5[c].over /\ r.unfinished = v5[c].unfinished /\ r.unverified = v5[c].unverified
        BY <1>0 DEF PickHands, PickRuns
      <4> HIDE DEF Queue!Idle
      <4> DEFINE r == [v5[c] EXCEPT !.list = Tail(v5[c].list)]
      <4>4. v5' = [v5 EXCEPT ![c] = r]
        BY <2>1
      <4>5. r \in PickRuns /\ r.pc = v5[c].pc /\ r.list = Tail(v5[c].list) /\ r.offered = v5[c].offered /\ r.known = v5[c].known /\ r.pool = v5[c].pool /\ r.chosen = v5[c].chosen /\ r.over = v5[c].over /\ r.unfinished = v5[c].unfinished /\ r.unverified = v5[c].unverified
        BY <4>2, <4>3
      <4> HIDE DEF r
      <4> QED
        BY <1>0, <4>4, <4>5, QueueGoes
    <3>1. PickHands'
      BY <3>h
    <3>2. QueueWorld'
      BY <1>0, <2>1, <3>h DEF QueueWorld
    <3>3. QueueBounds'
      BY <1>0, <2>1, <3>h DEF QueueBounds
    <3>4. Queue!KeepsSeen'
      BY <1>0, <2>1, <3>h DEF Queue!KeepsSeen, Queue!Over, Queue!Closed, Queue!Unfinished
    <3>5. Queue!KnownAreOver'
      BY <1>0, <2>1, <3>h DEF Queue!KnownAreOver
    <3>6. Queue!PassedAreBlocked'
      <4>1. v5[c].list \in Seq(Backlogged)
        BY <1>0 DEF PickHands, PickRuns, PickLists
      <4>2. ASSUME NEW j, \E k \in 1 .. Len(v5[c].list) : v5[c].list[k] = j
            PROVE  j = Head(v5[c].list) \/ \E k \in 1 .. Len(Tail(v5[c].list)) : Tail(v5[c].list)[k] = j
        <5>1. PICK k \in 1 .. Len(v5[c].list) : v5[c].list[k] = j
          BY <4>2
        <5>2. CASE k = 1
          BY <4>1, <5>1, <5>2, <2>1
        <5>3. CASE k # 1
          <6>1. k - 1 \in 1 .. Len(Tail(v5[c].list)) /\ Tail(v5[c].list)[k - 1] = v5[c].list[k]
            BY <4>1, <5>3, <2>1
          <6> QED
            BY <5>1, <6>1
        <5> QED
          BY <5>2, <5>3
      <4>3. ASSUME NEW j \in v5'[c].offered, ~Queue!Listed(c, j)'
            PROVE  DependsOn[j] \cap v5'[c].unfinished # {}
        <5>1. j \in v5[c].offered /\ v5'[c].unfinished = v5[c].unfinished /\ v5'[c].list = Tail(v5[c].list)
          BY <3>h, <4>3
        <5>2. ~\E k \in 1 .. Len(Tail(v5[c].list)) : Tail(v5[c].list)[k] = j
          BY <4>3, <5>1 DEF Queue!Listed
        <5>3. CASE j = Head(v5[c].list)
          BY <5>1, <5>3, <2>1
        <5>4. CASE j # Head(v5[c].list)
          <6>1. ~Queue!Listed(c, j)
            BY <4>2, <5>2, <5>4 DEF Queue!Listed
          <6> QED
            BY <1>0, <5>1, <6>1 DEF Queue!PassedAreBlocked
        <5> QED
          BY <5>3, <5>4
      <4>4. ASSUME NEW g \in Pickers, g # c, NEW j \in v5'[g].offered, ~Queue!Listed(g, j)'
            PROVE  DependsOn[j] \cap v5'[g].unfinished # {}
        <5>1. v5'[g] = v5[g]
          BY <3>h, <4>4
        <5> QED
          BY <1>0, <4>4, <5>1 DEF Queue!PassedAreBlocked, Queue!Listed
      <4> QED
        BY <4>3, <4>4 DEF Queue!PassedAreBlocked
    <3>7. Queue!ChosenWasJudged'
      BY <1>0, <2>1, <3>h DEF Queue!ChosenWasJudged
    <3> QED
      BY <3>1, <3>2, <3>3, <3>4, <3>5, <3>6, <3>7
  <2> QED
    BY <1>5, <2>1 DEF Queue!Idle
<1>6. ASSUME NEW c \in Pickers, Queue!Answer(c)
      PROVE  Goal
  <2>1. CASE /\ UNCHANGED <<v1, v2, v3, v4, v6>>
             /\ Queue!Fine
             /\ v5' = [v5 EXCEPT ![c] = Queue!Idle]
    <3>h. /\ PickHands'
          /\ v5'[c].pc = "idle" /\ v5'[c].list = <<>> /\ v5'[c].offered = {} /\ v5'[c].known = Queue!Unread /\ v5'[c].pool = FALSE /\ v5'[c].chosen = 0 /\ v5'[c].over = {} /\ v5'[c].unfinished = {} /\ v5'[c].unverified = {}
          /\ \A g \in Pickers : g # c => v5'[g] = v5[g]
      <4>2. Queue!Idle \in PickRuns
        BY <1>0, QueueRecords DEF PickHands
      <4>3. LET r == Queue!Idle IN r.pc = "idle" /\ r.list = <<>> /\ r.offered = {} /\ r.known = Queue!Unread /\ r.pool = FALSE /\ r.chosen = 0 /\ r.over = {} /\ r.unfinished = {} /\ r.unverified = {}
        BY DEF Queue!Idle
      <4> HIDE DEF Queue!Idle
      <4> DEFINE r == Queue!Idle
      <4>4. v5' = [v5 EXCEPT ![c] = r]
        BY <2>1
      <4>5. r \in PickRuns /\ r.pc = "idle" /\ r.list = <<>> /\ r.offered = {} /\ r.known = Queue!Unread /\ r.pool = FALSE /\ r.chosen = 0 /\ r.over = {} /\ r.unfinished = {} /\ r.unverified = {}
        BY <4>2, <4>3
      <4> HIDE DEF r
      <4> QED
        BY <1>0, <4>4, <4>5, QueueGoes
    <3>1. PickHands'
      BY <3>h
    <3>2. QueueWorld'
      BY <1>0, <2>1, <3>h DEF QueueWorld
    <3>3. QueueBounds'
      BY <1>0, <2>1, <3>h DEF QueueBounds
    <3>4. Queue!KeepsSeen'
      BY <1>0, <2>1, <3>h DEF Queue!KeepsSeen, Queue!Over, Queue!Closed, Queue!Unfinished
    <3>5. Queue!KnownAreOver'
      BY <1>0, <3>h DEF Queue!KnownAreOver, Queue!Unread
    <3>6. Queue!PassedAreBlocked'
      BY <1>0, <2>1, <3>h DEF Queue!PassedAreBlocked, Queue!Listed
    <3>7. Queue!ChosenWasJudged'
      BY <1>0, <2>1, <3>h DEF Queue!ChosenWasJudged
    <3> QED
      BY <3>1, <3>2, <3>3, <3>4, <3>5, <3>6, <3>7
  <2> QED
    BY <1>6, <2>1 DEF Queue!Answer, Queue!world
<1>a. ASSUME NEW i \in Backlogged,
             \/ Queue!CreateIssue(i) \/ Queue!CloseIssue(i) \/ Queue!Reopen(i)
             \/ \E r \in Ranks : Queue!MarkReady(i, r)
             \/ \E status \in {"open", "over"} : Queue!SetTask(i, status)
      PROVE  Goal
  <2>1. Queue!Change
    BY <1>a DEF Queue!CreateIssue, Queue!CloseIssue, Queue!Reopen, Queue!MarkReady, Queue!SetTask
  <2>2. QueueWorld'
    BY <1>0, <1>a DEF Queue!CreateIssue, Queue!CloseIssue, Queue!Reopen, Queue!MarkReady, Queue!SetTask, QueueWorld
  <2> QED
    BY <1>1, <2>1, <2>2
<1>b. ASSUME NEW c \in Pickers, Queue!FetchReadyIssues(c) PROVE Goal
  <2> DEFINE found == Queue!Newest(ReadyLimit, {i \in v3 : v1[i] = "open"})
  <2>1. PICK list \in Queue!SortByPriority(found) :
           v5' = [v5 EXCEPT ![c] = [Queue!Idle EXCEPT !.pc = "closed", !.list = list, !.offered = found,
                                                      !.over = Queue!Over, !.unfinished = Queue!Unfinished]]
    BY <1>b DEF Queue!FetchReadyIssues
  <2>2. UNCHANGED <<v1, v2, v3, v4, v6, faults>>
    BY <1>b DEF Queue!FetchReadyIssues, Queue!world
  <2>3. found \in IssueSets /\ IsFiniteSet(found) /\ Queue!Cardinality(found) = Cardinality(found)
    <3>1. found \in IssueSets
      BY <1>0 DEF Queue!Newest, IssueSets, QueueWorld
    <3>2. IsFiniteSet(found)
      BY <3>1, QueueConstants, FS_Subset DEF IssueSets
    <3> QED
      BY <3>1, <3>2 DEF Queue!Cardinality, Cardinality, Queue!IsFiniteSet, IsFiniteSet
  <2> HIDE DEF found
  <2>4. list \in PickLists /\ \A j \in found : \E k \in 1 .. Len(list) : list[k] = j
    <3>1. Cardinality(found) \in Nat
      BY <2>3, FS_CardinalityType
    <3>2. list \in [1 .. Cardinality(found) -> found] /\ \A j \in found : \E k \in DOMAIN list : list[k] = j
      BY <2>1, <2>3 DEF Queue!SortByPriority
    <3>3. found \subseteq Backlogged
      BY <2>3 DEF IssueSets
    <3>4. list \in Seq(Backlogged) /\ Len(list) = Cardinality(found)
      BY <3>1, <3>2, <3>3
    <3> QED
      BY <3>2, <3>4 DEF PickLists
  <2> QED
    BY <1>2, <2>1, <2>2, <2>3, <2>4
<1>c. ASSUME NEW c \in Pickers, Queue!ClosedIssueTaskIDs(c) PROVE Goal
  <2> DEFINE q == [read |-> TRUE, ids |-> Queue!Newest(ClosedLimit, Queue!Closed)]
  <2>1. q \in PickKnown /\ q.ids = Queue!Newest(ClosedLimit, Queue!Closed)
    BY DEF PickKnown, PickBools, IssueSets, Queue!Newest, Queue!Closed
  <2>2. v5[c].pc = "closed" /\ UNCHANGED <<v1, v2, v3, v4, v6>> /\ (Queue!Fine \/ Queue!Fail)
    BY <1>c DEF Queue!ClosedIssueTaskIDs, Queue!world
  <2>3. q.ids \subseteq v5[c].over
    BY <1>0, <2>1, <2>2 DEF Queue!KeepsSeen, Queue!Over, Queue!Newest
  <2>4. \/ v5' = [v5 EXCEPT ![c].pc = "look", ![c].pool = TRUE, ![c].known = q]
        \/ v5' = [v5 EXCEPT ![c].pc = "look", ![c].pool = TRUE]
        \/ v5' = [v5 EXCEPT ![c].pc = "look", ![c].known = q]
    BY <1>c DEF Queue!ClosedIssueTaskIDs
  <2> HIDE DEF q, Queue!Fine, Queue!Fail, Goal
  <2> QED
    BY <1>3, <2>1, <2>2, <2>3, <2>4
<1>d. ASSUME NEW c \in Pickers, Queue!Look(c) PROVE Goal
  <2> DEFINE i == Head(v5[c].list)
             chosen(more) == v5' = [v5 EXCEPT ![c].pc = "end", ![c].chosen = i, ![c].unverified = more]
             passed == v5' = [v5 EXCEPT ![c].list = Tail(v5[c].list)]
             judged(ids) == IF Queue!DepsOK(c, i, ids) THEN chosen(Queue!Unverified(c, i, ids)) ELSE passed
  <2>1. v5[c].pc = "look" /\ v5[c].list # <<>> /\ UNCHANGED <<v1, v2, v3, v4, v6>> /\ (Queue!Fine \/ Queue!Fail)
    BY <1>d DEF Queue!Look, Queue!world
  <2>2. v5[c] \in PickRuns /\ v5[c].list \in Seq(Backlogged)
    BY <1>0 DEF PickHands, PickRuns, PickLists
  <2>3. i \in Backlogged
    BY <2>1, <2>2
  <2>4. Queue!Over \subseteq v5[c].over /\ Queue!Unfinished \subseteq v5[c].unfinished
    BY <1>0, <2>1 DEF Queue!KeepsSeen
  <2>5. /\ v5[c].known.ids \subseteq v5[c].over
        /\ Queue!Newest(ClosedLimit, Queue!Closed) \subseteq v5[c].over /\ {} \subseteq v5[c].over
    BY <1>0, <2>4 DEF Queue!KnownAreOver, Queue!Over, Queue!Newest
  <2>6. \/ judged(v5[c].known.ids) \/ judged(Queue!Newest(ClosedLimit, Queue!Closed)) \/ judged({})
        \/ chosen(DependsOn[i])
    BY <1>d DEF Queue!Look
  <2>7. DependsOn[i] \subseteq Backlogged
    BY <1>0, <2>3
  <2> HIDE DEF i, Queue!Fine, Queue!Fail, Goal
  <2>8. ASSUME NEW more \in IssueSets, DependsOn[i] \subseteq v5[c].over \cup more, chosen(more) PROVE Goal
    BY <1>4, <2>1, <2>3, <2>8
  <2>9. ASSUME NEW ids \in SUBSET v5[c].over, judged(ids) PROVE Goal
    <3>1. CASE Queue!DepsOK(c, i, ids)
      <4>1. Queue!Unverified(c, i, ids) \in IssueSets
        BY <2>7 DEF Queue!Unverified, IssueSets
      <4>2. DependsOn[i] \subseteq v5[c].over \cup Queue!Unverified(c, i, ids)
        <5> SUFFICES ASSUME NEW d \in DependsOn[i], d \notin Queue!Unverified(c, i, ids), d \notin ids
                     PROVE  d \in v5[c].over
          BY <2>9
        <5>1. v5[c].pool /\ v4[d] # "none" /\ v4[d] # "open" /\ d \in Backlogged
          BY <2>7, <3>1 DEF Queue!DepsOK, Queue!Unverified
        <5>2. v4[d] = "over"
          BY <1>0, <5>1 DEF QueueWorld
        <5> QED
          BY <2>4, <5>1, <5>2 DEF Queue!Over
      <4>3. chosen(Queue!Unverified(c, i, ids))
        BY <2>9, <3>1
      <4> QED
        BY <2>8, <4>1, <4>2, <4>3
    <3>2. CASE ~Queue!DepsOK(c, i, ids)
      <4>1. PICK d \in DependsOn[i] : v4[d] = "open"
        BY <3>2 DEF Queue!DepsOK
      <4>2. d \in v5[c].unfinished
        BY <2>4, <2>7, <4>1 DEF Queue!Unfinished
      <4>3. DependsOn[Head(v5[c].list)] \cap v5[c].unfinished # {}
        BY <4>1, <4>2 DEF i
      <4>4. passed
        BY <2>9, <3>2
      <4> QED
        BY <1>5, <2>1, <4>3, <4>4
    <3> QED
      BY <3>1, <3>2
  <2>10. CASE chosen(DependsOn[i])
    <3>1. DependsOn[i] \in IssueSets /\ DependsOn[i] \subseteq v5[c].over \cup DependsOn[i]
      BY <2>7 DEF IssueSets
    <3> QED
      BY <2>8, <2>10, <3>1
  <2> HIDE DEF judged, chosen
  <2> QED
    BY <2>5, <2>6, <2>9, <2>10
<1> HIDE DEF Goal, Queue!Fine, Queue!Fail
<1>e. (PickHands /\ QueueWorld /\ QueueBounds)' => Queue!TypeOK'
  BY QueueTyped, PTL
<1>f. Goal
  BY <1>6, <1>a, <1>b, <1>c, <1>d DEF Queue!Next
<1> QED
  BY <1>e, <1>f DEF Goal, Queue!IInv

LEMMA QueueRests == Queue!IInv /\ UNCHANGED Queue!vars => Queue!IInv'
<1> SUFFICES ASSUME Queue!IInv, UNCHANGED Queue!vars PROVE Queue!IInv'
  OBVIOUS
<1>0. UNCHANGED <<v1, v2, v3, v4, v5, v6, faults>> /\ Queue!IInv
  BY DEF Queue!vars
<1>1. Queue!TypeOK'
  BY <1>0 DEF Queue!IInv, Queue!TypeOK
<1>2. Queue!KeepsSeen'
  BY <1>0 DEF Queue!IInv, Queue!KeepsSeen, Queue!Over, Queue!Closed, Queue!Unfinished
<1>3. Queue!KnownAreOver'
  BY <1>0 DEF Queue!IInv, Queue!KnownAreOver
<1>4. Queue!PassedAreBlocked'
  BY <1>0 DEF Queue!IInv, Queue!PassedAreBlocked, Queue!Listed
<1>5. Queue!ChosenWasJudged'
  BY <1>0 DEF Queue!IInv, Queue!ChosenWasJudged
<1> QED
  BY <1>1, <1>2, <1>3, <1>4, <1>5 DEF Queue!IInv

LEMMA QueueHolds == Spec => [](part = "backlog" => Queue!IInv)
<1> DEFINE Kept == part = "backlog" => Queue!IInv
<1>1. Init => Kept
  BY QueueStarts DEF Init
<1>2. Kept /\ [Next]_vars => Kept'
  BY QueueNext, QueueRests DEF Next, vars, Queue!vars
<1> QED
  BY <1>1, <1>2, PTL DEF Spec

\* What a pick chooses had its dependencies over, or beyond verifying, at some
\* moment of the pick, and what it passed by was blocked, whatever the queue
\* and however many orchestrators pick (internal/cli/github_pick.go).
THEOREM WhatIsPickedIsActionable == Spec => []PickIsActionable
<1>1. (part = "backlog" => Queue!IInv) => PickIsActionable
  BY DEF PickIsActionable, Queue!IInv, Queue!PickIsActionable, Queue!ChosenWasJudged, Queue!PassedAreBlocked, Queue!Listed
<1> QED
  BY <1>1, QueueHolds, PTL

-----------------------------------------------------------------------------
(* Tasks and the issues that stand for them.                               *)

SyncOps == Sync!Ops
SyncPcs == Sync!Pcs
SyncTs == Tasks \cup {None}
SyncIs == Issues \cup {None}
SyncTodos == SUBSET (Issues \cup Tasks)
SyncSnaps == Sync!Listings
SyncFlags == BOOLEAN
SyncCommands == [op : SyncOps, pc : SyncPcs, t : SyncTs, i : SyncIs, todo : SyncTodos, snap : SyncSnaps, all : SyncFlags]
SyncStatuses == Sync!Statuses
SyncTexts == Sync!Texts
SyncRows == [status : SyncStatuses, ref : SyncIs, text : SyncTexts, from : SyncIs, branch : SyncFlags, url : SyncFlags]
SyncStates == {"open", "closed"}
SyncIssues == [state : SyncStates, stamp : SyncTs, titled : SyncFlags, body : SyncFlags]
SyncPulls == v3 \in [Tasks -> {"none", "open", "changes", "merged"}]
SyncCounts == v5 \in BOOLEAN /\ v6 \in BOOLEAN /\ faults \in 0 .. MaxFaults
SyncRowsFit == \A t \in DOMAIN v1 : t \in Tasks /\ v1[t] \in SyncRows
SyncIssuesFit == \A i \in DOMAIN v2 : i \in Issues /\ v2[i] \in SyncIssues
SyncTypes == SyncRowsFit /\ SyncIssuesFit /\ SyncPulls /\ v4 \in SyncCommands /\ SyncCounts
SyncCalm == v6 => Sync!LinksAreStamped /\ Sync!ClosedIsFinished /\ Sync!MonitorFinishes
SyncKnows ==
    /\ Sync!ReferencesExist /\ Sync!HoldsWhatExists /\ Sync!ListingHolds /\ Sync!SyncSettles /\ Sync!SweepSettles

LEMMA SyncTyped == Sync!TypeOK <=> SyncTypes
BY DEF Sync!TypeOK, SyncTypes, SyncRowsFit, SyncIssuesFit, SyncPulls, SyncCommands, SyncCounts, SyncRows, SyncIssues,
   SyncOps, SyncPcs, SyncTs, SyncIs, SyncTodos, SyncSnaps, SyncFlags, SyncStatuses, SyncTexts, SyncStates,
   Sync!Row, Sync!Issue, Sync!Command

LEMMA SyncInductive == Sync!IInv <=> SyncTypes /\ SyncKnows /\ SyncCalm
BY SyncTyped DEF Sync!IInv, SyncKnows, SyncCalm

LEMMA SyncInductiveNext == Sync!IInv' <=> SyncTypes' /\ SyncKnows' /\ SyncCalm'
BY SyncInductive, PTL

LEMMA SyncConstants == MaxFaults \in Nat /\ None \notin Tasks /\ None \notin Issues
BY ConstantsAssumption DEF Sync!BoundsAssumption

LEMMA SyncMembers ==
    /\ \A op \in {"none", "create", "sync", "sweep", "monitor", "sprint"} : op \in SyncOps
    /\ \A pc \in {"idle", "issue", "ref", "list", "find", "write", "stamp", "next", "close", "done", "poll", "file"} : pc \in SyncPcs
    /\ Tasks \subseteq SyncTs /\ None \in SyncTs /\ Issues \subseteq SyncIs /\ None \in SyncIs
    /\ TRUE \in SyncFlags /\ FALSE \in SyncFlags /\ {} \in SyncTodos
    /\ \A T \in SUBSET Tasks : T \in SyncTodos
    /\ \A I \in SUBSET Issues : I \in SyncTodos
    /\ \A T \in SyncTodos : \A x : T \ {x} \in SyncTodos
    /\ \A s \in {"approved", "in_progress", "in_review", "blocked", "done", "cancelled"} : s \in SyncStatuses
    /\ \A x \in {"none", "given", "synced", "header"} : x \in SyncTexts
    /\ "open" \in SyncStates /\ "closed" \in SyncStates
BY DEF SyncOps, SyncPcs, SyncTs, SyncIs, SyncFlags, SyncTodos, SyncStatuses, SyncTexts, SyncStates,
   Sync!Ops, Sync!Pcs, Sync!Statuses, Sync!Texts

LEMMA SyncFields ==
    /\ \A r \in SyncRows : /\ r.status \in SyncStatuses /\ r.ref \in SyncIs /\ r.text \in SyncTexts /\ r.from \in SyncIs
                           /\ r.branch \in SyncFlags /\ r.url \in SyncFlags
    /\ \A s \in SyncIssues : s.state \in SyncStates /\ s.stamp \in SyncTs /\ s.titled \in SyncFlags /\ s.body \in SyncFlags
    /\ \A c \in SyncCommands : /\ c.op \in SyncOps /\ c.pc \in SyncPcs /\ c.t \in SyncTs /\ c.i \in SyncIs
                               /\ c.todo \in SyncTodos /\ c.snap \in SyncSnaps /\ c.all \in SyncFlags
BY DEF SyncRows, SyncIssues, SyncCommands

\* A listing is of issues, and no listing is an empty one.
LEMMA SyncListings ==
    /\ \A s \in SyncSnaps : DOMAIN s \subseteq Issues /\ \A i \in DOMAIN s : s[i] \in SyncIssues
    /\ <<>> \in SyncSnaps /\ DOMAIN <<>> = {}
    /\ SyncIssuesFit => \A I \in SUBSET (DOMAIN v2) :
           /\ [i \in I |-> v2[i]] \in SyncSnaps /\ DOMAIN [i \in I |-> v2[i]] = I
           /\ \A i \in I : [j \in I |-> v2[j]][i] = v2[i]
<1>1. Sync!Issue = SyncIssues
  BY DEF Sync!Issue, SyncIssues, SyncStates, SyncTs, SyncFlags
<1>2. \A s \in SyncSnaps : DOMAIN s \subseteq Issues /\ \A i \in DOMAIN s : s[i] \in SyncIssues
  BY <1>1 DEF SyncSnaps, Sync!Listings
<1>3. \A s : (\E D \in SUBSET Issues : s \in [D -> SyncIssues]) => s \in SyncSnaps
  BY <1>1 DEF SyncSnaps, Sync!Listings
<1>4. DOMAIN <<>> = {}
  OBVIOUS
<1>5. <<>> \in [{} -> SyncIssues]
  BY <1>4
<1>6. <<>> \in SyncSnaps
  BY <1>3, <1>5
<1>7. ASSUME SyncIssuesFit, NEW I \in SUBSET (DOMAIN v2)
      PROVE  [i \in I |-> v2[i]] \in SyncSnaps
  <2>1. I \in SUBSET Issues /\ [i \in I |-> v2[i]] \in [I -> SyncIssues]
    BY <1>7 DEF SyncIssuesFit
  <2> QED
    BY <1>3, <2>1
<1> QED
  BY <1>2, <1>4, <1>6, <1>7

LEMMA SyncIdle ==
    /\ Sync!Idle \in SyncCommands /\ Sync!Idle.op = "none" /\ Sync!Idle.pc = "idle" /\ Sync!Idle.t = None
    /\ Sync!Idle.i = None /\ Sync!Idle.todo = {} /\ Sync!Idle.snap = <<>> /\ Sync!Idle.all = FALSE
BY SyncMembers, SyncListings DEF Sync!Idle, SyncCommands

\* What the rows of a task become.
LEMMA SyncRowsAre ==
    ASSUME NEW r \in SyncRows, NEW s \in SyncStatuses, NEW i \in SyncIs, NEW x \in SyncTexts
    PROVE  /\ [r EXCEPT !.status = s] \in SyncRows /\ [r EXCEPT !.status = s].status = s
           /\ [r EXCEPT !.status = s].ref = r.ref /\ [r EXCEPT !.status = s].from = r.from
           /\ [r EXCEPT !.status = s].branch = r.branch /\ [r EXCEPT !.status = s].url = r.url
           /\ [r EXCEPT !.status = s, !.branch = TRUE] \in SyncRows /\ [r EXCEPT !.status = s, !.branch = TRUE].status = s
           /\ [r EXCEPT !.status = s, !.branch = TRUE].ref = r.ref /\ [r EXCEPT !.status = s, !.branch = TRUE].from = r.from
           /\ [r EXCEPT !.url = TRUE, !.status = s] \in SyncRows /\ [r EXCEPT !.url = TRUE, !.status = s].status = s
           /\ [r EXCEPT !.url = TRUE, !.status = s].ref = r.ref /\ [r EXCEPT !.url = TRUE, !.status = s].from = r.from
           /\ [r EXCEPT !.ref = i] \in SyncRows /\ [r EXCEPT !.ref = i].status = r.status
           /\ [r EXCEPT !.ref = i].ref = i /\ [r EXCEPT !.ref = i].from = r.from
           /\ [r EXCEPT !.text = x, !.from = i] \in SyncRows /\ [r EXCEPT !.text = x, !.from = i].status = r.status
           /\ [r EXCEPT !.text = x, !.from = i].ref = r.ref /\ [r EXCEPT !.text = x, !.from = i].from = i
<1>1. TRUE \in SyncFlags
  BY SyncMembers
<1> QED
  BY <1>1 DEF SyncRows

\* A call that goes well or fails.
LEMMA SyncCalls ==
    ASSUME SyncCounts, Sync!Fine \/ Sync!Fail
    PROVE  SyncCounts' /\ (v5' => v5 /\ Sync!Fine) /\ (v6' => v6 /\ Sync!Fine) /\ (Sync!Fail => ~v5' /\ ~v6')
<1>1. faults \in Nat /\ faults <= MaxFaults /\ v5 \in BOOLEAN /\ v6 \in BOOLEAN
  BY SyncConstants DEF SyncCounts
<1>2. CASE Sync!Fine
  <2>1. faults' = faults /\ v5' = v5 /\ v6' = v6
    BY <1>2 DEF Sync!Fine
  <2>2. Sync!Fail => FALSE
    BY <1>1, <2>1 DEF Sync!Fail
  <2> QED
    BY <1>2, <2>1, <2>2 DEF SyncCounts
<1>3. CASE Sync!Fail
  <2>1. faults' \in 0 .. MaxFaults
    BY <1>1, <1>3, SyncConstants DEF Sync!Fail
  <2>2. v5' = FALSE /\ v6' = FALSE
    BY <1>3 DEF Sync!Fail
  <2> QED
    BY <2>1, <2>2 DEF SyncCounts
<1> QED
  BY <1>2, <1>3

\* UpdateTask: one row, or none and a failure.
LEMMA SyncUpdates ==
    ASSUME SyncRowsFit, SyncCounts, NEW t \in DOMAIN v1, NEW row \in SyncRows, Sync!Update(t, row)
    PROVE  /\ SyncRowsFit' /\ SyncCounts' /\ DOMAIN v1' = DOMAIN v1
           /\ (v5' => v5) /\ (v6' => v6)
           /\ v5' \/ v6' => v1'[t] = row
           /\ v1'[t] \in {row, v1[t]}
           /\ \A x \in DOMAIN v1 \ {t} : v1'[x] = v1[x]
           /\ v6' => \A x \in DOMAIN v1 : v1[x].status \in Sync!Finished => v1'[x].status \in Sync!Finished
<1>1. CASE Sync!Fail /\ v1' = v1
  <2>1. SyncCounts' /\ ~v5' /\ ~v6'
    BY <1>1, SyncCalls
  <2> QED
    BY <1>1, <2>1 DEF SyncRowsFit
<1>2. CASE ~(Sync!Fail /\ v1' = v1)
  <2>1. /\ v1' = [v1 EXCEPT ![t] = row] /\ faults' = faults /\ v5' = v5
        /\ v6' = (v6 /\ (v1[t].status \in Sync!Finished => row.status \in Sync!Finished))
    BY <1>2 DEF Sync!Update
  <2>2. DOMAIN v1' = DOMAIN v1 /\ v1'[t] = row /\ \A x \in DOMAIN v1 \ {t} : v1'[x] = v1[x]
    BY <2>1
  <2>3. SyncRowsFit'
    BY <2>2 DEF SyncRowsFit
  <2>4. SyncCounts'
    BY <2>1 DEF SyncCounts
  <2>5. v6' => \A x \in DOMAIN v1 : v1[x].status \in Sync!Finished => v1'[x].status \in Sync!Finished
    BY <2>1, <2>2
  <2> QED
    BY <2>1, <2>2, <2>3, <2>4, <2>5
<1> QED
  BY <1>1, <1>2

\* A new row.
LEMMA SyncPutsRow ==
    ASSUME SyncRowsFit, NEW t \in Tasks \ DOMAIN v1, NEW row \in SyncRows, v1' = Sync!Put(v1, t, row)
    PROVE  SyncRowsFit' /\ DOMAIN v1' = DOMAIN v1 \cup {t} /\ v1'[t] = row /\ \A x \in DOMAIN v1 : v1'[x] = v1[x]
BY DEF Sync!Put, SyncRowsFit

\* A new issue.
LEMMA SyncPutsIssue ==
    ASSUME SyncIssuesFit, NEW i \in Issues \ DOMAIN v2, NEW s \in SyncIssues, v2' = Sync!Put(v2, i, s)
    PROVE  SyncIssuesFit' /\ DOMAIN v2' = DOMAIN v2 \cup {i} /\ v2'[i] = s /\ \A j \in DOMAIN v2 : v2'[j] = v2[j]
BY DEF Sync!Put, SyncIssuesFit

\* The links of the rows are kept while rows keep their references, and issues
\* their stamps.
LEMMA SyncLinksKept ==
    ASSUME Sync!ReferencesExist, Sync!LinksAreStamped,
           \A t \in DOMAIN v1' : t \in DOMAIN v1 /\ v1'[t].ref = v1[t].ref /\ v1'[t].from = v1[t].from,
           \A i \in DOMAIN v2 : v2'[i].stamp = v2[i].stamp,
           v4.op # "sync" \/ v4.pc # "stamp" \/ v4' = v4
    PROVE  Sync!LinksAreStamped'
BY DEF Sync!ReferencesExist, Sync!LinksAreStamped

\* Closed issues keep their finished tasks while nobody closes one or takes a
\* task up again.
LEMMA SyncClosedKept ==
    ASSUME Sync!ReferencesExist, Sync!ClosedIsFinished,
           \A t \in DOMAIN v1 : v1[t].status \in Sync!Finished => v1'[t].status \in Sync!Finished,
           \A i \in DOMAIN v2' : v2'[i].state = "closed" /\ v2'[i].stamp # None =>
                                     i \in DOMAIN v2 /\ v2[i].state = "closed" /\ v2[i].stamp = v2'[i].stamp,
           v4.op # "sweep" \/ v4.pc # "done" \/ v4' = v4
    PROVE  Sync!ClosedIsFinished'
BY DEF Sync!ReferencesExist, Sync!ClosedIsFinished

\* References stay while no row and no issue goes.
LEMMA SyncReferencesKept ==
    ASSUME Sync!ReferencesExist, DOMAIN v1 \subseteq DOMAIN v1', DOMAIN v2 \subseteq DOMAIN v2',
           \A i \in DOMAIN v2' : IF i \in DOMAIN v2 THEN v2'[i].stamp = v2[i].stamp ELSE v2'[i].stamp \in DOMAIN v1' \cup {None},
           \A t \in DOMAIN v1' : IF t \in DOMAIN v1 THEN v1'[t].ref = v1[t].ref /\ v1'[t].from = v1[t].from
                                 ELSE {v1'[t].ref, v1'[t].from} \subseteq DOMAIN v2' \cup {None}
    PROVE  Sync!ReferencesExist'
BY DEF Sync!ReferencesExist

\* Without a command at work there is nothing to hold on to.
LEMMA SyncIdles ==
    ASSUME v4' = Sync!Idle
    PROVE  Sync!HoldsWhatExists' /\ Sync!ListingHolds' /\ Sync!SyncSettles' /\ Sync!SweepSettles' /\ Sync!MonitorFinishes'
BY SyncIdle DEF Sync!HoldsWhatExists, Sync!ListingHolds, Sync!SyncSettles, Sync!SweepSettles, Sync!MonitorFinishes

\* A step of a command that changes neither rows nor issues.
LEMMA SyncWorldStays ==
    ASSUME SyncKnows, SyncCalm, UNCHANGED <<v1, v2>>, v6' => v6,
           v4.op # "sync" \/ v4.pc # "stamp" \/ v4' = v4, v4.op # "sweep" \/ v4.pc # "done" \/ v4' = v4
    PROVE  Sync!ReferencesExist' /\ (v6' => Sync!LinksAreStamped' /\ Sync!ClosedIsFinished')
<1>1. Sync!ReferencesExist /\ (v6' => Sync!LinksAreStamped /\ Sync!ClosedIsFinished)
  BY DEF SyncKnows, SyncCalm
<1>2. Sync!ReferencesExist'
  BY <1>1 DEF Sync!ReferencesExist
<1> QED
  BY <1>1, <1>2, SyncLinksKept, SyncClosedKept

\* A command that begins.
LEMMA SyncBegins ==
    ASSUME SyncTypes, SyncKnows, SyncCalm, NEW c \in SyncCommands, Sync!Begin(c), c.snap = <<>>,
           \/ c.op \in {"sync", "sprint"} /\ c.pc = "list" /\ (c.op = "sync" => c.todo = {})
                                          /\ (c.op = "sprint" => c.todo = DOMAIN v1)
           \/ c.op = "monitor" /\ c.pc \in {"find", "poll"} /\ c.t \in DOMAIN v1
           \/ /\ c.op = "sweep" /\ c.pc \in {"next", "close"} /\ c.todo \subseteq Tasks
              /\ c.pc = "close" => c.t \in DOMAIN v1 /\ c.i = Sync!IssueNumber(c.t) /\ c.i \in DOMAIN v2
              /\ c.all => \A t \in DOMAIN v1 : v3[t] = "merged" => t \in c.todo
    PROVE  SyncTypes' /\ SyncKnows' /\ SyncCalm'
<1>1. v4.op = "none" /\ v4' = c /\ v5' = TRUE /\ UNCHANGED <<v1, v2, v3, faults, v6>>
  BY DEF Sync!Begin
<1>2. SyncTypes'
  BY <1>1 DEF SyncTypes, SyncRowsFit, SyncIssuesFit, SyncPulls, SyncCounts
<1>3. Sync!ReferencesExist' /\ (v6' => Sync!LinksAreStamped' /\ Sync!ClosedIsFinished')
  BY <1>1, SyncWorldStays
<1>4. DOMAIN v4'.snap = {}
  BY <1>1, SyncListings
<1>5. Sync!HoldsWhatExists'
  BY <1>1, <1>4 DEF Sync!HoldsWhatExists, Sync!IssueNumber
<1>6. Sync!ListingHolds' /\ Sync!SyncSettles'
  BY <1>1 DEF Sync!ListingHolds, Sync!SyncSettles
<1>7. Sync!SweepSettles'
  BY <1>1 DEF Sync!SweepSettles
<1>8. Sync!MonitorFinishes'
  BY <1>1 DEF Sync!MonitorFinishes
<1> QED
  BY <1>2, <1>3, <1>5, <1>6, <1>7, <1>8 DEF SyncKnows, SyncCalm
-----------------------------------------------------------------------------
(* Each step of the commands keeps what the rows, the issues and the       *)
(* command at work know of each other.                                     *)

LEMMA SyncStarts == Sync!Init => SyncTypes /\ SyncKnows /\ SyncCalm
<1> SUFFICES ASSUME Sync!Init PROVE SyncTypes /\ SyncKnows /\ SyncCalm
  OBVIOUS
<1>1. v1 = <<>> /\ v2 = <<>> /\ v4 = Sync!Idle /\ faults = 0 /\ v5 = TRUE /\ v6 = TRUE /\ v3 = [t \in Tasks |-> "none"]
  BY DEF Sync!Init
<1>2. DOMAIN v1 = {} /\ DOMAIN v2 = {}
  BY <1>1, SyncListings
<1>3. SyncCounts
  BY <1>1, SyncConstants DEF SyncCounts
<1>4. SyncTypes
  BY <1>1, <1>2, <1>3, SyncIdle DEF SyncTypes, SyncRowsFit, SyncIssuesFit, SyncPulls
<1>5. Sync!ReferencesExist /\ Sync!LinksAreStamped /\ Sync!ClosedIsFinished
  BY <1>2 DEF Sync!ReferencesExist, Sync!LinksAreStamped, Sync!ClosedIsFinished
<1>6. v4.op = "none"
  BY <1>1, SyncIdle
<1>7. Sync!HoldsWhatExists /\ Sync!ListingHolds /\ Sync!SyncSettles /\ Sync!SweepSettles /\ Sync!MonitorFinishes
  BY <1>1, <1>6 DEF Sync!HoldsWhatExists, Sync!ListingHolds, Sync!SyncSettles, Sync!SweepSettles, Sync!MonitorFinishes
<1> QED
  BY <1>4, <1>5, <1>7 DEF SyncKnows, SyncCalm

\* What the rows are called and stand for stays while their references do.
LEMMA SyncNumbersStay ==
    ASSUME \A t \in DOMAIN v1 : v1'[t].ref = v1[t].ref /\ v1'[t].from = v1[t].from
    PROVE  \A t \in DOMAIN v1 : Sync!IssueNumber(t)' = Sync!IssueNumber(t)
BY DEF Sync!IssueNumber

LEMMA SyncStandsFor ==
    ASSUME DOMAIN v1' = DOMAIN v1, \A t \in DOMAIN v1 : v1'[t].ref = v1[t].ref,
           NEW i, v2'[i].stamp = v2[i].stamp
    PROVE  Sync!TasksOf(i)' = Sync!TasksOf(i)
BY DEF Sync!TasksOf

\* An update of one row that keeps its references.
LEMMA SyncRowUpdated ==
    ASSUME SyncTypes, SyncKnows, SyncCalm, NEW t \in DOMAIN v1, NEW row \in SyncRows, Sync!Update(t, row),
           row.ref = v1[t].ref, row.from = v1[t].from, v2' = v2,
           v4.op # "sync" \/ v4.pc # "stamp" \/ v4' = v4
    PROVE  /\ SyncRowsFit' /\ SyncIssuesFit' /\ SyncCounts' /\ DOMAIN v1' = DOMAIN v1
           /\ (v5' => v5) /\ (v6' => v6)
           /\ v5' \/ v6' => v1'[t] = row
           /\ \A x \in DOMAIN v1 : v1'[x].ref = v1[x].ref /\ v1'[x].from = v1[x].from
           /\ \A x \in DOMAIN v1 \ {t} : v1'[x] = v1[x]
           /\ v6' => \A x \in DOMAIN v1 : v1[x].status \in Sync!Finished => v1'[x].status \in Sync!Finished
           /\ Sync!ReferencesExist'
           /\ v6' => Sync!LinksAreStamped'
           /\ (v4.op # "sweep" \/ v4.pc # "done" \/ v4' = v4) => (v6' => Sync!ClosedIsFinished')
<1>1. /\ SyncRowsFit' /\ SyncCounts' /\ DOMAIN v1' = DOMAIN v1
      /\ (v5' => v5) /\ (v6' => v6)
      /\ v5' \/ v6' => v1'[t] = row
      /\ v1'[t] \in {row, v1[t]}
      /\ \A x \in DOMAIN v1 \ {t} : v1'[x] = v1[x]
      /\ v6' => \A x \in DOMAIN v1 : v1[x].status \in Sync!Finished => v1'[x].status \in Sync!Finished
  BY SyncUpdates DEF SyncTypes
<1>2. \A x \in DOMAIN v1 : v1'[x].ref = v1[x].ref /\ v1'[x].from = v1[x].from
  BY <1>1
<1>3. SyncIssuesFit'
  BY DEF SyncTypes, SyncIssuesFit
<1>4. Sync!ReferencesExist /\ (v6' => Sync!LinksAreStamped /\ Sync!ClosedIsFinished)
  BY <1>1 DEF SyncKnows, SyncCalm
<1>5. Sync!ReferencesExist'
  BY <1>1, <1>2, <1>4, SyncReferencesKept
<1>6. v6' => Sync!LinksAreStamped'
  BY <1>1, <1>2, <1>4, SyncLinksKept
<1>7. (v4.op # "sweep" \/ v4.pc # "done" \/ v4' = v4) => (v6' => Sync!ClosedIsFinished')
  BY <1>1, <1>4, SyncClosedKept
<1> QED
  BY <1>1, <1>2, <1>3, <1>5, <1>6, <1>7


LEMMA SyncCreatesTask == ASSUME SyncTypes, SyncKnows, SyncCalm, NEW t \in Tasks, Sync!CreateTask(t)
                         PROVE  SyncTypes' /\ SyncKnows' /\ SyncCalm'
<1> DEFINE row == [status |-> "approved", ref |-> None, text |-> "given", from |-> None, branch |-> FALSE, url |-> FALSE]
<1>1. /\ v4.op = "none" /\ t \in Tasks \ DOMAIN v1 /\ v5' = TRUE /\ UNCHANGED <<v2, v3, faults, v6>>
      /\ v1' = Sync!Put(v1, t, row)
      /\ v4' \in {Sync!Idle, [Sync!Idle EXCEPT !.op = "create", !.pc = "issue", !.t = t]}
  BY DEF Sync!CreateTask, Sync!Exists
<1>2. row \in SyncRows /\ row.ref = None /\ row.from = None
  BY SyncMembers DEF SyncRows
<1> HIDE DEF row
<1>3. SyncRowsFit' /\ DOMAIN v1' = DOMAIN v1 \cup {t} /\ v1'[t] = row /\ \A x \in DOMAIN v1 : v1'[x] = v1[x]
  BY <1>1, <1>2, SyncPutsRow DEF SyncTypes
<1>4. v4' = Sync!Idle \/ (v4' \in SyncCommands /\ v4'.op = "create" /\ v4'.pc = "issue" /\ v4'.t = t)
  BY <1>1, SyncIdle, SyncMembers DEF SyncCommands
<1>5. v4' \in SyncCommands
  BY <1>4, SyncIdle
<1>6. SyncTypes'
  BY <1>1, <1>3, <1>5 DEF SyncTypes, SyncIssuesFit, SyncPulls, SyncCounts
<1>7. Sync!ReferencesExist /\ Sync!HoldsWhatExists /\ (v6' => Sync!LinksAreStamped /\ Sync!ClosedIsFinished)
  BY <1>1 DEF SyncKnows, SyncCalm
<1>8. Sync!ReferencesExist'
  BY <1>1, <1>2, <1>3, <1>7, SyncReferencesKept
<1>9. Sync!HoldsWhatExists' /\ Sync!ListingHolds' /\ Sync!SyncSettles' /\ Sync!SweepSettles' /\ Sync!MonitorFinishes'
  <2>1. CASE v4' = Sync!Idle
    BY <2>1, SyncIdles
  <2>2. CASE v4'.op = "create" /\ v4'.pc = "issue" /\ v4'.t = t
    BY <1>3, <2>2 DEF Sync!HoldsWhatExists, Sync!ListingHolds, Sync!SyncSettles, Sync!SweepSettles, Sync!MonitorFinishes
  <2> QED
    BY <1>4, <2>1, <2>2
<1>10. v6' => Sync!LinksAreStamped'
  BY <1>1, <1>2, <1>3, <1>7 DEF Sync!LinksAreStamped
<1>11. v6' => Sync!ClosedIsFinished'
  BY <1>1, <1>3, <1>7, SyncClosedKept
<1> QED
  BY <1>6, <1>8, <1>9, <1>10, <1>11 DEF SyncKnows, SyncCalm

LEMMA SyncCreatesIssue == ASSUME SyncTypes, SyncKnows, SyncCalm, Sync!CreateIssue
                          PROVE  SyncTypes' /\ SyncKnows' /\ SyncCalm'
<1>1. v4.op = "create" /\ v4.pc = "issue" /\ v1' = v1 /\ v3' = v3
  BY DEF Sync!CreateIssue
<1>2. v4 \in SyncCommands /\ SyncRowsFit /\ SyncIssuesFit /\ SyncCounts /\ v4.t \in DOMAIN v1 /\ v4.t \in Tasks
  BY <1>1 DEF SyncTypes, SyncKnows, Sync!HoldsWhatExists, SyncRowsFit
<1>3. /\ Sync!Fine \/ Sync!Fail
      /\ \/ v2' = v2 /\ v4' \in {Sync!Idle, v4}
         \/ \E i \in Issues \ DOMAIN v2 :
              /\ v2' = Sync!Put(v2, i, Sync!NewIssue(v4.t, FALSE, FALSE))
              /\ v4' \in {Sync!Idle, v4, [v4 EXCEPT !.pc = "ref", !.i = i]}
  BY DEF Sync!CreateIssue
<1>4. SyncCounts' /\ (v5' => v5) /\ (v6' => v6)
  BY <1>2, <1>3, SyncCalls
<1>5. Sync!ReferencesExist /\ Sync!HoldsWhatExists /\ (v6' => Sync!LinksAreStamped /\ Sync!ClosedIsFinished)
  BY <1>4 DEF SyncKnows, SyncCalm
<1>6. SyncRowsFit' /\ SyncPulls'
  BY <1>1, <1>2 DEF SyncTypes, SyncRowsFit, SyncPulls
<1>7. SUFFICES /\ SyncIssuesFit' /\ v4' \in SyncCommands
               /\ Sync!ReferencesExist' /\ Sync!HoldsWhatExists'
               /\ (v4' = Sync!Idle \/ v4'.op = "create")
               /\ v6' => Sync!LinksAreStamped' /\ Sync!ClosedIsFinished'
  <2>1. (v4' = Sync!Idle \/ v4'.op = "create") =>
            Sync!ListingHolds' /\ Sync!SyncSettles' /\ Sync!SweepSettles' /\ Sync!MonitorFinishes'
    BY SyncIdle DEF Sync!ListingHolds, Sync!SyncSettles, Sync!SweepSettles, Sync!MonitorFinishes
  <2> QED
    BY <1>4, <1>6, <2>1 DEF SyncTypes, SyncKnows, SyncCalm
<1>8. CASE v2' = v2 /\ v4' \in {Sync!Idle, v4}
  <2>1. Sync!ReferencesExist' /\ (v6' => Sync!LinksAreStamped' /\ Sync!ClosedIsFinished')
    BY <1>1, <1>4, <1>8, SyncWorldStays
  <2>2. SyncIssuesFit' /\ v4' \in SyncCommands /\ (v4' = Sync!Idle \/ v4'.op = "create")
    BY <1>1, <1>2, <1>8, SyncIdle DEF SyncIssuesFit
  <2>3. Sync!HoldsWhatExists'
    <3>1. CASE v4' = Sync!Idle
      BY <3>1, SyncIdles
    <3>2. CASE v4' = v4
      BY <1>1, <1>2, <3>2 DEF Sync!HoldsWhatExists
    <3> QED
      BY <1>8, <3>1, <3>2
  <2> QED
    BY <2>1, <2>2, <2>3
<1>9. ASSUME NEW i \in Issues \ DOMAIN v2, v2' = Sync!Put(v2, i, Sync!NewIssue(v4.t, FALSE, FALSE)),
             v4' \in {Sync!Idle, v4, [v4 EXCEPT !.pc = "ref", !.i = i]}
      PROVE  /\ SyncIssuesFit' /\ v4' \in SyncCommands
             /\ Sync!ReferencesExist' /\ Sync!HoldsWhatExists'
             /\ (v4' = Sync!Idle \/ v4'.op = "create")
             /\ v6' => Sync!LinksAreStamped' /\ Sync!ClosedIsFinished'
  <2> DEFINE new == Sync!NewIssue(v4.t, FALSE, FALSE)
  <2>1. new \in SyncIssues /\ new.state = "open" /\ new.stamp = v4.t
    BY <1>2, SyncMembers DEF SyncIssues, Sync!NewIssue
  <2> HIDE DEF new
  <2>2. SyncIssuesFit' /\ DOMAIN v2' = DOMAIN v2 \cup {i} /\ v2'[i] = new /\ \A j \in DOMAIN v2 : v2'[j] = v2[j]
    BY <1>2, <1>9, <2>1, SyncPutsIssue DEF new
  <2>3. \/ v4' = Sync!Idle
        \/ v4' = v4
        \/ v4' \in SyncCommands /\ v4'.op = "create" /\ v4'.pc = "ref" /\ v4'.t = v4.t /\ v4'.i = i
    BY <1>1, <1>2, <1>9, SyncMembers DEF SyncCommands
  <2>4. v4' \in SyncCommands /\ (v4' = Sync!Idle \/ v4'.op = "create")
    BY <1>1, <1>2, <2>3, SyncIdle
  <2>5. Sync!ReferencesExist'
    BY <1>1, <1>2, <1>5, <2>1, <2>2, SyncReferencesKept
  <2>6. Sync!HoldsWhatExists'
    <3>1. CASE v4' = Sync!Idle
      BY <3>1, SyncIdles
    <3>2. CASE v4' = v4
      BY <1>1, <1>2, <3>2 DEF Sync!HoldsWhatExists
    <3>3. CASE v4'.op = "create" /\ v4'.pc = "ref" /\ v4'.t = v4.t /\ v4'.i = i
      BY <1>1, <1>2, <2>1, <2>2, <3>3 DEF Sync!HoldsWhatExists
    <3> QED
      BY <2>3, <3>1, <3>2, <3>3
  <2>7. v6' => Sync!LinksAreStamped'
    BY <1>1, <1>5, <2>2, SyncLinksKept
  <2>8. v6' => Sync!ClosedIsFinished'
    <3>1. \A j \in DOMAIN v2' : v2'[j].state = "closed" => j \in DOMAIN v2
      BY <2>1, <2>2
    <3> QED
      BY <1>1, <1>5, <2>2, <3>1, SyncClosedKept
  <2> QED
    BY <2>2, <2>4, <2>5, <2>6, <2>7, <2>8
<1> QED
  BY <1>3, <1>8, <1>9

LEMMA SyncCrossRefs == ASSUME SyncTypes, SyncKnows, SyncCalm, Sync!CrossRef
                       PROVE  SyncTypes' /\ SyncKnows' /\ SyncCalm'
<1> DEFINE row == [v1[v4.t] EXCEPT !.ref = v4.i]
<1>1. v4.op = "create" /\ v4.pc = "ref" /\ v2' = v2 /\ v3' = v3 /\ v4' = Sync!Idle /\ Sync!Update(v4.t, row)
  BY DEF Sync!CrossRef, Sync!End
<1>2. v4.t \in DOMAIN v1 /\ v4.i \in DOMAIN v2 /\ v2[v4.i].stamp = v4.t
  BY <1>1 DEF SyncKnows, Sync!HoldsWhatExists
<1>3. SyncRowsFit /\ SyncCounts /\ v1[v4.t] \in SyncRows /\ v4.i \in SyncIs
  BY <1>2, SyncMembers DEF SyncTypes, SyncRowsFit, SyncIssuesFit
<1>4. row \in SyncRows /\ row.ref = v4.i /\ row.from = v1[v4.t].from /\ row.status = v1[v4.t].status
  BY <1>3 DEF SyncRows
<1> HIDE DEF row
<1>5. /\ SyncRowsFit' /\ SyncCounts' /\ DOMAIN v1' = DOMAIN v1 /\ (v6' => v6)
      /\ v1'[v4.t] \in {row, v1[v4.t]}
      /\ \A x \in DOMAIN v1 \ {v4.t} : v1'[x] = v1[x]
      /\ v6' => \A x \in DOMAIN v1 : v1[x].status \in Sync!Finished => v1'[x].status \in Sync!Finished
  BY <1>1, <1>2, <1>3, <1>4, SyncUpdates
<1>6. SyncTypes'
  BY <1>1, <1>5, SyncIdle DEF SyncTypes, SyncIssuesFit, SyncPulls
<1>7. Sync!ReferencesExist /\ (v6' => Sync!LinksAreStamped /\ Sync!ClosedIsFinished)
  BY <1>5 DEF SyncKnows, SyncCalm
<1>8. Sync!ReferencesExist'
  BY <1>1, <1>2, <1>4, <1>5, <1>7 DEF Sync!ReferencesExist
<1>9. v6' => Sync!LinksAreStamped'
  BY <1>1, <1>2, <1>4, <1>5, <1>7 DEF Sync!LinksAreStamped
<1>10. v6' => Sync!ClosedIsFinished'
  BY <1>1, <1>5, <1>7, SyncClosedKept
<1> QED
  BY <1>1, <1>6, <1>8, <1>9, <1>10, SyncIdles DEF SyncKnows, SyncCalm
\* A sync that goes on is no sweep and no watch.
LEMMA SyncGoesOn ==
    ASSUME v4'.op = "sync" \/ v4'.op = "sprint" \/ v4'.op = "create"
    PROVE  Sync!SweepSettles' /\ Sync!MonitorFinishes'
BY DEF Sync!SweepSettles, Sync!MonitorFinishes

LEMMA SyncStartsSync == ASSUME SyncTypes, SyncKnows, SyncCalm, NEW all \in BOOLEAN, Sync!StartSync(all)
                        PROVE  SyncTypes' /\ SyncKnows' /\ SyncCalm'
<1> DEFINE c == [Sync!Idle EXCEPT !.op = "sync", !.pc = "list", !.all = all]
<1>1. Sync!Begin(c)
  BY DEF Sync!StartSync
<1>2. all \in SyncFlags
  BY DEF SyncFlags
<1>3. c \in SyncCommands /\ c.op = "sync" /\ c.pc = "list" /\ c.todo = {} /\ c.snap = <<>>
  BY <1>2, SyncIdle, SyncMembers DEF SyncCommands
<1> HIDE DEF c
<1> QED
  BY <1>1, <1>3, SyncBegins

LEMMA SyncLists == ASSUME SyncTypes, SyncKnows, SyncCalm, Sync!ListIssues
                   PROVE  SyncTypes' /\ SyncKnows' /\ SyncCalm'
<1> DEFINE listed == {i \in DOMAIN v2 : v4.all \/ v2[i].state = "open"}
           snap == [i \in listed |-> v2[i]]
<1>1. v4.op = "sync" /\ v4.pc = "list" /\ UNCHANGED <<v1, v2, v3>>
  BY DEF Sync!ListIssues
<1>2. v4 \in SyncCommands /\ SyncRowsFit /\ SyncIssuesFit /\ SyncPulls /\ SyncCounts
  BY DEF SyncTypes
<1>3. \/ v4' = [v4 EXCEPT !.pc = "find", !.todo = listed, !.snap = snap] /\ Sync!Fine
      \/ v4' = Sync!Idle /\ Sync!Fail
  BY DEF Sync!ListIssues, Sync!End
<1>4. SyncCounts' /\ (v5' => v5) /\ (v6' => v6)
  BY <1>2, <1>3, SyncCalls
<1>5. SyncRowsFit' /\ SyncIssuesFit' /\ SyncPulls'
  BY <1>1, <1>2 DEF SyncRowsFit, SyncIssuesFit, SyncPulls
<1>6. Sync!ReferencesExist' /\ (v6' => Sync!LinksAreStamped' /\ Sync!ClosedIsFinished')
  BY <1>1, <1>4, SyncWorldStays
<1>7. CASE v4' = Sync!Idle
  BY <1>4, <1>5, <1>6, <1>7, SyncIdle, SyncIdles DEF SyncTypes, SyncKnows, SyncCalm
<1>8. CASE v4' = [v4 EXCEPT !.pc = "find", !.todo = listed, !.snap = snap]
  <2>1. listed \in SUBSET (DOMAIN v2) /\ listed \in SUBSET Issues
    BY <1>2 DEF SyncIssuesFit
  <2>2. snap \in SyncSnaps /\ DOMAIN snap = listed /\ (\A i \in listed : snap[i] = v2[i]) /\ listed \in SyncTodos
    BY <1>2, <2>1, SyncListings, SyncMembers
  <2>3. \A i \in DOMAIN v2 \ listed : ~v4.all /\ v2[i].state = "closed"
    <3>1. \A i \in DOMAIN v2 : v2[i].state \in SyncStates
      BY <1>2, SyncFields DEF SyncIssuesFit
    <3> QED
      BY <3>1 DEF SyncStates
  <2> HIDE DEF listed, snap
  <2>4. /\ v4' \in SyncCommands /\ v4'.op = "sync" /\ v4'.pc = "find" /\ v4'.todo = listed /\ v4'.snap = snap
        /\ v4'.all = v4.all
    BY <1>1, <1>2, <1>8, <2>2, SyncMembers DEF SyncCommands
  <2>5. Sync!HoldsWhatExists'
    BY <1>1, <2>1, <2>2, <2>4 DEF Sync!HoldsWhatExists
  <2>6. Sync!ListingHolds'
    BY <1>1, <2>2, <2>4 DEF Sync!ListingHolds
  <2>7. Sync!SyncSettles'
    BY <1>1, <2>2, <2>3, <2>4 DEF Sync!SyncSettles
  <2> QED
    BY <1>4, <1>5, <1>6, <2>4, <2>5, <2>6, <2>7, SyncGoesOn DEF SyncTypes, SyncKnows, SyncCalm
<1> QED
  BY <1>3, <1>7, <1>8

LEMMA SyncFinds == ASSUME SyncTypes, SyncKnows, SyncCalm, Sync!Find
                   PROVE  SyncTypes' /\ SyncKnows' /\ SyncCalm'
<1>1. v4.op = "sync" /\ v4.pc = "find" /\ UNCHANGED <<v1, v2, v3>>
  BY DEF Sync!Find
<1>2. v4 \in SyncCommands /\ SyncRowsFit /\ SyncIssuesFit /\ SyncPulls /\ SyncCounts
  BY DEF SyncTypes
<1>3. \/ v4.todo = {} /\ v4' = Sync!Idle /\ Sync!Fine
      \/ \E i \in v4.todo : \E t :
            /\ v4' = [v4 EXCEPT !.pc = "write", !.t = t, !.i = i, !.todo = v4.todo \ {i}]
            /\ t \in DOMAIN v1 \cup {None}
            /\ \/ Sync!Fail
               \/ /\ Sync!Fine
                  /\ IF Sync!ByStamp(i) \cup Sync!ByRef(i) = {} THEN t = None ELSE t \in Sync!ByStamp(i) \cup Sync!ByRef(i)
  <2>1. CASE v4.todo = {}
    BY <2>1 DEF Sync!Find, Sync!End
  <2>2. CASE v4.todo # {}
    <3>1. PICK i \in v4.todo : \E ts \in {{}, Sync!ByRef(i), IF Sync!ByStamp(i) # {} THEN Sync!ByStamp(i) ELSE Sync!ByRef(i)} :
              /\ \E t \in (IF ts = {} THEN {None} ELSE ts) :
                     v4' = [v4 EXCEPT !.pc = "write", !.t = t, !.i = i, !.todo = v4.todo \ {i}]
              /\ \/ Sync!Fail
                 \/ Sync!Fine /\ ts = IF Sync!ByStamp(i) # {} THEN Sync!ByStamp(i) ELSE Sync!ByRef(i)
      BY <2>2 DEF Sync!Find
    <3>2. Sync!ByStamp(i) \subseteq DOMAIN v1 /\ Sync!ByRef(i) \subseteq DOMAIN v1
      BY DEF Sync!ByStamp, Sync!ByRef
    <3> QED
      BY <3>1, <3>2
  <2> QED
    BY <2>1, <2>2
<1>4. SyncCounts' /\ (v5' => v5) /\ (v6' => v6) /\ (Sync!Fail => ~v5' /\ ~v6')
  BY <1>2, <1>3, SyncCalls
<1>5. SyncRowsFit' /\ SyncIssuesFit' /\ SyncPulls'
  BY <1>1, <1>2 DEF SyncRowsFit, SyncIssuesFit, SyncPulls
<1>6. Sync!ReferencesExist' /\ (v6' => Sync!LinksAreStamped' /\ Sync!ClosedIsFinished')
  BY <1>1, <1>4, SyncWorldStays
<1>7. CASE v4' = Sync!Idle
  BY <1>4, <1>5, <1>6, <1>7, SyncIdle, SyncIdles DEF SyncTypes, SyncKnows, SyncCalm
<1>8. ASSUME NEW i \in v4.todo, NEW t \in DOMAIN v1 \cup {None},
             v4' = [v4 EXCEPT !.pc = "write", !.t = t, !.i = i, !.todo = v4.todo \ {i}],
             \/ Sync!Fail
             \/ /\ Sync!Fine
                /\ IF Sync!ByStamp(i) \cup Sync!ByRef(i) = {} THEN t = None ELSE t \in Sync!ByStamp(i) \cup Sync!ByRef(i)
      PROVE  SyncTypes' /\ SyncKnows' /\ SyncCalm'
  <2>1. /\ DOMAIN v4.snap \subseteq DOMAIN v2 /\ v4.todo \subseteq DOMAIN v4.snap
        /\ \A j \in DOMAIN v4.snap : v4.snap[j].stamp \in {None, v2[j].stamp}
    BY <1>1 DEF SyncKnows, Sync!HoldsWhatExists
  <2>2. i \in Issues /\ i \in DOMAIN v4.snap /\ t \in SyncTs /\ v4.todo \ {i} \in SyncTodos
    BY <1>2, <2>1, SyncMembers, SyncFields DEF SyncRowsFit, SyncIssuesFit
  <2>3. /\ v4' \in SyncCommands /\ v4'.op = "sync" /\ v4'.pc = "write" /\ v4'.todo = v4.todo \ {i}
        /\ v4'.snap = v4.snap /\ v4'.all = v4.all /\ v4'.t = t /\ v4'.i = i
    BY <1>1, <1>2, <1>8, <2>2, SyncMembers DEF SyncCommands
  <2>4. Sync!HoldsWhatExists'
    BY <1>1, <2>1, <2>2, <2>3 DEF Sync!HoldsWhatExists
  <2>5. Sync!ListingHolds'
    <3> SUFFICES ASSUME v5' \/ v6' PROVE Sync!ListingHolds'
      BY DEF Sync!ListingHolds
    <3>1. v5 \/ v6
      BY <1>4
    <3>2. \A j \in v4.todo : v4.snap[j] = v2[j]
      BY <1>1, <3>1 DEF SyncKnows, Sync!ListingHolds
    <3>3. Sync!TasksOf(i) = Sync!ByStamp(i) \cup Sync!ByRef(i)
      BY <3>2 DEF Sync!TasksOf, Sync!ByStamp, Sync!ByRef
    <3>4. IF Sync!TasksOf(i) = {} THEN t = None ELSE t \in Sync!TasksOf(i)
      BY <1>4, <1>8, <3>3
    <3>5. Sync!TasksOf(i)' = Sync!TasksOf(i) /\ (t \in Sync!TasksOf(i) => t # None)
      BY <1>1, <1>2, SyncConstants DEF Sync!TasksOf, SyncRowsFit
    <3>6. \A j \in v4'.todo : v4'.snap[j] = v2'[j]
      BY <1>1, <2>3, <3>2
    <3>7. v4'.snap[i] = v2'[i]
      BY <1>1, <2>3, <3>2
    <3>8. IF v4'.t = None THEN Sync!TasksOf(i)' = {} ELSE v4'.t \in Sync!TasksOf(i)'
      BY <2>3, <3>4, <3>5
    <3>9. v4'.pc = "write" /\ v4'.i = i
      BY <2>3
    <3>10. Sync!TasksOf(v4.i)' = Sync!TasksOf(i)'
      BY <3>9 DEF Sync!TasksOf
    <3> QED
      BY <3>6, <3>7, <3>8, <3>9, <3>10 DEF Sync!ListingHolds
  <2>6. Sync!SyncSettles'
    <3> SUFFICES ASSUME v5' PROVE Sync!SyncSettles'
      BY DEF Sync!SyncSettles
    <3>1. /\ \A j \in DOMAIN v2 \ DOMAIN v4.snap : ~v4.all /\ v2[j].state = "closed"
          /\ \A j \in DOMAIN v4.snap \ v4.todo : Sync!Settled(j)
      BY <1>1, <1>4 DEF SyncKnows, Sync!SyncSettles
    <3>2. \A j \in DOMAIN v2 : Sync!Settled(j) => Sync!Settled(j)'
      BY <1>1 DEF Sync!Settled, Sync!TasksOf
    <3>3. \A j \in DOMAIN v2' \ DOMAIN v4'.snap : ~v4'.all /\ v2'[j].state = "closed"
      BY <1>1, <2>3, <3>1
    <3>4. \A j \in DOMAIN v4'.snap \ v4'.todo : (v4'.pc = "write" /\ j = v4'.i) \/ Sync!Settled(j)'
      BY <2>1, <2>3, <3>1, <3>2
    <3> QED
      BY <3>3, <3>4 DEF Sync!SyncSettles
  <2> QED
    BY <1>4, <1>5, <1>6, <2>3, <2>4, <2>5, <2>6, SyncGoesOn DEF SyncTypes, SyncKnows, SyncCalm
<1> QED
  BY <1>3, <1>7, <1>8
\* A sync goes back to its list: the listing stays, and so do the issues.
LEMMA SyncGoesBack ==
    ASSUME SyncTypes, SyncKnows, v4.op = "sync", v4.pc \in {"write", "stamp"}, Sync!Go("find"),
           DOMAIN v1 \subseteq DOMAIN v1', DOMAIN v2' = DOMAIN v2,
           \A i \in DOMAIN v2 : v2'[i].stamp = v2[i].stamp \/ v2[i].stamp = None,
           v5' \/ v6' => \A i \in v4.todo : v2'[i] = v2[i],
           (v5' => v5) /\ (v6' => v6),
           v5' => \A i \in DOMAIN v2 : v2'[i].state = v2[i].state,
           v5' => \A i \in DOMAIN v2 : Sync!Settled(i) => Sync!Settled(i)',
           v5' => \A k \in DOMAIN v2 : k = v4.i => Sync!Settled(k)'
    PROVE  v4' \in SyncCommands /\ Sync!HoldsWhatExists' /\ Sync!ListingHolds' /\ Sync!SyncSettles'
           /\ Sync!SweepSettles' /\ Sync!MonitorFinishes'
<1>1. v4 \in SyncCommands
  BY DEF SyncTypes
<1>2. /\ v4' \in SyncCommands /\ v4'.op = "sync" /\ v4'.pc = "find" /\ v4'.todo = v4.todo
      /\ v4'.snap = v4.snap /\ v4'.all = v4.all /\ v4'.i = v4.i
  BY <1>1, SyncMembers DEF SyncCommands, Sync!Go
<1>3. /\ DOMAIN v4.snap \subseteq DOMAIN v2 /\ v4.todo \subseteq DOMAIN v4.snap /\ v4.i \in DOMAIN v4.snap
      /\ \A j \in DOMAIN v4.snap : v4.snap[j].stamp \in {None, v2[j].stamp}
  BY DEF SyncKnows, Sync!HoldsWhatExists
<1>4. Sync!HoldsWhatExists'
  BY <1>2, <1>3 DEF Sync!HoldsWhatExists
<1>5. Sync!ListingHolds'
  <2>1. v5 \/ v6 => \A i \in v4.todo : v4.snap[i] = v2[i]
    BY DEF SyncKnows, Sync!ListingHolds
  <2> QED
    BY <1>2, <2>1 DEF Sync!ListingHolds
<1>6. Sync!SyncSettles'
  <2> SUFFICES ASSUME v5' PROVE Sync!SyncSettles'
    BY DEF Sync!SyncSettles
  <2>1. /\ \A j \in DOMAIN v2 \ DOMAIN v4.snap : ~v4.all /\ v2[j].state = "closed"
        /\ \A j \in DOMAIN v4.snap \ v4.todo : j = v4.i \/ Sync!Settled(j)
    BY DEF SyncKnows, Sync!SyncSettles
  <2>2. \A j \in DOMAIN v2' \ DOMAIN v4'.snap : ~v4'.all /\ v2'[j].state = "closed"
    BY <1>2, <2>1
  <2>3. \A j \in DOMAIN v4'.snap \ v4'.todo : Sync!Settled(j)'
    <3> SUFFICES ASSUME NEW j \in DOMAIN v4'.snap \ v4'.todo PROVE Sync!Settled(j)'
      OBVIOUS
    <3>1. CASE j = v4.i
      BY <1>2, <1>3, <3>1
    <3>2. CASE j # v4.i
      BY <1>2, <1>3, <2>1, <3>2
    <3> QED
      BY <3>1, <3>2
  <2> QED
    BY <2>2, <2>3 DEF Sync!SyncSettles
<1> QED
  BY <1>2, <1>4, <1>5, <1>6, SyncGoesOn

LEMMA SyncClosesTask == ASSUME SyncTypes, SyncKnows, SyncCalm, Sync!SyncClosed
                        PROVE  SyncTypes' /\ SyncKnows' /\ SyncCalm'
<1> DEFINE row == [v1[v4.t] EXCEPT !.status = "done"]
           open == v4.t # None /\ Sync!Exists(v4.t) /\ v1[v4.t].status \notin Sync!Finished
<1>1. v4.op = "sync" /\ v4.pc = "write" /\ v4.snap[v4.i].state = "closed" /\ Sync!Go("find") /\ UNCHANGED <<v2, v3>>
  BY DEF Sync!SyncClosed
<1>2. v4 \in SyncCommands /\ SyncRowsFit /\ SyncIssuesFit /\ SyncPulls /\ SyncCounts
  BY DEF SyncTypes
<1>3. v4.t \in DOMAIN v1 \cup {None} /\ v4.i \in DOMAIN v2
  BY <1>1 DEF SyncKnows, Sync!HoldsWhatExists
<1>4. /\ SyncRowsFit' /\ SyncIssuesFit' /\ SyncCounts' /\ DOMAIN v1' = DOMAIN v1 /\ (v5' => v5) /\ (v6' => v6)
      /\ \A x \in DOMAIN v1 : v1'[x].ref = v1[x].ref /\ v1'[x].from = v1[x].from
      /\ \A x \in DOMAIN v1 : v1[x].status \in Sync!Finished => v1'[x].status \in Sync!Finished
      /\ v5' /\ v4.t # None => v1'[v4.t].status \in Sync!Finished
      /\ Sync!ReferencesExist' /\ (v6' => Sync!LinksAreStamped' /\ Sync!ClosedIsFinished')
  <2>1. CASE open
    <3>1. v4.t \in DOMAIN v1 /\ v1[v4.t] \in SyncRows /\ Sync!Update(v4.t, row)
      BY <1>2, <2>1 DEF Sync!SyncClosed, Sync!Exists, SyncRowsFit
    <3>2. row \in SyncRows /\ row.ref = v1[v4.t].ref /\ row.from = v1[v4.t].from /\ row.status = "done"
      BY <3>1, SyncMembers DEF SyncRows
    <3> HIDE DEF row
    <3>3. "done" \in Sync!Finished
      BY DEF Sync!Finished
    <3>4. /\ SyncRowsFit' /\ SyncIssuesFit' /\ SyncCounts' /\ DOMAIN v1' = DOMAIN v1 /\ (v5' => v5) /\ (v6' => v6)
          /\ v5' \/ v6' => v1'[v4.t] = row
          /\ \A x \in DOMAIN v1 : v1'[x].ref = v1[x].ref /\ v1'[x].from = v1[x].from
          /\ \A x \in DOMAIN v1 \ {v4.t} : v1'[x] = v1[x]
          /\ Sync!ReferencesExist' /\ (v6' => Sync!LinksAreStamped' /\ Sync!ClosedIsFinished')
      BY <1>1, <3>1, <3>2, SyncRowUpdated
    <3> QED
      BY <2>1, <3>2, <3>3, <3>4
  <2>2. CASE ~open
    <3>1. v1' = v1 /\ Sync!Fine
      BY <2>2 DEF Sync!SyncClosed
    <3>2. SyncCounts' /\ (v5' => v5) /\ (v6' => v6)
      BY <1>2, <3>1, SyncCalls
    <3>3. SyncRowsFit' /\ SyncIssuesFit'
      BY <1>1, <1>2, <3>1 DEF SyncRowsFit, SyncIssuesFit
    <3>4. Sync!ReferencesExist' /\ (v6' => Sync!LinksAreStamped' /\ Sync!ClosedIsFinished')
      BY <1>1, <3>1, <3>2, SyncWorldStays
    <3> QED
      BY <1>3, <2>2, <3>1, <3>2, <3>3, <3>4 DEF Sync!Exists
  <2> QED
    BY <2>1, <2>2
<1>5. v5' => \A i \in DOMAIN v2 : Sync!TasksOf(i)' = Sync!TasksOf(i) /\ Sync!TasksOf(i) \subseteq DOMAIN v1
  BY <1>1, <1>4 DEF Sync!TasksOf
<1>6. v5' => \A i \in DOMAIN v2 : Sync!Settled(i) => Sync!Settled(i)'
  BY <1>1, <1>4, <1>5 DEF Sync!Settled
<1>7. ASSUME v5', NEW k \in DOMAIN v2, k = v4.i
      PROVE  Sync!Settled(k)'
  <2>1. v2[k].state = "closed" /\ IF v4.t = None THEN Sync!TasksOf(k) = {} ELSE v4.t \in Sync!TasksOf(k)
    BY <1>1, <1>4, <1>7 DEF SyncKnows, Sync!ListingHolds
  <2>2. v2'[k].state # "open"
    BY <1>1, <2>1
  <2>3. Sync!TasksOf(k)' # {} => \E t \in Sync!TasksOf(k)' : v1'[t].status \in Sync!Finished
    BY <1>3, <1>4, <1>5, <1>7, <2>1
  <2> QED
    BY <2>2, <2>3 DEF Sync!Settled
<1>8. v4' \in SyncCommands /\ Sync!HoldsWhatExists' /\ Sync!ListingHolds' /\ Sync!SyncSettles'
      /\ Sync!SweepSettles' /\ Sync!MonitorFinishes'
  BY <1>1, <1>4, <1>6, <1>7, SyncGoesBack
<1>9. SyncPulls'
  BY <1>1, <1>2 DEF SyncPulls
<1> QED
  BY <1>4, <1>8, <1>9 DEF SyncTypes, SyncKnows, SyncCalm
LEMMA SyncDescribes == ASSUME SyncTypes, SyncKnows, SyncCalm, Sync!SyncOpen
                       PROVE  SyncTypes' /\ SyncKnows' /\ SyncCalm'
<1> DEFINE row == Sync!Described(v1[v4.t], v4.i, v4.snap[v4.i])
<1>1. v4.op = "sync" /\ v4.pc = "write" /\ v4.snap[v4.i].state = "open" /\ v4.t # None /\ Sync!Go("find") /\ UNCHANGED <<v2, v3>>
  BY DEF Sync!SyncOpen
<1>2. v4 \in SyncCommands /\ SyncRowsFit /\ SyncIssuesFit /\ SyncPulls /\ SyncCounts
  BY DEF SyncTypes
<1>3. v4.t \in DOMAIN v1 /\ v4.i \in DOMAIN v2 /\ v4.i \in SyncIs /\ v4.i # None
  BY <1>1, <1>2, SyncMembers, SyncConstants DEF SyncKnows, Sync!HoldsWhatExists, SyncIssuesFit
<1>4. row \in SyncRows /\ row.ref = v1[v4.t].ref /\ row.from = v4.i /\ row.status = v1[v4.t].status
  <2>1. v1[v4.t] \in SyncRows
    BY <1>2, <1>3 DEF SyncRowsFit
  <2>2. (IF v4.snap[v4.i].body THEN "synced" ELSE "header") \in SyncTexts
    BY SyncMembers
  <2> QED
    BY <1>3, <2>1, <2>2 DEF SyncRows, Sync!Described
<1>5. \/ Sync!Fine /\ v1' = [v1 EXCEPT ![v4.t] = row]
      \/ Sync!Fail /\ v1' = v1
  BY DEF Sync!SyncOpen
<1> HIDE DEF row
<1>6. SyncCounts' /\ (v5' => v5) /\ (v6' => v6) /\ (Sync!Fail => ~v5' /\ ~v6')
  BY <1>2, <1>5, SyncCalls
<1>7. /\ SyncRowsFit' /\ SyncIssuesFit' /\ SyncPulls' /\ DOMAIN v1' = DOMAIN v1
      /\ \A x \in DOMAIN v1 : v1'[x].ref = v1[x].ref /\ v1'[x].status = v1[x].status /\ v1'[x].from \in {v1[x].from, v4.i}
      /\ \A x \in DOMAIN v1 \ {v4.t} : v1'[x] = v1[x]
  <2>1. CASE v1' = v1
    BY <1>1, <1>2, <2>1 DEF SyncRowsFit, SyncIssuesFit, SyncPulls
  <2>2. CASE v1' = [v1 EXCEPT ![v4.t] = row]
    <3>1. DOMAIN v1' = DOMAIN v1 /\ v1'[v4.t] = row /\ \A x \in DOMAIN v1 \ {v4.t} : v1'[x] = v1[x]
      BY <1>3, <2>2
    <3>2. SyncRowsFit'
      BY <1>2, <1>3, <1>4, <3>1 DEF SyncRowsFit
    <3>3. SyncIssuesFit' /\ SyncPulls'
      BY <1>1, <1>2 DEF SyncIssuesFit, SyncPulls
    <3> QED
      BY <1>4, <3>1, <3>2, <3>3
  <2> QED
    BY <1>5, <2>1, <2>2
<1>8. Sync!ReferencesExist'
  BY <1>1, <1>3, <1>7 DEF SyncKnows, Sync!ReferencesExist
<1>9. \A i \in DOMAIN v2 : Sync!TasksOf(i)' = Sync!TasksOf(i) /\ Sync!TasksOf(i) \subseteq DOMAIN v1
  BY <1>1, <1>7 DEF Sync!TasksOf
<1>10. \A i \in DOMAIN v2 : Sync!Settled(i) => Sync!Settled(i)'
  <2> SUFFICES ASSUME NEW i \in DOMAIN v2, Sync!Settled(i) PROVE Sync!Settled(i)'
    OBVIOUS
  <2>1. Sync!TasksOf(i)' = Sync!TasksOf(i) /\ \A t \in Sync!TasksOf(i) : v1'[t].status = v1[t].status
    BY <1>7, <1>9
  <2> QED
    BY <1>1, <1>7, <2>1 DEF Sync!Settled
<1>11. v5 \/ v6 => v2[v4.i].state = "open" /\ v4.t \in Sync!TasksOf(v4.i)
  BY <1>1 DEF SyncKnows, Sync!ListingHolds
<1>12. ASSUME v5', NEW k \in DOMAIN v2, k = v4.i
       PROVE  Sync!Settled(k)'
  <2>1. v2'[k].state = "open" /\ Sync!TasksOf(k)' # {}
    BY <1>1, <1>6, <1>9, <1>11, <1>12
  <2> QED
    BY <2>1 DEF Sync!Settled
<1>13. v4' \in SyncCommands /\ Sync!HoldsWhatExists' /\ Sync!ListingHolds' /\ Sync!SyncSettles'
       /\ Sync!SweepSettles' /\ Sync!MonitorFinishes'
  BY <1>1, <1>6, <1>7, <1>10, <1>12, SyncGoesBack
<1>14. v6' => Sync!LinksAreStamped'
  <2> SUFFICES ASSUME v6' PROVE Sync!LinksAreStamped'
    OBVIOUS
  <2>1. Sync!LinksAreStamped
    BY <1>6 DEF SyncCalm
  <2>2. \A t \in DOMAIN v1 : \A i \in {v1[t].ref, v1[t].from} \ {None} : v2[i].stamp = t
    BY <1>1, <2>1 DEF Sync!LinksAreStamped
  <2>3. v2[v4.i].stamp = v4.t
    <3>1. v4.t = v2[v4.i].stamp \/ v1[v4.t].ref = v4.i
      BY <1>6, <1>11 DEF Sync!TasksOf
    <3> QED
      BY <1>3, <2>2, <3>1
  <2>4. \A t \in DOMAIN v1' : \A i \in {v1'[t].ref, v1'[t].from} \ {None} : v2'[i].stamp = t
    BY <1>1, <1>7, <2>2, <2>3
  <2> QED
    BY <2>4 DEF Sync!LinksAreStamped
<1>15. v6' => Sync!ClosedIsFinished'
  BY <1>1, <1>6, <1>7, SyncClosedKept DEF SyncKnows, SyncCalm
<1> QED
  BY <1>6, <1>7, <1>8, <1>13, <1>14, <1>15 DEF SyncTypes, SyncKnows, SyncCalm

LEMMA SyncStamps == ASSUME SyncTypes, SyncKnows, SyncCalm, Sync!StampTaskID
                    PROVE  SyncTypes' /\ SyncKnows' /\ SyncCalm'
<1>1. v4.op = "sync" /\ v4.pc = "stamp" /\ Sync!Go("find") /\ UNCHANGED <<v1, v3>>
  BY DEF Sync!StampTaskID
<1>2. v4 \in SyncCommands /\ SyncRowsFit /\ SyncIssuesFit /\ SyncPulls /\ SyncCounts
  BY DEF SyncTypes
<1>3. v4.t \in DOMAIN v1 /\ v4.t \in SyncTs /\ v4.i \in DOMAIN v2 /\ v4.i \notin v4.todo /\ v4.todo \subseteq DOMAIN v2
  BY <1>1, <1>2, SyncFields DEF SyncKnows, Sync!HoldsWhatExists
<1>4. \/ Sync!Fine /\ v2' = [v2 EXCEPT ![v4.i].stamp = IF @ = None THEN v4.t ELSE @]
      \/ Sync!Fail /\ v2' = v2
  BY DEF Sync!StampTaskID
<1>5. SyncCounts' /\ (v5' => v5) /\ (v6' => v6) /\ (Sync!Fail => ~v5' /\ ~v6')
  BY <1>2, <1>4, SyncCalls
<1>6. /\ SyncIssuesFit' /\ DOMAIN v2' = DOMAIN v2
      /\ \A i \in DOMAIN v2 : v2'[i].state = v2[i].state /\ v2'[i].stamp \in {v2[i].stamp, v4.t}
      /\ \A i \in DOMAIN v2 : v2'[i].stamp = v2[i].stamp \/ v2[i].stamp = None
      /\ \A i \in DOMAIN v2 \ {v4.i} : v2'[i] = v2[i]
      /\ v5' \/ v6' => v2'[v4.i].stamp = IF v2[v4.i].stamp = None THEN v4.t ELSE v2[v4.i].stamp
  <2>1. CASE Sync!Fail /\ v2' = v2
    BY <1>2, <1>5, <2>1 DEF SyncIssuesFit
  <2>2. CASE v2' = [v2 EXCEPT ![v4.i].stamp = IF @ = None THEN v4.t ELSE @]
    <3> DEFINE s == IF v2[v4.i].stamp = None THEN v4.t ELSE v2[v4.i].stamp
    <3>1. v2[v4.i] \in SyncIssues /\ s \in SyncTs
      BY <1>2, <1>3, SyncFields DEF SyncIssuesFit
    <3>2. v2'[v4.i] = [v2[v4.i] EXCEPT !.stamp = s] /\ DOMAIN v2' = DOMAIN v2 /\ \A i \in DOMAIN v2 \ {v4.i} : v2'[i] = v2[i]
      BY <1>3, <2>2
    <3>3. s \in {v2[v4.i].stamp, v4.t} /\ (s = v2[v4.i].stamp \/ v2[v4.i].stamp = None)
      OBVIOUS
    <3>4. s = IF v2[v4.i].stamp = None THEN v4.t ELSE v2[v4.i].stamp
      OBVIOUS
    <3> HIDE DEF s
    <3>5. v2'[v4.i] \in SyncIssues /\ v2'[v4.i].state = v2[v4.i].state /\ v2'[v4.i].stamp = s
      BY <3>1, <3>2 DEF SyncIssues
    <3>6. SyncIssuesFit'
      BY <1>2, <1>3, <3>2, <3>5 DEF SyncIssuesFit
    <3> QED
      BY <3>2, <3>3, <3>4, <3>5, <3>6
  <2> QED
    BY <1>4, <2>1, <2>2
<1>7. SyncRowsFit' /\ SyncPulls'
  BY <1>1, <1>2 DEF SyncRowsFit, SyncPulls
<1>8. Sync!ReferencesExist'
  BY <1>1, <1>3, <1>6 DEF SyncKnows, Sync!ReferencesExist
<1>9. v5 \/ v6 => v2[v4.i].stamp = None /\ v2[v4.i].state = "open" /\ v1[v4.t].ref = v4.i
  BY <1>1 DEF SyncKnows, Sync!ListingHolds
<1>10. ASSUME v5', NEW k \in DOMAIN v2, k = v4.i
       PROVE  Sync!Settled(k)'
  <2>1. v2'[k].state = "open" /\ v4.t \in Sync!TasksOf(k)'
    BY <1>1, <1>3, <1>5, <1>6, <1>9, <1>10 DEF Sync!TasksOf
  <2> QED
    BY <2>1 DEF Sync!Settled
<1>11. ASSUME v5', NEW i \in DOMAIN v2, Sync!Settled(i)
       PROVE  Sync!Settled(i)'
  <2>1. CASE i = v4.i
    BY <1>10, <1>11, <2>1
  <2>2. CASE i # v4.i
    <3>1. v2'[i] = v2[i] /\ Sync!TasksOf(i)' = Sync!TasksOf(i)
      BY <1>1, <1>6, <2>2 DEF Sync!TasksOf
    <3> QED
      BY <1>1, <1>11, <3>1 DEF Sync!Settled
  <2> QED
    BY <2>1, <2>2
<1>12. v4' \in SyncCommands /\ Sync!HoldsWhatExists' /\ Sync!ListingHolds' /\ Sync!SyncSettles'
       /\ Sync!SweepSettles' /\ Sync!MonitorFinishes'
  <2>1. v5' \/ v6' => \A i \in v4.todo : v2'[i] = v2[i]
    BY <1>3, <1>6
  <2> QED
    BY <1>1, <1>5, <1>6, <1>10, <1>11, <2>1, SyncGoesBack
<1>13. v6' => Sync!LinksAreStamped'
  <2> SUFFICES ASSUME v6' PROVE Sync!LinksAreStamped'
    OBVIOUS
  <2>1. Sync!LinksAreStamped /\ Sync!ReferencesExist
    BY <1>5 DEF SyncCalm, SyncKnows
  <2>2. v2[v4.i].stamp = None /\ v2'[v4.i].stamp = v4.t /\ \A t \in DOMAIN v1 : t # None
    BY <1>2, <1>5, <1>6, <1>9, SyncConstants DEF SyncRowsFit
  <2>3. ASSUME NEW t \in DOMAIN v1, NEW i \in {v1[t].ref, v1[t].from} \ {None}
        PROVE  v2'[i].stamp = t
    <3>1. i \in DOMAIN v2
      BY <2>1, <2>3 DEF Sync!ReferencesExist
    <3>2. v2[i].stamp = t \/ (v4.t = t /\ v4.i = i)
      BY <2>1, <2>3 DEF Sync!LinksAreStamped
    <3> QED
      BY <1>6, <2>2, <3>1, <3>2
  <2> QED
    BY <1>1, <2>3 DEF Sync!LinksAreStamped
<1>14. v6' => Sync!ClosedIsFinished'
  <2> SUFFICES ASSUME v6' PROVE Sync!ClosedIsFinished'
    OBVIOUS
  <2>1. Sync!ClosedIsFinished /\ Sync!ReferencesExist
    BY <1>5 DEF SyncCalm, SyncKnows
  <2>2. \A i \in DOMAIN v2' : v2'[i].state = "closed" => i \in DOMAIN v2 /\ v2'[i] = v2[i]
    BY <1>5, <1>6, <1>9
  <2> QED
    BY <1>1, <2>1, <2>2, SyncClosedKept
<1> QED
  BY <1>5, <1>6, <1>7, <1>8, <1>12, <1>13, <1>14 DEF SyncTypes, SyncKnows, SyncCalm

LEMMA SyncMakesTask == ASSUME SyncTypes, SyncKnows, SyncCalm, Sync!SyncCreate
                       PROVE  SyncTypes' /\ SyncKnows' /\ SyncCalm'
<1> DEFINE first == [status |-> "approved", ref |-> v4.i, text |-> "none", from |-> None, branch |-> FALSE, url |-> FALSE]
           row == Sync!Described(first, v4.i, v4.snap[v4.i])
           pc == IF v4.snap[v4.i].stamp = None THEN "stamp" ELSE "find"
<1>1. v4.op = "sync" /\ v4.pc = "write" /\ v4.snap[v4.i].state = "open" /\ v4.t = None /\ UNCHANGED <<v2, v3>>
  BY DEF Sync!SyncCreate
<1>2. v4 \in SyncCommands /\ SyncRowsFit /\ SyncIssuesFit /\ SyncPulls /\ SyncCounts
  BY DEF SyncTypes
<1>3. /\ v4.i \in DOMAIN v2 /\ v4.i \in DOMAIN v4.snap \ v4.todo /\ v4.i \in SyncIs /\ v4.i # None
      /\ DOMAIN v4.snap \subseteq DOMAIN v2 /\ v4.todo \subseteq DOMAIN v4.snap
      /\ \A j \in DOMAIN v4.snap : v4.snap[j].stamp \in {None, v2[j].stamp}
  BY <1>1, <1>2, SyncMembers, SyncConstants DEF SyncKnows, Sync!HoldsWhatExists, SyncIssuesFit
<1>4. row \in SyncRows /\ row.ref = v4.i /\ row.from = v4.i
  <2>1. first \in SyncRows /\ first.ref = v4.i
    BY <1>3, SyncMembers DEF SyncRows
  <2>2. (IF v4.snap[v4.i].body THEN "synced" ELSE "header") \in SyncTexts
    BY SyncMembers
  <2> HIDE DEF first
  <2> QED
    BY <1>3, <2>1, <2>2 DEF SyncRows, Sync!Described
<1>5. \/ \E t \in Tasks \ DOMAIN v1 : v1' = Sync!Put(v1, t, row) /\ v4' = [v4 EXCEPT !.pc = pc, !.t = t] /\ Sync!Fine
      \/ v1' = v1 /\ Sync!Fail /\ Sync!Go("find")
      \/ v1' = v1 /\ Sync!Fine /\ Tasks = DOMAIN v1 /\ Sync!Go("find")
  BY DEF Sync!SyncCreate
<1>6. pc \in {"stamp", "find"} /\ (v4.snap[v4.i].stamp = None => pc = "stamp")
  OBVIOUS
<1> HIDE DEF row, first, pc
<1>7. SyncCounts' /\ (v5' => v5) /\ (v6' => v6) /\ (Sync!Fail => ~v5' /\ ~v6')
  BY <1>2, <1>5, SyncCalls
<1>8. SyncIssuesFit' /\ SyncPulls'
  BY <1>1, <1>2 DEF SyncIssuesFit, SyncPulls
<1>9. CASE v1' = v1 /\ Sync!Go("find") /\ (Sync!Fail \/ Tasks = DOMAIN v1)
  <2>1. Sync!ReferencesExist' /\ (v6' => Sync!LinksAreStamped' /\ Sync!ClosedIsFinished')
    BY <1>1, <1>7, <1>9, SyncWorldStays
  <2>2. \A i \in DOMAIN v2 : Sync!Settled(i) => Sync!Settled(i)'
    BY <1>1, <1>9 DEF Sync!Settled, Sync!TasksOf
  <2>3. v5' => \A k \in DOMAIN v2 : k = v4.i => Sync!Settled(k)'
    <3> SUFFICES ASSUME v5', NEW k \in DOMAIN v2, k = v4.i PROVE Sync!Settled(k)'
      OBVIOUS
    <3>1. v2'[k].state = "open" /\ DOMAIN v1' = Tasks
      BY <1>1, <1>7, <1>9 DEF SyncKnows, Sync!ListingHolds
    <3> QED
      BY <3>1 DEF Sync!Settled
  <2>4. v4' \in SyncCommands /\ Sync!HoldsWhatExists' /\ Sync!ListingHolds' /\ Sync!SyncSettles'
        /\ Sync!SweepSettles' /\ Sync!MonitorFinishes'
    BY <1>1, <1>3, <1>7, <1>9, <2>2, <2>3, SyncGoesBack
  <2>5. SyncRowsFit'
    BY <1>2, <1>9 DEF SyncRowsFit
  <2> QED
    BY <1>7, <1>8, <2>1, <2>4, <2>5 DEF SyncTypes, SyncKnows, SyncCalm
<1>10. ASSUME NEW t \in Tasks \ DOMAIN v1, v1' = Sync!Put(v1, t, row), v4' = [v4 EXCEPT !.pc = pc, !.t = t], Sync!Fine
       PROVE  SyncTypes' /\ SyncKnows' /\ SyncCalm'
  <2>1. SyncRowsFit' /\ DOMAIN v1' = DOMAIN v1 \cup {t} /\ v1'[t] = row /\ \A x \in DOMAIN v1 : v1'[x] = v1[x]
    BY <1>2, <1>4, <1>10, SyncPutsRow
  <2>2. /\ v4' \in SyncCommands /\ v4'.op = "sync" /\ v4'.pc = pc /\ v4'.t = t /\ v4'.i = v4.i /\ v4'.todo = v4.todo
        /\ v4'.snap = v4.snap /\ v4'.all = v4.all
    BY <1>1, <1>2, <1>6, <1>10, SyncMembers DEF SyncCommands
  <2>3. Sync!ReferencesExist /\ Sync!HoldsWhatExists /\ (v6' => Sync!LinksAreStamped /\ Sync!ClosedIsFinished)
    BY <1>7 DEF SyncKnows, SyncCalm
  <2>4. Sync!ReferencesExist'
    BY <1>1, <1>3, <1>4, <2>1, <2>3, SyncReferencesKept
  <2>5. Sync!HoldsWhatExists'
    BY <1>1, <1>3, <1>6, <2>1, <2>2 DEF Sync!HoldsWhatExists
  <2>6. v5 \/ v6 => /\ \A i \in v4.todo : v4.snap[i] = v2[i]
                    /\ v4.snap[v4.i] = v2[v4.i] /\ Sync!TasksOf(v4.i) = {}
    BY <1>1 DEF SyncKnows, Sync!ListingHolds
  <2>7. v5 \/ v6 => v2[v4.i].stamp = None /\ v2[v4.i].state = "open" /\ pc = "stamp"
    <3>1. v2[v4.i].stamp \in DOMAIN v1 \cup {None}
      BY <1>3, <2>3 DEF Sync!ReferencesExist
    <3> QED
      BY <1>1, <1>6, <2>6, <3>1 DEF Sync!TasksOf
  <2>8. Sync!ListingHolds'
    <3> SUFFICES ASSUME v5' \/ v6' PROVE Sync!ListingHolds'
      BY DEF Sync!ListingHolds
    <3>1. \A i \in v4'.todo : v4'.snap[i] = v2'[i]
      BY <1>1, <1>7, <2>2, <2>6
    <3>2. v4'.pc = "stamp" /\ v2'[v4'.i].stamp = None /\ v2'[v4'.i].state = "open" /\ v1'[v4'.t].ref = v4'.i
      BY <1>1, <1>4, <1>7, <2>1, <2>2, <2>7
    <3> QED
      BY <3>1, <3>2 DEF Sync!ListingHolds
  <2>9. Sync!SyncSettles'
    <3> SUFFICES ASSUME v5' PROVE Sync!SyncSettles'
      BY DEF Sync!SyncSettles
    <3>1. /\ \A j \in DOMAIN v2 \ DOMAIN v4.snap : ~v4.all /\ v2[j].state = "closed"
          /\ \A j \in DOMAIN v4.snap \ v4.todo : j = v4.i \/ Sync!Settled(j)
      BY <1>1, <1>7 DEF SyncKnows, Sync!SyncSettles
    <3>2. \A j \in DOMAIN v2' \ DOMAIN v4'.snap : ~v4'.all /\ v2'[j].state = "closed"
      BY <1>1, <2>2, <3>1
    <3>3. \A j \in DOMAIN v4.snap : j = v4.i => Sync!Settled(j)'
      <4> SUFFICES ASSUME NEW j \in DOMAIN v4.snap, j = v4.i PROVE Sync!Settled(j)'
        OBVIOUS
      <4>1. v2'[j].state = "open" /\ t \in Sync!TasksOf(j)'
        BY <1>1, <1>4, <1>7, <2>1, <2>7 DEF Sync!TasksOf
      <4> QED
        BY <4>1 DEF Sync!Settled
    <3>4. \A j \in DOMAIN v4.snap : j # v4.i /\ Sync!Settled(j) => Sync!Settled(j)'
      <4> SUFFICES ASSUME NEW j \in DOMAIN v4.snap, j # v4.i, Sync!Settled(j) PROVE Sync!Settled(j)'
        OBVIOUS
      <4>1. v2[j].stamp # t
        BY <1>2, <1>3, <2>3, SyncConstants DEF Sync!ReferencesExist
      <4>2. Sync!TasksOf(j)' = Sync!TasksOf(j) /\ Sync!TasksOf(j) \subseteq DOMAIN v1
        BY <1>1, <1>4, <2>1, <4>1 DEF Sync!TasksOf
      <4>3. DOMAIN v1 # Tasks
        BY <1>10
      <4> QED
        BY <1>1, <2>1, <4>2, <4>3 DEF Sync!Settled
    <3>5. \A j \in DOMAIN v4'.snap \ v4'.todo : Sync!Settled(j)'
      BY <2>2, <3>1, <3>3, <3>4
    <3> QED
      BY <3>2, <3>5 DEF Sync!SyncSettles
  <2>10. v6' => Sync!LinksAreStamped'
    <3> SUFFICES ASSUME v6' PROVE Sync!LinksAreStamped'
      OBVIOUS
    <3>1. \A x \in DOMAIN v1 : \A i \in {v1[x].ref, v1[x].from} \ {None} : v2[i].stamp = x
      BY <1>1, <2>3 DEF Sync!LinksAreStamped
    <3>2. v4'.op = "sync" /\ v4'.pc = "stamp" /\ v4'.t = t /\ v4'.i = v4.i
      BY <1>7, <2>2, <2>7
    <3>3. \A x \in DOMAIN v1' : \A i \in {v1'[x].ref, v1'[x].from} \ {None} : v2'[i].stamp = x \/ (x = t /\ i = v4.i)
      BY <1>1, <1>4, <2>1, <3>1
    <3> QED
      BY <3>2, <3>3 DEF Sync!LinksAreStamped
  <2>11. v6' => Sync!ClosedIsFinished'
    BY <1>1, <2>1, <2>3, SyncClosedKept
  <2>12. SyncTypes'
    BY <1>7, <1>8, <2>1, <2>2 DEF SyncTypes
  <2> QED
    BY <2>2, <2>4, <2>5, <2>8, <2>9, <2>10, <2>11, <2>12, SyncGoesOn DEF SyncKnows, SyncCalm
<1> QED
  BY <1>5, <1>9, <1>10
LEMMA SyncStartsTask == ASSUME SyncTypes, SyncKnows, SyncCalm, NEW t \in Tasks, Sync!TaskStart(t) \/ Sync!TaskPR(t)
                        PROVE  SyncTypes' /\ SyncKnows' /\ SyncCalm'
<1> DEFINE started == [v1[t] EXCEPT !.status = "in_progress", !.branch = TRUE]
           inReview == [v1[t] EXCEPT !.url = TRUE, !.status = "in_review"]
<1>1. /\ v4.op = "none" /\ t \in DOMAIN v1 /\ v2' = v2 /\ v4' = v4
      /\ Sync!Update(t, started) \/ Sync!Update(t, inReview)
      /\ v3' = v3 \/ v3' = [v3 EXCEPT ![t] = "open"]
  BY DEF Sync!TaskStart, Sync!TaskPR, Sync!Exists
<1>2. v4' = Sync!Idle
  BY <1>1 DEF SyncKnows, Sync!HoldsWhatExists
<1>3. v1[t] \in SyncRows
  BY <1>1 DEF SyncTypes, SyncRowsFit
<1>4. started \in SyncRows /\ started.ref = v1[t].ref /\ started.from = v1[t].from
  BY <1>3, SyncMembers DEF SyncRows
<1>5. inReview \in SyncRows /\ inReview.ref = v1[t].ref /\ inReview.from = v1[t].from
  BY <1>3, SyncMembers DEF SyncRows
<1> HIDE DEF started, inReview
<1>6. /\ SyncRowsFit' /\ SyncIssuesFit' /\ SyncCounts'
      /\ Sync!ReferencesExist' /\ (v6' => Sync!LinksAreStamped' /\ Sync!ClosedIsFinished')
  BY <1>1, <1>4, <1>5, SyncRowUpdated
<1>7. SyncPulls'
  BY <1>1 DEF SyncTypes, SyncPulls
<1> QED
  BY <1>2, <1>6, <1>7, SyncIdle, SyncIdles DEF SyncTypes, SyncKnows, SyncCalm

LEMMA SyncNumbers ==
    ASSUME SyncTypes, Sync!ReferencesExist, NEW t \in DOMAIN v1
    PROVE  Sync!IssueNumber(t) \in DOMAIN v2 \cup {None} /\ Sync!IssueNumber(t) \in SyncIs
           /\ (Sync!IssueNumber(t) # None => Sync!IssueNumber(t) \in {v1[t].ref, v1[t].from} \ {None})
BY SyncFields DEF SyncTypes, SyncRowsFit, Sync!IssueNumber, Sync!ReferencesExist

LEMMA SyncStartsMonitor == ASSUME SyncTypes, SyncKnows, SyncCalm, NEW t \in Tasks, Sync!StartMonitor(t)
                           PROVE  SyncTypes' /\ SyncKnows' /\ SyncCalm'
<1> DEFINE pc == IF v1[t].url THEN "poll" ELSE "find"
           c == [Sync!Idle EXCEPT !.op = "monitor", !.pc = pc, !.t = t]
<1>1. t \in DOMAIN v1 /\ Sync!Begin(c)
  BY DEF Sync!StartMonitor, Sync!Exists
<1>2. pc \in SyncPcs /\ pc \in {"find", "poll"}
  BY SyncMembers
<1> HIDE DEF pc
<1>3. c \in SyncCommands /\ c.op = "monitor" /\ c.pc = pc /\ c.t = t /\ c.snap = <<>>
  BY <1>2, SyncIdle, SyncMembers DEF SyncCommands
<1> HIDE DEF c
<1> QED
  BY <1>1, <1>2, <1>3, SyncBegins

LEMMA SyncStartsCloseDone == ASSUME SyncTypes, SyncKnows, SyncCalm, NEW t \in Tasks, Sync!CloseDone(t)
                             PROVE  SyncTypes' /\ SyncKnows' /\ SyncCalm'
<1> DEFINE n == Sync!IssueNumber(t)
           c == [Sync!Idle EXCEPT !.op = "sweep", !.pc = "close", !.t = t, !.i = n]
<1>1. t \in DOMAIN v1 /\ n # None /\ Sync!Begin(c)
  BY DEF Sync!CloseDone, Sync!Exists
<1>2. n \in SyncIs /\ n \in DOMAIN v2
  BY <1>1, SyncNumbers DEF SyncKnows
<1>3. n = Sync!IssueNumber(t)
  OBVIOUS
<1> HIDE DEF n
<1>4. /\ c \in SyncCommands /\ c.op = "sweep" /\ c.pc = "close" /\ c.t = t /\ c.i = n /\ c.snap = <<>>
      /\ c.todo = {} /\ c.all = FALSE
  BY <1>2, SyncIdle, SyncMembers DEF SyncCommands
<1> HIDE DEF c
<1>5. c.i = Sync!IssueNumber(c.t)
  BY <1>3, <1>4
<1> QED
  BY <1>1, <1>2, <1>4, <1>5, SyncBegins

LEMMA SyncStartsSweep == ASSUME SyncTypes, SyncKnows, SyncCalm, Sync!StartSweep
                         PROVE  SyncTypes' /\ SyncKnows' /\ SyncCalm'
<1> DEFINE merged == {t \in Tasks : v3[t] = "merged"}
           c == [Sync!Idle EXCEPT !.op = "sweep", !.pc = "next", !.all = TRUE, !.todo = merged]
<1>1. Sync!Begin(c)
  BY DEF Sync!StartSweep
<1>2. merged \in SyncTodos /\ merged \subseteq Tasks
  BY SyncMembers
<1>3. \A t \in DOMAIN v1 : v3[t] = "merged" => t \in merged
  BY DEF SyncTypes, SyncRowsFit
<1> HIDE DEF merged
<1>4. c \in SyncCommands /\ c.op = "sweep" /\ c.pc = "next" /\ c.todo = merged /\ c.snap = <<>>
  BY <1>2, SyncIdle, SyncMembers DEF SyncCommands
<1> HIDE DEF c
<1> QED
  BY <1>1, <1>2, <1>3, <1>4, SyncBegins

LEMMA SyncStartsSprint == ASSUME SyncTypes, SyncKnows, SyncCalm, Sync!StartSprintSync
                          PROVE  SyncTypes' /\ SyncKnows' /\ SyncCalm'
<1> DEFINE c == [Sync!Idle EXCEPT !.op = "sprint", !.pc = "list", !.todo = DOMAIN v1]
<1>1. Sync!Begin(c)
  BY DEF Sync!StartSprintSync
<1>2. DOMAIN v1 \in SyncTodos
  BY SyncMembers DEF SyncTypes, SyncRowsFit
<1>3. c \in SyncCommands /\ c.op = "sprint" /\ c.pc = "list" /\ c.todo = DOMAIN v1 /\ c.snap = <<>>
  BY <1>2, SyncIdle, SyncMembers DEF SyncCommands
<1> HIDE DEF c
<1> QED
  BY <1>1, <1>3, SyncBegins

LEMMA SyncFindsPR == ASSUME SyncTypes, SyncKnows, SyncCalm, Sync!FindPR
                     PROVE  SyncTypes' /\ SyncKnows' /\ SyncCalm'
<1> DEFINE row == [v1[v4.t] EXCEPT !.url = TRUE, !.status = "in_review"]
<1>1. v4.op = "monitor" /\ v4.pc = "find" /\ UNCHANGED <<v2, v3>>
  BY DEF Sync!FindPR
<1>2. v4 \in SyncCommands /\ SyncRowsFit /\ SyncIssuesFit /\ SyncPulls /\ SyncCounts
  BY DEF SyncTypes
<1>3. \/ v4' = Sync!Idle /\ v1' = v1 /\ Sync!Fine
      \/ Sync!Go("poll") /\ Sync!Update(v4.t, row)
  BY DEF Sync!FindPR, Sync!End
<1>4. SyncPulls'
  BY <1>1, <1>2 DEF SyncPulls
<1>5. v4.t \in DOMAIN v1 /\ v1[v4.t] \in SyncRows
  BY <1>1, <1>2 DEF SyncKnows, Sync!HoldsWhatExists, SyncRowsFit
<1>6. row \in SyncRows /\ row.ref = v1[v4.t].ref /\ row.from = v1[v4.t].from
  BY <1>5, SyncMembers DEF SyncRows
<1> HIDE DEF row
<1>7. CASE v4' = Sync!Idle /\ v1' = v1 /\ Sync!Fine
  <2>1. SyncCounts' /\ (v6' => v6)
    BY <1>2, <1>7, SyncCalls
  <2>2. SyncRowsFit' /\ SyncIssuesFit'
    BY <1>1, <1>2, <1>7 DEF SyncRowsFit, SyncIssuesFit
  <2>3. Sync!ReferencesExist' /\ (v6' => Sync!LinksAreStamped' /\ Sync!ClosedIsFinished')
    BY <1>1, <1>7, <2>1, SyncWorldStays
  <2> QED
    BY <1>4, <1>7, <2>1, <2>2, <2>3, SyncIdle, SyncIdles DEF SyncTypes, SyncKnows, SyncCalm
<1>8. CASE Sync!Go("poll") /\ Sync!Update(v4.t, row)
  <2>1. /\ SyncRowsFit' /\ SyncIssuesFit' /\ SyncCounts' /\ DOMAIN v1' = DOMAIN v1
        /\ Sync!ReferencesExist' /\ (v6' => Sync!LinksAreStamped' /\ Sync!ClosedIsFinished')
    BY <1>1, <1>5, <1>6, <1>8, SyncRowUpdated
  <2>2. v4' \in SyncCommands /\ v4'.op = "monitor" /\ v4'.pc = "poll" /\ v4'.t = v4.t
    BY <1>1, <1>2, <1>8, SyncMembers DEF SyncCommands, Sync!Go
  <2>3. Sync!HoldsWhatExists'
    BY <1>5, <2>1, <2>2 DEF Sync!HoldsWhatExists
  <2>4. Sync!ListingHolds' /\ Sync!SyncSettles' /\ Sync!SweepSettles' /\ Sync!MonitorFinishes'
    BY <2>2 DEF Sync!ListingHolds, Sync!SyncSettles, Sync!SweepSettles, Sync!MonitorFinishes
  <2> QED
    BY <1>4, <2>1, <2>2, <2>3, <2>4 DEF SyncTypes, SyncKnows, SyncCalm
<1> QED
  BY <1>3, <1>7, <1>8

LEMMA SyncPolls == ASSUME SyncTypes, SyncKnows, SyncCalm, Sync!Poll
                   PROVE  SyncTypes' /\ SyncKnows' /\ SyncCalm'
<1> DEFINE done == [v1[v4.t] EXCEPT !.status = "done"]
           blocked == [v1[v4.t] EXCEPT !.status = "blocked"]
           n == Sync!IssueNumber(v4.t)
<1>1. v4.op = "monitor" /\ v4.pc = "poll" /\ UNCHANGED <<v2, v3>>
  BY DEF Sync!Poll
<1>2. v4 \in SyncCommands /\ SyncRowsFit /\ SyncIssuesFit /\ SyncPulls /\ SyncCounts
  BY DEF SyncTypes
<1>3. \/ v4' = Sync!Idle /\ v1' = v1 /\ Sync!Fine
      \/ v4' = Sync!Idle /\ Sync!Update(v4.t, blocked)
      \/ v4' = [v4 EXCEPT !.pc = "close", !.i = n] /\ Sync!Update(v4.t, done)
  BY DEF Sync!Poll, Sync!End
<1>4. SyncPulls'
  BY <1>1, <1>2 DEF SyncPulls
<1>5. v4.t \in DOMAIN v1 /\ v1[v4.t] \in SyncRows
  BY <1>1, <1>2 DEF SyncKnows, Sync!HoldsWhatExists, SyncRowsFit
<1>6. done \in SyncRows /\ done.ref = v1[v4.t].ref /\ done.from = v1[v4.t].from /\ done.status = "done"
  BY <1>5, SyncMembers DEF SyncRows
<1>7. blocked \in SyncRows /\ blocked.ref = v1[v4.t].ref /\ blocked.from = v1[v4.t].from
  BY <1>5, SyncMembers DEF SyncRows
<1>8. n \in SyncIs
  BY <1>5, SyncNumbers DEF SyncKnows
<1> HIDE DEF done, blocked
<1>9. CASE v4' = Sync!Idle /\ v1' = v1 /\ Sync!Fine
  <2>1. SyncCounts' /\ (v6' => v6)
    BY <1>2, <1>9, SyncCalls
  <2>2. SyncRowsFit' /\ SyncIssuesFit'
    BY <1>1, <1>2, <1>9 DEF SyncRowsFit, SyncIssuesFit
  <2>3. Sync!ReferencesExist' /\ (v6' => Sync!LinksAreStamped' /\ Sync!ClosedIsFinished')
    BY <1>1, <1>9, <2>1, SyncWorldStays
  <2> QED
    BY <1>4, <1>9, <2>1, <2>2, <2>3, SyncIdle, SyncIdles DEF SyncTypes, SyncKnows, SyncCalm
<1>10. CASE v4' = Sync!Idle /\ Sync!Update(v4.t, blocked)
  <2>1. /\ SyncRowsFit' /\ SyncIssuesFit' /\ SyncCounts'
        /\ Sync!ReferencesExist' /\ (v6' => Sync!LinksAreStamped' /\ Sync!ClosedIsFinished')
    BY <1>1, <1>5, <1>7, <1>10, SyncRowUpdated
  <2> QED
    BY <1>4, <1>10, <2>1, SyncIdle, SyncIdles DEF SyncTypes, SyncKnows, SyncCalm
<1>11. CASE v4' = [v4 EXCEPT !.pc = "close", !.i = n] /\ Sync!Update(v4.t, done)
  <2>1. /\ SyncRowsFit' /\ SyncIssuesFit' /\ SyncCounts' /\ DOMAIN v1' = DOMAIN v1
        /\ v5' \/ v6' => v1'[v4.t] = done
        /\ \A x \in DOMAIN v1 : v1'[x].ref = v1[x].ref /\ v1'[x].from = v1[x].from
        /\ Sync!ReferencesExist' /\ (v6' => Sync!LinksAreStamped' /\ Sync!ClosedIsFinished')
    BY <1>1, <1>5, <1>6, <1>11, SyncRowUpdated
  <2>2. v4' \in SyncCommands /\ v4'.op = "monitor" /\ v4'.pc = "close" /\ v4'.t = v4.t /\ v4'.i = n
    <3> HIDE DEF n
    <3> QED
      BY <1>1, <1>2, <1>8, <1>11, SyncMembers DEF SyncCommands
  <2>3. v4'.i = Sync!IssueNumber(v4.t)'
    BY <1>5, <2>1, <2>2 DEF Sync!IssueNumber
  <2>4. Sync!HoldsWhatExists'
    BY <1>5, <2>1, <2>2, <2>3 DEF Sync!HoldsWhatExists, Sync!IssueNumber
  <2>5. Sync!ListingHolds' /\ Sync!SyncSettles' /\ Sync!SweepSettles'
    BY <2>2 DEF Sync!ListingHolds, Sync!SyncSettles, Sync!SweepSettles
  <2>6. v6' => Sync!MonitorFinishes'
    BY <1>6, <2>1, <2>2 DEF Sync!MonitorFinishes, Sync!Finished
  <2> QED
    BY <1>4, <2>1, <2>2, <2>4, <2>5, <2>6 DEF SyncTypes, SyncKnows, SyncCalm
<1> QED
  BY <1>3, <1>9, <1>10, <1>11
\* CloseIssue: the issue of the task the command holds, or nothing and a failure.
LEMMA SyncCloses ==
    ASSUME SyncTypes, SyncKnows, SyncCalm, Sync!CloseLinked, v1' = v1,
           v4.op \in {"monitor", "sweep"}, v4.t \in DOMAIN v1, v4.i = Sync!IssueNumber(v4.t)
    PROVE  /\ SyncRowsFit' /\ SyncIssuesFit' /\ SyncCounts' /\ DOMAIN v2' = DOMAIN v2
           /\ (v5' => v5) /\ (v6' => v6)
           /\ \A i \in DOMAIN v2 : v2'[i].stamp = v2[i].stamp
           /\ \A i \in DOMAIN v2 : v2[i].state = "closed" => v2'[i].state = "closed"
           /\ \A i \in DOMAIN v2 \ {v4.i} : v2'[i] = v2[i]
           /\ v5' /\ v4.i # None => v2'[v4.i].state = "closed"
           /\ Sync!ReferencesExist' /\ (v6' => Sync!LinksAreStamped')
           /\ v6' /\ v4.i # None => v2[v4.i].stamp = v4.t
<1>1. SyncRowsFit /\ SyncIssuesFit /\ SyncCounts /\ Sync!ReferencesExist
  BY DEF SyncTypes, SyncKnows
<1>2. \/ v2' = v2 /\ Sync!Fine /\ v4.i = None
      \/ v2' = v2 /\ Sync!Fail
      \/ v4.i # None /\ v2' = [v2 EXCEPT ![v4.i].state = "closed"] /\ Sync!Fine
  BY DEF Sync!CloseLinked
<1>3. SyncCounts' /\ (v5' => v5) /\ (v6' => v6) /\ (Sync!Fail => ~v5' /\ ~v6')
  BY <1>1, <1>2, SyncCalls
<1>4. /\ v4.i \in DOMAIN v2 \cup {None}
      /\ v4.i # None => v4.i \in {v1[v4.t].ref, v1[v4.t].from} \ {None}
  BY <1>1, SyncNumbers
<1>5. /\ SyncIssuesFit' /\ DOMAIN v2' = DOMAIN v2
      /\ \A i \in DOMAIN v2 : v2'[i].stamp = v2[i].stamp
      /\ \A i \in DOMAIN v2 : v2[i].state = "closed" => v2'[i].state = "closed"
      /\ \A i \in DOMAIN v2 \ {v4.i} : v2'[i] = v2[i]
      /\ v5' /\ v4.i # None => v2'[v4.i].state = "closed"
  <2>1. CASE v2' = v2 /\ (v4.i = None \/ Sync!Fail)
    BY <1>1, <1>3, <2>1 DEF SyncIssuesFit
  <2>2. CASE v4.i # None /\ v2' = [v2 EXCEPT ![v4.i].state = "closed"]
    <3>1. v4.i \in DOMAIN v2 /\ v2[v4.i] \in SyncIssues
      BY <1>1, <1>4, <2>2 DEF SyncIssuesFit
    <3>2. v2'[v4.i] = [v2[v4.i] EXCEPT !.state = "closed"] /\ DOMAIN v2' = DOMAIN v2 /\ \A i \in DOMAIN v2 \ {v4.i} : v2'[i] = v2[i]
      BY <2>2, <3>1
    <3>3. v2'[v4.i] \in SyncIssues /\ v2'[v4.i].state = "closed" /\ v2'[v4.i].stamp = v2[v4.i].stamp
      BY <3>1, <3>2, SyncMembers DEF SyncIssues
    <3>4. SyncIssuesFit'
      BY <1>1, <3>1, <3>2, <3>3 DEF SyncIssuesFit
    <3> QED
      BY <3>2, <3>3, <3>4
  <2> QED
    BY <1>2, <2>1, <2>2
<1>6. SyncRowsFit'
  BY <1>1 DEF SyncRowsFit
<1>7. Sync!ReferencesExist'
  BY <1>1, <1>5, SyncReferencesKept
<1>8. v6' => Sync!LinksAreStamped'
  BY <1>1, <1>3, <1>5, SyncLinksKept DEF SyncCalm
<1>9. v6' /\ v4.i # None => v2[v4.i].stamp = v4.t
  BY <1>3, <1>4 DEF SyncCalm, Sync!LinksAreStamped
<1> QED
  BY <1>3, <1>5, <1>6, <1>7, <1>8, <1>9

LEMMA SyncMonitorCloses == ASSUME SyncTypes, SyncKnows, SyncCalm, Sync!MonitorClose
                           PROVE  SyncTypes' /\ SyncKnows' /\ SyncCalm'
<1>1. v4.op = "monitor" /\ v4.pc = "close" /\ v4' = Sync!Idle /\ UNCHANGED <<v1, v3>> /\ Sync!CloseLinked
  BY DEF Sync!MonitorClose, Sync!End
<1>2. v4.t \in DOMAIN v1 /\ v4.i = Sync!IssueNumber(v4.t)
  BY <1>1 DEF SyncKnows, Sync!HoldsWhatExists
<1>3. /\ SyncRowsFit' /\ SyncIssuesFit' /\ SyncCounts' /\ DOMAIN v2' = DOMAIN v2 /\ (v6' => v6)
      /\ \A i \in DOMAIN v2 : v2'[i].stamp = v2[i].stamp
      /\ \A i \in DOMAIN v2 \ {v4.i} : v2'[i] = v2[i]
      /\ Sync!ReferencesExist' /\ (v6' => Sync!LinksAreStamped')
      /\ v6' /\ v4.i # None => v2[v4.i].stamp = v4.t
  BY <1>1, <1>2, SyncCloses
<1>4. SyncPulls'
  BY <1>1 DEF SyncTypes, SyncPulls
<1>5. v6' => Sync!ClosedIsFinished'
  <2> SUFFICES ASSUME v6', NEW i \in DOMAIN v2', v2'[i].state = "closed", v2'[i].stamp # None
               PROVE  v1'[v2'[i].stamp].status \in Sync!Finished
    BY DEF Sync!ClosedIsFinished
  <2>1. Sync!ClosedIsFinished /\ Sync!MonitorFinishes
    BY <1>3 DEF SyncCalm
  <2>2. i \in DOMAIN v2 /\ i # None
    BY <1>3, SyncConstants DEF SyncTypes, SyncIssuesFit
  <2>3. CASE i = v4.i
    BY <1>1, <1>3, <2>1, <2>2, <2>3 DEF Sync!MonitorFinishes
  <2>4. CASE i # v4.i
    BY <1>1, <1>3, <2>1, <2>2, <2>4 DEF Sync!ClosedIsFinished
  <2> QED
    BY <2>3, <2>4
<1> QED
  BY <1>1, <1>3, <1>4, <1>5, SyncIdle, SyncIdles DEF SyncTypes, SyncKnows, SyncCalm

LEMMA SyncSweepCloses == ASSUME SyncTypes, SyncKnows, SyncCalm, Sync!SweepClose
                         PROVE  SyncTypes' /\ SyncKnows' /\ SyncCalm'
<1>1. v4.op = "sweep" /\ v4.pc = "close" /\ Sync!Go("done") /\ UNCHANGED <<v1, v3>> /\ Sync!CloseLinked
  BY DEF Sync!SweepClose
<1>2. /\ v4.t \in DOMAIN v1 /\ v4.i = Sync!IssueNumber(v4.t) /\ v4.i \in DOMAIN v2 /\ v4.i # None
      /\ v4.todo \subseteq Tasks /\ v4 \in SyncCommands
  BY <1>1, SyncConstants DEF SyncKnows, Sync!HoldsWhatExists, SyncTypes, SyncIssuesFit
<1>3. /\ SyncRowsFit' /\ SyncIssuesFit' /\ SyncCounts' /\ DOMAIN v2' = DOMAIN v2 /\ (v5' => v5) /\ (v6' => v6)
      /\ \A i \in DOMAIN v2 : v2'[i].stamp = v2[i].stamp
      /\ \A i \in DOMAIN v2 : v2[i].state = "closed" => v2'[i].state = "closed"
      /\ \A i \in DOMAIN v2 \ {v4.i} : v2'[i] = v2[i]
      /\ v5' => v2'[v4.i].state = "closed"
      /\ Sync!ReferencesExist' /\ (v6' => Sync!LinksAreStamped')
      /\ v6' => v2[v4.i].stamp = v4.t
  BY <1>1, <1>2, SyncCloses
<1>4. SyncPulls'
  BY <1>1 DEF SyncTypes, SyncPulls
<1>5. /\ v4' \in SyncCommands /\ v4'.op = "sweep" /\ v4'.pc = "done" /\ v4'.t = v4.t /\ v4'.todo = v4.todo
      /\ v4'.all = v4.all
  BY <1>1, <1>2, SyncMembers DEF SyncCommands, Sync!Go
<1>6. Sync!HoldsWhatExists'
  BY <1>1, <1>2, <1>5 DEF Sync!HoldsWhatExists
<1>7. Sync!ListingHolds' /\ Sync!SyncSettles' /\ Sync!MonitorFinishes'
  BY <1>5 DEF Sync!ListingHolds, Sync!SyncSettles, Sync!MonitorFinishes
<1>8. Sync!SweepSettles'
  <2> SUFFICES ASSUME v4'.all, v5', NEW t \in DOMAIN v1', v3'[t] = "merged", v1'[t].branch \/ v1'[t].url,
                      Sync!IssueNumber(t)' # None
               PROVE  t \in v4'.todo \/ v2'[Sync!IssueNumber(t)'].state = "closed"
    BY DEF Sync!SweepSettles
  <2>1. Sync!IssueNumber(t)' = Sync!IssueNumber(t) /\ t \in DOMAIN v1
    BY <1>1, SyncNumbersStay
  <2>2. t \in v4.todo \/ v4.t = t \/ v2[Sync!IssueNumber(t)].state = "closed"
    BY <1>1, <1>3, <1>5, <2>1 DEF SyncKnows, Sync!SweepSettles
  <2>3. Sync!IssueNumber(t) \in DOMAIN v2
    BY <2>1, SyncNumbers DEF SyncKnows
  <2> QED
    BY <1>2, <1>3, <1>5, <2>1, <2>2, <2>3
<1>9. v6' => Sync!ClosedIsFinished'
  <2> SUFFICES ASSUME v6', NEW i \in DOMAIN v2', v2'[i].state = "closed", v2'[i].stamp # None
               PROVE  v1'[v2'[i].stamp].status \in Sync!Finished \/ v4'.t = v2'[i].stamp
    BY <1>5 DEF Sync!ClosedIsFinished
  <2>1. Sync!ClosedIsFinished
    BY <1>3 DEF SyncCalm
  <2>2. CASE i = v4.i
    BY <1>3, <1>5, <2>2
  <2>3. CASE i # v4.i
    BY <1>1, <1>3, <2>1, <2>3 DEF Sync!ClosedIsFinished
  <2> QED
    BY <2>2, <2>3
<1> QED
  BY <1>3, <1>4, <1>5, <1>6, <1>7, <1>8, <1>9 DEF SyncTypes, SyncKnows, SyncCalm

LEMMA SyncSweepFinishes == ASSUME SyncTypes, SyncKnows, SyncCalm, Sync!SweepDone
                           PROVE  SyncTypes' /\ SyncKnows' /\ SyncCalm'
<1> DEFINE row == [v1[v4.t] EXCEPT !.status = "done"]
<1>1. /\ v4.op = "sweep" /\ v4.pc = "done" /\ Sync!Go("next") /\ UNCHANGED <<v2, v3>>
      /\ \/ v1[v4.t].status \in Sync!Finished /\ v1' = v1 /\ Sync!Fine
         \/ Sync!Update(v4.t, row)
  BY DEF Sync!SweepDone
<1>2. v4.t \in DOMAIN v1 /\ v4.todo \subseteq Tasks /\ v4 \in SyncCommands /\ v1[v4.t] \in SyncRows
      /\ SyncRowsFit /\ SyncIssuesFit /\ SyncCounts
  BY <1>1 DEF SyncKnows, Sync!HoldsWhatExists, SyncTypes, SyncRowsFit
<1>3. row \in SyncRows /\ row.ref = v1[v4.t].ref /\ row.from = v1[v4.t].from /\ row.status = "done"
      /\ row.branch = v1[v4.t].branch /\ row.url = v1[v4.t].url
  BY <1>2, SyncMembers DEF SyncRows
<1> HIDE DEF row
<1>4. "done" \in Sync!Finished
  BY DEF Sync!Finished
<1>5. /\ SyncRowsFit' /\ SyncIssuesFit' /\ SyncCounts' /\ DOMAIN v1' = DOMAIN v1 /\ (v5' => v5) /\ (v6' => v6)
      /\ \A x \in DOMAIN v1 : v1'[x].ref = v1[x].ref /\ v1'[x].from = v1[x].from
      /\ v5' => \A x \in DOMAIN v1 : v1'[x].branch = v1[x].branch /\ v1'[x].url = v1[x].url
      /\ v6' => \A x \in DOMAIN v1 : v1[x].status \in Sync!Finished => v1'[x].status \in Sync!Finished
      /\ v6' => v1'[v4.t].status \in Sync!Finished
      /\ Sync!ReferencesExist' /\ (v6' => Sync!LinksAreStamped')
  <2>1. CASE v1[v4.t].status \in Sync!Finished /\ v1' = v1 /\ Sync!Fine
    <3>1. SyncCounts' /\ (v5' => v5) /\ (v6' => v6)
      BY <1>2, <2>1, SyncCalls
    <3>2. SyncRowsFit' /\ SyncIssuesFit'
      BY <1>1, <1>2, <2>1 DEF SyncRowsFit, SyncIssuesFit
    <3>3. Sync!ReferencesExist'
      BY <1>1, <2>1 DEF SyncKnows, Sync!ReferencesExist
    <3>4. v6' => Sync!LinksAreStamped'
      BY <1>1, <2>1, <3>1, SyncLinksKept DEF SyncKnows, SyncCalm
    <3> QED
      BY <2>1, <3>1, <3>2, <3>3, <3>4
  <2>2. CASE Sync!Update(v4.t, row)
    <3>1. /\ SyncRowsFit' /\ SyncIssuesFit' /\ SyncCounts' /\ DOMAIN v1' = DOMAIN v1 /\ (v5' => v5) /\ (v6' => v6)
          /\ v5' \/ v6' => v1'[v4.t] = row
          /\ \A x \in DOMAIN v1 : v1'[x].ref = v1[x].ref /\ v1'[x].from = v1[x].from
          /\ \A x \in DOMAIN v1 \ {v4.t} : v1'[x] = v1[x]
          /\ v6' => \A x \in DOMAIN v1 : v1[x].status \in Sync!Finished => v1'[x].status \in Sync!Finished
          /\ Sync!ReferencesExist' /\ (v6' => Sync!LinksAreStamped')
      BY <1>1, <1>2, <1>3, <2>2, SyncRowUpdated
    <3> QED
      BY <1>3, <1>4, <3>1
  <2> QED
    BY <1>1, <2>1, <2>2
<1>6. SyncPulls'
  BY <1>1 DEF SyncTypes, SyncPulls
<1>7. v4' \in SyncCommands /\ v4'.op = "sweep" /\ v4'.pc = "next" /\ v4'.todo = v4.todo /\ v4'.all = v4.all
  BY <1>1, <1>2, SyncMembers DEF SyncCommands, Sync!Go
<1>8. Sync!HoldsWhatExists'
  BY <1>2, <1>7 DEF Sync!HoldsWhatExists
<1>9. Sync!ListingHolds' /\ Sync!SyncSettles' /\ Sync!MonitorFinishes'
  BY <1>7 DEF Sync!ListingHolds, Sync!SyncSettles, Sync!MonitorFinishes
<1>10. Sync!SweepSettles'
  <2> SUFFICES ASSUME v4'.all, v5', NEW t \in DOMAIN v1', v3'[t] = "merged", v1'[t].branch \/ v1'[t].url,
                      Sync!IssueNumber(t)' # None
               PROVE  t \in v4'.todo \/ v2'[Sync!IssueNumber(t)'].state = "closed"
    BY DEF Sync!SweepSettles
  <2>1. Sync!IssueNumber(t)' = Sync!IssueNumber(t) /\ t \in DOMAIN v1
    BY <1>5, SyncNumbersStay
  <2>2. t \in v4.todo \/ v2[Sync!IssueNumber(t)].state = "closed"
    BY <1>1, <1>5, <1>7, <2>1 DEF SyncKnows, Sync!SweepSettles
  <2> QED
    BY <1>1, <1>7, <2>1, <2>2
<1>11. v6' => Sync!ClosedIsFinished'
  <2> SUFFICES ASSUME v6', NEW i \in DOMAIN v2', v2'[i].state = "closed", v2'[i].stamp # None
               PROVE  v1'[v2'[i].stamp].status \in Sync!Finished
    BY DEF Sync!ClosedIsFinished
  <2>1. Sync!ClosedIsFinished
    BY <1>5 DEF SyncCalm
  <2>2. v2[i].stamp \in DOMAIN v1 /\ (v1[v2[i].stamp].status \in Sync!Finished \/ v4.t = v2[i].stamp)
    BY <1>1, <2>1 DEF Sync!ClosedIsFinished, SyncKnows, Sync!ReferencesExist
  <2> QED
    BY <1>1, <1>5, <2>2
<1> QED
  BY <1>5, <1>6, <1>7, <1>8, <1>9, <1>10, <1>11 DEF SyncTypes, SyncKnows, SyncCalm

LEMMA SyncSweeps == ASSUME SyncTypes, SyncKnows, SyncCalm, Sync!Sweep
                    PROVE  SyncTypes' /\ SyncKnows' /\ SyncCalm'
<1>1. v4.op = "sweep" /\ v4.pc = "next" /\ UNCHANGED <<v1, v2, v3>>
  BY DEF Sync!Sweep
<1>2. v4 \in SyncCommands /\ SyncRowsFit /\ SyncIssuesFit /\ SyncPulls /\ SyncCounts
  BY DEF SyncTypes
<1>3. \/ v4' = Sync!Idle /\ Sync!Fine
      \/ \E t \in v4.todo :
          \/ /\ v4' = [v4 EXCEPT !.pc = "close", !.t = t, !.i = Sync!IssueNumber(t), !.todo = v4.todo \ {t}]
             /\ t \in DOMAIN v1 /\ Sync!IssueNumber(t) # None /\ Sync!Fine
          \/ v4' = [v4 EXCEPT !.todo = v4.todo \ {t}] /\ Sync!Fail
          \/ /\ v4' = [v4 EXCEPT !.todo = v4.todo \ {t}] /\ Sync!Fine
             /\ ~(/\ t \in DOMAIN v1 /\ (v1[t].url \/ v1[t].branch) /\ Sync!IssueNumber(t) # None
                  /\ v2[Sync!IssueNumber(t)].state = "open")
  BY DEF Sync!Sweep, Sync!Exists, Sync!End
<1>4. SyncCounts' /\ (v5' => v5) /\ (v6' => v6) /\ (Sync!Fail => ~v5' /\ ~v6')
  BY <1>2, <1>3, SyncCalls
<1>5. SyncRowsFit' /\ SyncIssuesFit' /\ SyncPulls'
  BY <1>1, <1>2 DEF SyncRowsFit, SyncIssuesFit, SyncPulls
<1>6. Sync!ReferencesExist' /\ (v6' => Sync!LinksAreStamped' /\ Sync!ClosedIsFinished')
  BY <1>1, <1>4, SyncWorldStays
<1>7. CASE v4' = Sync!Idle
  BY <1>4, <1>5, <1>6, <1>7, SyncIdle, SyncIdles DEF SyncTypes, SyncKnows, SyncCalm
<1>8. v4.todo \subseteq Tasks
  BY <1>1 DEF SyncKnows, Sync!HoldsWhatExists
<1>9. \A t : v4.todo \ {t} \in SyncTodos /\ v4.todo \ {t} \subseteq Tasks
  BY <1>8, SyncMembers
<1>10. ASSUME NEW t \in v4.todo, v4'.op = "sweep", v4'.pc \in {"next", "close"}, v4'.todo = v4.todo \ {t}, v4'.all = v4.all,
              v5' => \/ v4'.pc = "close" /\ v4'.t = t
                     \/ ~(/\ t \in DOMAIN v1 /\ (v1[t].url \/ v1[t].branch) /\ Sync!IssueNumber(t) # None
                          /\ v2[Sync!IssueNumber(t)].state = "open")
       PROVE  Sync!ListingHolds' /\ Sync!SyncSettles' /\ Sync!SweepSettles' /\ Sync!MonitorFinishes'
  <2>1. Sync!ListingHolds' /\ Sync!SyncSettles' /\ Sync!MonitorFinishes'
    BY <1>10 DEF Sync!ListingHolds, Sync!SyncSettles, Sync!MonitorFinishes
  <2>2. Sync!SweepSettles'
    <3> SUFFICES ASSUME v4'.all, v5', NEW x \in DOMAIN v1', v3'[x] = "merged", v1'[x].branch \/ v1'[x].url,
                        Sync!IssueNumber(x)' # None
                 PROVE  x \in v4'.todo \/ (v4'.pc = "close" /\ v4'.t = x) \/ v2'[Sync!IssueNumber(x)'].state = "closed"
      BY DEF Sync!SweepSettles
    <3>1. Sync!IssueNumber(x)' = Sync!IssueNumber(x) /\ x \in DOMAIN v1
      BY <1>1, SyncNumbersStay
    <3>2. x \in v4.todo \/ v2[Sync!IssueNumber(x)].state = "closed"
      BY <1>1, <1>4, <1>10, <3>1 DEF SyncKnows, Sync!SweepSettles
    <3>3. Sync!IssueNumber(x) \in DOMAIN v2
      BY <3>1, SyncNumbers DEF SyncKnows
    <3>4. v2[Sync!IssueNumber(x)].state \in {"open", "closed"}
      BY <1>2, <3>3, SyncFields DEF SyncIssuesFit, SyncStates
    <3> QED
      BY <1>1, <1>10, <3>1, <3>2, <3>3, <3>4
  <2> QED
    BY <2>1, <2>2
<1>11. ASSUME NEW t \in v4.todo, t \in DOMAIN v1, Sync!IssueNumber(t) # None,
              v4' = [v4 EXCEPT !.pc = "close", !.t = t, !.i = Sync!IssueNumber(t), !.todo = v4.todo \ {t}]
       PROVE  SyncTypes' /\ SyncKnows' /\ SyncCalm'
  <2> DEFINE n == Sync!IssueNumber(t)
  <2>1. n \in SyncIs /\ n \in DOMAIN v2 /\ t \in SyncTs
    BY <1>8, <1>11, SyncNumbers, SyncMembers DEF SyncKnows
  <2>2. n = Sync!IssueNumber(t)
    OBVIOUS
  <2> HIDE DEF n
  <2>3. /\ v4' \in SyncCommands /\ v4'.op = "sweep" /\ v4'.pc = "close" /\ v4'.t = t /\ v4'.i = n
        /\ v4'.todo = v4.todo \ {t} /\ v4'.all = v4.all
    BY <1>1, <1>2, <1>9, <1>11, <2>1, <2>2, SyncMembers DEF SyncCommands
  <2>4. Sync!HoldsWhatExists'
    BY <1>1, <1>9, <1>11, <2>1, <2>2, <2>3 DEF Sync!HoldsWhatExists, Sync!IssueNumber
  <2> QED
    BY <1>4, <1>5, <1>6, <1>10, <2>3, <2>4 DEF SyncTypes, SyncKnows, SyncCalm
<1>12. ASSUME NEW t \in v4.todo, v4' = [v4 EXCEPT !.todo = v4.todo \ {t}],
              v5' => ~(/\ t \in DOMAIN v1 /\ (v1[t].url \/ v1[t].branch) /\ Sync!IssueNumber(t) # None
                       /\ v2[Sync!IssueNumber(t)].state = "open")
       PROVE  SyncTypes' /\ SyncKnows' /\ SyncCalm'
  <2>1. v4' \in SyncCommands /\ v4'.op = "sweep" /\ v4'.pc = "next" /\ v4'.todo = v4.todo \ {t} /\ v4'.all = v4.all
    BY <1>1, <1>2, <1>9, <1>12 DEF SyncCommands
  <2>2. Sync!HoldsWhatExists'
    BY <1>9, <2>1 DEF Sync!HoldsWhatExists
  <2> QED
    BY <1>4, <1>5, <1>6, <1>10, <1>12, <2>1, <2>2 DEF SyncTypes, SyncKnows, SyncCalm
<1> QED
  BY <1>3, <1>4, <1>7, <1>11, <1>12
LEMMA SyncListsTitled == ASSUME SyncTypes, SyncKnows, SyncCalm, Sync!ListTitled
                         PROVE  SyncTypes' /\ SyncKnows' /\ SyncCalm'
<1> DEFINE titled == {i \in DOMAIN v2 : v2[i].state = "open" /\ v2[i].titled}
           snap == [i \in titled |-> v2[i]]
<1>1. v4.op = "sprint" /\ v4.pc = "list" /\ UNCHANGED <<v1, v2, v3>>
  BY DEF Sync!ListTitled
<1>2. v4 \in SyncCommands /\ SyncRowsFit /\ SyncIssuesFit /\ SyncPulls /\ SyncCounts
  BY DEF SyncTypes
<1>3. \/ v4' = [v4 EXCEPT !.pc = "file", !.snap = snap] /\ Sync!Fine
      \/ v4' = [v4 EXCEPT !.pc = "file"] /\ Sync!Fail
  BY DEF Sync!ListTitled, Sync!Go
<1>4. SyncCounts' /\ (v5' => v5) /\ (v6' => v6)
  BY <1>2, <1>3, SyncCalls
<1>5. SyncRowsFit' /\ SyncIssuesFit' /\ SyncPulls'
  BY <1>1, <1>2 DEF SyncRowsFit, SyncIssuesFit, SyncPulls
<1>6. Sync!ReferencesExist' /\ (v6' => Sync!LinksAreStamped' /\ Sync!ClosedIsFinished')
  BY <1>1, <1>4, SyncWorldStays
<1>7. snap \in SyncSnaps /\ DOMAIN snap = titled /\ (\A i \in titled : snap[i] = v2[i]) /\ titled \subseteq DOMAIN v2
  BY <1>2, SyncListings
<1> HIDE DEF titled, snap
<1>8. /\ v4' \in SyncCommands /\ v4'.op = "sprint" /\ v4'.pc = "file" /\ v4'.todo = v4.todo
      /\ v4'.snap = snap \/ v4'.snap = v4.snap
  BY <1>1, <1>2, <1>3, <1>7, SyncMembers DEF SyncCommands
<1>9. /\ DOMAIN v4.snap \subseteq DOMAIN v2 /\ (\A j \in DOMAIN v4.snap : v4.snap[j].stamp \in {None, v2[j].stamp})
      /\ v4.todo \subseteq DOMAIN v1
  BY <1>1 DEF SyncKnows, Sync!HoldsWhatExists
<1>10. DOMAIN v4'.snap \subseteq DOMAIN v2 /\ \A j \in DOMAIN v4'.snap : v4'.snap[j].stamp \in {None, v2[j].stamp}
  BY <1>7, <1>8, <1>9
<1>11. Sync!HoldsWhatExists'
  BY <1>1, <1>8, <1>9, <1>10 DEF Sync!HoldsWhatExists
<1>12. Sync!ListingHolds' /\ Sync!SyncSettles'
  BY <1>8 DEF Sync!ListingHolds, Sync!SyncSettles
<1> QED
  BY <1>4, <1>5, <1>6, <1>8, <1>11, <1>12, SyncGoesOn DEF SyncTypes, SyncKnows, SyncCalm

\* What a filing of sprint issues leaves: a row linked to an issue that names it.
LEMMA SyncFiled ==
    ASSUME SyncTypes, SyncKnows, SyncCalm, v4.op = "sprint", v4.pc = "file", v3' = v3, NEW t \in v4.todo,
           v4' = [v4 EXCEPT !.todo = v4.todo \ {t}],
           SyncRowsFit', SyncIssuesFit', SyncCounts', v6' => v6, DOMAIN v1' = DOMAIN v1,
           \A x \in DOMAIN v1 : v1'[x].from = v1[x].from,
           \A x \in DOMAIN v1 : \/ v1'[x].ref = v1[x].ref
                                \/ v1'[x].ref \in DOMAIN v2' /\ v2'[v1'[x].ref].stamp = x,
           v6' => \A x \in DOMAIN v1 : v1[x].status \in Sync!Finished => v1'[x].status \in Sync!Finished,
           DOMAIN v2 \subseteq DOMAIN v2', \A i \in DOMAIN v2 : v2'[i] = v2[i],
           \A i \in DOMAIN v2' \ DOMAIN v2 : v2'[i].stamp \in DOMAIN v1 \cup {None} /\ v2'[i].state = "open"
    PROVE  SyncTypes' /\ SyncKnows' /\ SyncCalm'
<1>1. v4 \in SyncCommands /\ Sync!ReferencesExist /\ (v6' => Sync!LinksAreStamped /\ Sync!ClosedIsFinished)
  BY DEF SyncTypes, SyncKnows, SyncCalm
<1>2. v4.todo \subseteq DOMAIN v1 /\ v4.todo \ {t} \in SyncTodos
  BY <1>1, SyncMembers, SyncFields DEF SyncKnows, Sync!HoldsWhatExists
<1>3. v4' \in SyncCommands /\ v4'.op = "sprint" /\ v4'.pc = "file" /\ v4'.todo = v4.todo \ {t} /\ v4'.snap = v4.snap
  BY <1>1, <1>2 DEF SyncCommands
<1>4. SyncTypes'
  BY <1>3 DEF SyncTypes, SyncPulls
<1>5. Sync!ReferencesExist'
  BY <1>1 DEF Sync!ReferencesExist
<1>6. Sync!HoldsWhatExists'
  <2>1. DOMAIN v4.snap \subseteq DOMAIN v2 /\ \A j \in DOMAIN v4.snap : v4.snap[j].stamp \in {None, v2[j].stamp}
    BY DEF SyncKnows, Sync!HoldsWhatExists
  <2>2. DOMAIN v4'.snap \subseteq DOMAIN v2' /\ \A j \in DOMAIN v4'.snap : v4'.snap[j].stamp \in {None, v2'[j].stamp}
    BY <1>3, <2>1
  <2> QED
    BY <1>2, <1>3, <2>2 DEF Sync!HoldsWhatExists
<1>7. Sync!ListingHolds' /\ Sync!SyncSettles'
  BY <1>3 DEF Sync!ListingHolds, Sync!SyncSettles
<1>8. v6' => Sync!LinksAreStamped'
  <2> SUFFICES ASSUME v6', NEW x \in DOMAIN v1', NEW i \in {v1'[x].ref, v1'[x].from} \ {None} PROVE v2'[i].stamp = x
    BY DEF Sync!LinksAreStamped
  <2>1. i \in {v1[x].ref, v1[x].from} \ {None} => i \in DOMAIN v2 /\ v2[i].stamp = x
    BY <1>1 DEF Sync!LinksAreStamped, Sync!ReferencesExist
  <2> QED
    BY <2>1
<1>9. v6' => Sync!ClosedIsFinished'
  <2>1. \A i \in DOMAIN v2' : v2'[i].state = "closed" => i \in DOMAIN v2 /\ v2[i] = v2'[i]
    OBVIOUS
  <2> QED
    BY <1>1, <2>1, SyncClosedKept
<1> QED
  BY <1>3, <1>4, <1>5, <1>6, <1>7, <1>8, <1>9, SyncGoesOn DEF SyncKnows, SyncCalm

LEMMA SyncFiles == ASSUME SyncTypes, SyncKnows, SyncCalm, Sync!File
                   PROVE  SyncTypes' /\ SyncKnows' /\ SyncCalm'
<1>1. v4.op = "sprint" /\ v4.pc = "file" /\ v3' = v3
  BY DEF Sync!File
<1>2. v4 \in SyncCommands /\ SyncRowsFit /\ SyncIssuesFit /\ SyncPulls /\ SyncCounts
  BY DEF SyncTypes
<1>3. \/ v4' = Sync!Idle /\ v1' = v1 /\ v2' = v2 /\ Sync!Fine
      \/ \E t \in v4.todo :
          /\ v4' = [v4 EXCEPT !.todo = v4.todo \ {t}]
          /\ \/ v2' = v2 /\ \E i \in DOMAIN v4.snap : v4.snap[i].stamp = t /\ Sync!Update(t, [v1[t] EXCEPT !.ref = i])
             \/ \E i \in Issues \ DOMAIN v2, b \in BOOLEAN :
                    v2' = Sync!Put(v2, i, Sync!NewIssue(t, TRUE, b)) /\ Sync!Update(t, [v1[t] EXCEPT !.ref = i])
             \/ v1' = v1 /\ v2' = v2 /\ (Sync!Fine \/ Sync!Fail)
  <2>1. CASE v4.todo = {}
    BY <2>1 DEF Sync!File, Sync!End
  <2>2. CASE v4.todo # {}
    BY <2>2 DEF Sync!File
  <2> QED
    BY <2>1, <2>2
<1>4. /\ DOMAIN v4.snap \subseteq DOMAIN v2 /\ v4.todo \subseteq DOMAIN v1
      /\ \A j \in DOMAIN v4.snap : v4.snap[j].stamp \in {None, v2[j].stamp}
  BY <1>1 DEF SyncKnows, Sync!HoldsWhatExists
<1>5. CASE v4' = Sync!Idle /\ v1' = v1 /\ v2' = v2 /\ Sync!Fine
  <2>1. SyncCounts' /\ (v6' => v6)
    BY <1>2, <1>5, SyncCalls
  <2>2. SyncRowsFit' /\ SyncIssuesFit' /\ SyncPulls'
    BY <1>1, <1>2, <1>5 DEF SyncRowsFit, SyncIssuesFit, SyncPulls
  <2>3. Sync!ReferencesExist' /\ (v6' => Sync!LinksAreStamped' /\ Sync!ClosedIsFinished')
    BY <1>1, <1>5, <2>1, SyncWorldStays
  <2> QED
    BY <1>5, <2>1, <2>2, <2>3, SyncIdle, SyncIdles DEF SyncTypes, SyncKnows, SyncCalm
<1>6. \A t \in v4.todo : t \in DOMAIN v1 /\ t \in SyncTs /\ t # None /\ v1[t] \in SyncRows
  BY <1>2, <1>4, SyncMembers, SyncConstants DEF SyncRowsFit
<1>7. ASSUME NEW t \in v4.todo, NEW i \in SyncIs, Sync!Update(t, [v1[t] EXCEPT !.ref = i])
      PROVE  /\ SyncRowsFit' /\ SyncCounts' /\ (v6' => v6) /\ DOMAIN v1' = DOMAIN v1
             /\ \A x \in DOMAIN v1 : v1'[x].from = v1[x].from
             /\ \A x \in DOMAIN v1 : v1'[x].ref = v1[x].ref \/ (x = t /\ v1'[x].ref = i)
             /\ v6' => \A x \in DOMAIN v1 : v1[x].status \in Sync!Finished => v1'[x].status \in Sync!Finished
  <2> DEFINE row == [v1[t] EXCEPT !.ref = i]
  <2>1. row \in SyncRows /\ row.ref = i /\ row.from = v1[t].from
    BY <1>6 DEF SyncRows
  <2>2. t \in DOMAIN v1 /\ Sync!Update(t, row)
    BY <1>6, <1>7
  <2> HIDE DEF row
  <2>3. /\ SyncRowsFit' /\ SyncCounts' /\ DOMAIN v1' = DOMAIN v1 /\ (v6' => v6)
        /\ v1'[t] \in {row, v1[t]}
        /\ \A x \in DOMAIN v1 \ {t} : v1'[x] = v1[x]
        /\ v6' => \A x \in DOMAIN v1 : v1[x].status \in Sync!Finished => v1'[x].status \in Sync!Finished
    BY <1>2, <2>1, <2>2, SyncUpdates
  <2> QED
    BY <2>1, <2>3
<1>8. ASSUME NEW t \in v4.todo, v4' = [v4 EXCEPT !.todo = v4.todo \ {t}], v2' = v2, NEW i \in DOMAIN v4.snap,
             v4.snap[i].stamp = t, Sync!Update(t, [v1[t] EXCEPT !.ref = i])
      PROVE  SyncTypes' /\ SyncKnows' /\ SyncCalm'
  <2>1. i \in DOMAIN v2 /\ i \in SyncIs /\ v2[i].stamp = t
    BY <1>2, <1>4, <1>6, <1>8, SyncMembers DEF SyncIssuesFit
  <2>2. SyncIssuesFit'
    BY <1>2, <1>8 DEF SyncIssuesFit
  <2>3. /\ SyncRowsFit' /\ SyncCounts' /\ (v6' => v6) /\ DOMAIN v1' = DOMAIN v1
        /\ \A x \in DOMAIN v1 : v1'[x].from = v1[x].from
        /\ \A x \in DOMAIN v1 : v1'[x].ref = v1[x].ref \/ (x = t /\ v1'[x].ref = i)
        /\ v6' => \A x \in DOMAIN v1 : v1[x].status \in Sync!Finished => v1'[x].status \in Sync!Finished
    BY <1>7, <1>8, <2>1
  <2>4. \A x \in DOMAIN v1 : v1'[x].ref = v1[x].ref \/ (v1'[x].ref \in DOMAIN v2' /\ v2'[v1'[x].ref].stamp = x)
    BY <1>8, <2>1, <2>3
  <2>5. DOMAIN v2 \subseteq DOMAIN v2' /\ (\A j \in DOMAIN v2 : v2'[j] = v2[j]) /\ DOMAIN v2' \ DOMAIN v2 = {}
    BY <1>8
  <2> QED
    BY <1>1, <1>8, <2>2, <2>3, <2>4, <2>5, SyncFiled
<1>9. ASSUME NEW t \in v4.todo, v4' = [v4 EXCEPT !.todo = v4.todo \ {t}], NEW i \in Issues \ DOMAIN v2, NEW b \in BOOLEAN,
             v2' = Sync!Put(v2, i, Sync!NewIssue(t, TRUE, b)), Sync!Update(t, [v1[t] EXCEPT !.ref = i])
      PROVE  SyncTypes' /\ SyncKnows' /\ SyncCalm'
  <2> DEFINE new == Sync!NewIssue(t, TRUE, b)
  <2>1. new \in SyncIssues /\ new.state = "open" /\ new.stamp = t
    <3>1. b \in SyncFlags
      BY DEF SyncFlags
    <3> QED
      BY <1>6, <3>1, SyncMembers DEF SyncIssues, Sync!NewIssue
  <2> HIDE DEF new
  <2>2. SyncIssuesFit' /\ DOMAIN v2' = DOMAIN v2 \cup {i} /\ v2'[i] = new /\ \A j \in DOMAIN v2 : v2'[j] = v2[j]
    BY <1>2, <1>9, <2>1, SyncPutsIssue DEF new
  <2>3. /\ SyncRowsFit' /\ SyncCounts' /\ (v6' => v6) /\ DOMAIN v1' = DOMAIN v1
        /\ \A x \in DOMAIN v1 : v1'[x].from = v1[x].from
        /\ \A x \in DOMAIN v1 : v1'[x].ref = v1[x].ref \/ (x = t /\ v1'[x].ref = i)
        /\ v6' => \A x \in DOMAIN v1 : v1[x].status \in Sync!Finished => v1'[x].status \in Sync!Finished
    BY <1>7, <1>9, SyncMembers
  <2>4. \A x \in DOMAIN v1 : v1'[x].ref = v1[x].ref \/ (v1'[x].ref \in DOMAIN v2' /\ v2'[v1'[x].ref].stamp = x)
    BY <2>1, <2>2, <2>3
  <2>5. \A j \in DOMAIN v2' \ DOMAIN v2 : v2'[j].stamp \in DOMAIN v1 \cup {None} /\ v2'[j].state = "open"
    BY <1>6, <2>1, <2>2
  <2> QED
    BY <1>1, <1>9, <2>2, <2>3, <2>4, <2>5, SyncFiled
<1>10. ASSUME NEW t \in v4.todo, v4' = [v4 EXCEPT !.todo = v4.todo \ {t}], v1' = v1, v2' = v2, Sync!Fine \/ Sync!Fail
       PROVE  SyncTypes' /\ SyncKnows' /\ SyncCalm'
  <2>1. SyncCounts' /\ (v6' => v6)
    BY <1>2, <1>10, SyncCalls
  <2>2. SyncRowsFit' /\ SyncIssuesFit'
    BY <1>2, <1>10 DEF SyncRowsFit, SyncIssuesFit
  <2>3. DOMAIN v2 \subseteq DOMAIN v2' /\ (\A j \in DOMAIN v2 : v2'[j] = v2[j]) /\ DOMAIN v2' \ DOMAIN v2 = {}
    BY <1>10
  <2> QED
    BY <1>1, <1>10, <2>1, <2>2, <2>3, SyncFiled
<1> QED
  BY <1>3, <1>5, <1>8, <1>9, <1>10

\* Everyone else leaves the command at work what it holds on to.
LEMMA SyncOthersAct ==
    ASSUME SyncTypes, SyncKnows, v4' = v4, v5' = (v4.op = "none"),
           DOMAIN v1' = DOMAIN v1, \A t \in DOMAIN v1 : v1'[t].ref = v1[t].ref /\ v1'[t].from = v1[t].from,
           DOMAIN v2 \subseteq DOMAIN v2', \A i \in DOMAIN v2 : v2'[i].stamp = v2[i].stamp,
           \A i \in DOMAIN v2' \ DOMAIN v2 : v2'[i].stamp = None,
           v6' => v6 /\ v1' = v1 /\ \A i \in DOMAIN v2 : v2'[i] = v2[i]
    PROVE  SyncKnows'
<1>1. Sync!ReferencesExist'
  BY SyncReferencesKept DEF SyncKnows
<1>2. Sync!HoldsWhatExists'
  <2>1. \A t \in DOMAIN v1 : Sync!IssueNumber(t)' = Sync!IssueNumber(t)
    BY SyncNumbersStay
  <2>2. Sync!HoldsWhatExists
    BY DEF SyncKnows
  <2>3. (v4.op = "none" => v4' = Sync!Idle) /\ (v4.op = "create" => v4.pc \in {"issue", "ref"} /\ v4.t \in DOMAIN v1'
            /\ (v4.pc = "ref" => v4.i \in DOMAIN v2' /\ v2'[v4.i].stamp = v4.t))
    BY <2>2 DEF Sync!HoldsWhatExists
  <2>4. v4.op = "monitor" => v4.pc \in {"find", "poll", "close"} /\ v4.t \in DOMAIN v1'
            /\ (v4.pc = "close" => v4.i = Sync!IssueNumber(v4.t)')
    BY <2>1, <2>2 DEF Sync!HoldsWhatExists, Sync!IssueNumber
  <2>5. v4.op = "sweep" => /\ v4.pc \in {"next", "close", "done"} /\ v4.todo \subseteq Tasks
                           /\ v4.pc \in {"close", "done"} => v4.t \in DOMAIN v1'
                           /\ v4.pc = "close" => v4.i = Sync!IssueNumber(v4.t)' /\ v4.i \in DOMAIN v2'
    BY <2>1, <2>2 DEF Sync!HoldsWhatExists, Sync!IssueNumber
  <2>6. v4.op \in {"sync", "sprint"} =>
            DOMAIN v4.snap \subseteq DOMAIN v2' /\ \A i \in DOMAIN v4.snap : v4.snap[i].stamp \in {None, v2'[i].stamp}
    BY <2>2 DEF Sync!HoldsWhatExists
  <2>7. v4.op = "sprint" => v4.pc \in {"list", "file"} /\ v4.todo \subseteq DOMAIN v1'
    BY <2>2 DEF Sync!HoldsWhatExists
  <2>8. v4.op = "sync" => /\ v4.pc \in {"list", "find", "write", "stamp"} /\ v4.todo \subseteq DOMAIN v4.snap
                          /\ v4.pc \in {"write", "stamp"} => v4.i \in DOMAIN v4.snap \ v4.todo
                          /\ v4.pc = "write" => v4.t \in DOMAIN v1' \cup {None}
                          /\ v4.pc = "stamp" => v4.t \in DOMAIN v1'
    BY <2>2 DEF Sync!HoldsWhatExists
  <2> QED
    BY <2>3, <2>4, <2>5, <2>6, <2>7, <2>8 DEF Sync!HoldsWhatExists, Sync!IssueNumber
<1>3. Sync!ListingHolds'
  <2> SUFFICES ASSUME v4.op = "sync", v6' PROVE Sync!ListingHolds'
    BY DEF Sync!ListingHolds
  <2>1. /\ DOMAIN v4.snap \subseteq DOMAIN v2 /\ v4.todo \subseteq DOMAIN v4.snap
        /\ v4.pc \in {"write", "stamp"} => v4.i \in DOMAIN v4.snap
    BY DEF SyncKnows, Sync!HoldsWhatExists
  <2>2. Sync!ListingHolds
    BY DEF SyncKnows
  <2>3. \A i \in DOMAIN v2 : Sync!TasksOf(i)' = Sync!TasksOf(i)
    BY DEF Sync!TasksOf
  <2>4. \A i \in v4'.todo : v4'.snap[i] = v2'[i]
    BY <2>1, <2>2 DEF Sync!ListingHolds
  <2>5. v4'.pc = "write" => /\ v4'.snap[v4'.i] = v2'[v4'.i]
                            /\ IF v4'.t = None THEN Sync!TasksOf(v4.i)' = {} ELSE v4'.t \in Sync!TasksOf(v4.i)'
    <3> SUFFICES ASSUME v4.pc = "write", NEW k \in DOMAIN v2, k = v4.i
                 PROVE  v4.snap[k] = v2'[k] /\ IF v4.t = None THEN Sync!TasksOf(k)' = {} ELSE v4.t \in Sync!TasksOf(k)'
      BY <2>1 DEF Sync!TasksOf
    <3>1. v4.snap[k] = v2[k] /\ IF v4.t = None THEN Sync!TasksOf(k) = {} ELSE v4.t \in Sync!TasksOf(k)
      BY <2>2 DEF Sync!ListingHolds
    <3> QED
      BY <2>3, <3>1
  <2>6. v4'.pc = "stamp" => v2'[v4'.i].stamp = None /\ v2'[v4'.i].state = "open" /\ v1'[v4'.t].ref = v4'.i
    BY <2>1, <2>2 DEF Sync!ListingHolds
  <2> QED
    BY <2>4, <2>5, <2>6 DEF Sync!ListingHolds
<1>4. Sync!SyncSettles' /\ Sync!SweepSettles'
  BY DEF Sync!SyncSettles, Sync!SweepSettles
<1> QED
  BY <1>1, <1>2, <1>3, <1>4 DEF SyncKnows

LEMMA SyncOthersFile == ASSUME SyncTypes, SyncKnows, SyncCalm, Sync!FileIssue
                        PROVE  SyncTypes' /\ SyncKnows' /\ SyncCalm'
<1> DEFINE new == [state |-> "open", stamp |-> None, titled |-> FALSE, body |-> TRUE]
<1>1. PICK i \in Issues \ DOMAIN v2 :
          v2' = Sync!Put(v2, i, new) /\ UNCHANGED <<v1, v3, v6, v4, faults>> /\ v5' = (v4.op = "none")
  BY DEF Sync!FileIssue, Sync!Elsewhere
<1>2. new \in SyncIssues /\ new.state = "open" /\ new.stamp = None
  BY SyncMembers DEF SyncIssues
<1> HIDE DEF new
<1>3. SyncIssuesFit' /\ DOMAIN v2' = DOMAIN v2 \cup {i} /\ v2'[i] = new /\ \A j \in DOMAIN v2 : v2'[j] = v2[j]
  BY <1>1, <1>2, SyncPutsIssue DEF SyncTypes
<1>4. SyncKnows'
  BY <1>1, <1>2, <1>3, SyncOthersAct
<1>5. SyncTypes'
  BY <1>1, <1>3 DEF SyncTypes, SyncRowsFit, SyncPulls, SyncCounts
<1>6. SyncCalm'
  <2> SUFFICES ASSUME v6' PROVE SyncCalm'
    BY DEF SyncCalm
  <2>1. Sync!ReferencesExist /\ Sync!LinksAreStamped /\ Sync!ClosedIsFinished /\ Sync!MonitorFinishes
    BY <1>1 DEF SyncKnows, SyncCalm
  <2>2. Sync!LinksAreStamped'
    BY <1>1, <1>3, <2>1, SyncLinksKept
  <2>3. Sync!ClosedIsFinished'
    BY <1>1, <1>2, <1>3, <2>1, SyncClosedKept
  <2>4. Sync!MonitorFinishes'
    BY <1>1, <2>1 DEF Sync!MonitorFinishes
  <2> QED
    BY <2>2, <2>3, <2>4 DEF SyncCalm
<1> QED
  BY <1>4, <1>5, <1>6

LEMMA SyncOthersReview == ASSUME SyncTypes, SyncKnows, SyncCalm, NEW t \in Tasks, Sync!Review(t)
                          PROVE  SyncTypes' /\ SyncKnows' /\ SyncCalm'
<1>1. /\ UNCHANGED <<v1, v2, v6, v4, faults>> /\ v5' = (v4.op = "none")
      /\ \E s \in {"changes", "merged"} : v3' = [v3 EXCEPT ![t] = s]
  BY DEF Sync!Review, Sync!Elsewhere
<1>2. SyncPulls'
  BY <1>1 DEF SyncTypes, SyncPulls
<1>3. SyncTypes'
  BY <1>1, <1>2 DEF SyncTypes, SyncRowsFit, SyncIssuesFit, SyncCounts
<1>4. SyncKnows'
  BY <1>1, SyncOthersAct
<1>5. SyncCalm'
  BY <1>1 DEF SyncCalm, Sync!LinksAreStamped, Sync!ClosedIsFinished, Sync!MonitorFinishes
<1> QED
  BY <1>3, <1>4, <1>5

LEMMA SyncByHand == ASSUME SyncTypes, Sync!ByHand
                    PROVE  SyncCounts' /\ v4' = v4 /\ v5' = (v4.op = "none") /\ v6' = FALSE
<1>1. faults' \in 0 .. MaxFaults
  BY SyncConstants DEF SyncTypes, SyncCounts, Sync!ByHand
<1>2. v4' = v4 /\ v5' = (v4.op = "none") /\ v6' = FALSE
  BY DEF Sync!ByHand
<1> QED
  BY <1>1, <1>2 DEF SyncCounts

LEMMA SyncOthersToggle == ASSUME SyncTypes, SyncKnows, SyncCalm, NEW i \in DOMAIN v2, Sync!Toggle(i)
                          PROVE  SyncTypes' /\ SyncKnows' /\ SyncCalm'
<1> DEFINE s == IF v2[i].state = "open" THEN "closed" ELSE "open"
<1>1. v2' = [v2 EXCEPT ![i].state = s] /\ UNCHANGED <<v1, v3>> /\ Sync!ByHand
  BY DEF Sync!Toggle
<1>2. SyncCounts' /\ v4' = v4 /\ v5' = (v4.op = "none") /\ v6' = FALSE
  BY <1>1, SyncByHand
<1>3. s \in SyncStates /\ v2[i] \in SyncIssues
  BY SyncMembers DEF SyncTypes, SyncIssuesFit
<1> HIDE DEF s
<1>4. v2'[i] = [v2[i] EXCEPT !.state = s] /\ DOMAIN v2' = DOMAIN v2 /\ \A j \in DOMAIN v2 \ {i} : v2'[j] = v2[j]
  BY <1>1
<1>5. v2'[i] \in SyncIssues /\ v2'[i].stamp = v2[i].stamp
  BY <1>3, <1>4 DEF SyncIssues
<1>6. SyncTypes'
  BY <1>1, <1>2, <1>4, <1>5 DEF SyncTypes, SyncRowsFit, SyncIssuesFit, SyncPulls
<1>7. SyncKnows'
  BY <1>1, <1>2, <1>4, <1>5, SyncOthersAct
<1> QED
  BY <1>2, <1>6, <1>7 DEF SyncCalm

LEMMA SyncOthersSetStatus ==
    ASSUME SyncTypes, SyncKnows, SyncCalm, NEW t \in DOMAIN v1, NEW s \in {"approved", "cancelled"}, Sync!SetStatus(t, s)
    PROVE  SyncTypes' /\ SyncKnows' /\ SyncCalm'
<1>1. v1' = [v1 EXCEPT ![t].status = s] /\ UNCHANGED <<v2, v3>> /\ Sync!ByHand
  BY DEF Sync!SetStatus
<1>2. SyncCounts' /\ v4' = v4 /\ v5' = (v4.op = "none") /\ v6' = FALSE
  BY <1>1, SyncByHand
<1>3. s \in SyncStatuses /\ v1[t] \in SyncRows
  BY SyncMembers DEF SyncTypes, SyncRowsFit
<1>4. v1'[t] = [v1[t] EXCEPT !.status = s] /\ DOMAIN v1' = DOMAIN v1 /\ \A x \in DOMAIN v1 \ {t} : v1'[x] = v1[x]
  BY <1>1
<1>5. v1'[t] \in SyncRows /\ v1'[t].ref = v1[t].ref /\ v1'[t].from = v1[t].from
  BY <1>3, <1>4 DEF SyncRows
<1>6. SyncTypes'
  BY <1>1, <1>2, <1>4, <1>5 DEF SyncTypes, SyncRowsFit, SyncIssuesFit, SyncPulls
<1>7. SyncKnows'
  BY <1>1, <1>2, <1>4, <1>5, SyncOthersAct
<1> QED
  BY <1>2, <1>6, <1>7 DEF SyncCalm

LEMMA SyncIsInterrupted == ASSUME SyncTypes, SyncKnows, SyncCalm, Sync!Interrupted
                           PROVE  SyncTypes' /\ SyncKnows' /\ SyncCalm'
<1>1. v4' = Sync!Idle /\ Sync!Fail /\ UNCHANGED <<v1, v2, v3>>
  BY DEF Sync!Interrupted, Sync!End
<1>2. SyncCounts' /\ ~v6'
  BY <1>1, SyncCalls DEF SyncTypes
<1>3. SyncTypes'
  BY <1>1, <1>2, SyncIdle DEF SyncTypes, SyncRowsFit, SyncIssuesFit, SyncPulls
<1>4. Sync!ReferencesExist'
  BY <1>1 DEF SyncKnows, Sync!ReferencesExist
<1> QED
  BY <1>1, <1>2, <1>3, <1>4, SyncIdles DEF SyncKnows, SyncCalm

LEMMA SyncNext == Sync!IInv /\ Sync!Next => Sync!IInv'
<1> SUFFICES ASSUME SyncTypes, SyncKnows, SyncCalm, Sync!Next PROVE SyncTypes' /\ SyncKnows' /\ SyncCalm'
  BY SyncInductive, SyncInductiveNext
<1>1. CASE \E t \in Tasks : Sync!CreateTask(t)
  BY <1>1, SyncCreatesTask
<1>2. CASE Sync!CreateIssue \/ Sync!CrossRef
  BY <1>2, SyncCreatesIssue, SyncCrossRefs
<1>3. CASE \E all \in BOOLEAN : Sync!StartSync(all)
  BY <1>3, SyncStartsSync
<1>4. CASE Sync!ListIssues \/ Sync!Find
  BY <1>4, SyncLists, SyncFinds
<1>5. CASE Sync!SyncClosed \/ Sync!SyncOpen \/ Sync!SyncCreate \/ Sync!StampTaskID
  BY <1>5, SyncClosesTask, SyncDescribes, SyncMakesTask, SyncStamps
<1>6. CASE \E t \in Tasks : Sync!TaskStart(t) \/ Sync!TaskPR(t) \/ Sync!StartMonitor(t) \/ Sync!CloseDone(t) \/ Sync!Review(t)
  BY <1>6, SyncStartsTask, SyncStartsMonitor, SyncStartsCloseDone, SyncOthersReview
<1>7. CASE Sync!FindPR \/ Sync!Poll \/ Sync!MonitorClose
  BY <1>7, SyncFindsPR, SyncPolls, SyncMonitorCloses
<1>8. CASE Sync!StartSweep \/ Sync!Sweep \/ Sync!SweepClose \/ Sync!SweepDone
  BY <1>8, SyncStartsSweep, SyncSweeps, SyncSweepCloses, SyncSweepFinishes
<1>9. CASE Sync!StartSprintSync \/ Sync!ListTitled \/ Sync!File
  BY <1>9, SyncStartsSprint, SyncListsTitled, SyncFiles
<1>10. CASE Sync!FileIssue \/ (\E i \in DOMAIN v2 : Sync!Toggle(i))
            \/ \E t \in DOMAIN v1, s \in {"approved", "cancelled"} : Sync!SetStatus(t, s)
  BY <1>10, SyncOthersFile, SyncOthersToggle, SyncOthersSetStatus
<1>11. CASE Sync!Interrupted
  BY <1>11, SyncIsInterrupted
<1> QED
  BY <1>1, <1>2, <1>3, <1>4, <1>5, <1>6, <1>7, <1>8, <1>9, <1>10, <1>11 DEF Sync!Next
LEMMA SyncRests == Sync!IInv /\ UNCHANGED Sync!vars => Sync!IInv'
<1> SUFFICES ASSUME SyncTypes, SyncKnows, SyncCalm, UNCHANGED <<v1, v2, v3, v4, faults, v5, v6>>
             PROVE  SyncTypes' /\ SyncKnows' /\ SyncCalm'
  BY SyncInductive, SyncInductiveNext DEF Sync!vars
<1>1. SyncTypes'
  BY DEF SyncTypes, SyncRowsFit, SyncIssuesFit, SyncPulls, SyncCounts
<1>2. Sync!ReferencesExist' /\ Sync!HoldsWhatExists'
  BY DEF SyncKnows, Sync!ReferencesExist, Sync!HoldsWhatExists, Sync!IssueNumber
<1>3. Sync!ListingHolds'
  BY DEF SyncKnows, Sync!ListingHolds, Sync!TasksOf
<1>4. Sync!SyncSettles'
  BY DEF SyncKnows, Sync!SyncSettles, Sync!Settled, Sync!TasksOf
<1>5. Sync!SweepSettles'
  BY DEF SyncKnows, Sync!SweepSettles, Sync!IssueNumber
<1>6. SyncCalm'
  BY DEF SyncCalm, Sync!LinksAreStamped, Sync!ClosedIsFinished, Sync!MonitorFinishes
<1> QED
  BY <1>1, <1>2, <1>3, <1>4, <1>5, <1>6 DEF SyncKnows

LEMMA SyncAlwaysKnows == Spec => [](part = "tasks" => Sync!IInv)
<1> DEFINE Kept == part = "tasks" => Sync!IInv
<1>1. Init => Kept
  BY SyncStarts, SyncInductive DEF Init
<1>2. Kept /\ [Next]_vars => Kept'
  BY SyncNext, SyncRests DEF Next, vars, Sync!vars
<1> QED
  BY <1>1, <1>2, PTL DEF Spec

\* A step that makes a row while a sync works, or that ends a sync or a sweep
\* without a failure.
LEMMA SyncStepsThat ==
    ASSUME SyncTypes, Sync!Next
    PROVE  /\ v4.op = "sync" /\ DOMAIN v1' # DOMAIN v1 => v4.pc = "write" /\ v4.t = None
           /\ v4.op = "sync" /\ v4.pc = "find" /\ v4'.op = "none" /\ v5' => v4.todo = {}
           /\ v4.op = "sweep" /\ v4'.op = "none" /\ v5' => v4.pc = "next" /\ v4.todo = {}
<1> SUFFICES ASSUME v4.op \in {"sync", "sweep"}
             PROVE  /\ v4.op = "sync" /\ DOMAIN v1' # DOMAIN v1 => v4.pc = "write" /\ v4.t = None
                    /\ v4.op = "sync" /\ v4.pc = "find" /\ v4'.op = "none" /\ v5' => v4.todo = {}
                    /\ v4.op = "sweep" /\ v4'.op = "none" /\ v5' => v4.pc = "next" /\ v4.todo = {}
  OBVIOUS
<1>1. v4 \in SyncCommands
  BY DEF SyncTypes
<1>2. ASSUME NEW pc, Sync!Go(pc) PROVE v4'.op = v4.op
  BY <1>1, <1>2 DEF Sync!Go, SyncCommands
<1>3. CASE Sync!ListIssues
  BY <1>3 DEF Sync!ListIssues, Sync!Fail
<1>4. CASE Sync!Find
  <2>1. CASE v4.todo = {}
    BY <1>4, <2>1 DEF Sync!Find
  <2>2. CASE v4.todo # {}
    <3>1. \E i, t : v4' = [v4 EXCEPT !.pc = "write", !.t = t, !.i = i, !.todo = v4.todo \ {i}]
      BY <1>4, <2>2 DEF Sync!Find
    <3>2. v4'.op = v4.op
      BY <1>1, <3>1 DEF SyncCommands
    <3> QED
      BY <1>4, <3>2 DEF Sync!Find
  <2> QED
    BY <2>1, <2>2
<1>5. CASE Sync!SyncClosed
  <2>1. DOMAIN v1' = DOMAIN v1
    BY <1>5 DEF Sync!SyncClosed, Sync!Update
  <2> QED
    BY <1>2, <1>5, <2>1 DEF Sync!SyncClosed
<1>6. CASE Sync!SyncOpen
  <2>1. DOMAIN v1' = DOMAIN v1
    BY <1>6 DEF Sync!SyncOpen
  <2> QED
    BY <1>2, <1>6, <2>1 DEF Sync!SyncOpen
<1>7. CASE Sync!SyncCreate
  BY <1>7 DEF Sync!SyncCreate
<1>8. CASE Sync!StampTaskID
  BY <1>2, <1>8 DEF Sync!StampTaskID
<1>9. CASE Sync!Sweep
  <2>1. CASE v4.todo = {}
    BY <1>9, <2>1 DEF Sync!Sweep
  <2>2. CASE v4.todo # {}
    <3>1. \E t \in v4.todo : \/ v4' = [v4 EXCEPT !.pc = "close", !.t = t, !.i = Sync!IssueNumber(t), !.todo = v4.todo \ {t}]
                             \/ v4' = [v4 EXCEPT !.todo = v4.todo \ {t}]
      BY <1>9, <2>2 DEF Sync!Sweep
    <3>2. v4'.op = v4.op
      BY <1>1, <3>1 DEF SyncCommands
    <3> QED
      BY <1>9, <3>2 DEF Sync!Sweep
  <2> QED
    BY <2>1, <2>2
<1>10. CASE Sync!SweepClose
  BY <1>2, <1>10 DEF Sync!SweepClose
<1>11. CASE Sync!SweepDone
  BY <1>2, <1>11 DEF Sync!SweepDone
<1>12. CASE Sync!FileIssue \/ (\E t \in Tasks : Sync!Review(t)) \/ (\E i \in DOMAIN v2 : Sync!Toggle(i))
            \/ \E t \in DOMAIN v1, s \in {"approved", "cancelled"} : Sync!SetStatus(t, s)
  <2>1. v4' = v4 /\ DOMAIN v1' = DOMAIN v1
    BY <1>12 DEF Sync!FileIssue, Sync!Review, Sync!Toggle, Sync!SetStatus, Sync!Elsewhere, Sync!ByHand
  <2> QED
    BY <2>1
<1>13. CASE Sync!Interrupted
  BY <1>13 DEF Sync!Interrupted, Sync!Fail
<1>14. ~(\E t \in Tasks : Sync!CreateTask(t)) /\ ~Sync!CreateIssue /\ ~Sync!CrossRef /\ ~(\E all \in BOOLEAN : Sync!StartSync(all))
  BY DEF Sync!CreateTask, Sync!CreateIssue, Sync!CrossRef, Sync!StartSync, Sync!Begin
<1>15. ~(\E t \in Tasks : Sync!TaskStart(t) \/ Sync!TaskPR(t) \/ Sync!StartMonitor(t) \/ Sync!CloseDone(t))
  BY DEF Sync!TaskStart, Sync!TaskPR, Sync!StartMonitor, Sync!CloseDone, Sync!Begin
<1>16. ~Sync!FindPR /\ ~Sync!Poll /\ ~Sync!MonitorClose /\ ~Sync!StartSweep
  BY DEF Sync!FindPR, Sync!Poll, Sync!MonitorClose, Sync!StartSweep, Sync!Begin
<1>17. ~Sync!StartSprintSync /\ ~Sync!ListTitled /\ ~Sync!File
  BY DEF Sync!StartSprintSync, Sync!ListTitled, Sync!File, Sync!Begin
<1> QED
  BY <1>3, <1>4, <1>5, <1>6, <1>7, <1>8, <1>9, <1>10, <1>11, <1>12, <1>13, <1>14, <1>15, <1>16, <1>17 DEF Sync!Next

LEMMA SyncAgrees == ASSUME Sync!IInv, Sync!Next PROVE Sync!IssuesAndTasksAgree
<1>0. SyncTypes /\ SyncKnows /\ SyncCalm
  BY SyncInductive
<1>1. v4.op = "sync" /\ DOMAIN v1' # DOMAIN v1 /\ v5 => Sync!TasksOf(v4.i) = {}
  BY <1>0, SyncStepsThat DEF SyncKnows, Sync!ListingHolds
<1>2. ASSUME Sync!Ends("sync"), v4.pc = "find", DOMAIN v1 # Tasks, NEW i \in DOMAIN v2
      PROVE  IF v2[i].state = "open" THEN Sync!TasksOf(i) # {}
             ELSE v4.all /\ Sync!TasksOf(i) # {} => \E t \in Sync!TasksOf(i) : v1[t].status \in Sync!Finished
  <2>1. v4.op = "sync" /\ v5 /\ v4.todo = {}
    BY <1>0, <1>2, SyncStepsThat DEF Sync!Ends
  <2>2. CASE i \notin DOMAIN v4.snap
    BY <1>0, <1>2, <2>1, <2>2 DEF SyncKnows, Sync!SyncSettles
  <2>3. CASE i \in DOMAIN v4.snap
    <3>1. Sync!Settled(i)
      BY <1>0, <1>2, <2>1, <2>3 DEF SyncKnows, Sync!SyncSettles
    <3> QED
      BY <1>2, <3>1 DEF Sync!Settled
  <2> QED
    BY <2>2, <2>3
<1>3. ASSUME Sync!Ends("sweep"), NEW t \in DOMAIN v1, v3[t] = "merged", v1[t].branch \/ v1[t].url,
             Sync!IssueNumber(t) # None, v4.all
      PROVE  v2[Sync!IssueNumber(t)].state = "closed"
  <2>1. v4.op = "sweep" /\ v5 /\ v4.pc = "next" /\ v4.todo = {}
    BY <1>0, <1>3, SyncStepsThat DEF Sync!Ends
  <2> QED
    BY <1>0, <1>3, <2>1 DEF SyncKnows, Sync!SweepSettles
<1> QED
  BY <1>1, <1>2, <1>3 DEF Sync!IssuesAndTasksAgree

LEMMA SyncFinishesMerged == Sync!IInv => Sync!MergedWorkIsFinished
<1> SUFFICES ASSUME Sync!IInv, v6, v4.op = "none", NEW t \in DOMAIN v1, Sync!IssueNumber(t) # None,
                    v2[Sync!IssueNumber(t)].state = "closed"
             PROVE  v1[t].status \in Sync!Finished
  BY DEF Sync!MergedWorkIsFinished
<1> DEFINE i == Sync!IssueNumber(t)
<1>0. SyncTypes /\ SyncKnows /\ SyncCalm
  BY SyncInductive
<1>1. i \in DOMAIN v2 /\ i \in {v1[t].ref, v1[t].from} \ {None}
  BY <1>0, SyncNumbers DEF SyncKnows
<1>2. v2[i].stamp = t /\ t # None
  BY <1>0, <1>1, SyncConstants DEF SyncCalm, Sync!LinksAreStamped, SyncTypes, SyncRowsFit
<1> QED
  BY <1>0, <1>1, <1>2 DEF SyncCalm, Sync!ClosedIsFinished

LEMMA SyncFinishesMergedNext == Sync!IInv' => Sync!MergedWorkIsFinished'
BY SyncFinishesMerged, PTL

\* An undisturbed sync makes a task only for an issue no task stood for and
\* leaves every issue settled, an undisturbed sweep leaves no merged work open,
\* and where nothing failed and nobody interfered, merged work whose issue is
\* closed is finished in the database - whatever was left half done before, for
\* any number of tasks and issues (internal/cli/github_sync.go and
\* internal/cli/github_sweep.go).
THEOREM TasksAlwaysFollowGitHub == Spec => TasksFollowGitHub
<1> DEFINE Kept == part = "tasks" => Sync!IInv
<1>1. Kept /\ Kept' /\ [Next]_vars => (part = "tasks" => Sync!IssuesAndTasksAgree /\ Sync!MergedWorkIsFinished')
  <2> SUFFICES ASSUME Kept, Kept', [Next]_vars, part = "tasks"
               PROVE  Sync!IssuesAndTasksAgree /\ Sync!MergedWorkIsFinished'
    OBVIOUS
  <2>1. part' = "tasks"
    BY DEF Next, vars
  <2>2. Sync!MergedWorkIsFinished'
    BY <2>1, SyncFinishesMergedNext
  <2>3. CASE UNCHANGED vars
    BY <2>2, <2>3 DEF vars, Sync!IssuesAndTasksAgree, Sync!Ends
  <2>4. CASE Next
    BY <2>2, <2>4, SyncAgrees DEF Next
  <2> QED
    BY <2>2, <2>3, <2>4
<1>2. Spec => [][part = "tasks" => Sync!IssuesAndTasksAgree /\ Sync!MergedWorkIsFinished']_vars
  BY <1>1, SyncAlwaysKnows, PTL DEF Spec
<1> QED
  BY <1>2 DEF TasksFollowGitHub
=============================================================================
