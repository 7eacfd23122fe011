-------------------------- MODULE NotionSyncProofs --------------------------
(***************************************************************************)
(* What lw knowledge sync guarantees of one page for every set of values,  *)
(* every owner of the property and any number of edits, failed calls, lost *)
(* replies, archivings, reindexes and kills.                               *)
(***************************************************************************)
EXTENDS NotionSync, TLAPS

-----------------------------------------------------------------------------
(* The strengthening: what the engine holds between two steps.             *)

\* Every value of these contents has been on Notion.
Seen(contents) == \A f \in Fields : <<f, contents[f]>> \in had

\* Notion has changed since this version was read, or has this content.
UpToDate(version) ==
    \/ version.edited < remote.edited
    \/ version.edited = remote.edited /\ version.content = remote.content

\* What replaces the local contents loses nothing that only the print had.
KeepsLocal(contents, next) ==
    \A f \in Fields : \/ contents[f] = next[f]
                      \/ <<f, contents[f]>> \in had
                      \/ owner[f] = "external"

\* The base of a merge was once on Notion, and the last version that was
\* written is no newer than Notion.
Known ==
    /\ Seen(remote.content)
    /\ binding # None => Seen(binding.base)
    /\ binding # None /\ binding.written # None => UpToDate(binding.written)

\* A fetch has a purpose, and what was read was on Notion.
Reads ==
    /\ engine.pc \in {"fetch_page", "fetch_body"} => engine.stage # "cached"
    /\ engine.pc \in {"fetch_body", "load"} =>
          /\ engine.ext # None
          /\ Seen(engine.ext.content)
          /\ UpToDate(engine.ext)

Delivering ==
    \/ engine.pc \in {"patch_property", "patch_body"}
    \/ engine.pc \in {"fetch_page", "fetch_body"} /\ engine.stage \in {"check", "readback"}

\* From the merge to the read-back: the target keeps the local edits, and
\* changes what Notion had only where it had the base or the print decides.
Delivers ==
    Delivering =>
        /\ page # None /\ engine.local # None
        /\ engine.before # None /\ engine.target # None
        /\ Seen(engine.before)
        /\ KeepsLocal(engine.local.content, engine.target)
        /\ \A f \in Fields : engine.target[f] # engine.before[f] =>
               owner[f] = "local" \/ engine.before[f] = binding.base[f]

\* Update writes only over the version that was merged.
Patches ==
    engine.pc \in {"patch_property", "patch_body"} =>
        engine.ext # None /\ engine.ext.content = engine.before

\* The version that is about to be accepted was read from Notion.
Accepts ==
    engine.pc = "reread" =>
        /\ page # None /\ engine.local # None
        /\ engine.ext # None /\ engine.target # None
        /\ engine.ext.content = engine.target
        /\ Seen(engine.target)
        /\ UpToDate(engine.ext)
        /\ KeepsLocal(engine.local.content, engine.target)

\* What is saved.
Saves ==
    /\ engine.pc \in {"fold_page", "fold_binding", "save_page", "save_binding"} =>
          /\ binding # None
          /\ engine.target # None
          /\ Seen(engine.target)
    /\ engine.pc \in {"fold_page", "save_page"} =>
          /\ engine.ext # None
          /\ page # None => /\ engine.local # None
                            /\ KeepsLocal(engine.local.content, engine.ext.content)
    /\ engine.pc \in {"save_page", "save_binding"} =>
          engine.ext # None /\ UpToDate(engine.ext)

IInv == TypeOK /\ Known /\ Reads /\ Delivers /\ Patches /\ Accepts /\ Saves

-----------------------------------------------------------------------------
(* What the steps have in common.                                          *)

\* The sync of one page leaves what Run was configured with.
EngineFrame == UNCHANGED <<owner, bidirectional>> /\ Remember

\* At rest there is nothing to hold.
AtRest == engine.pc \in {"idle", "fail", "project"}

\* The parts that speak of the engine at work.
Work == Reads /\ Delivers /\ Patches /\ Accepts /\ Saves

LEMMA Types ==
    ASSUME TypeOK
    PROVE  /\ remote.content \in Contents /\ remote.edited \in Nat
           /\ remote.archived \in BOOLEAN /\ remote.complete \in BOOLEAN
           /\ page # None => page \in Pages /\ page.content \in Contents /\ page.edited \in Nat
           /\ binding # None => /\ binding \in Bindings
                                /\ binding.base \in Contents
                                /\ binding.written # None => /\ binding.written \in Pages
                                                             /\ binding.written.edited \in Nat
           /\ engine.pc \in Steps /\ engine.stage \in Stages
           /\ engine.ext # None => /\ engine.ext \in Pages /\ engine.ext.content \in Contents
                                   /\ engine.ext.edited \in Nat
           /\ engine.local # None => /\ engine.local \in Pages
                                     /\ engine.local.content \in Contents
           /\ engine.before # None => engine.before \in Contents
           /\ engine.target # None => engine.target \in Contents
BY DEF TypeOK, Pages, Bindings, Engines

LEMMA RestHoldsNothing ==
    ASSUME AtRest
    PROVE  Work
BY DEF AtRest, Work, Reads, Delivers, Delivering, Patches, Accepts, Saves

\* A step that leaves Notion alone adds nothing to what it had.
LEMMA HadStays ==
    ASSUME Known, remote' = remote, Remember
    PROVE  had' = had
BY DEF Known, Seen, Remember, Shown

\* Notion's history only grows, by what it has now.
LEMMA HadGrows ==
    ASSUME Remember
    PROVE  had \subseteq had' /\ Seen(remote.content)'
BY DEF Remember, Shown, Seen

-----------------------------------------------------------------------------
(* The initial states.                                                     *)

LEMMA InitIInv == Init => IInv
<1> SUFFICES ASSUME Init PROVE IInv
  OBVIOUS
<1>0. PICK c \in BOOLEAN :
         remote = [content |-> [f \in Fields |-> Empty], edited |-> 1,
                   archived |-> FALSE, complete |-> c]
  BY DEF Init
<1>1. remote \in Pages
  BY <1>0, ValuesAssumption DEF Pages, Contents
<1>2. PICK o \in Owners : owner = [property |-> o, markdown |-> "reconcile"]
  BY DEF Init
<1>3. owner \in [Fields -> Owners \cup {"reconcile"}]
  BY <1>2 DEF Fields
<1>4. engine \in Engines
  BY DEF Init, Idle, Engines, Steps, Stages
<1>5. TypeOK
  BY <1>1, <1>3, <1>4, BoundAssumption DEF Init, TypeOK
<1>6. Known
  BY DEF Init, Known, Seen, Shown
<1>7. Work
  BY RestHoldsNothing DEF Init, Idle, AtRest
<1> QED
  BY <1>5, <1>6, <1>7 DEF IInv, Work

-----------------------------------------------------------------------------
(* The steps of the sync.                                                  *)

\* A step of the sync that leaves Notion, the print and the binding alone
\* knows what it knew.
LEMMA KnownStays ==
    ASSUME Known, remote' = remote, binding' = binding, had' = had
    PROVE  Known'
BY DEF Known, Seen, UpToDate

LEMMA ListPagesKeeps ==
    ASSUME IInv, ListPages, EngineFrame
    PROVE  IInv'
<1>1. had' = had
  BY HadStays DEF IInv, ListPages, EngineFrame
<1>2. TypeOK'
  BY DEF IInv, TypeOK, ListPages, EngineFrame, Engines, Idle, Steps, Stages, PageUnchanged
<1>3. Known'
  BY <1>1, KnownStays DEF IInv, ListPages
<1>4. Work'
  <2>1. CASE engine' = [Idle EXCEPT !.pc = "fetch_page", !.stage = "reconcile"]
    BY <2>1 DEF Work, Reads, Delivers, Delivering, Patches, Accepts, Saves, Idle
  <2>2. CASE engine' = [Idle EXCEPT !.pc = "project", !.ext = page]
    BY <2>2 DEF Work, Reads, Delivers, Delivering, Patches, Accepts, Saves, Idle
  <2> QED
    BY <2>1, <2>2 DEF ListPages
<1> QED
  BY <1>2, <1>3, <1>4 DEF IInv, Work

LEMMA FetchPageKeeps ==
    ASSUME IInv, FetchPage, EngineFrame
    PROVE  IInv'
<1>0. engine' = [engine EXCEPT !.pc = "fetch_body", !.ext = remote]
  BY DEF FetchPage
<1>1. had' = had
  BY HadStays DEF IInv, FetchPage, EngineFrame
<1>2. TypeOK'
  BY <1>0 DEF IInv, TypeOK, FetchPage, EngineFrame, Engines, Steps
<1>3. Known'
  BY <1>1, KnownStays DEF IInv, FetchPage
<1>4. remote # None /\ engine'.ext = remote
  BY <1>0, NoneAssumption DEF IInv, TypeOK, Engines
<1>5. Reads'
  BY <1>0, <1>1, <1>4 DEF IInv, TypeOK, Engines, Known, Reads, Seen, UpToDate, FetchPage, At
<1>6. Delivers'
  BY <1>0, <1>1 DEF IInv, TypeOK, Engines, Delivers, Delivering, Seen, KeepsLocal, FetchPage,
                   EngineFrame, At
<1>7. Patches' /\ Accepts' /\ Saves'
  BY <1>0 DEF IInv, TypeOK, Engines, Patches, Accepts, Saves
<1> QED
  BY <1>2, <1>3, <1>5, <1>6, <1>7 DEF IInv

\* What a fetch returns is a version of the page.
LEMMA ReadIsAVersion ==
    ASSUME IInv, At("fetch_body"),
           NEW read, read = [engine.ext EXCEPT
                               !.content["markdown"] = remote.content["markdown"],
                               !.complete = remote.complete]
    PROVE  /\ read \in Pages /\ read # None
           /\ Seen(read.content)
           /\ UpToDate(read)
<1>1. engine.ext \in Pages /\ Seen(engine.ext.content) /\ UpToDate(engine.ext)
  BY Types DEF IInv, Reads, At
<1>2. remote \in Pages /\ Seen(remote.content)
  BY DEF IInv, TypeOK, Known
<1>3. read \in Pages /\ read.edited = engine.ext.edited
  BY <1>1, <1>2 DEF Pages, Contents
<1>4. /\ read.content["markdown"] = remote.content["markdown"]
      /\ read.content["property"] = engine.ext.content["property"]
  BY <1>1 DEF Pages, Contents, Fields
<1>5. Seen(read.content)
  BY <1>1, <1>2, <1>4 DEF Seen, Fields
<1>6. UpToDate(read)
  <2>1. CASE engine.ext.edited < remote.edited
    BY <2>1, <1>3 DEF UpToDate
  <2>2. CASE engine.ext.edited = remote.edited /\ engine.ext.content = remote.content
    <3>1. \A f \in Fields : read.content[f] = remote.content[f]
      BY <2>2, <1>4 DEF Fields
    <3>2. read.content = remote.content
      BY <3>1, <1>2, <1>3 DEF Pages, Contents
    <3> QED
      BY <2>2, <3>2, <1>3 DEF UpToDate
  <2> QED
    BY <1>1, <2>1, <2>2 DEF UpToDate
<1> QED
  BY <1>3, <1>5, <1>6, NoneAssumption

LEMMA FetchBodyKeeps ==
    ASSUME IInv, FetchBody, EngineFrame
    PROVE  IInv'
<1> DEFINE read == [engine.ext EXCEPT !.content["markdown"] = remote.content["markdown"],
                                     !.complete = remote.complete]
<1>1. had' = had
  BY HadStays DEF IInv, FetchBody, EngineFrame
<1>2. read \in Pages /\ read # None /\ Seen(read.content) /\ UpToDate(read)
  BY ReadIsAVersion DEF FetchBody
<1> HIDE DEF read
<1>3. /\ UNCHANGED <<remote, page, binding, index, disturbances, owner, bidirectional>>
      /\ engine.pc = "fetch_body" /\ engine.stage \in {"reconcile", "check", "readback"}
      /\ engine \in Engines
  BY DEF FetchBody, EngineFrame, IInv, TypeOK, Engines, Stages, Reads, At
<1>4. Known'
  BY <1>1, <1>3, KnownStays DEF IInv
<1>5. SUFFICES engine' \in Engines /\ Work'
  BY <1>3, <1>4 DEF IInv, TypeOK, Work
<1>7. ASSUME Goes("fail") PROVE engine' \in Engines /\ Work'
  BY <1>3, <1>7, RestHoldsNothing
     DEF Goes, Engines, Steps, Work, Reads, Delivers, Delivering, Patches, Accepts, Saves
<1>8. CASE engine.stage = "reconcile"
  <2>1. engine' = [engine EXCEPT !.pc = "load", !.ext = read]
    BY <1>8 DEF FetchBody, Fetched, read
  <2>2. engine' \in Engines /\ engine'.pc = "load" /\ engine'.ext = read
    BY <2>1, <1>2, <1>3 DEF Engines, Steps
  <2>3. Work'
    BY <2>2, <1>1, <1>2, <1>3 DEF Work, Reads, Delivers, Delivering, Patches, Accepts, Saves,
                                  Seen, UpToDate
  <2> QED
    BY <2>2, <2>3
<1>9. CASE engine.stage = "check"
  <2>0. Checked(read)
    BY <1>9 DEF FetchBody, read
  <2>1. CASE Goes("fail")
    BY <2>1, <1>7
  <2>2. CASE ~Goes("fail")
    <3>1. PICK pc \in {"patch_property", "patch_body"} :
             engine' = [engine EXCEPT !.ext = read, !.pc = pc]
      BY <2>0, <2>2 DEF Checked
    <3>2. read.content = engine.before
      BY <2>0, <2>2 DEF Checked
    <3>3. engine' \in Engines /\ engine'.pc = pc /\ engine'.ext = read
          /\ engine'.before = engine.before /\ engine'.local = engine.local
          /\ engine'.target = engine.target
      BY <3>1, <1>2, <1>3 DEF Engines, Steps
    <3>4. Delivering
      BY <1>3, <1>9 DEF Delivering
    <3>5. Delivers'
      BY <3>3, <3>4, <1>1, <1>3 DEF IInv, Delivers, Seen, KeepsLocal
    <3>6. Patches'
      BY <3>2, <3>3, <1>2 DEF Patches
    <3>7. Reads' /\ Accepts' /\ Saves'
      BY <3>3 DEF Reads, Accepts, Saves
    <3> QED
      BY <3>3, <3>5, <3>6, <3>7 DEF Work
  <2> QED
    BY <2>1, <2>2
<1>10. CASE engine.stage = "readback"
  <2>0. ReadBack(read)
    BY <1>10 DEF FetchBody, read
  <2>1. CASE Goes("fail")
    BY <2>1, <1>7
  <2>2. CASE ~Goes("fail")
    <3>1. /\ Delivered(engine.before, engine.target, read.content)
          /\ engine' = [engine EXCEPT !.pc = "reread", !.ext = read, !.target = read.content]
      BY <2>0, <2>2 DEF ReadBack
    <3>2. read.content \in Contents
      BY <1>2 DEF Pages
    <3>3. engine' \in Engines /\ engine'.pc = "reread" /\ engine'.ext = read
          /\ engine'.target = read.content /\ engine'.local = engine.local
      BY <3>1, <3>2, <1>2, <1>3 DEF Engines, Steps
    <3>4. /\ page # None /\ engine.local # None
          /\ Seen(engine.before) /\ KeepsLocal(engine.local.content, engine.target)
      BY <1>3, <1>10 DEF IInv, Delivers, Delivering
    <3>5. KeepsLocal(engine.local.content, read.content)
      BY <3>1, <3>4 DEF KeepsLocal, Delivered, Seen
    <3>6. Accepts'
      BY <3>2, <3>3, <3>4, <3>5, <1>1, <1>2, <1>3, NoneAssumption
         DEF Accepts, Seen, UpToDate, KeepsLocal
    <3>7. Reads' /\ Delivers' /\ Patches' /\ Saves'
      BY <3>3 DEF Reads, Delivers, Delivering, Patches, Saves
    <3> QED
      BY <3>3, <3>6, <3>7 DEF Work
  <2> QED
    BY <2>1, <2>2
<1> QED
  BY <1>3, <1>8, <1>9, <1>10

LEMMA ImportPageKeeps ==
    ASSUME IInv, ImportPage, EngineFrame
    PROVE  IInv'
<1> DEFINE ext == engine.ext
<1>1. had' = had
  BY HadStays DEF IInv, ImportPage, EngineFrame
<1>2. ext \in Pages /\ ext # None /\ ext.content \in Contents
      /\ Seen(ext.content) /\ UpToDate(ext)
  BY Types DEF IInv, Reads, ImportPage, At
<1>3. engine' = [engine EXCEPT !.pc = "save_page", !.target = ext.content]
  BY DEF ImportPage
<1>4. engine' \in Engines /\ engine'.pc = "save_page" /\ engine'.ext = ext
      /\ engine'.target = ext.content
  BY <1>2, <1>3 DEF IInv, TypeOK, Engines, Steps
<1>5. CASE binding # None
  <2>1. binding' = binding
    BY <1>5 DEF ImportPage
  <2>2. TypeOK'
    BY <2>1, <1>4 DEF IInv, TypeOK, ImportPage, EngineFrame
  <2>3. Known'
    BY <2>1, <1>1, KnownStays DEF IInv, ImportPage
  <2>4. Work'
    BY <2>1, <1>1, <1>2, <1>4, <1>5, NoneAssumption
       DEF ImportPage, Work, Reads, Delivers, Delivering, Patches, Accepts, Saves, Seen, UpToDate
  <2> QED
    BY <2>2, <2>3, <2>4 DEF IInv, Work
<1>6. CASE binding = None
  <2>1. binding' = [base |-> ext.content, pending |-> None, status |-> "pending",
                    written |-> None]
    BY <1>6 DEF ImportPage
  <2>2. binding' \in Bindings
    BY <2>1, <1>2 DEF Bindings, Statuses
  <2>3. TypeOK'
    BY <2>2, <1>4 DEF IInv, TypeOK, ImportPage, EngineFrame
  <2>4. Known'
    BY <2>1, <1>1, <1>2 DEF IInv, Known, Seen, UpToDate, ImportPage
  <2>5. Work'
    BY <2>2, <1>1, <1>2, <1>4, NoneAssumption
       DEF ImportPage, Work, Reads, Delivers, Delivering, Patches, Accepts, Saves, Seen, UpToDate
  <2> QED
    BY <2>3, <2>4, <2>5 DEF IInv, Work
<1> QED
  BY <1>5, <1>6

-----------------------------------------------------------------------------
(* The merge.                                                              *)

\* Two ways a field's merged value comes about lose nothing: it is the local
\* one, or the local one is the base or Notion's, or Notion owns the field.
LEMMA MergeKeeps ==
    ASSUME TypeOK, NEW base, NEW local, NEW external
    PROVE  \A f \in Fields :
              \/ Merge(base, local, external)[f] = local[f]
              \/ local[f] \in {base[f], external[f]}
              \/ owner[f] = "external"
BY OwnersAssumption DEF TypeOK, Merge, MergedValue

\* Without a conflict, the merged value differs from Notion's only where the
\* print decides or Notion still has the base.
LEMMA MergeIsJustified ==
    ASSUME TypeOK, NEW base, NEW local, NEW external,
           Conflicts(base, local, external) = {}
    PROVE  \A f \in Fields :
              \/ Merge(base, local, external)[f] = external[f]
              \/ owner[f] = "local"
              \/ external[f] = base[f]
<1> TAKE f \in Fields
<1>1. ~Conflict(owner[f], base[f], local[f], external[f])
  BY DEF Conflicts
<1>2. owner[f] \in {"reconcile", "local", "external", "read_only"}
  BY OwnersAssumption DEF TypeOK
<1> QED
  BY <1>1, <1>2 DEF Conflict, Merge, MergedValue

LEMMA MergeType ==
    ASSUME TypeOK, NEW base \in Contents, NEW local \in Contents, NEW external \in Contents
    PROVE  Merge(base, local, external) \in Contents
<1> SUFFICES ASSUME NEW f \in Fields
             PROVE  MergedValue(owner[f], base[f], local[f], external[f]) \in Values
  BY DEF Merge, Contents
<1>1. owner[f] \in {"reconcile", "local", "external", "read_only"}
  BY OwnersAssumption DEF TypeOK
<1> QED
  BY <1>1 DEF MergedValue, Contents

LEMMA ReconcilePageKeeps ==
    ASSUME IInv, ReconcilePage, EngineFrame
    PROVE  IInv'
<1> DEFINE external == engine.ext.content
           target == Merge(binding.base, page.content, external)
           Sends == [engine EXCEPT !.pc = "fetch_page", !.stage = "check",
                       !.local = page, !.before = external, !.target = target]
           Agrees == [engine EXCEPT !.pc = "reread", !.local = page,
                        !.before = external, !.target = target]
<1>1. had' = had
  BY HadStays DEF IInv, ReconcilePage, EngineFrame
<1>2. /\ page # None /\ page \in Pages /\ page.content \in Contents
      /\ binding # None /\ binding \in Bindings /\ binding.base \in Contents
      /\ engine.ext # None /\ engine.ext \in Pages /\ external \in Contents
      /\ Seen(external) /\ UpToDate(engine.ext) /\ Seen(binding.base)
      /\ engine \in Engines
  BY Types DEF IInv, TypeOK, Reads, Known, ReconcilePage, At
<1>3. target \in Contents /\ target # None /\ external # None
  BY <1>2, MergeType, NoneAssumption DEF IInv
<1>4. UNCHANGED <<remote, page, index, disturbances, owner, bidirectional>>
  BY DEF ReconcilePage, EngineFrame
<1>5. KeepsLocal(page.content, target)
  BY <1>2, MergeKeeps DEF IInv, KeepsLocal, Seen
<1> HIDE DEF external, target
<1>6. \/ /\ \/ binding' = [binding EXCEPT !.status = "drift"]
            \/ binding' = [binding EXCEPT !.status = "pending"]
            \/ binding' = binding
         /\ engine' = Idle \/ Goes("fail")
      \/ /\ binding' = binding
         /\ target = external
         /\ engine' = Agrees
      \/ /\ binding' = [binding EXCEPT !.status = "pending", !.pending = target]
         /\ Conflicts(binding.base, page.content, external) = {}
         /\ engine' = Sends
  BY DEF ReconcilePage, external, target
<1>7. /\ binding' \in Bindings /\ binding' # None
      /\ binding'.base = binding.base /\ binding'.written = binding.written
  <2>1. PICK status \in Statuses, pending \in {binding.pending, target} :
           binding' = [binding EXCEPT !.status = status, !.pending = pending]
    <3>1. binding = [binding EXCEPT !.status = binding.status, !.pending = binding.pending]
      BY <1>2 DEF Bindings
    <3>2. /\ [binding EXCEPT !.status = "drift"]
               = [binding EXCEPT !.status = "drift", !.pending = binding.pending]
          /\ [binding EXCEPT !.status = "pending"]
               = [binding EXCEPT !.status = "pending", !.pending = binding.pending]
      BY <1>2 DEF Bindings
    <3>3. binding.status \in Statuses /\ {"drift", "pending"} \subseteq Statuses
      BY <1>2 DEF Bindings, Statuses
    <3> QED
      BY <1>6, <3>1, <3>2, <3>3
  <2>2. binding' \in Bindings
    BY <2>1, <1>2, <1>3 DEF Bindings
  <2>3. binding'.base = binding.base /\ binding'.written = binding.written
    BY <2>1, <1>2 DEF Bindings
  <2> QED
    BY <2>2, <2>3, NoneAssumption
<1>8. Known'
  BY <1>1, <1>2, <1>4, <1>7 DEF IInv, Known, Seen, UpToDate
<1>9. SUFFICES engine' \in Engines /\ Work'
  BY <1>4, <1>7, <1>8 DEF IInv, TypeOK, Work
<1>10. CASE engine' = Idle \/ Goes("fail")
  <2>1. engine' \in Engines /\ engine'.pc \in {"idle", "fail"}
    BY <1>2, <1>10 DEF Goes, Idle, Engines, Steps, Stages
  <2> QED
    BY <2>1 DEF Work, Reads, Delivers, Delivering, Patches, Accepts, Saves
<1>11. CASE target = external /\ engine' = Agrees
  <2>1. engine' \in Engines /\ engine'.pc = "reread" /\ engine'.local = page
        /\ engine'.target = external /\ engine'.ext = engine.ext
    BY <1>2, <1>3, <1>11 DEF Engines, Steps
  <2>2. Accepts'
    BY <2>1, <1>1, <1>2, <1>3, <1>4, <1>5, <1>11
       DEF Accepts, Seen, UpToDate, KeepsLocal, external
  <2> QED
    BY <2>1, <2>2 DEF Work, Reads, Delivers, Delivering, Patches, Saves
<1>12. CASE Conflicts(binding.base, page.content, external) = {} /\ engine' = Sends
  <2>1. engine' \in Engines /\ engine'.pc = "fetch_page" /\ engine'.stage = "check"
        /\ engine'.local = page /\ engine'.before = external /\ engine'.target = target
    BY <1>2, <1>3, <1>12 DEF Engines, Steps, Stages
  <2>2. \A f \in Fields : target[f] # external[f] =>
            owner[f] = "local" \/ external[f] = binding.base[f]
    BY <1>12, MergeIsJustified DEF IInv, target
  <2>3. Delivers'
    BY <2>1, <2>2, <1>1, <1>2, <1>3, <1>4, <1>5, <1>7
       DEF Delivers, Seen, KeepsLocal
  <2> QED
    BY <2>1, <2>3 DEF Work, Reads, Patches, Accepts, Saves
<1> QED
  BY <1>6, <1>10, <1>11, <1>12

-----------------------------------------------------------------------------
(* The writes to Notion.                                                   *)

\* Every version is behind a page that has changed.
LEMMA WriteKeepsKnown ==
    ASSUME IInv, Remember, binding' = binding, remote' \in Pages,
           remote'.edited = remote.edited + 1
    PROVE  Known'
<1>1. had \subseteq had' /\ Seen(remote.content)'
  BY HadGrows
<1>2. binding # None /\ binding.written # None => UpToDate(binding.written)'
  <2> SUFFICES ASSUME binding # None, binding.written # None
               PROVE  UpToDate(binding.written)'
    OBVIOUS
  <2>1. binding.written.edited \in Nat /\ remote.edited \in Nat
    BY Types DEF IInv
  <2>2. binding.written.edited <= remote.edited
    BY <2>1 DEF IInv, Known, UpToDate
  <2> QED
    BY <2>1, <2>2 DEF UpToDate
<1> QED
  BY <1>1, <1>2 DEF IInv, Known, Seen

\* While it delivers, a step that grows Notion's history and moves the engine
\* along keeps what it delivers.
LEMMA DeliveryGoesOn ==
    ASSUME IInv, Delivering, had \subseteq had',
           UNCHANGED <<page, binding, owner>>,
           engine'.local = engine.local, engine'.before = engine.before,
           engine'.target = engine.target
    PROVE  Delivers'
BY DEF IInv, Delivers, Seen, KeepsLocal

\* What Written leaves: the page with one field delivered.
LEMMA WrittenType ==
    ASSUME TypeOK, NEW field \in Fields, NEW next, Written(field, next),
           engine.target # None
    PROVE  /\ remote' \in Pages
           /\ remote'.edited = remote.edited + 1
           /\ engine' = next \/ Goes("fail")
           /\ disturbances' \in 0 .. MaxDisturbances
<1>1. engine.target \in Contents
  BY Types
<1>2. remote' = [remote EXCEPT !.content[field] = engine.target[field], !.edited = @ + 1]
  BY DEF Written
<1>3. remote' \in Pages /\ remote'.edited = remote.edited + 1
  <2>1. [remote.content EXCEPT ![field] = engine.target[field]] \in Contents
    BY <1>1, Types DEF Contents
  <2>2. remote \in Pages
    BY DEF TypeOK
  <2>3. remote' = [content |-> [remote.content EXCEPT ![field] = engine.target[field]],
                   edited |-> remote.edited + 1, archived |-> remote.archived,
                   complete |-> remote.complete]
    BY <1>2, <2>2 DEF Pages
  <2> QED
    BY <2>1, <2>2, <2>3 DEF Pages
<1> QED
  BY <1>3, BoundAssumption DEF Written, Disturbs, TypeOK

LEMMA PatchPropertyKeeps ==
    ASSUME IInv, PatchProperty, EngineFrame
    PROVE  IInv'
<1> DEFINE next == [engine EXCEPT !.pc = "patch_body"]
<1>0. /\ engine.pc = "patch_property" /\ engine \in Engines /\ Delivering
      /\ engine.target # None
      /\ UNCHANGED <<page, binding, index, owner, bidirectional>> /\ Remember
  BY DEF IInv, TypeOK, Delivers, Delivering, PatchProperty, EngineFrame, At
<1>1. CASE Refused
  <2>1. Known'
    BY <1>0, <1>1, HadStays, KnownStays DEF IInv, Refused
  <2>2. engine' \in Engines /\ engine'.pc = "fail"
    BY <1>0, <1>1 DEF Refused, Goes, Engines, Steps
  <2>3. Work'
    BY <2>2 DEF Work, Reads, Delivers, Delivering, Patches, Accepts, Saves
  <2> QED
    BY <1>0, <1>1, <2>1, <2>2, <2>3 DEF IInv, TypeOK, Work, Refused
<1>2. CASE Written("property", next)
  <2>1. /\ remote' \in Pages /\ remote'.edited = remote.edited + 1
        /\ engine' = next \/ Goes("fail")
        /\ disturbances' \in 0 .. MaxDisturbances
    BY <1>0, <1>2, WrittenType DEF IInv, Fields
  <2>2. Known'
    BY <1>0, <2>1, WriteKeepsKnown
  <2>3. engine' \in Engines /\ engine'.pc \in {"patch_body", "fail"}
        /\ engine'.local = engine.local /\ engine'.before = engine.before
        /\ engine'.target = engine.target /\ engine'.ext = engine.ext
    BY <1>0, <2>1 DEF Goes, Engines, Steps
  <2>4. Delivers'
    BY <1>0, <2>3, HadGrows, DeliveryGoesOn
  <2>5. Reads' /\ Patches' /\ Accepts' /\ Saves'
    BY <1>0, <2>3 DEF IInv, Reads, Patches, Accepts, Saves
  <2> QED
    BY <1>0, <2>1, <2>2, <2>3, <2>4, <2>5 DEF IInv, TypeOK
<1> QED
  BY <1>1, <1>2 DEF PatchProperty

LEMMA PatchBodyKeeps ==
    ASSUME IInv, PatchBody, EngineFrame
    PROVE  IInv'
<1>0. /\ engine.pc = "patch_body" /\ engine \in Engines /\ Delivering
      /\ engine.target # None
      /\ UNCHANGED <<page, binding, index, owner, bidirectional>> /\ Remember
  BY DEF IInv, TypeOK, Delivers, Delivering, PatchBody, EngineFrame, At
<1>1. CASE /\ engine' = Reading \/ Goes("fail")
           /\ UNCHANGED <<remote, disturbances>>
  <2>1. Known'
    BY <1>0, <1>1, HadStays, KnownStays DEF IInv
  <2>2. /\ engine' \in Engines /\ engine'.pc \in {"fetch_page", "fail"}
        /\ engine'.pc = "fetch_page" => engine'.stage = "readback"
        /\ engine'.local = engine.local /\ engine'.before = engine.before
        /\ engine'.target = engine.target
    BY <1>0, <1>1 DEF Goes, Reading, Engines, Steps, Stages
  <2>3. Delivers'
    BY <1>0, <2>2, HadGrows, DeliveryGoesOn
  <2>4. Reads' /\ Patches' /\ Accepts' /\ Saves'
    BY <2>2 DEF Reads, Patches, Accepts, Saves
  <2> QED
    BY <1>0, <1>1, <2>1, <2>2, <2>3, <2>4 DEF IInv, TypeOK
<1>2. CASE Written("markdown", Reading)
  <2>1. /\ remote' \in Pages /\ remote'.edited = remote.edited + 1
        /\ engine' = Reading \/ Goes("fail")
        /\ disturbances' \in 0 .. MaxDisturbances
    BY <1>0, <1>2, WrittenType DEF IInv, Fields
  <2>2. Known'
    BY <1>0, <2>1, WriteKeepsKnown
  <2>3. /\ engine' \in Engines /\ engine'.pc \in {"fetch_page", "fail"}
        /\ engine'.pc = "fetch_page" => engine'.stage = "readback"
        /\ engine'.local = engine.local /\ engine'.before = engine.before
        /\ engine'.target = engine.target
    BY <1>0, <2>1 DEF Goes, Reading, Engines, Steps, Stages
  <2>4. Delivers'
    BY <1>0, <2>3, HadGrows, DeliveryGoesOn
  <2>5. Reads' /\ Patches' /\ Accepts' /\ Saves'
    BY <2>3 DEF Reads, Patches, Accepts, Saves
  <2> QED
    BY <1>0, <2>1, <2>2, <2>3, <2>4, <2>5 DEF IInv, TypeOK
<1> QED
  BY <1>1, <1>2 DEF PatchBody, Refused

-----------------------------------------------------------------------------
(* Accepting a version.                                                    *)

LEMMA RereadKeeps ==
    ASSUME IInv, Reread, EngineFrame
    PROVE  IInv'
<1> DEFINE current == engine.local.content
           folded == Merge(current, page.content, engine.target)
           Takes == [engine EXCEPT !.pc = "save_page", !.local = page,
                                   !.ext.content = engine.target]
           Folds == [engine EXCEPT !.pc = "fold_page", !.local = page,
                                   !.ext = [page EXCEPT !.content = folded]]
<1>1. had' = had
  BY HadStays DEF IInv, Reread, EngineFrame
<1>2. /\ page # None /\ page \in Pages /\ page.content \in Contents
      /\ binding # None /\ binding \in Bindings
      /\ current \in Contents
      /\ engine.ext # None /\ engine.ext \in Pages
      /\ engine.target # None /\ engine.target \in Contents
      /\ engine.ext.content = engine.target
      /\ Seen(engine.target) /\ UpToDate(engine.ext)
      /\ KeepsLocal(current, engine.target)
      /\ engine \in Engines
  BY Types DEF IInv, TypeOK, Accepts, Reread, At
<1>3. UNCHANGED <<remote, page, index, disturbances, owner, bidirectional>>
  BY DEF Reread, EngineFrame
<1>4. folded \in Contents /\ [page EXCEPT !.content = folded] \in Pages
  BY <1>2, MergeType DEF IInv, Pages
<1>5. KeepsLocal(page.content, folded)
  BY <1>2, MergeKeeps DEF IInv, KeepsLocal, Seen
<1> HIDE DEF current, folded
<1>6. \/ binding' = [binding EXCEPT !.status = "drift"] /\ engine' = Idle
      \/ binding' = binding /\ page.content = current /\ engine' = Takes
      \/ binding' = binding /\ engine' = Folds
  BY DEF Reread, current, folded
<1>7. /\ binding' \in Bindings /\ binding' # None
      /\ binding'.base = binding.base /\ binding'.written = binding.written
  BY <1>2, <1>6, NoneAssumption DEF Bindings, Statuses
<1>8. Known'
  BY <1>1, <1>2, <1>3, <1>7 DEF IInv, Known, Seen, UpToDate
<1>9. SUFFICES engine' \in Engines /\ Work'
  BY <1>3, <1>7, <1>8 DEF IInv, TypeOK, Work
<1>10. CASE engine' = Idle
  <2>1. engine' \in Engines /\ engine'.pc = "idle"
    BY <1>10 DEF Idle, Engines, Steps, Stages
  <2> QED
    BY <2>1 DEF Work, Reads, Delivers, Delivering, Patches, Accepts, Saves
<1>11. CASE page.content = current /\ engine' = Takes
  <2>1. [engine.ext EXCEPT !.content = engine.target] = engine.ext
    BY <1>2 DEF Pages
  <2>2. engine' = [engine EXCEPT !.pc = "save_page", !.local = page, !.ext = engine.ext]
    BY <1>2, <1>11, <2>1 DEF Engines
  <2>3. engine' \in Engines /\ engine'.pc = "save_page" /\ engine'.local = page
        /\ engine'.target = engine.target /\ engine'.ext = engine.ext
    BY <1>2, <2>2 DEF Engines, Steps
  <2>4. Saves'
    BY <2>3, <1>1, <1>2, <1>3, <1>7, <1>11 DEF Saves, Seen, UpToDate, KeepsLocal
  <2> QED
    BY <2>3, <2>4 DEF Work, Reads, Delivers, Delivering, Patches, Accepts
<1>12. CASE engine' = Folds
  <2>1. engine' \in Engines /\ engine'.pc = "fold_page" /\ engine'.local = page
        /\ engine'.target = engine.target
        /\ engine'.ext = [page EXCEPT !.content = folded]
    BY <1>2, <1>4, <1>12 DEF Engines, Steps
  <2>2. engine'.ext # None /\ engine'.ext.content = folded
    BY <2>1, <1>2, <1>4, NoneAssumption DEF Pages
  <2>3. Saves'
    BY <2>1, <2>2, <1>1, <1>2, <1>3, <1>5, <1>7 DEF Saves, Seen, KeepsLocal
  <2> QED
    BY <2>1, <2>3 DEF Work, Reads, Delivers, Delivering, Patches, Accepts
<1> QED
  BY <1>6, <1>10, <1>11, <1>12

LEMMA FoldPageKeeps ==
    ASSUME IInv, FoldPage, EngineFrame
    PROVE  IInv'
<1>1. had' = had
  BY HadStays DEF IInv, FoldPage, EngineFrame
<1>2. engine' \in Engines /\ engine'.pc = "fold_binding" /\ engine'.target = engine.target
  BY DEF IInv, TypeOK, FoldPage, Goes, Engines, Steps
<1>3. binding # None /\ Seen(engine.target) /\ engine.target # None
  BY DEF IInv, Saves, FoldPage, At
<1>4. TypeOK'
  BY <1>2, <1>3 DEF IInv, TypeOK, FoldPage, EngineFrame, Engines
<1>5. Known'
  BY <1>1, KnownStays DEF IInv, FoldPage
<1>6. Work'
  BY <1>1, <1>2, <1>3
     DEF FoldPage, Work, Reads, Delivers, Delivering, Patches, Accepts, Saves, Seen
<1> QED
  BY <1>4, <1>5, <1>6 DEF IInv, Work

LEMMA FoldBindingKeeps ==
    ASSUME IInv, FoldBinding, EngineFrame
    PROVE  IInv'
<1>1. had' = had
  BY HadStays DEF IInv, FoldBinding, EngineFrame
<1>2. /\ binding \in Bindings /\ engine.target \in Contents /\ Seen(engine.target)
  BY Types DEF IInv, TypeOK, Saves, FoldBinding, At
<1>3. binding' \in Bindings /\ binding' # None
      /\ binding'.base = engine.target /\ binding'.written = binding.written
  BY <1>2, NoneAssumption DEF FoldBinding, Bindings, Statuses
<1>4. engine' \in Engines /\ engine'.pc = "idle"
  BY DEF FoldBinding, Idle, Engines, Steps, Stages
<1>5. TypeOK'
  BY <1>3, <1>4 DEF IInv, TypeOK, FoldBinding, EngineFrame
<1>6. Known'
  <2>1. remote' = remote /\ binding # None
    BY <1>2, NoneAssumption DEF FoldBinding
  <2> QED
    BY <2>1, <1>1, <1>2, <1>3 DEF IInv, Known, Seen, UpToDate
<1>7. Work'
  BY <1>4 DEF Work, Reads, Delivers, Delivering, Patches, Accepts, Saves
<1> QED
  BY <1>5, <1>6, <1>7 DEF IInv, Work

LEMMA SavePageKeeps ==
    ASSUME IInv, SavePage, EngineFrame
    PROVE  IInv'
<1>1. had' = had
  BY HadStays DEF IInv, SavePage, EngineFrame
<1>2. engine' \in Engines /\ engine'.pc = "save_binding" /\ engine'.target = engine.target
      /\ engine'.ext = engine.ext
  BY DEF IInv, TypeOK, SavePage, Goes, Engines, Steps
<1>3. binding # None /\ Seen(engine.target) /\ engine.target # None
      /\ engine.ext # None /\ UpToDate(engine.ext)
  BY DEF IInv, Saves, SavePage, At
<1>4. TypeOK'
  BY <1>2, <1>3 DEF IInv, TypeOK, SavePage, EngineFrame, Engines
<1>5. Known'
  BY <1>1, KnownStays DEF IInv, SavePage
<1>6. Work'
  BY <1>1, <1>2, <1>3
     DEF SavePage, Work, Reads, Delivers, Delivering, Patches, Accepts, Saves, Seen, UpToDate
<1> QED
  BY <1>4, <1>5, <1>6 DEF IInv, Work

LEMMA SaveBindingKeeps ==
    ASSUME IInv, SaveBinding, EngineFrame
    PROVE  IInv'
<1>1. had' = had
  BY HadStays DEF IInv, SaveBinding, EngineFrame
<1>2. /\ engine.target \in Contents /\ Seen(engine.target)
      /\ engine.ext \in Pages /\ UpToDate(engine.ext)
  BY Types DEF IInv, Saves, SaveBinding, At
<1>3. binding' \in Bindings /\ binding' # None
      /\ binding'.base = engine.target /\ binding'.written = engine.ext
  BY <1>2, NoneAssumption DEF SaveBinding, Bindings, Statuses
<1>4. engine' \in Engines /\ engine'.pc = "project"
  BY DEF IInv, TypeOK, SaveBinding, Goes, Engines, Steps
<1>5. TypeOK'
  BY <1>3, <1>4 DEF IInv, TypeOK, SaveBinding, EngineFrame
<1>6. Known'
  BY <1>1, <1>2, <1>3 DEF IInv, SaveBinding, Known, Seen, UpToDate
<1>7. Work'
  BY <1>4 DEF Work, Reads, Delivers, Delivering, Patches, Accepts, Saves
<1> QED
  BY <1>5, <1>6, <1>7 DEF IInv, Work

-----------------------------------------------------------------------------
(* Ends and failures: the engine comes to rest, whatever it held.          *)

LEMMA StopKeeps ==
    ASSUME IInv, EngineFrame, UNCHANGED <<remote, page, binding>>,
           index' \in Pages \cup {None}, disturbances' \in 0 .. MaxDisturbances,
           engine' = Idle \/ Goes("fail") \/ Goes("idle")
    PROVE  IInv'
<1>1. had' = had
  BY HadStays DEF IInv, EngineFrame
<1>2. engine' \in Engines /\ engine'.pc \in {"idle", "fail"}
  BY DEF IInv, TypeOK, Idle, Goes, Engines, Steps, Stages
<1>3. TypeOK'
  BY <1>2 DEF IInv, TypeOK, EngineFrame
<1>4. Known'
  BY <1>1, KnownStays DEF IInv
<1>5. Work'
  BY <1>2 DEF Work, Reads, Delivers, Delivering, Patches, Accepts, Saves
<1> QED
  BY <1>3, <1>4, <1>5 DEF IInv, Work

LEMMA FailKeeps ==
    ASSUME IInv, Fail, EngineFrame
    PROVE  IInv'
<1>1. had' = had
  BY HadStays DEF IInv, Fail, EngineFrame
<1>2. engine' \in Engines /\ engine'.pc = "idle"
  BY DEF Fail, Idle, Engines, Steps, Stages
<1>3. /\ binding = None => binding' = None
      /\ binding # None => /\ binding' \in Bindings /\ binding' # None
                           /\ binding'.base = binding.base
                           /\ binding'.written = binding.written
  BY NoneAssumption DEF IInv, TypeOK, Fail, Bindings, Statuses
<1>4. TypeOK'
  BY <1>2, <1>3 DEF IInv, TypeOK, Fail, EngineFrame
<1>5. Known'
  BY <1>1, <1>3 DEF IInv, Fail, Known, Seen, UpToDate
<1>6. Work'
  BY <1>2 DEF Work, Reads, Delivers, Delivering, Patches, Accepts, Saves
<1> QED
  BY <1>4, <1>5, <1>6 DEF IInv, Work

LEMMA EngineStepKeeps ==
    ASSUME IInv, EngineStep
    PROVE  IInv'
<1>0. EngineFrame
  BY DEF EngineStep, EngineFrame
<1>1. ASSUME Disturbs \/ UNCHANGED disturbances
      PROVE  disturbances' \in 0 .. MaxDisturbances
  BY <1>1, BoundAssumption DEF IInv, TypeOK, Disturbs
<1>2. CASE Project
  <2>1. engine.ext \in Pages \cup {None}
    BY DEF IInv, TypeOK, Engines
  <2> QED
    BY <1>0, <1>1, <1>2, <2>1, StopKeeps DEF Project, Fails
<1>3. CASE CallFails \/ Kill
  <2>1. index' \in Pages \cup {None}
    BY <1>3 DEF IInv, TypeOK, CallFails, Kill
  <2> QED
    BY <1>0, <1>1, <1>3, <2>1, StopKeeps DEF CallFails, Kill, Fails
<1>4. CASE ListPages
  BY <1>0, <1>4, ListPagesKeeps
<1>5. CASE FetchPage
  BY <1>0, <1>5, FetchPageKeeps
<1>6. CASE FetchBody
  BY <1>0, <1>6, FetchBodyKeeps
<1>7. CASE ImportPage
  BY <1>0, <1>7, ImportPageKeeps
<1>8. CASE ReconcilePage
  BY <1>0, <1>8, ReconcilePageKeeps
<1>9. CASE PatchProperty
  BY <1>0, <1>9, PatchPropertyKeeps
<1>10. CASE PatchBody
  BY <1>0, <1>10, PatchBodyKeeps
<1>11. CASE Reread
  BY <1>0, <1>11, RereadKeeps
<1>12. CASE FoldPage
  BY <1>0, <1>12, FoldPageKeeps
<1>13. CASE FoldBinding
  BY <1>0, <1>13, FoldBindingKeeps
<1>14. CASE SavePage
  BY <1>0, <1>14, SavePageKeeps
<1>15. CASE SaveBinding
  BY <1>0, <1>15, SaveBindingKeeps
<1>16. CASE Fail
  BY <1>0, <1>16, FailKeeps
<1> QED
  BY <1>2, <1>3, <1>4, <1>5, <1>6, <1>7, <1>8, <1>9, <1>10, <1>11, <1>12, <1>13, <1>14,
     <1>15, <1>16 DEF EngineStep, Progress

-----------------------------------------------------------------------------
(* The steps of people, who leave the engine alone.                        *)

\* Whatever happens to Notion, what the engine read of it is of the past.
LEMMA EngineForgetsNothing ==
    ASSUME IInv, engine' = engine, binding' = binding, owner' = owner,
           page # None => page' # None, page = None => page' = None,
           had \subseteq had',
           \A v \in Pages : UpToDate(v) => UpToDate(v)'
    PROVE  Work'
<1>1. /\ engine.pc \in {"fetch_body", "load", "reread", "save_page", "save_binding"} =>
            engine.ext \in Pages
  BY Types DEF IInv, Reads, Accepts, Saves
<1>2. Reads'
  BY <1>1 DEF IInv, Reads, Seen
<1>3. Delivers' /\ Patches'
  BY DEF IInv, Delivers, Delivering, Patches, Seen, KeepsLocal
<1>4. Accepts'
  BY <1>1 DEF IInv, Accepts, Seen, KeepsLocal
<1>5. Saves'
  BY <1>1 DEF IInv, Saves, Seen, KeepsLocal
<1> QED
  BY <1>2, <1>3, <1>4, <1>5 DEF Work

LEMMA PagesFallBehind ==
    ASSUME IInv, remote'.edited = remote.edited + 1,
           NEW v \in Pages, UpToDate(v)
    PROVE  UpToDate(v)'
<1>1. v.edited \in Nat /\ remote.edited \in Nat
  BY DEF IInv, TypeOK, Pages
<1> QED
  BY <1>1 DEF UpToDate

LEMMA LocalEditKeeps ==
    ASSUME IInv, LocalEdit
    PROVE  IInv'
<1>1. had' = had /\ UNCHANGED <<remote, binding, index, engine, owner, bidirectional>>
  BY HadStays DEF IInv, LocalEdit, Apart
<1>2. PICK f \in Fields, v \in Values : page' = [page EXCEPT !.content[f] = v]
  BY DEF LocalEdit
<1>3. page # None /\ page \in Pages
  BY DEF IInv, TypeOK, LocalEdit
<1>4. page' \in Pages /\ page' # None
  <2>1. [page.content EXCEPT ![f] = v] \in Contents
    BY <1>3 DEF Pages, Contents
  <2>2. page' = [content |-> [page.content EXCEPT ![f] = v], edited |-> page.edited,
                 archived |-> page.archived, complete |-> page.complete]
    BY <1>2, <1>3 DEF Pages
  <2> QED
    BY <2>1, <2>2, <1>3, NoneAssumption DEF Pages
<1>5. TypeOK'
  BY <1>1, <1>3, <1>4, BoundAssumption DEF IInv, TypeOK, LocalEdit, Apart, Disturbs
<1>6. Known'
  BY <1>1, KnownStays DEF IInv
<1>7. \A w \in Pages : UpToDate(w) => UpToDate(w)'
  BY <1>1 DEF UpToDate
<1>8. Work'
  BY <1>1, <1>3, <1>4, <1>7, EngineForgetsNothing
<1> QED
  BY <1>5, <1>6, <1>8 DEF IInv, Work

\* A person's change of the page on Notion.
LEMMA NotionChangeKeeps ==
    ASSUME IInv, Apart, Remember, UNCHANGED <<page, engine>>,
           remote' \in Pages, remote'.edited = remote.edited + 1
    PROVE  IInv'
<1>1. Known'
  BY WriteKeepsKnown DEF Apart
<1>2. \A w \in Pages : UpToDate(w) => UpToDate(w)'
  BY PagesFallBehind
<1>3. Work'
  BY <1>2, HadGrows, EngineForgetsNothing DEF Apart
<1>4. TypeOK'
  BY BoundAssumption DEF IInv, TypeOK, Apart, Disturbs
<1> QED
  BY <1>1, <1>3, <1>4 DEF IInv, Work

LEMMA RemoteEditKeeps ==
    ASSUME IInv, RemoteEdit
    PROVE  IInv'
<1>1. PICK f \in Fields, v \in Values :
         remote' = [remote EXCEPT !.content[f] = v, !.edited = @ + 1]
  BY DEF RemoteEdit
<1>2. remote \in Pages
  BY DEF IInv, TypeOK
<1>3. remote' \in Pages /\ remote'.edited = remote.edited + 1
  <2>1. [remote.content EXCEPT ![f] = v] \in Contents
    BY <1>2 DEF Pages, Contents
  <2>2. remote' = [content |-> [remote.content EXCEPT ![f] = v],
                   edited |-> remote.edited + 1, archived |-> remote.archived,
                   complete |-> remote.complete]
    BY <1>1, <1>2 DEF Pages
  <2> QED
    BY <2>1, <2>2, <1>2 DEF Pages
<1> QED
  BY <1>3, NotionChangeKeeps DEF RemoteEdit

LEMMA ArchiveKeeps ==
    ASSUME IInv, Archive
    PROVE  IInv'
<1>1. remote' \in Pages /\ remote'.edited = remote.edited + 1
  <2>1. remote \in Pages
    BY DEF IInv, TypeOK
  <2>2. remote' = [content |-> remote.content, edited |-> remote.edited + 1,
                   archived |-> ~remote.archived, complete |-> remote.complete]
    BY <2>1 DEF Archive, Pages
  <2> QED
    BY <2>1, <2>2 DEF Pages
<1> QED
  BY <1>1, NotionChangeKeeps DEF Archive

LEMMA ReindexKeeps ==
    ASSUME IInv, Reindex
    PROVE  IInv'
<1>1. had' = had /\ UNCHANGED <<remote, page, binding, index, owner, bidirectional>>
  BY HadStays DEF IInv, Reindex, Apart
<1>2. engine' \in Engines /\ engine'.pc = "project"
  BY DEF IInv, TypeOK, Reindex, Idle, Engines, Steps, Stages
<1>3. TypeOK'
  BY <1>1, <1>2, BoundAssumption DEF IInv, TypeOK, Reindex, Apart, Disturbs
<1>4. Known'
  BY <1>1, KnownStays DEF IInv
<1>5. Work'
  BY <1>2 DEF Work, Reads, Delivers, Delivering, Patches, Accepts, Saves
<1> QED
  BY <1>3, <1>4, <1>5 DEF IInv, Work

LEMMA NextKeeps == IInv /\ [Next]_vars => IInv'
<1> SUFFICES ASSUME IInv, [Next]_vars PROVE IInv'
  OBVIOUS
<1>1. CASE UNCHANGED vars
  BY <1>1 DEF vars, IInv, TypeOK, Known, Reads, Delivers, Delivering, Patches, Accepts,
              Saves, Seen, UpToDate, KeepsLocal
<1> QED
  BY <1>1, EngineStepKeeps, LocalEditKeeps, RemoteEditKeeps, ArchiveKeeps, ReindexKeeps
     DEF Next

\* The strengthening is an invariant of the sync.
THEOREM Inductive == Spec => []IInv
BY InitIInv, NextKeeps, PTL DEF Spec

-----------------------------------------------------------------------------
(* What follows from it.                                                   *)

\* A print, its binding and the engine have their types for every set of
\* values and owners, and no print is ever without a binding
\* (reconcile.go:261-294).
THEOREM TypeCorrect == Spec => []TypeOK
<1>1. IInv => TypeOK
  BY DEF IInv
<1> QED
  BY <1>1, Inductive, PTL

\* A page that the sync skips by stamp, print and binding is the page on
\* Notion (reconcile.go:545), whatever was edited, lost or killed before.
THEOREM SkippedAlwaysInSync == Spec => []SkippedIsInSync
<1>1. IInv => SkippedIsInSync
  <2> SUFFICES ASSUME IInv, PageUnchanged PROVE page.content = remote.content
    BY DEF SkippedIsInSync
  <2>1. page = binding.written /\ page.edited = remote.edited /\ UpToDate(page)
    BY DEF IInv, Known, PageUnchanged
  <2>2. remote.edited \in Nat
    BY Types DEF IInv
  <2> QED
    BY <2>1, <2>2 DEF UpToDate
<1> QED
  BY <1>1, Inductive, PTL

\* What the sync writes into a print keeps every local edit but those made
\* after its last read of the print (reconcile.go:416-449).
LEMMA StepKeepsLocalEdits ==
    ASSUME IInv, [Next]_vars, ByEngine, page # None
    PROVE  \A f \in Fields : page'.content[f] # page.content[f] =>
               \/ <<f, page.content[f]>> \in had
               \/ owner[f] = "external"
               \/ page.content[f] # engine.local.content[f]
<1> SUFFICES ASSUME NEW f \in Fields, page'.content[f] # page.content[f],
                    page.content[f] = engine.local.content[f]
             PROVE  <<f, page.content[f]>> \in had \/ owner[f] = "external"
  OBVIOUS
<1>1. SavePage \/ FoldPage
  <2>1. page' # page /\ engine' # engine
    BY DEF ByEngine
  <2>2. EngineStep
    BY <2>1 DEF Next, vars, LocalEdit, RemoteEdit, Archive, Reindex
  <2> QED
    BY <2>1, <2>2
       DEF EngineStep, Progress, ListPages, FetchPage, FetchBody, ImportPage, ReconcilePage,
           PatchProperty, PatchBody, Reread, FoldBinding, SaveBinding, Project, Fail,
           CallFails, Kill
<1>2. page' = engine.ext /\ KeepsLocal(engine.local.content, engine.ext.content)
  BY <1>1 DEF SavePage, FoldPage, At, IInv, Saves
<1> QED
  BY <1>2 DEF KeepsLocal

\* No local edit is lost to an import, a failed delivery or a restart
\* (reconcile.go:418, content.go:202).
THEOREM LocalEditsAlwaysSurvive == Spec => LocalEditsSurvive
<1>1. IInv /\ [Next]_vars =>
        [ByEngine /\ page # None =>
           \A f \in Fields : page'.content[f] # page.content[f] =>
               \/ <<f, page.content[f]>> \in had
               \/ owner[f] = "external"
               \/ page.content[f] # engine.local.content[f]]_vars
  BY StepKeepsLocalEdits
<1> QED
  BY <1>1, Inductive, PTL DEF Spec, LocalEditsSurvive

\* What the sync writes to Notion replaces the base of its merge, except what
\* the print owns or what changed after the last look (notion.go:388-434).
LEMMA StepKeepsRemoteEdits ==
    ASSUME IInv, [Next]_vars, ByEngine
    PROVE  \A f \in Fields : remote'.content[f] # remote.content[f] =>
               \/ remote.content[f] = binding.base[f]
               \/ owner[f] = "local"
               \/ /\ remote.content[f] # engine.ext.content[f]
                  /\ f = "markdown" => engine.ext.content[f] = Empty
<1> SUFFICES ASSUME NEW f \in Fields, remote'.content[f] # remote.content[f]
             PROVE  \/ remote.content[f] = binding.base[f]
                    \/ owner[f] = "local"
                    \/ /\ remote.content[f] # engine.ext.content[f]
                       /\ f = "markdown" => engine.ext.content[f] = Empty
  OBVIOUS
<1>1. PatchProperty \/ PatchBody
  <2>1. remote' # remote /\ engine' # engine
    BY DEF ByEngine
  <2>2. EngineStep
    BY <2>1 DEF Next, vars, LocalEdit, RemoteEdit, Archive, Reindex
  <2> QED
    BY <2>1, <2>2
       DEF EngineStep, Progress, ListPages, FetchPage, FetchBody, ImportPage, ReconcilePage,
           FoldPage, SavePage, Reread, FoldBinding, SaveBinding, Project, Fail,
           CallFails, Kill
<1>2. /\ engine.ext.content = engine.before
      /\ \A g \in Fields : engine.target[g] # engine.before[g] =>
             owner[g] = "local" \/ engine.before[g] = binding.base[g]
      /\ remote \in Pages
  BY <1>1 DEF PatchProperty, PatchBody, At, IInv, TypeOK, Patches, Delivers, Delivering
<1>3. CASE PatchProperty
  <2>1. remote' = [remote EXCEPT !.content["property"] = engine.target["property"],
                                 !.edited = @ + 1]
    BY <1>3 DEF PatchProperty, Written, Refused
  <2>2. f = "property" /\ remote.content[f] # engine.target[f]
    BY <2>1, <1>2 DEF Pages, Contents, Fields
  <2> QED
    BY <2>2, <1>2
<1>4. CASE PatchBody
  <2>1. /\ remote' = [remote EXCEPT !.content["markdown"] = engine.target["markdown"],
                                    !.edited = @ + 1]
        /\ engine.before["markdown"] # engine.target["markdown"]
        /\ engine.before["markdown"] \in {Empty, remote.content["markdown"]}
    BY <1>4 DEF PatchBody, Written, Refused
  <2>2. f = "markdown"
    BY <2>1, <1>2 DEF Pages, Contents, Fields
  <2> QED
    BY <2>1, <2>2, <1>2
<1> QED
  BY <1>1, <1>3, <1>4

\* No edit on Notion since the base is overwritten unseen (notion.go:388).
THEOREM RemoteEditsAlwaysSurvive == Spec => RemoteEditsSurvive
<1>1. IInv /\ [Next]_vars =>
        [ByEngine =>
           \A f \in Fields : remote'.content[f] # remote.content[f] =>
               \/ remote.content[f] = binding.base[f]
               \/ owner[f] = "local"
               \/ /\ remote.content[f] # engine.ext.content[f]
                  /\ f = "markdown" => engine.ext.content[f] = Empty]_vars
  BY StepKeepsRemoteEdits
<1> QED
  BY <1>1, Inductive, PTL DEF Spec, RemoteEditsSurvive
=============================================================================
