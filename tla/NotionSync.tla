---------------------------- MODULE NotionSync ----------------------------
(* lw knowledge sync and reindex on one Notion page: a three-way merge of   *)
(* the page on Notion with its print (the local file) over the base its     *)
(* binding keeps, while a person edits on either side, calls fail, replies  *)
(* get lost and the process is killed (internal/knowledge).                 *)
(*                                                                          *)
(* A page has one mapped property and its markdown body. A Notion stamp     *)
(* (last_edited_time) grows with every change. One engine runs at a time:   *)
(* Run holds the flock of Files.Lock from List to the end, and the lock     *)
(* dies with the process. Writers of the print do not take it.              *)
EXTENDS Naturals

CONSTANTS
    None,             \* no print, no binding, no snapshot
    Values,           \* contents a field can have
    Empty,            \* the value of an empty body, and of the property at first
    Owners,           \* declared owners of the property to try
    MaxDisturbances   \* edits, archivings, reindexes, failed calls, lost replies, kills

ASSUME ValuesAssumption == Empty \in Values
ASSUME OwnersAssumption ==
    Owners \subseteq {"reconcile", "local", "external", "read_only"}
ASSUME BoundAssumption == MaxDisturbances \in Nat

VARIABLES
    remote,           \* the page on Notion
    page,             \* its print under specs/notion_page
    binding,          \* its print under specs/external_ref
    index,            \* the row Postgres has of the page
    engine,           \* the running sync or reindex
    owner,            \* the owner of each field, from the property map
    bidirectional,    \* database and binding both authorize delivery
    disturbances,     \* spent of MaxDisturbances
    had               \* history: the field values Notion ever had

vars == <<remote, page, binding, index, engine, owner, bidirectional, disturbances, had>>

Fields == {"property", "markdown"}
Contents == [Fields -> Values]
Pages == [content : Contents, edited : Nat, archived : BOOLEAN, complete : BOOLEAN]
Statuses == {"pending", "error", "synced", "drift"}
Bindings == [base : Contents, pending : Contents \cup {None},
             status : Statuses, written : Pages \cup {None}]
Steps == {"idle", "fetch_page", "fetch_body", "load", "patch_property", "patch_body",
          "reread", "fold_page", "fold_binding", "save_page", "save_binding",
          "project", "fail"}
\* What a fetch is for (reconcile, Update's check, Update's read-back); a
\* projection is of an unchanged or reindexed page, or ends a reconciliation.
Stages == {"reconcile", "check", "readback", "cached"}

Engines == [pc : Steps, stage : Stages, ext : Pages \cup {None},
            before : Contents \cup {None}, local : Pages \cup {None},
            target : Contents \cup {None}]

ASSUME NoneAssumption == None \notin Pages /\ None \notin Contents /\ None \notin Bindings

Idle == [pc |-> "idle", stage |-> "cached", ext |-> None, before |-> None,
         local |-> None, target |-> None]

\* The value each field of a version of the page has.
Shown(version) ==
    {<<f, version.content[f]>> : f \in Fields}

Init ==
    /\ \E c \in BOOLEAN :
           remote = [content |-> [f \in Fields |-> Empty], edited |-> 1,
                     archived |-> FALSE, complete |-> c]
    /\ page = None /\ binding = None /\ index = None
    /\ engine = Idle
    /\ \E o \in Owners : owner = [property |-> o, markdown |-> "reconcile"]
    /\ bidirectional \in BOOLEAN
    /\ disturbances = 0
    /\ had = Shown(remote)

(***************************** the three-way merge **************************)
\* mergeValue, its value ...
MergedValue(o, base, local, external) ==
    CASE o = "local" -> local
      [] o = "external" -> external
      [] o = "read_only" -> IF local \in {base, external} THEN external ELSE local
      [] o = "reconcile" -> IF base = local THEN external ELSE local

\* ... and its conflict.
Conflict(o, base, local, external) ==
    /\ o \in {"read_only", "reconcile"}
    /\ base # local /\ local # external
    /\ o = "reconcile" => base # external

Merge(base, local, external) ==
    [f \in Fields |-> MergedValue(owner[f], base[f], local[f], external[f])]

Conflicts(base, local, external) ==
    {f \in Fields : Conflict(owner[f], base[f], local[f], external[f])}

\* delivered: what the target changes reads back as it was sent.
Delivered(before, target, actual) ==
    \A f \in Fields : target[f] # before[f] => actual[f] = target[f]

(******************************** helpers ***********************************)
At(pc) == engine.pc = pc
Goes(pc) == engine' = [engine EXCEPT !.pc = pc]
Disturbs == disturbances < MaxDisturbances /\ disturbances' = disturbances + 1
Fails == Goes(IF engine.stage = "cached" THEN "idle" ELSE "fail")

\* Record what Notion has after a step.
Remember ==
    had' = had \cup Shown(remote')

\* unchanged: nobody touched the page or its print since they were written.
PageUnchanged ==
    /\ page # None /\ page.edited = remote.edited /\ ~page.archived
    /\ binding # None /\ binding.status = "synced" /\ binding.written = page

(**************************** the sync engine *******************************)
\* Mutant: a page that has not changed is not projected again.
ListPagesSkippingUnchanged ==
    /\ At("idle")
    /\ remote.archived => page # None
    /\ ~PageUnchanged
    /\ engine' = [Idle EXCEPT !.pc = "fetch_page", !.stage = "reconcile"]
    /\ UNCHANGED <<remote, page, binding, index, disturbances>>

\* Run and runDatabase: lock, project the database, list the data source. A
\* page whose stamp, print and binding agree is only projected, unless --full;
\* an archived page is not listed, and fetched only if it has a print.
ListPages ==
    /\ At("idle")
    /\ remote.archived => page # None
    /\ \/ engine' = [Idle EXCEPT !.pc = "fetch_page", !.stage = "reconcile"]
       \/ /\ ~remote.archived /\ PageUnchanged
          /\ engine' = [Idle EXCEPT !.pc = "project", !.ext = page]
    /\ UNCHANGED <<remote, page, binding, index, disturbances>>

\* Client.Fetch reads the page object and its body by two requests.
FetchPage ==
    /\ At("fetch_page")
    /\ engine' = [engine EXCEPT !.pc = "fetch_body", !.ext = remote]
    /\ UNCHANGED <<remote, page, binding, index, disturbances>>

\* The second request of the fetch that reconcile begins with.
Fetched(read) == engine' = [engine EXCEPT !.pc = "load", !.ext = read]

\* Mutant: Update does not compare what it re-fetched with what was merged.
CheckedBlindly(read) ==
    engine' = [engine EXCEPT !.ext = read,
                 !.pc = IF engine.before["property"] # engine.target["property"]
                        THEN "patch_property" ELSE "patch_body"]

\* Update re-fetches before it writes: a page that is no longer the one that
\* was merged, or whose body is incomplete, is not written to.
Checked(read) ==
    IF \/ read.content # engine.before
       \/ engine.before["markdown"] # engine.target["markdown"] /\ ~read.complete
    THEN Goes("fail")
    ELSE engine' = [engine EXCEPT !.ext = read,
                      !.pc = IF engine.before["property"] # engine.target["property"]
                             THEN "patch_property" ELSE "patch_body"]

\* Mutant: the intent is taken for what Notion has now.
ReadBackTrusted(read) ==
    engine' = [engine EXCEPT !.pc = "reread", !.ext = read]

\* Update's last fetch is the new remote side, if it carries the delivery.
ReadBack(read) ==
    IF Delivered(engine.before, engine.target, read.content)
    THEN engine' = [engine EXCEPT !.pc = "reread", !.ext = read, !.target = read.content]
    ELSE Goes("fail")

FetchBody ==
    /\ At("fetch_body")
    /\ LET read == [engine.ext EXCEPT !.content["markdown"] = remote.content["markdown"],
                                      !.complete = remote.complete]
       IN  CASE engine.stage = "reconcile" -> Fetched(read)
             [] engine.stage = "check"     -> Checked(read)
             [] engine.stage = "readback"  -> ReadBack(read)
    /\ UNCHANGED <<remote, page, binding, index, disturbances>>

\* Mutant: the page is imported before its identity is saved.
ImportPageFirst ==
    /\ At("load") /\ page = None
    /\ engine' = [engine EXCEPT !.pc = "save_page", !.target = engine.ext.content]
    /\ UNCHANGED <<remote, page, binding, index, disturbances>>

\* reconcile of a page without a print: a first import, or one that was
\* interrupted between its identity and its page.
ImportPage ==
    /\ At("load") /\ page = None
    /\ binding # None => binding.written = None /\ binding.pending = None
    /\ binding' = IF binding # None THEN binding
                  ELSE [base |-> engine.ext.content, pending |-> None,
                        status |-> "pending", written |-> None]
    /\ engine' = [engine EXCEPT !.pc = "save_page", !.target = engine.ext.content]
    /\ UNCHANGED <<remote, page, index, disturbances>>

\* reconcile of a page with a print: load both prints, merge, and save what the
\* merge decided before anything is written elsewhere.
ReconcilePage ==
    /\ At("load") /\ page # None
    /\ LET external == engine.ext.content
           target   == Merge(binding.base, page.content, external)
           outbound == target # external
           body     == target["markdown"] # external["markdown"]
       IN  \/ \* both sides changed a field: keep everything, ask a person
              /\ Conflicts(binding.base, page.content, external) # {}
              /\ binding' = [binding EXCEPT !.status = "drift"]
              /\ engine' = Idle
           \/ /\ Conflicts(binding.base, page.content, external) = {}
              /\ \/ \* nothing to deliver
                    /\ ~outbound
                    /\ engine' = [engine EXCEPT !.pc = "reread", !.local = page,
                                                !.before = external, !.target = target]
                    /\ UNCHANGED binding
                 \/ \* an archived page keeps its local edits
                    /\ outbound /\ engine.ext.archived
                    /\ Goes("fail") /\ UNCHANGED binding
                 \/ \* delivery is not authorized
                    /\ outbound /\ ~engine.ext.archived /\ ~bidirectional
                    /\ binding' = [binding EXCEPT !.status = "pending"]
                    /\ engine' = Idle
                 \/ \* an incomplete capture of the body must not go out
                    /\ outbound /\ ~engine.ext.archived /\ bidirectional
                    /\ ~page.complete /\ body
                    /\ Goes("fail") /\ UNCHANGED binding
                 \/ \* save the intent, then Update
                    /\ outbound /\ ~engine.ext.archived /\ bidirectional
                    /\ page.complete \/ ~body
                    /\ binding' = [binding EXCEPT !.status = "pending", !.pending = target]
                    /\ engine' = [engine EXCEPT !.pc = "fetch_page", !.stage = "check",
                                    !.local = page, !.before = external, !.target = target]
    /\ UNCHANGED <<remote, page, index, disturbances>>

\* A write to Notion went through, was refused, or went through and its reply
\* was lost. Notion refuses to write to an archived page.
Written(field, next) ==
    /\ remote' = [remote EXCEPT !.content[field] = engine.target[field], !.edited = @ + 1]
    /\ \/ engine' = next /\ UNCHANGED disturbances
       \/ Disturbs /\ Goes("fail")

Refused == Goes("fail") /\ UNCHANGED <<remote, disturbances>>

Reading == [engine EXCEPT !.pc = "fetch_page", !.stage = "readback"]

\* PATCH /pages/<id> writes the property whatever it is by now.
PatchProperty ==
    /\ At("patch_property")
    /\ IF remote.archived THEN Refused
       ELSE Written("property", [engine EXCEPT !.pc = "patch_body"])
    /\ UNCHANGED <<page, binding, index>>

\* PATCH /pages/<id>/markdown replaces the old text by the new: Notion refuses
\* it if the old text is gone. An empty body has no old text to ask for.
PatchBody ==
    /\ At("patch_body")
    /\ IF engine.before["markdown"] = engine.target["markdown"]
       THEN engine' = Reading /\ UNCHANGED <<remote, disturbances>>
       ELSE IF \/ remote.archived
               \/ engine.before["markdown"] \notin {Empty, remote.content["markdown"]}
            THEN Refused
            ELSE Written("markdown", Reading)
    /\ UNCHANGED <<page, binding, index>>

\* Mutant: the print is not compared with the version that was merged.
RereadIgnoringEdits ==
    /\ At("reread")
    /\ engine' = [engine EXCEPT !.pc = "save_page", !.local = page,
                                !.ext.content = engine.target]
    /\ UNCHANGED <<remote, page, binding, index, disturbances>>

\* The print is read again after the network calls. An edit made meanwhile is
\* merged into the delivered version, over the version that was delivered from.
Reread ==
    /\ At("reread")
    /\ LET current == engine.local.content
       IN  IF page.content = current
           THEN /\ engine' = [engine EXCEPT !.pc = "save_page", !.local = page,
                                            !.ext.content = engine.target]
                /\ UNCHANGED binding
           ELSE IF Conflicts(current, page.content, engine.target) # {}
           THEN /\ binding' = [binding EXCEPT !.status = "drift"]
                /\ engine' = Idle
           ELSE /\ engine' = [engine EXCEPT !.pc = "fold_page", !.local = page,
                    !.ext = [page EXCEPT !.content =
                                 Merge(current, page.content, engine.target)]]
                /\ UNCHANGED binding
    /\ UNCHANGED <<remote, page, index, disturbances>>

FoldPage ==
    /\ At("fold_page")
    /\ page' = engine.ext /\ Goes("fold_binding")
    /\ UNCHANGED <<remote, binding, index, disturbances>>

FoldBinding ==
    /\ At("fold_binding")
    /\ binding' = [binding EXCEPT !.base = engine.target, !.pending = None,
                                  !.status = "pending"]
    /\ engine' = Idle
    /\ UNCHANGED <<remote, page, index, disturbances>>

\* accept: the page, then its binding, then the index.
SavePage ==
    /\ At("save_page")
    /\ page' = engine.ext /\ Goes("save_binding")
    /\ UNCHANGED <<remote, binding, index, disturbances>>

SaveBinding ==
    /\ At("save_binding")
    /\ binding' = [base |-> engine.target, pending |-> None, status |-> "synced",
                   written |-> engine.ext]
    /\ Goes("project")
    /\ UNCHANGED <<remote, page, index, disturbances>>

\* Project commits the row; its reply may be lost.
Project ==
    /\ At("project")
    /\ index' = engine.ext
    /\ \/ engine' = Idle /\ UNCHANGED disturbances
       \/ Disturbs /\ Fails
    /\ UNCHANGED <<remote, page, binding>>

\* runDatabase marks the binding of a page whose reconciliation failed.
Fail ==
    /\ At("fail")
    /\ binding' = IF binding = None THEN None ELSE [binding EXCEPT !.status = "error"]
    /\ engine' = Idle
    /\ UNCHANGED <<remote, page, index, disturbances>>

\* A request, a file operation or a commit fails without effect ...
CallFails ==
    /\ ~At("idle") /\ ~At("fail") /\ Disturbs /\ Fails
    /\ UNCHANGED <<remote, page, binding, index>>

\* ... or the process is killed.
Kill ==
    /\ ~At("idle") /\ Disturbs /\ engine' = Idle
    /\ UNCHANGED <<remote, page, binding, index>>

\* What a sync does by itself.
Progress ==
    \/ ListPages \/ FetchPage \/ FetchBody \/ ImportPage \/ ReconcilePage
    \/ PatchProperty \/ PatchBody \/ Reread \/ FoldPage \/ FoldBinding
    \/ SavePage \/ SaveBinding \/ Project \/ Fail

EngineStep ==
    /\ Progress \/ CallFails \/ Kill
    /\ UNCHANGED <<owner, bidirectional>> /\ Remember

(**************************** people and reindex ****************************)
Apart == Disturbs /\ UNCHANGED <<binding, index, owner, bidirectional>>

\* A person, an agent or another tool edits the print.
LocalEdit ==
    /\ page # None
    /\ \E f \in Fields, v \in Values :
           v # page.content[f] /\ page' = [page EXCEPT !.content[f] = v]
    /\ Apart /\ UNCHANGED <<remote, engine>> /\ Remember

\* A person edits the page on Notion.
RemoteEdit ==
    /\ ~remote.archived
    /\ \E f \in Fields, v \in Values :
           /\ v # remote.content[f]
           /\ remote' = [remote EXCEPT !.content[f] = v, !.edited = @ + 1]
    /\ Apart /\ UNCHANGED <<page, engine>> /\ Remember

\* A person archives the page, or restores it.
Archive ==
    /\ remote' = [remote EXCEPT !.archived = ~@, !.edited = @ + 1]
    /\ Apart /\ UNCHANGED <<page, engine>> /\ Remember

\* Reindex projects the print as it is.
Reindex ==
    /\ At("idle") /\ page # None /\ binding # None
    /\ engine' = [Idle EXCEPT !.pc = "project", !.ext = page]
    /\ Apart /\ UNCHANGED <<remote, page>> /\ Remember

Next == EngineStep \/ LocalEdit \/ RemoteEdit \/ Archive \/ Reindex

\* launchd runs the sync again and again (notion_knowledge_hygiene).
Fairness == WF_vars(Progress /\ UNCHANGED <<owner, bidirectional>> /\ Remember)

Spec == Init /\ [][Next]_vars /\ Fairness

(******************************* properties *********************************)
\* Every variable has its type, and a print always has its binding.
TypeOK ==
    /\ remote \in Pages
    /\ page \in Pages \cup {None}
    /\ binding \in Bindings \cup {None}
    /\ index \in Pages \cup {None}
    /\ engine \in Engines
    /\ owner \in [Fields -> Owners \cup {"reconcile"}] /\ bidirectional \in BOOLEAN
    /\ disturbances \in 0 .. MaxDisturbances
    /\ page # None => binding # None

ByEngine == engine' # engine

\* The sync never replaces a local value Notion has never had, unless the
\* property map gives the field to Notion or the edit fell between the last
\* read of the print and its save (reconcile.go:418, content.go:202): a local
\* edit is not lost to an import, a failed delivery or a restart.
LocalEditsSurvive ==
    [][ByEngine /\ page # None =>
         \A f \in Fields : page'.content[f] # page.content[f] =>
             \/ <<f, page.content[f]>> \in had
             \/ owner[f] = "external"
             \/ page.content[f] # engine.local.content[f]]_vars

\* The sync replaces a value on Notion only while it is the base of the merge,
\* unless the print owns the field, or a person changed the property, or filled
\* an empty body, after Update's last look at it (notion.go:388): an edit made
\* on Notion since the base is not overwritten unseen.
RemoteEditsSurvive ==
    [][ByEngine =>
         \A f \in Fields : remote'.content[f] # remote.content[f] =>
             \/ remote.content[f] = binding.base[f]
             \/ owner[f] = "local"
             \/ /\ remote.content[f] # engine.ext.content[f]
                /\ f = "markdown" => engine.ext.content[f] = Empty]_vars

\* A page the sync may skip by its stamp, print and binding is the page on
\* Notion: nothing the sync wrote by itself passes for what it read
\* (reconcile.go:407, 545).
SkippedIsInSync == PageUnchanged => page.content = remote.content

\* What only a person can bring together.
Undeliverable(f) ==
    \/ Conflict(owner[f], binding.base[f], page.content[f], remote.content[f])
    \/ /\ MergedValue(owner[f], binding.base[f], page.content[f], remote.content[f])
            # remote.content[f]
       /\ \/ remote.archived \/ ~bidirectional
          \/ f = "markdown" /\ ~(page.complete /\ remote.complete)

\* When people stop editing, the sync ends with the same content on Notion, in
\* the print and in the index, or with a difference it leaves to a person,
\* whatever failed on the way (reconcile.go:235, 492).
Settles ==
    <>[](\/ page # None /\ binding.status = "synced" /\ index = page
            /\ page.content = remote.content
         \/ page # None /\ binding.status # "synced" /\ \E f \in Fields : Undeliverable(f)
         \/ page = None /\ remote.archived)
=============================================================================
