------------------------------ MODULE Lineage ------------------------------
(***************************************************************************)
(* The planning rows of one epic - the epic, its stories, their tasks and  *)
(* documents - and `lw lineage check|fix`, which asks which documents are  *)
(* missing and makes them one INSERT at a time. A query may fail, be cut   *)
(* short, or the command be killed; the database is shared.                *)
(***************************************************************************)
EXTENDS Naturals, FiniteSets

CONSTANTS
    Required, Recommended,   \* document types of an epic
    Stories,                 \* a story of TaskThreshold tasks wants one "ddd"
    Fixers,                  \* terminals
    TaskThreshold,           \* 5 in the code
    MaxFaults

\* Assumed of the constants; the module that composes this one states it.
BoundsAssumption == TaskThreshold \in Nat \ {0} /\ MaxFaults \in Nat

VARIABLES
    epic,     \* status of the row, "none" before it exists
    story,    \* stories that exist, with the tasks each holds
    doc,      \* live documents per type of the epic and per story
    site,     \* rows of platform_site
    fix,      \* the command of each terminal
    faults,
    calm      \* history: no fault, no two fixers at once, no rows by hand

vars == <<epic, story, doc, site, fix, faults, calm>>

Slots == Required \cup Recommended \cup Stories
MaxCopies == 2                      \* copies the model tells apart
Idle == [pc |-> "idle", todo |-> {}, quiet |-> TRUE]
rows == <<epic, story, doc, site>>

TypeOK ==
    /\ epic \in {"none", "active", "archived"}
    /\ DOMAIN story \subseteq Stories /\ story \in [DOMAIN story -> 0 .. TaskThreshold]
    /\ doc \in [Slots -> 0 .. MaxCopies]
    /\ site \in 0 .. MaxCopies
    /\ fix \in [Fixers -> [pc : {"idle", "prompt", "recheck", "create"}, todo : SUBSET Slots, quiet : BOOLEAN]]
    /\ faults \in 0 .. MaxFaults /\ calm \in BOOLEAN

Init ==
    /\ epic = "none" /\ story = <<>> /\ site \in {0, 1}
    /\ doc = [d \in Slots |-> 0]
    /\ fix = [f \in Fixers |-> Idle] /\ faults = 0 /\ calm = TRUE

-----------------------------------------------------------------------------
(* Rows: epic, story and task commands; documents edited in the platform   *)

\* What changes the rows is news to every fix that has read them.
Statement == fix' = [f \in Fixers |-> [fix[f] EXCEPT !.quiet = (fix[f].pc = "idle")]] /\ UNCHANGED faults
CreateEpic == Statement /\ epic = "none" /\ epic' = "active" /\ UNCHANGED <<story, doc, site, calm>>
UpdateEpic ==
    /\ Statement /\ epic # "none" /\ epic' \in {"active", "archived"} \ {epic}
    /\ UNCHANGED <<story, doc, site, calm>>
CreateStory(s) ==
    /\ Statement /\ epic # "none" /\ s \notin DOMAIN story
    /\ story' = [r \in DOMAIN story \cup {s} |-> IF r = s THEN 0 ELSE story[r]]
    /\ UNCHANGED <<epic, doc, site, calm>>
SetTasks(s) ==
    /\ Statement /\ s \in DOMAIN story
    /\ \E n \in 0 .. TaskThreshold : n # story[s] /\ story' = [story EXCEPT ![s] = n]
    /\ UNCHANGED <<epic, doc, site, calm>>
\* A document written in the platform, or all of a kind deleted (softly); that
\* one is a draft is told, and changes nothing.
EditDocument(d) ==
    /\ Statement /\ epic # "none" /\ UNCHANGED <<epic, story, site, calm>>
    /\ doc' = [doc EXCEPT ![d] = IF @ = 0 THEN 1 ELSE 0]

-----------------------------------------------------------------------------
(* lineage check and fix                                                   *)

Fine == UNCHANGED <<faults, calm>>
Fail == faults < MaxFaults /\ faults' = faults + 1 /\ calm' = FALSE
End(f) == fix' = [fix EXCEPT ![f] = Idle]
Present == {d \in Slots : doc[d] > 0}

\* checkDocPresence and checkStoryDocuments: the missing ones of what the
\* rows read say; drafts and chain order are told but not made.
Missing(read) ==
    ((Required \cup Recommended) \ read)
      \cup {s \in DOMAIN story : story[s] >= TaskThreshold /\ s \notin read}
\* A query that is cut short reads like a short answer (rows.Err is never
\* asked), and a story whose document cannot be read counts as without one.
CheckLineage(f, pc) ==
    \/ Fine /\ fix' = [fix EXCEPT ![f] = [pc |-> pc, todo |-> Missing(Present), quiet |-> TRUE]]
    \/ Fail /\ \E read \in SUBSET Present : read # Present
            /\ fix' = [fix EXCEPT ![f] = [pc |-> pc, todo |-> Missing(read), quiet |-> TRUE]]
    \/ Fail /\ End(f)

\* Without gaps, with --dry-run, or for a bare check the command ends here.
Check(f) == fix[f].pc = "idle" /\ epic # "none" /\ UNCHANGED rows /\ CheckLineage(f, "prompt")
Told(f) == fix[f].pc = "prompt" /\ End(f) /\ UNCHANGED rows /\ Fine

\* Mutant: what the prompt showed is made, whatever was made since.
FixShown(f) ==
    /\ fix[f].pc = "prompt" /\ UNCHANGED <<rows, faults>>
    /\ fix' = [fix EXCEPT ![f].pc = "create", ![f].quiet = TRUE]
    /\ calm' = (calm /\ \A g \in Fixers \ {f} : fix[g].pc # "create")

\* FixLineage checks again, and works on that.
FixLineage(f) ==
    /\ fix[f].pc = "prompt" /\ UNCHANGED <<rows, faults>>
    /\ fix' = [fix EXCEPT ![f].pc = "recheck"]
    /\ calm' = (calm /\ \A g \in Fixers \ {f} : fix[g].pc \notin {"recheck", "create"})

Recheck(f) == fix[f].pc = "recheck" /\ UNCHANGED rows /\ CheckLineage(f, "create")

\* GetDefaultSiteID: any error reads as no site, and makes one.
SiteFor(read) == site' = IF read /\ site > 0 THEN site ELSE IF site < MaxCopies THEN site + 1 ELSE site
\* CreateDocument of the next gap: those of the epic come before the stories'.
CreateDocument(f) ==
    /\ fix[f].pc = "create" /\ UNCHANGED <<epic, story>>
    /\ IF fix[f].todo = {} THEN End(f) /\ Fine /\ UNCHANGED <<doc, site>>
       ELSE \E d \in fix[f].todo :
          /\ d \in Stories => fix[f].todo \subseteq Stories
          /\ \/ /\ \E read \in BOOLEAN : SiteFor(read) /\ (IF read THEN Fine ELSE Fail)
                /\ fix' = [fix EXCEPT ![f].todo = @ \ {d}]
                /\ doc' = [doc EXCEPT ![d] = IF @ < MaxCopies THEN @ + 1 ELSE @]
             \/ SiteFor(TRUE) /\ UNCHANGED doc /\ End(f) /\ Fail
Killed(f) == fix[f].pc # "idle" /\ End(f) /\ Fail /\ UNCHANGED rows

Next ==
    \/ CreateEpic \/ UpdateEpic \/ \E s \in Stories : CreateStory(s) \/ SetTasks(s)
    \/ \E d \in Slots : EditDocument(d)
    \/ \E f \in Fixers : Check(f) \/ Told(f) \/ FixLineage(f) \/ Recheck(f) \/ CreateDocument(f) \/ Killed(f)
Spec == Init /\ [][Next]_vars

-----------------------------------------------------------------------------
(* Property                                                                *)

\* However often it is run, and killed half-way, `lineage fix` makes no
\* document twice and leaves none missing - except after a query that was
\* cut short, where two fixes overlapped, and where rows changed under it.
OneDocumentOfAKind ==
    \A f \in Fixers : fix[f].pc = "create" /\ calm /\ fix[f].quiet =>
      /\ \A d \in Slots : doc'[d] > 1 => doc[d] > 1
      /\ (fix'[f].pc = "idle" /\ calm') => Missing(Present) = {}

\* Why: as long as all is calm one fix at most is past its prompt, and what is
\* still on its list is what is missing, no more and no less.
OneFixes == calm => \A f, g \in Fixers : fix[f].pc \in {"recheck", "create"} /\ fix[g].pc \in {"recheck", "create"} => f = g
ListIsMissing == calm => \A f \in Fixers : fix[f].pc = "create" /\ fix[f].quiet => fix[f].todo = Missing(Present)
IInv == TypeOK /\ OneFixes /\ ListIsMissing
=============================================================================
