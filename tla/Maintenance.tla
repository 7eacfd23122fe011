---------------------------- MODULE Maintenance ----------------------------
(***************************************************************************)
(* `lw maintenance rotate-logs` and `prune-empty` (internal/maintenance)   *)
(* over a home whose daemons go on writing.  A hand scans, plans from what *)
(* it saw, and acts on the plan; logs are copied and truncated in place.   *)
(***************************************************************************)
EXTENDS Naturals, FiniteSets

CONSTANTS
    Hands,           \* commands at work at one time
    Dirs, Parent,    \* directories below the print root; Parent[d] is None at the top
    None,
    TopLevel,        \* directories homedir.yaml declares
    Wipeable,        \* top-level directories of a zone that is wipe_on_reset
    Managed,         \* bare repositories and other trees of other tools
    Budget,          \* lines past which a log is oversize
    MaxLines, MaxSeconds, MaxFaults

\* Assumed of the constants; the module that composes this one states it.
HomeAssumption ==
    /\ Parent \in [Dirs -> Dirs \cup {None}] /\ None \notin Dirs
    /\ TopLevel \subseteq {d \in Dirs : Parent[d] = None}
    /\ {Budget, MaxLines, MaxSeconds, MaxFaults} \subseteq Nat /\ MaxSeconds # 0

VARIABLES
    log,       \* the lines one append-only log holds
    written,   \* lines its daemon has written so far
    archive,   \* per second: the archive a rotation of that second made
    hand,      \* the commands
    clock,
    dirs,      \* directories there are
    filled,    \* those with a file in them
    window,    \* history: lines appended where copy-truncate cannot keep them
    put,       \* history: directories a file was ever put in
    faults

vars == <<log, written, archive, hand, clock, dirs, filled, window, put, faults>>
logs == <<log, written, archive, window>>
tree == <<dirs, filled, put>>

Seconds == 1 .. MaxSeconds
Absent == [state |-> "absent", lines |-> {}]
Idle == [pc |-> "idle", stamp |-> 0, copied |-> {}, cut |-> FALSE, plan |-> {}]

Init ==
    /\ log = {} /\ written = 0 /\ window = {}
    /\ archive = [s \in Seconds |-> Absent]
    /\ hand = [h \in Hands |-> Idle] /\ clock = 1
    /\ dirs = Dirs /\ filled = {} /\ put = {} /\ faults = 0

At(h, pc) == hand[h].pc = pc
Go(h, state) == hand' = [hand EXCEPT ![h] = state]
End(h) == Go(h, Idle)
Fine == UNCHANGED faults
Fail == faults < MaxFaults /\ faults' = faults + 1

-----------------------------------------------------------------------------
(* The daemons                                                             *)

\* A line is safe unless a rotation has read past the place it goes to: it
\* waits for its truncate, or reads a log that another one truncated.
Append ==
    /\ written < MaxLines
    /\ written' = written + 1 /\ log' = log \cup {written + 1}
    /\ window' = IF \E h \in Hands : At(h, "truncate") \/ hand[h].cut
                 THEN window \cup {written + 1} ELSE window
    /\ UNCHANGED <<archive, hand, clock, tree, faults>>

Tick == clock < MaxSeconds /\ clock' = clock + 1 /\ UNCHANGED <<logs, hand, tree, faults>>

MakeDir(d) ==
    /\ d \notin dirs /\ Parent[d] \in dirs \cup {None}
    /\ dirs' = dirs \cup {d} /\ UNCHANGED <<logs, hand, clock, filled, put, faults>>
Fill(d) ==
    /\ d \in dirs /\ filled' = filled \cup {d} /\ put' = put \cup {d}
    /\ UNCHANGED <<logs, hand, clock, dirs, faults>>

-----------------------------------------------------------------------------
(* rotate-logs                                                             *)

Oversize == Cardinality(log) > Budget

\* PlanRotations: the archive is named for the second of the scan. With none
\* oversize, a dry run, --json or a "no", nothing follows.
Plan(h) ==
    /\ At(h, "idle") /\ Oversize
    /\ Go(h, [Idle EXCEPT !.pc = "create", !.stamp = clock])
    /\ UNCHANGED <<logs, clock, tree, faults>>

\* O_EXCL: the archive of another rotation of this second is never written to.
Create(h) ==
    /\ At(h, "create")
    /\ IF archive[hand[h].stamp].state = "absent"
       THEN \/ /\ archive' = [archive EXCEPT ![hand[h].stamp].state = "partial"]
               /\ Go(h, [hand[h] EXCEPT !.pc = "read"]) /\ Fine
            \/ UNCHANGED archive /\ End(h) /\ Fail
       ELSE UNCHANGED archive /\ End(h) /\ Fine
    /\ UNCHANGED <<log, written, window, clock, tree>>

\* io.Copy goes on to the end of the file; nothing is found past the place
\* it stands at in a file that was truncated under it.
Read(h) ==
    /\ At(h, "read") /\ hand[h].copied # log /\ ~hand[h].cut
    /\ Go(h, [hand[h] EXCEPT !.copied = log]) /\ Fine
    /\ UNCHANGED <<logs, clock, tree>>

\* Mutant: what the compression returns is not looked at.
WriteGzipUnchecked(h) ==
    /\ At(h, "read")
    /\ \/ /\ hand[h].cut \/ hand[h].copied = log
          /\ archive' = [archive EXCEPT ![hand[h].stamp] = [state |-> "whole", lines |-> hand[h].copied]] /\ Fine
       \/ UNCHANGED archive /\ Fail
    /\ Go(h, [hand[h] EXCEPT !.pc = "truncate", !.cut = FALSE])
    /\ UNCHANGED <<log, written, window, clock, tree>>

\* Written and closed in full; on an error the partial archive is removed.
WriteGzip(h) ==
    /\ At(h, "read")
    /\ \/ /\ hand[h].cut \/ hand[h].copied = log
          /\ archive' = [archive EXCEPT ![hand[h].stamp] = [state |-> "whole", lines |-> hand[h].copied]]
          /\ Go(h, [hand[h] EXCEPT !.pc = "truncate", !.cut = FALSE]) /\ Fine
       \/ /\ archive' \in {archive, [archive EXCEPT ![hand[h].stamp] = Absent]}
          /\ End(h) /\ Fail
    /\ UNCHANGED <<log, written, window, clock, tree>>

Cut(other) == other.pc = "read" /\ other.copied # {}
Truncate(h) ==
    /\ At(h, "truncate")
    /\ \/ /\ log' = {} /\ Fine
          /\ hand' = [g \in Hands |-> IF g = h THEN Idle
                                      ELSE [hand[g] EXCEPT !.cut = @ \/ Cut(hand[g])]]
       \/ UNCHANGED log /\ End(h) /\ Fail
    /\ UNCHANGED <<archive, written, window, clock, tree>>

-----------------------------------------------------------------------------
(* prune-empty                                                             *)

Entries(d) == {c \in dirs : Parent[c] = d}
Empty(d) == d \notin filled /\ Entries(d) = {}

Above[d \in Dirs] == IF Parent[d] = None THEN {d} ELSE {d} \cup Above[Parent[d]]
TopLevelOf(d) == CHOOSE a \in Above[d] : Parent[a] = None

Walked == {d \in dirs : Above[d] \cap Managed = {}}
EmptyDirs == {d \in Walked \ TopLevel : Empty(d)}

\* Mutant: every empty directory may go.
PlanPruneAll(empty) == empty

PlanPrune(empty) == {d \in empty : TopLevelOf(d) \in Wipeable}

ScanDirs(h) ==
    /\ At(h, "idle") /\ PlanPrune(EmptyDirs) # {}
    /\ Go(h, [Idle EXCEPT !.pc = "prune", !.plan = PlanPrune(EmptyDirs)])
    /\ UNCHANGED <<logs, clock, tree, faults>>

\* os.Remove refuses a directory that was filled, or removed, meanwhile; the
\* next one is tried all the same.
Prune(h) ==
    /\ At(h, "prune")
    /\ \E d \in hand[h].plan :
         /\ IF d \in dirs /\ Empty(d) THEN dirs' = dirs \ {d} ELSE UNCHANGED dirs
         /\ Go(h, IF hand[h].plan = {d} THEN Idle ELSE [hand[h] EXCEPT !.plan = @ \ {d}])
    /\ UNCHANGED <<logs, clock, filled, put, faults>>

-----------------------------------------------------------------------------
Killed(h) == ~At(h, "idle") /\ End(h) /\ Fail /\ UNCHANGED <<logs, clock, tree>>

Next ==
    \/ Append \/ Tick
    \/ \E d \in Dirs : MakeDir(d) \/ Fill(d)
    \/ \E h \in Hands : \/ Plan(h) \/ Create(h) \/ Read(h) \/ WriteGzip(h) \/ Truncate(h)
                        \/ ScanDirs(h) \/ Prune(h) \/ Killed(h)

Spec == Init /\ [][Next]_vars

-----------------------------------------------------------------------------
(* Properties                                                              *)

\* Every variable keeps its type.
TypeOK ==
    /\ log \subseteq 1 .. written /\ window \subseteq 1 .. written /\ written \in 0 .. MaxLines
    /\ archive \in [Seconds -> [state : {"absent", "partial", "whole"}, lines : SUBSET (1 .. written)]]
    /\ hand \in [Hands -> [pc : {"idle", "create", "read", "truncate", "prune"}, stamp : 0 .. MaxSeconds,
                           copied : SUBSET (1 .. written), cut : BOOLEAN, plan : SUBSET Dirs]]
    /\ clock \in Seconds /\ dirs \subseteq Dirs /\ filled \subseteq dirs /\ put \subseteq Dirs
    /\ faults \in 0 .. MaxFaults

\* Hygiene never costs anything of value, whatever overlaps, fails or dies:
\* every line a daemon wrote is in its log or in an archive that is complete,
\* but for the window between the end of the copy and the truncate; no file
\* goes with its directory; and no directory goes that the zones protect, that
\* homedir.yaml declares or that another tool keeps.
Archived(line) == \E s \in Seconds : archive[s].state = "whole" /\ line \in archive[s].lines
Expendable(d) == TopLevelOf(d) \in Wipeable /\ d \notin TopLevel /\ Above[d] \cap Managed = {}
NothingOfValueGoes ==
    /\ \A line \in 1 .. written : line \in log \cup window \/ Archived(line)
    /\ put \subseteq dirs
    /\ \A d \in Dirs \ dirs : Expendable(d)

\* Why it does not: a rotation that copies has an archive of its own; what is
\* in a log that waits for its truncate, or that one who copies has not seen
\* because it was truncated under it, is archived or in the window; what is
\* planned to go may go; and what was put is still there.
Dated == \A h \in Hands : hand[h].pc \in {"create", "read", "truncate"} => hand[h].stamp \in Seconds
OwnArchive ==
    \A h \in Hands : At(h, "read") =>
        /\ archive[hand[h].stamp].state = "partial"
        /\ \A g \in Hands : At(g, "read") /\ hand[g].stamp = hand[h].stamp => g = h
Truncatable == \A h \in Hands : At(h, "truncate") => \A line \in log : line \in window \/ Archived(line)
CutUnderCopy == \A h \in Hands : hand[h].cut => At(h, "read") /\ log \subseteq window
PlansExpendable == \A h \in Hands : At(h, "prune") => \A d \in hand[h].plan : Expendable(d)
IInv ==
    /\ TypeOK /\ Dated /\ OwnArchive /\ Truncatable /\ CutUnderCopy /\ PlansExpendable
    /\ put \subseteq filled /\ NothingOfValueGoes
=============================================================================
