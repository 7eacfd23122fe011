---------------------------- MODULE ReleaseGates ----------------------------
(***************************************************************************)
(* `lw release flag | sign-off | cut | merge`: a merge of release PRs      *)
(* passes a hold flag, an enabling flag, a QA verdict and a sign-off, each *)
(* in a file of its own that other commands read, change and write back.   *)
(* os.WriteFile empties a file before it fills it, and an empty file reads *)
(* as one without entries.                                                 *)
(***************************************************************************)
EXTENDS Naturals, FiniteSets

CONSTANTS
    Repos,
    PullRequests,   \* release PRs, by their titles
    Commands,
    MaxCuts,       \* cuts that are registered
    MaxFaults      \* failed reads, failed gh calls and kills

\* Assumed of the constants; the module that composes this one states it.
BoundsAssumption == MaxFaults \in Nat /\ MaxCuts \in Nat

VARIABLES
    flags,        \* flags.toml, and the registry's defaults: the flags that are on
    ledger,       \* release-signoff.yaml: the repos with a sign-off
    cuts,         \* release-cuts.yaml: how many cuts it lists
    pull,         \* the repo of each PR that is open
    command,
    faults,
    disturbed,    \* history: a command worked while a file was being rewritten,
                  \* or a rewrite was killed
    word          \* history: the last word on the hold, and on each repo's sign-off

vars == <<flags, ledger, cuts, pull, command, faults, disturbed, word>>

Flags == {"hold", "autonomous", "qa"}

Idle == [kind |-> "idle", pc |-> "idle", repo |-> CHOOSE r \in Repos : TRUE, flag |-> "hold", on |-> FALSE,
         text |-> {}, todo |-> {}, held |-> FALSE, unsigned |-> FALSE]

TypeOK ==
    /\ flags \subseteq Flags /\ ledger \subseteq Repos /\ cuts \in 0 .. MaxCuts
    /\ pull \in [PullRequests -> Repos \cup {"merged"}]
    /\ command = [c \in Commands |-> command[c]]
    /\ \A c \in Commands : command[c] \in
           [kind : {"idle", "flag", "sign-off", "cut", "merge"},
            pc : {"idle", "truncate", "fill", "hold", "autonomous", "qa", "ledger", "list", "merge"},
            repo : Repos \cup {Idle.repo}, flag : Flags, on : BOOLEAN,
            text : {command[c].text},                         \* TextsFit types it
            todo : SUBSET PullRequests, held : BOOLEAN, unsigned : BOOLEAN]
    /\ faults \in 0 .. MaxFaults /\ disturbed \in BOOLEAN
    /\ word \in [hold : BOOLEAN, signed : SUBSET Repos]

Init ==
    /\ flags = {} /\ ledger = {} /\ cuts = 0
    /\ pull \in [PullRequests -> Repos]
    /\ command = [c \in Commands |-> Idle]
    /\ faults = 0 /\ disturbed = FALSE
    /\ word = [hold |-> FALSE, signed |-> {}]

-----------------------------------------------------------------------------
At(c, pc) == command[c].pc = pc
Set(c, r) == command' = [command EXCEPT ![c] = r]
Go(c, pc) == Set(c, [command[c] EXCEPT !.pc = pc])
Done(c) == Set(c, Idle)
files == <<flags, ledger, cuts>>

Fail == faults < MaxFaults /\ faults' = faults + 1
Fine == UNCHANGED faults
Rewriting == {c \in Commands : command[c].pc \in {"truncate", "fill"}}
\* Every step of c while another command rewrites a file is a disturbance.
Note(c) == disturbed' = (disturbed \/ Rewriting \ {c} # {}) /\ UNCHANGED word

-----------------------------------------------------------------------------
(* flag, sign-off and cut: read, change, empty the file, fill it           *)

\* Mutant: the other flags are not carried over.
SetFlagAlone(c, f, on) ==
    /\ At(c, "idle")
    /\ Set(c, [command[c] EXCEPT !.kind = "flag", !.pc = "truncate", !.flag = f, !.on = on,
                                 !.text = IF on THEN {f} ELSE {}])
    /\ Fine /\ Note(c) /\ UNCHANGED <<files, pull>>

\* SetFlag drops nothing else; a file that cannot be read is an error.
SetFlag(c, f, on) ==
    /\ At(c, "idle")
    /\ \/ /\ Set(c, [command[c] EXCEPT !.kind = "flag", !.pc = "truncate", !.flag = f, !.on = on,
                                       !.text = IF on THEN flags \cup {f} ELSE flags \ {f}])
          /\ Fine
       \/ Done(c) /\ Fail
    /\ Note(c) /\ UNCHANGED <<files, pull>>

\* A sign-off records who and for which SHA; --clear deletes the repo's entry.
SignOff(c, repo, clear) ==
    /\ At(c, "idle")
    /\ Set(c, [command[c] EXCEPT !.kind = "sign-off", !.pc = "truncate", !.repo = repo, !.on = ~clear,
                                 !.text = IF clear THEN ledger \ {repo} ELSE ledger \cup {repo}])
    /\ Fine /\ Note(c) /\ UNCHANGED <<files, pull>>

Cut(c) ==
    /\ At(c, "idle") /\ cuts < MaxCuts
    /\ Set(c, [command[c] EXCEPT !.kind = "cut", !.pc = "truncate", !.text = 1 .. cuts + 1])
    /\ Fine /\ Note(c) /\ UNCHANGED <<files, pull>>

Truncate(c) ==
    /\ At(c, "truncate") /\ Go(c, "fill") /\ Fine /\ Note(c) /\ UNCHANGED pull
    /\ flags' = IF command[c].kind = "flag" THEN {} ELSE flags
    /\ ledger' = IF command[c].kind = "sign-off" THEN {} ELSE ledger
    /\ cuts' = IF command[c].kind = "cut" THEN 0 ELSE cuts

Fill(c) ==
    /\ At(c, "fill") /\ Fine /\ UNCHANGED pull
    /\ flags' = IF command[c].kind = "flag" THEN command[c].text ELSE flags
    /\ ledger' = IF command[c].kind = "sign-off" THEN command[c].text ELSE ledger
    /\ cuts' = IF command[c].kind = "cut" THEN Cardinality(command[c].text) ELSE cuts
    /\ disturbed' = (disturbed \/ Rewriting \ {c} # {})
    /\ word' = CASE command[c].kind = "flag" /\ command[c].flag = "hold" -> [word EXCEPT !.hold = command[c].on]
                 [] command[c].kind = "sign-off" ->
                        [word EXCEPT !.signed = IF command[c].on THEN @ \cup {command[c].repo} ELSE @ \ {command[c].repo}]
                 [] OTHER -> word
    \* a merge under way may go by what was so at any moment since it began
    /\ command' = [d \in Commands |->
           IF d = c THEN Idle
           ELSE [command[d] EXCEPT !.held = @ /\ word'.hold, !.unsigned = @ /\ command[d].repo \notin word'.signed]]

-----------------------------------------------------------------------------
(* merge --release-pr                                                      *)

Merge(c, repo) ==
    /\ At(c, "idle")
    /\ Set(c, [command[c] EXCEPT !.kind = "merge", !.pc = "hold", !.repo = repo,
                                 !.held = word.hold, !.unsigned = repo \notin word.signed])
    /\ Fine /\ Note(c) /\ UNCHANGED <<files, pull>>

\* IsEnabled: the file, else the default; a registry that cannot be synced or
\* read is an error.
IsEnabled(f) == f \in flags

Gate(c, here, passes, next) ==
    /\ At(c, here) /\ UNCHANGED <<files, pull>> /\ Note(c)
    /\ \/ Fine /\ IF passes THEN Go(c, next) ELSE Done(c)
       \/ Fail /\ Done(c)

\* ReleasePRAutonomous reads two flags in calls of their own, the QA gate a
\* third and the verdict, and then the ledger is read.
ReleasePRAutonomous(c) ==
    \/ Gate(c, "hold", ~IsEnabled("hold"), "autonomous")
    \/ Gate(c, "autonomous", IsEnabled("autonomous"), "qa")
\* The newest QA verdict, of whatever pass, is found without blockers or not.
RequireQaReleasePass(c) == \E verdict \in BOOLEAN : Gate(c, "qa", IsEnabled("qa") => verdict, "ledger")
RequireSignoff(c) == Gate(c, "ledger", command[c].repo \in ledger, "list")

Open(repo) == {p \in PullRequests : pull[p] = repo}

\* eligibleToMerge: out of draft, mergeable and clean or unstable, which is
\* for GitHub to compute.
FetchCandidates(c) ==
    /\ At(c, "list") /\ UNCHANGED <<files, pull>> /\ Note(c)
    /\ \/ \E eligible \in SUBSET Open(command[c].repo) :
             Set(c, [command[c] EXCEPT !.pc = "merge", !.todo = eligible]) /\ Fine
       \/ Done(c) /\ Fail

\* One gh call per PR; GitHub refuses what it no longer calls mergeable, and
\* a call that fails does not stop the others.
MergePR(c) ==
    /\ At(c, "merge") /\ UNCHANGED files /\ Note(c)
    /\ IF command[c].todo = {} THEN Done(c) /\ Fine /\ UNCHANGED pull
       ELSE \E p \in command[c].todo :
                /\ Set(c, [command[c] EXCEPT !.todo = @ \ {p}])
                /\ \/ pull' = [pull EXCEPT ![p] = "merged"] /\ Fine
                   \/ UNCHANGED pull /\ Fine
                   \/ UNCHANGED pull /\ Fail

Kill(c) ==
    /\ ~At(c, "idle") /\ Done(c) /\ Fail /\ UNCHANGED <<files, pull, word>>
    /\ disturbed' = (disturbed \/ At(c, "fill"))

Next ==
    \/ \E c \in Commands :
           \/ \E f \in Flags, on \in BOOLEAN : SetFlag(c, f, on)
           \/ \E r \in Repos : (\E clear \in BOOLEAN : SignOff(c, r, clear)) \/ Merge(c, r)
           \/ Cut(c) \/ Truncate(c) \/ Fill(c)
           \/ ReleasePRAutonomous(c) \/ RequireQaReleasePass(c) \/ RequireSignoff(c)
           \/ FetchCandidates(c) \/ MergePR(c) \/ Kill(c)
Spec == Init /\ [][Next]_vars

-----------------------------------------------------------------------------
(* Property                                                                *)

\* A merge that began after the hold was set, or after the sign-off of its
\* repo was cleared, and for as long as that was the last word, merges
\* nothing - unless a command worked while a file was being rewritten or a
\* rewrite was killed: then an emptied file reads as no hold and no sign-off,
\* and a change made from an old copy undoes another.
LastWordHolds ==
    \A c \in Commands : ~disturbed /\ command[c].todo # {} => ~command[c].held /\ ~command[c].unsigned

\* Why they merge nothing: what stands in a file that nobody has emptied, and
\* the text a rewrite is about to put there, say what the last words were; and
\* a merge that passed a gate is not one that gate was closed to all along.
TextsFit ==
    \A c \in Commands :
        /\ command[c].kind = "flag" => command[c].text \subseteq Flags
        /\ command[c].kind = "sign-off" => command[c].text \subseteq Repos /\ command[c].repo \in Repos
        /\ command[c].kind = "cut" => \E n \in 1 .. MaxCuts : command[c].text = 1 .. n
        /\ command[c].kind \in {"idle", "merge"} => command[c].text = {}
IdleIsIdle == \A c \in Commands : At(c, "idle") => command[c] = Idle
MergesLast == \A c \in Commands : command[c].todo # {} => At(c, "merge")
StillSo ==
    \A c \in Commands : /\ command[c].held => word.hold
                        /\ command[c].unsigned => command[c].repo \notin word.signed
OneRewrites == ~disturbed => \A c, d \in Rewriting : c = d
Emptied(kind) == \E c \in Commands : At(c, "fill") /\ command[c].kind = kind
FilesTellTheWord ==
    ~disturbed => /\ ~Emptied("flag") => ("hold" \in flags <=> word.hold)
                  /\ ~Emptied("sign-off") => ledger = word.signed
TextsTellTheWord ==
    ~disturbed =>
        \A c \in Rewriting :
            /\ command[c].kind = "flag" =>
                   ("hold" \in command[c].text <=> IF command[c].flag = "hold" THEN command[c].on ELSE word.hold)
            /\ command[c].kind = "sign-off" =>
                   command[c].text = IF command[c].on THEN word.signed \cup {command[c].repo}
                                     ELSE word.signed \ {command[c].repo}
PassedGates ==
    ~disturbed =>
        \A c \in Commands :
            /\ command[c].pc \in {"autonomous", "qa", "ledger", "list", "merge"} => ~command[c].held
            /\ command[c].pc \in {"list", "merge"} => ~command[c].unsigned
IInv ==
    /\ TypeOK /\ TextsFit /\ IdleIsIdle /\ MergesLast /\ StillSo /\ OneRewrites
    /\ FilesTellTheWord /\ TextsTellTheWord /\ PassedGates
=============================================================================
