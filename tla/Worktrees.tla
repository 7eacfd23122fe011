----------------------------- MODULE Worktrees -----------------------------
(***************************************************************************)
(* The custody of local work: `lw worktree create | gc | prune`, the       *)
(* liveness lock and the rescue they rest on, and `lw git sweep`.  The     *)
(* commands are short-lived processes over one clone, and between any two  *)
(* git calls of theirs a session edits, commits, pushes, or the forge      *)
(* merges and closes.  A commit carries one change; a tree is the set of   *)
(* changes it holds.  An issue names its branch and its worktree, so one   *)
(* name b stands for all three.                                            *)
(***************************************************************************)
EXTENDS Functions

CONSTANTS
    Branches,   \* the issues, each with its branch and its worktree
    Changes,    \* units of work a session can produce
    Removers    \* concurrent runs of `lw worktree gc` and `prune`

VARIABLES
    heads,      \* local branches: own commits, base content forked from, upstream
    remote,     \* the branches the forge still has
    base,       \* the forge's main: commits in its history, trees it has had
    fetched,    \* origin/main as of the clone's last fetch
    merged,     \* names that were the head of a merged PR
    trees,      \* live worktrees and the uncommitted changes in each
    dead,       \* registered worktrees whose directory is gone
    creator,    \* per issue, where `lw worktree create` stands
    rescued,    \* changes anchored under refs/rescue
    sweep,      \* the one run of `lw git sweep`
    remover,    \* the runs of gc and prune
    lost        \* history: changes a command took from the last place they were

git == <<heads, remote, base, fetched, merged>>
vars == <<git, trees, dead, creator, rescued, sweep, remover, lost>>

Proofs == {"none", "ancestor", "tree-on-base", "merged-pr"}
Tip == [work : SUBSET Changes, from : SUBSET Changes]
Head == [work : SUBSET Changes, from : SUBSET Changes,
         upstream : {"base", "tracked", "gone"}]
Trunk == [commits : SUBSET Changes, trees : SUBSET SUBSET Changes]
Loss == [change : Changes, by : {"sweep", "remove"}, proof : Proofs, seen : BOOLEAN]

Without(f, b) == Restrict(f, DOMAIN f \ {b})
With(f, b, v) == [x \in DOMAIN f \cup {b} |-> IF x = b THEN v ELSE f[x]]

\* The branches, or worktrees, there are, with what each holds.
Partial(S) == UNION {[D -> S] : D \in SUBSET Branches}
Candidate == [proof : Proofs \ {"none"}, work : SUBSET Changes]
Sweeping ==
    [pc : {"idle", "scan", "classify", "prompt", "delete", "tip"}, left : SUBSET Branches,
     gone : SUBSET Branches, held : SUBSET Branches, dead : BOOLEAN, online : BOOLEAN,
     candidates : Partial(Candidate), target : SUBSET Branches]
Removing ==
    [pc : {"idle", "rescue", "remove", "prune"}, left : SUBSET Branches, force : BOOLEAN, saw : SUBSET Changes]

TypeOK ==
    /\ heads \in Partial(Head) /\ remote \in Partial(Tip) /\ trees \in Partial(SUBSET Changes)
    /\ base \in Trunk /\ fetched \in Trunk /\ merged \subseteq Branches
    /\ DOMAIN trees \subseteq DOMAIN heads
    /\ dead \subseteq DOMAIN heads \ DOMAIN trees
    /\ creator \in [Branches -> {"idle", "added", "claimed"}]
    /\ rescued \subseteq Changes
    /\ sweep \in Sweeping /\ remover \in [Removers -> Removing]
    /\ lost \subseteq Loss

-----------------------------------------------------------------------------
(* What git and the forge hold.                                            *)

\* The newest tree of a trunk: main only ever gains content.
Content(trunk) == UNION trunk.trees
TreeOf(h) == h.from \cup h.work

\* Branches git reports as checked out, those of dead registrations included.
Held == DOMAIN trees \cup dead

\* Changes some ref, or some worktree's files, still hold.
Kept(hs, rem, ts, res) ==
    UNION ({TreeOf(hs[b]) : b \in DOMAIN hs} \cup {TreeOf(rem[b]) : b \in DOMAIN rem}
           \cup {ts[b] : b \in DOMAIN ts} \cup {Content(base), res})

Made == Kept(heads, remote, trees, rescued) \cup {l.change : l \in lost}

\* worktreelock.Holder: the lock Claim wrote carries the pid of the `lw` that
\* is creating the worktree, so it vouches exactly while that process lives.
Holder(b) == creator[b] = "claimed"

NoSweep == [pc |-> "idle", left |-> {}, gone |-> {}, held |-> {}, dead |-> FALSE,
            online |-> FALSE, candidates |-> <<>>, target |-> {}]
NoRemoval == [pc |-> "idle", left |-> {}, force |-> FALSE, saw |-> {}]

Init ==
    /\ heads = <<>> /\ remote = <<>> /\ merged = {}
    /\ base = [commits |-> {}, trees |-> {{}}] /\ fetched = base
    /\ trees = <<>> /\ dead = {} /\ rescued = {}
    /\ creator = [b \in Branches |-> "idle"]
    /\ sweep = NoSweep
    /\ remover = [r \in Removers |-> NoRemoval]
    /\ lost = {}

-----------------------------------------------------------------------------
(* Sessions and the forge: what the commands do not control.               *)

commands == <<creator, sweep, remover, lost>>

\* A session writes files in its worktree.
Edit(b) ==
    /\ b \in DOMAIN trees
    /\ \E c \in Changes \ Made : trees' = [trees EXCEPT ![b] = @ \cup {c}]
    /\ UNCHANGED <<git, dead, rescued, commands>>

Commit(b) ==
    /\ b \in DOMAIN trees /\ trees[b] # {}
    /\ heads' = [heads EXCEPT ![b].work = @ \cup trees[b]]
    /\ trees' = [trees EXCEPT ![b] = {}]
    /\ UNCHANGED <<remote, base, fetched, merged, dead, rescued, commands>>

\* `git push -u origin b`
Push(b) ==
    /\ b \in DOMAIN trees
    /\ heads' = [heads EXCEPT ![b].upstream = "tracked"]
    /\ remote' = With(remote, b, [work |-> heads[b].work, from |-> heads[b].from])
    /\ UNCHANGED <<base, fetched, merged, trees, dead, rescued, commands>>

\* A plain `git worktree add` of a branch that exists.
Attach(b) ==
    /\ b \in DOMAIN heads \ Held
    /\ trees' = With(trees, b, {})
    /\ UNCHANGED <<git, dead, rescued, commands>>

\* The directory of a clean worktree is removed by hand; git keeps its entry.
DirectoryVanishes(b) ==
    /\ b \in DOMAIN trees /\ trees[b] = {}
    /\ trees' = Without(trees, b)
    /\ dead' = dead \cup {b}
    /\ UNCHANGED <<git, rescued, commands>>

\* A PR merges, squashed or not, and the forge deletes its branch.
MergePR(b) ==
    /\ b \in DOMAIN remote
    /\ \E squash \in BOOLEAN :
           base' = [commits |-> IF squash THEN base.commits
                                ELSE base.commits \cup remote[b].work,
                    trees |-> base.trees \cup {Content(base) \cup remote[b].work}
                                \cup IF squash THEN {} ELSE {TreeOf(remote[b])}]
    /\ merged' = merged \cup {b}
    /\ remote' = Without(remote, b)
    /\ UNCHANGED <<heads, fetched, trees, dead, rescued, commands>>

\* A PR is closed unmerged and its branch deleted.
ClosePR(b) ==
    /\ b \in DOMAIN remote
    /\ remote' = Without(remote, b)
    /\ UNCHANGED <<heads, base, fetched, merged, trees, dead, rescued, commands>>

-----------------------------------------------------------------------------
(* lw worktree create                                                      *)

\* A marked path answers "already active" and an unmarked one exit 3, both
\* without a change, and git refuses `-b` for a branch that exists and a path
\* still registered: what is left is a fresh branch off origin/main.
CreateAdd(b) ==
    /\ creator[b] = "idle"
    /\ b \notin Held \cup DOMAIN heads
    /\ heads' = With(heads, b, [work |-> {}, from |-> Content(fetched), upstream |-> "base"])
    /\ trees' = With(trees, b, {})
    /\ creator' = [creator EXCEPT ![b] = "added"]
    /\ UNCHANGED <<remote, base, fetched, merged, dead, rescued, sweep, remover, lost>>

\* The metadata is written, then the claim, whose failure is only a warning.
CreateClaim(b) ==
    /\ creator[b] = "added"
    /\ b \in DOMAIN trees
    /\ creator' = [creator EXCEPT ![b] = "claimed"]
    /\ UNCHANGED <<git, trees, dead, rescued, sweep, remover, lost>>

\* The process ends: done, failed on the metadata, or killed.
CreateExit(b) ==
    /\ creator[b] # "idle"
    /\ creator' = [creator EXCEPT ![b] = "idle"]
    /\ UNCHANGED <<git, trees, dead, rescued, sweep, remover, lost>>

-----------------------------------------------------------------------------
(* lw worktree gc and prune                                                *)

At(r, pc) == remover[r].pc = pc
Step(r, fields) == remover' = [remover EXCEPT ![r] = fields]

\* removeWorktreeSafely up to the holder check; a held worktree is refused.
GcStart(r, b) ==
    /\ At(r, "idle")
    /\ b \in DOMAIN trees
    /\ ~Holder(b)
    /\ \E force \in BOOLEAN :
           Step(r, [pc |-> IF force THEN "rescue" ELSE "remove", left |-> {b},
                    force |-> force, saw |-> {}])
    /\ UNCHANGED <<git, trees, dead, creator, rescued, sweep, lost>>

\* What RescueUncommitted anchors of a worktree: its files and its HEAD, or
\* nothing when it is clean.
RescueOfHead(b) == IF trees[b] = {} THEN {} ELSE TreeOf(heads[b])    \* mutant
RescueOf(b) == IF trees[b] = {} THEN {} ELSE trees[b] \cup TreeOf(heads[b])

Rescue(r) ==
    /\ At(r, "rescue")
    /\ \E b \in remover[r].left :
           \/ /\ b \in DOMAIN trees
              /\ rescued' = rescued \cup RescueOf(b)
              /\ Step(r, [remover[r] EXCEPT !.pc = "remove", !.saw = trees[b]])
           \/ \* a failed rescue refuses the removal
              Step(r, NoRemoval) /\ UNCHANGED rescued
    /\ UNCHANGED <<git, trees, dead, creator, sweep, lost>>

\* git removes a clean worktree, or with --force any.
MayRemove(b, force) == b \in DOMAIN trees /\ (force \/ trees[b] = {})

\* Removing the worktree of b discards whatever nothing else holds.
Discard(r, b) ==
    /\ trees' = Without(trees, b)
    /\ lost' = lost \cup {[change |-> c, by |-> "remove", proof |-> "none",
                           seen |-> (remover[r].force => c \in remover[r].saw)] :
                             c \in trees[b] \ Kept(heads, remote, trees', rescued)}

\* `git worktree prune` with git's three months of grace: an old entry goes.
WorktreePrune == dead' \in {dead, {}}

Remove(r) ==
    /\ At(r, "remove")
    /\ \E b \in remover[r].left :
           \/ MayRemove(b, remover[r].force) /\ Discard(r, b) /\ WorktreePrune
           \/ UNCHANGED <<trees, dead, lost>>
    /\ Step(r, NoRemoval)
    /\ UNCHANGED <<git, creator, rescued, sweep>>

\* prune lists once, and takes for idle what its directory's age says.
PruneStart(r) ==
    /\ At(r, "idle")
    /\ \E idle \in SUBSET DOMAIN trees \ {{}} :
           Step(r, [NoRemoval EXCEPT !.pc = "prune", !.left = idle])
    /\ UNCHANGED <<git, trees, dead, creator, rescued, sweep, lost>>

\* A held worktree is skipped, one git refuses is a warning.
PruneOne(r, b) ==
    /\ At(r, "prune") /\ b \in remover[r].left
    /\ \/ ~Holder(b) /\ MayRemove(b, FALSE) /\ Discard(r, b)
       \/ UNCHANGED <<trees, lost>>
    /\ Step(r, [remover[r] EXCEPT !.left = @ \ {b}])
    /\ UNCHANGED <<git, dead, creator, rescued, sweep>>

PruneEnd(r) ==
    /\ At(r, "prune") /\ remover[r].left = {}
    /\ WorktreePrune
    /\ Step(r, NoRemoval)
    /\ UNCHANGED <<git, trees, creator, rescued, sweep, lost>>

-----------------------------------------------------------------------------
(* lw git sweep                                                            *)

SweepAt(pc) == sweep.pc = pc
SweepEnds == sweep' = NoSweep   \* with a report, or with an error instead of one

\* FetchPrune: tracking refs of branches the remote dropped go.
Refreshed(h, b) ==
    IF h.upstream = "base" THEN h
    ELSE [h EXCEPT !.upstream = IF b \in DOMAIN remote THEN "tracked" ELSE "gone"]

SweepStart ==
    /\ SweepAt("idle")
    /\ \E online \in BOOLEAN :
           /\ sweep' = [NoSweep EXCEPT !.pc = "scan", !.online = online]
           /\ IF online
              THEN /\ fetched' = base
                   /\ heads' = [b \in DOMAIN heads |-> Refreshed(heads[b], b)]
              ELSE UNCHANGED <<fetched, heads>>
    /\ UNCHANGED <<remote, base, merged, trees, dead, creator, rescued, remover, lost>>

\* scanBranches and heldBranches, read before any proof.
SweepScan ==
    /\ SweepAt("scan")
    /\ sweep' = [sweep EXCEPT !.pc = "classify", !.left = DOMAIN heads, !.held = Held, !.dead = (dead # {}),
                              !.gone = {b \in DOMAIN heads : heads[b].upstream = "gone"}]
    /\ UNCHANGED <<git, trees, dead, creator, rescued, remover, lost>>

\* Mutant: the tree looked up is the one the branch forked from.
ProofOfFork(b, forge) ==
    IF heads[b].work \subseteq fetched.commits THEN "ancestor"
    ELSE IF heads[b].from \in fetched.trees THEN "tree-on-base"
    ELSE IF forge /\ b \in merged THEN "merged-pr"
    ELSE "none"

\* proveMerged: the first of the three proofs that holds.  A forge that is
\* down, or not asked, proves nothing.
ProofOf(b, forge) ==
    IF heads[b].work \subseteq fetched.commits THEN "ancestor"
    ELSE IF TreeOf(heads[b]) \in fetched.trees THEN "tree-on-base"
    ELSE IF forge /\ b \in merged THEN "merged-pr"
    ELSE "none"

DeletableUnproven(b, proof) == b \in sweep.gone /\ b \notin sweep.held    \* mutant
Deletable(b, proof) == b \in sweep.gone /\ proof # "none" /\ b \notin sweep.held

Classify(b) ==
    /\ SweepAt("classify") /\ b \in sweep.left
    /\ IF b \notin DOMAIN heads THEN SweepEnds
       ELSE \E forge \in {FALSE, sweep.online} :
            LET proof == ProofOf(b, forge) IN
            sweep' = [sweep EXCEPT
                !.left = @ \ {b},
                !.candidates = IF Deletable(b, proof)
                               THEN With(@, b, [proof |-> proof, work |-> heads[b].work]) ELSE @]
    /\ UNCHANGED <<git, trees, dead, creator, rescued, remover, lost>>

\* The report, and with --execute the question: a person may take any time.
SweepPrompt ==
    /\ SweepAt("classify") /\ sweep.left = {}
    /\ sweep' = [sweep EXCEPT !.pc = "prompt", !.gone = {}, !.held = {}, !.online = FALSE]
    /\ UNCHANGED <<git, trees, dead, creator, rescued, remover, lost>>

SweepAnswer ==
    /\ SweepAt("prompt")
    /\ \/ SweepEnds
       \/ /\ DOMAIN sweep.candidates # {} \/ sweep.dead
          /\ sweep' = [sweep EXCEPT !.pc = "delete"]
    /\ UNCHANGED <<git, trees, dead, creator, rescued, remover, lost>>

\* Delete re-checks the row it was given, then reads the tip it will print.
ReadTip(b) ==
    /\ SweepAt("delete") /\ b \in DOMAIN sweep.candidates
    /\ IF b \in DOMAIN heads
       THEN sweep' = [sweep EXCEPT !.pc = "tip", !.target = {b}]
       ELSE SweepEnds
    /\ UNCHANGED <<git, trees, dead, creator, rescued, remover, lost>>

\* `git branch -d` asks HEAD, a local main somewhere behind origin/main; -D
\* follows for the proofs git cannot see.  git refuses either for a branch that
\* is checked out.
GitDeletesAnyway(b, proof) == b \in DOMAIN heads \ Held /\ proof \in Proofs    \* mutant
GitDeletes(b, proof) ==
    /\ b \in DOMAIN heads \ Held
    /\ \/ heads[b].work \subseteq fetched.commits
       \/ proof \in {"tree-on-base", "merged-pr"}

DeleteBranch(b) ==
    /\ SweepAt("tip") /\ b \in sweep.target
    /\ \/ /\ GitDeletes(b, sweep.candidates[b].proof)
          /\ heads' = Without(heads, b)
          /\ lost' = lost \cup
                 {[change |-> c, by |-> "sweep", proof |-> sweep.candidates[b].proof,
                   seen |-> c \in sweep.candidates[b].work] :
                     c \in heads[b].work \ Kept(heads', remote, trees, rescued)}
          /\ sweep' = [sweep EXCEPT !.pc = "delete", !.target = {}, !.candidates = Without(@, b)]
       \/ \* refused, for what HEAD does not have or any reason of git's
          SweepEnds /\ UNCHANGED <<heads, lost>>
    /\ UNCHANGED <<remote, base, fetched, merged, trees, dead, creator, rescued, remover>>

\* PruneWorktrees, with --expire=now; a failure of git ends the command.
SweepPrune ==
    /\ SweepAt("delete") /\ DOMAIN sweep.candidates = {}
    /\ dead' \in {dead, {}}
    /\ SweepEnds
    /\ UNCHANGED <<git, trees, creator, rescued, remover, lost>>

-----------------------------------------------------------------------------

Session == \E b \in Branches :
    Edit(b) \/ Commit(b) \/ Push(b) \/ Attach(b) \/ DirectoryVanishes(b)
Forge == \E b \in Branches : MergePR(b) \/ ClosePR(b)
Create == \E b \in Branches : CreateAdd(b) \/ CreateClaim(b) \/ CreateExit(b)
Removal == \E r \in Removers :
    \/ Rescue(r) \/ Remove(r) \/ PruneStart(r) \/ PruneEnd(r)
    \/ \E b \in Branches : GcStart(r, b) \/ PruneOne(r, b)
Sweep ==
    \/ SweepStart \/ SweepScan \/ SweepPrompt \/ SweepAnswer \/ SweepPrune
    \/ \E b \in Branches : Classify(b) \/ ReadTip(b) \/ DeleteBranch(b)

Next == Session \/ Forge \/ Create \/ Removal \/ Sweep

Spec == Init /\ [][Next]_vars

-----------------------------------------------------------------------------
(* Properties                                                              *)

\* A removal discards no edit it could have seen: a worktree removed without
\* --force was clean, and what a forced one held when RescueUncommitted read
\* it is anchored.  Only an edit made after that read is lost.
EditsSeenAreRescued == \A l \in lost : l.by = "remove" => ~l.seen

\* When the sweep drops work its branch already carried when it was classified,
\* it was on the word of the forge alone, which answers by branch name: the two
\* local proofs never clear a branch whose work is not on the base.
LocalProofsHold ==
    \A l \in lost : (l.by = "sweep" /\ l.seen) => l.proof = "merged-pr"

\* The proof of ancestry loses nothing, however the branch, the base and the
\* worktrees moved between the classification and the deletion.
AncestryDropsNothing == \A l \in lost : l.proof # "ancestor"

\* Why: what the clone fetched, the base has, commits and trees, and it holds
\* all content of either; what a forced removal saw is anchored; and a branch
\* is a candidate on a local proof only with work that is on the base.
FetchedIsOnBase ==
    fetched.commits \subseteq base.commits /\ fetched.trees \subseteq base.trees /\ base.commits \subseteq Content(base)
SawIsAnchored == \A r \in Removers : remover[r].pc = "remove" /\ remover[r].force => remover[r].saw \subseteq rescued
ProvenIsOnBase ==
    \A b \in DOMAIN sweep.candidates :
        sweep.candidates[b].proof # "merged-pr" => sweep.candidates[b].work \subseteq Content(base)
TargetIsCandidate == sweep.target \subseteq DOMAIN sweep.candidates
KeepsWork == EditsSeenAreRescued /\ LocalProofsHold /\ AncestryDropsNothing
IInv == TypeOK /\ FetchedIsOnBase /\ SawIsAnchored /\ ProvenIsOnBase /\ TargetIsCandidate /\ KeepsWork
=============================================================================
