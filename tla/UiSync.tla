------------------------------- MODULE UiSync -------------------------------
(***************************************************************************)
(* Copy-in distribution of lightwave-ui components (internal/uisync and    *)
(* `lw ui add`, `lw ui sync`).  The upstream checkout is edited and, now   *)
(* and then, released; a site copies units out of it, edits its copies,    *)
(* and syncs them three ways against the release its lock file pins.       *)
(*                                                                         *)
(* The text of a file is the number of an upstream revision, Mine for      *)
(* anything written in the site, or Absent.                                *)
(***************************************************************************)
EXTENDS Integers, FiniteSets

CONSTANTS Files,        \* files of the upstream tree
          Home,         \* file -> its unit, or None for a loose file
          Units, None,
          Refers,       \* name a user may give -> the unit it resolves to
          Imports,      \* file -> revision -> the files that text imports
          MaxRevision, MaxVersion,
          MaxAuthored,  \* bound: files that differ from the latest release
          MaxCustomised, \* bound: files that carry edits of the site
          MaxFaults     \* commands that are killed half-way

Names == DOMAIN Refers
Absent == 0
Mine == -1
Revisions == 1..MaxRevision
NoVersion == 0

\* Assumed of the constants; the module that composes this one states it.
UnitsAreNames == /\ Units \subseteq Names
                 /\ \A u \in Units : Refers[u] = u
                 /\ \A n \in Names : Refers[n] \in Units
                 /\ Home \in [Files -> Units \cup {None}] /\ None \notin Names
                 /\ \A f \in Files, r \in Revisions : Imports[f][r] \subseteq Files
                 /\ MaxRevision \in Nat \ {0} /\ MaxVersion \in Nat \ {0} /\ MaxFaults \in Nat

VARIABLES tree,      \* the checkout: text of every file, Absent when not there
          version,   \* package.json's version
          tags,      \* version -> the tree at its tag
          local,     \* the site's copies
          aside,     \* <file>.upstream in the site: its text, or Absent
          lock,      \* name -> pinned version, NoVersion when not pinned
          seen,      \* the revision the site's copy takes into account
          exact,     \* history: every copy was of released text that never came back,
                     \* and none was made over an unresolved <file>.upstream
          faults

vars == <<tree, version, tags, local, aside, lock, seen, exact, faults>>
upstream == <<tree, version, tags>>

FilesOf(u) == {f \in Files : Home[f] = u}
Loose == FilesOf(None)

TypeOK ==
  /\ tree \in [Files -> Revisions \cup {Absent}]
  /\ version \in 1..MaxVersion
  /\ tags \in [1..version -> [Files -> Revisions \cup {Absent}]]
  /\ local \in [Files -> Revisions \cup {Absent, Mine}]
  /\ aside \in [Files -> Revisions \cup {Absent}]
  /\ lock \in [Names -> 0..version]
  /\ seen \in [Files -> Revisions \cup {Absent}]
  /\ exact \in BOOLEAN
  /\ faults \in 0..MaxFaults

Init ==
  /\ tree = [f \in Files |-> 1]
  /\ version = 1
  /\ tags = [v \in {1} |-> tree]
  /\ local = [f \in Files |-> Absent]
  /\ aside = [f \in Files |-> Absent]
  /\ lock = [n \in Names |-> NoVersion]
  /\ seen = [f \in Files |-> Absent]
  /\ exact = TRUE
  /\ faults = 0

-----------------------------------------------------------------------------
(* Upstream, and the site's authors.                                       *)

Author(f) ==
  /\ Cardinality({g \in Files : tree[g] # tags[version][g]} \cup {f}) <= MaxAuthored
  /\ tree' \in {[tree EXCEPT ![f] = r] : r \in (Revisions \cup {Absent}) \ {tree[f]}}
  /\ UNCHANGED <<version, tags, local, aside, lock, seen, exact, faults>>

(* The text to be released is the last release's, or of no release yet.    *)
FirstReleased(f) ==
  tree[f] \in {Absent, tags[version][f]} \/ \A w \in 1..version : tags[w][f] # tree[f]

Release ==
  /\ version < MaxVersion
  /\ version' = version + 1
  /\ tags' = [v \in 1..version + 1 |-> IF v = version + 1 THEN tree ELSE tags[v]]
  /\ exact' = (exact /\ \A f \in Files : FirstReleased(f))
  /\ UNCHANGED <<tree, local, aside, lock, seen, faults>>

Customise(f) ==
  /\ local[f] \in Revisions
  /\ Cardinality({g \in Files : local[g] = Mine}) < MaxCustomised
  /\ local' = [local EXCEPT ![f] = Mine]
  /\ UNCHANGED <<tree, version, tags, aside, lock, seen, exact, faults>>

(* "resolve the .upstream files": its changes are merged into the copy, or *)
(* the copy is replaced by it.                                             *)
Resolve(f) ==
  /\ aside[f] # Absent
  /\ local' \in {local, [local EXCEPT ![f] = aside[f]]}
  /\ seen' = [seen EXCEPT ![f] = aside[f]]
  /\ aside' = [aside EXCEPT ![f] = Absent]
  /\ UNCHANGED <<tree, version, tags, lock, exact, faults>>

-----------------------------------------------------------------------------
(* lw ui add                                                               *)

InTree(u) == {f \in FilesOf(u) : tree[f] # Absent}
InSite(u) == \E f \in FilesOf(u) : local[f] # Absent

(* What an import of g makes the walk copy: a unit the site does not have  *)
(* comes whole, a loose file comes alone, and what is there stays.         *)
Brings(g) ==
  IF g \in Loose
  THEN {g} \cap {f \in Loose : local[f] = Absent /\ tree[f] # Absent}
  ELSE IF InSite(Home[g]) THEN {} ELSE InTree(Home[g])

\* Mutant: an imported unit is not copied, only loose files are.
ClosedLooseOnly(S) ==
  \A f \in S : \A g \in Imports[f][tree[f]] : Home[f] # None \/ Brings(g) \subseteq S

Closed(S) == \A f \in S : \A g \in Imports[f][tree[f]] : Brings(g) \subseteq S

WithDependencies(u) ==
  LET candidates == {S \in SUBSET {f \in Files : tree[f] # Absent} :
                       InTree(u) \subseteq S /\ Closed(S)}
  IN {f \in Files : \A S \in candidates : f \in S}

Copied(S) == [f \in Files |-> IF f \in S THEN tree[f] ELSE local[f]]
SeenIn(S) == [f \in Files |-> IF f \in S THEN tree[f] ELSE seen[f]]
AtRelease == tree = tags[version]
Exactly(S) == exact /\ AtRelease /\ \A f \in S : aside[f] \in {Absent, tree[f]}

Pinned(n, S) ==
  [m \in Names |-> IF m = n \/ m \in {Home[f] : f \in S \ FilesOf(Refers[n])}
                   THEN version ELSE lock[m]]

(* The lock file is written last: a command killed before it leaves copies *)
(* that no pin names.                                                      *)
Add(n, force, noDeps) ==
  LET u == Refers[n]
      wanted == IF noDeps THEN InTree(u) ELSE WithDependencies(u)
  IN /\ InTree(u) # {}
     /\ InSite(u) => force
     /\ \/ /\ local' = Copied(wanted)
           /\ seen' = SeenIn(wanted)
           /\ lock' = Pinned(n, wanted)
           /\ exact' = Exactly(wanted)
           /\ UNCHANGED faults
        \/ /\ faults < MaxFaults
           /\ faults' = faults + 1
           /\ \E done \in SUBSET wanted :
                /\ local' = Copied(done)
                /\ seen' = SeenIn(done)
                /\ exact' = Exactly(done)
           /\ UNCHANGED lock
     /\ UNCHANGED <<upstream, aside>>

-----------------------------------------------------------------------------
(* lw ui sync                                                              *)

(* git show v<version>:<path>; Absent when the tag has no such path.       *)
GitBase(v, f) == tags[v][f]

\* Mutant: whatever upstream changed since the base is applied.
ClassifyUpstreamFirst(f, v) ==
  CASE local[f] = Absent -> "new"
    [] local[f] = tree[f] -> "unchanged"
    [] local[f] \notin {Absent, tree[f]} ->
         IF tree[f] # GitBase(v, f) THEN "fast-forward" ELSE "local-kept"

Classify(f, v) ==
  LET base == GitBase(v, f)
  IN CASE local[f] = Absent                          -> "new"
       [] local[f] = tree[f]                         -> "unchanged"
       [] local[f] \notin {Absent, tree[f]}
            /\ base = Absent                         -> "conflict"
       [] OTHER -> IF local[f] # base
                   THEN IF tree[f] # base THEN "conflict" ELSE "local-kept"
                   ELSE "fast-forward"

Outcome(u, v, o) == {f \in InTree(u) : Classify(f, v) \in o}

(* What a sync that got as far as the files in `reached` has written.      *)
Walked(u, v, reached) ==
  LET applied == Outcome(u, v, {"new", "fast-forward"}) \cap reached
      beside == Outcome(u, v, {"conflict"}) \cap reached
      current == applied \cup (Outcome(u, v, {"unchanged"}) \cap reached)
  IN /\ local' = Copied(applied)
     /\ seen' = SeenIn(current)
     /\ aside' = [f \in Files |-> IF f \in beside THEN tree[f] ELSE aside[f]]
     /\ exact' = Exactly(current)

\* Mutant: the pin advances whatever the files said.
PinAlways(n, conflicts) ==
  [lock EXCEPT ![n] = version]

PinAfter(n, conflicts) ==
  IF conflicts = {} THEN [lock EXCEPT ![n] = version] ELSE lock

Sync(n) ==
  LET u == Refers[n]
      v == lock[n]
      conflicts == Outcome(u, v, {"conflict"})
  IN /\ v # NoVersion
     /\ InTree(u) # {}
     /\ \/ /\ Walked(u, v, InTree(u))
           /\ lock' = PinAfter(n, conflicts)
           /\ UNCHANGED faults
        \/ /\ faults < MaxFaults
           /\ faults' = faults + 1
           /\ \E reached \in SUBSET InTree(u) : Walked(u, v, reached)
           /\ UNCHANGED lock
     /\ UNCHANGED upstream

Next ==
  \/ \E f \in Files : Author(f) \/ Customise(f) \/ Resolve(f)
  \/ Release
  \/ \E n \in Names : \/ Sync(n)
                      \/ \E force, noDeps \in BOOLEAN : Add(n, force, noDeps)

Spec == Init /\ [][Next]_vars

-----------------------------------------------------------------------------
(* A pin at a release says that the site has taken that release in: every  *)
(* file of the unit, edited in the site or not, accounts for the text of   *)
(* the pinned release or of a later one (sync.go:119-120, the pin advances *)
(* only on a conflict-free sync).  Three things are left out, as each makes *)
(* the tag the wrong base: copies of unreleased text, an upstream that goes *)
(* back to the text of an earlier release (an edit merged in between counts *)
(* as kept), and a unit copied again while an older <file>.upstream of it   *)
(* waits to be resolved.                                                    *)
PinTellsWhatIsIn ==
  exact => \A n \in Names : lock[n] # NoVersion =>
    \A f \in FilesOf(Refers[n]) :
      \/ tags[lock[n]][f] = Absent
      \/ seen[f] \in {tags[w][f] : w \in lock[n]..version}

(* A step that replaces what was written in the site is no sync            *)
(* ("customizations are never clobbered", lock.go:5-6), and one that leaves *)
(* out an import of a file it copied is no add that ended ("so the copy-in *)
(* builds in the consumer", add.go:25-28), except an import that upstream  *)
(* itself does not have and one of a unit that was there before.           *)
Overwritten == {f \in Files : local[f] = Mine /\ local'[f] # Mine}
Brought == {f \in Files : local'[f] # local[f] /\ tree[f] # Absent}
LeftOut(f) == {g \in Imports[f][tree[f]] : /\ local'[g] = Absent /\ tree[g] # Absent
                                           /\ g \in Loose \/ ~InSite(Home[g])}
CopiesAreSafe ==
  /\ Overwritten # {} => \A n \in Names : ~Sync(n)
  /\ (\E f \in Brought : LeftOut(f) # {}) =>
       \A n \in Names, force \in BOOLEAN : ~(Add(n, force, FALSE) /\ faults' = faults)

(* "conflicts keep the old base so re-sync after resolution still          *)
(* three-ways correctly" (sync.go:119-120), "re-sync retries after you     *)
(* resolve" (cli/ui_sync.go:56-58): a file whose upstream text has been    *)
(* merged in is not a conflict with that same text again.                  *)
ResolvedSyncSettles ==
  \A f \in Files : aside[f] = Absent /\ aside'[f] # Absent =>
    ~(exact' /\ seen[f] = tree[f])

-----------------------------------------------------------------------------
(* The strengthening: what a sync that keeps an edited file rests on.      *)

\* A text that was given up is not released again.
TextsNeverComeBack ==
  \A f \in Files, w \in 1..version : \A v \in 1..w : \A x \in v..w :
    tags[v][f] = tags[w][f] /\ tags[w][f] # Absent => tags[x][f] = tags[w][f]

\* A <file>.upstream that waits is of a release no older than the pin.
AsideIsIn ==
  \A n \in Names : lock[n] # NoVersion => \A f \in FilesOf(Refers[n]) :
    aside[f] # Absent => \/ tags[lock[n]][f] = Absent
                         \/ aside[f] \in {tags[w][f] : w \in lock[n]..version}

IInv == TypeOK /\ PinTellsWhatIsIn /\ (exact => TextsNeverComeBack /\ AsideIsIn)
=============================================================================
