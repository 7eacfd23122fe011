----------------------------- MODULE ReleaseTag -----------------------------
(***************************************************************************)
(* `lw release tag`: a tag is the version and pushing it is the release.   *)
(* Each clone computes the next version from its own HEAD and the tags it  *)
(* happens to have, asks, creates the tag and pushes it; other clones do   *)
(* the same, main grows, and pushes fail.                                  *)
(***************************************************************************)
EXTENDS Integers, Sequences, FiniteSets

CONSTANTS
    Clones,
    MaxCommits,    \* commits main may have
    FewCommits,    \* and once something irregular has happened
    Explicit,      \* what operators pass as --version, if anything
    MaxFaults      \* bound on the irregular events, see below

\* Assumed of the constants; the module that composes this one states it.
CommitsAssumption ==
    /\ MaxCommits \in Nat \ {0} /\ FewCommits \in 0 .. MaxCommits /\ MaxFaults \in Nat
    /\ Explicit \subseteq [major : Nat, minor : Nat, patch : Nat]

VARIABLES
    mainline,    \* what each commit of origin/main is, oldest first
    head,        \* per clone, the commit of main its HEAD is at, and whose commit
                 \* that was never pushed lies on top of it, if any
    known,       \* per clone, its tags
    remote,      \* the tags of the remote
    tagger,      \* per clone, the invocation at work
    irregular    \* how often a push failed, a version was given by hand, or a
                 \* HEAD moved under a running command

vars == <<mainline, head, known, remote, tagger, irregular>>

Version == [major : Nat, minor : Nat, patch : Nat]
Commit == [at : 1 .. MaxCommits, ahead : {{}} \cup {{c} : c \in Clones}]
Tag == [on : Commit, version : Version]
NoVersion == [major |-> 0, minor |-> 0, patch |-> 0]

TypeOK ==
    /\ mainline \in Seq({"other", "feat", "breaking"}) /\ Len(mainline) \in 1 .. MaxCommits
    /\ head \in [Clones -> Commit]
    /\ remote \subseteq Tag /\ known \in [Clones -> SUBSET Tag]
    /\ tagger \in [Clones -> [pc : {"idle", "exists", "guard", "prompt", "create", "push"}, next : Version]]
    /\ irregular \in 0 .. MaxFaults

Init ==
    /\ mainline \in {<<kind>> : kind \in {"other", "feat"}}
    /\ head = [c \in Clones |-> [at |-> 1, ahead |-> {}]]
    /\ known = [c \in Clones |-> {}]
    /\ remote = {}
    /\ tagger = [c \in Clones |-> [pc |-> "idle", next |-> NoVersion]]
    /\ irregular = 0

-----------------------------------------------------------------------------
(* Versions, and the tags a commit has behind it                           *)

Less(v, w) ==
    \/ v.major < w.major
    \/ v.major = w.major /\ v.minor < w.minor
    \/ v.major = w.major /\ v.minor = w.minor /\ v.patch < w.patch

\* Version.Next by the bump ClassifyCommit assigns.
Bumped(v, kind) ==
    CASE kind = "breaking" -> [major |-> v.major + 1, minor |-> 0, patch |-> 0]
      [] kind = "feat" -> [v EXCEPT !.minor = @ + 1, !.patch = 0]
      [] kind = "other" -> [v EXCEPT !.patch = @ + 1]

Reaches(h, t) == IF t.ahead = {} THEN t.at <= h.at ELSE h = t

\* commitsSince: a commit that was not pushed counts as any other.
KindsSince(c, t) ==
    {mainline[i] : i \in (t.on.at + 1) .. head[c].at}
    \cup (IF head[c].ahead # t.on.ahead THEN {"other"} ELSE {})

\* NextVersion: the largest bump among the commits.
LargestKind(kinds) ==
    IF "breaking" \in kinds THEN "breaking" ELSE IF "feat" \in kinds THEN "feat" ELSE "other"

Merged(c) == {t \in known[c] : Reaches(head[c], t.on)}

\* lastMatchingTag: the highest version among the tags merged into HEAD.
LastMatchingTag(c) ==
    CHOOSE t \in Merged(c) : \A u \in Merged(c) \ {t} : ~Less(t.version, u.version)

\* Mutant: only the last commit is classified.
NextOfTip(c) ==
    IF Merged(c) = {} THEN [major |-> 0, minor |-> 1, patch |-> 0]
    ELSE Bumped(LastMatchingTag(c).version, mainline[head[c].at])

\* resolveNextTagVersion: the first release is seeded.
NextVersion(c) ==
    IF Merged(c) = {} THEN [major |-> 0, minor |-> 1, patch |-> 0]
    ELSE Bumped(LastMatchingTag(c).version, LargestKind(KindsSince(c, LastMatchingTag(c))))

-----------------------------------------------------------------------------
Irregular == irregular < MaxFaults /\ Len(mainline) <= FewCommits /\ irregular' = irregular + 1
Regular == UNCHANGED irregular
Tagger(c, pc) == tagger' = [tagger EXCEPT ![c].pc = pc]
repository == <<mainline, head, known, remote>>

\* An empty range is an error, not a version.
ResolveVersion(c) ==
    /\ tagger[c].pc = "idle"
    /\ \/ /\ IF Merged(c) = {} THEN TRUE ELSE KindsSince(c, LastMatchingTag(c)) # {}
          /\ tagger' = [tagger EXCEPT ![c] = [pc |-> "exists", next |-> NextVersion(c)]]
          /\ Regular
       \/ \E v \in Explicit :
              /\ tagger' = [tagger EXCEPT ![c] = [pc |-> "exists", next |-> v]]
              /\ Irregular
    /\ UNCHANGED repository

\* tagExists asks the clone, not the remote.
TagExists(c) ==
    /\ tagger[c].pc = "exists"
    /\ Tagger(c, IF \E t \in known[c] : t.version = tagger[c].next THEN "idle" ELSE "guard")
    /\ UNCHANGED <<repository, irregular>>

\* verifyHeadIsOriginMain asks the remote for the tip.
VerifyHead(c) ==
    /\ tagger[c].pc = "guard"
    /\ Tagger(c, IF head[c] = [at |-> Len(mainline), ahead |-> {}] THEN "prompt" ELSE "idle")
    /\ UNCHANGED <<repository, irregular>>

\* --yes or the answer; a dry run ends here, with what it would refuse.
Prompt(c) ==
    /\ tagger[c].pc = "prompt"
    /\ Tagger(c, "create") \/ Tagger(c, "idle")
    /\ UNCHANGED <<repository, irregular>>

\* git tag -a names HEAD as it is by now.
CreateTag(c) ==
    /\ tagger[c].pc = "create"
    /\ IF \E t \in known[c] : t.version = tagger[c].next
       THEN Tagger(c, "idle") /\ UNCHANGED known
       ELSE /\ known' = [known EXCEPT ![c] = @ \cup {[version |-> tagger[c].next, on |-> head[c]]}]
            /\ Tagger(c, "push")
    /\ UNCHANGED <<mainline, head, remote, irregular>>

\* The remote refuses a tag it has; the local one stays either way.
PushTag(c) ==
    /\ tagger[c].pc = "push" /\ Tagger(c, "idle")
    /\ LET tag == CHOOSE t \in known[c] : t.version = tagger[c].next
       IN \/ /\ \A t \in remote : t.version # tag.version
             /\ remote' = remote \cup {tag} /\ Regular
          \/ Irregular /\ UNCHANGED remote
    /\ UNCHANGED <<mainline, head, known>>

\* The operator is killed between any two calls.
Interrupt(c) ==
    /\ tagger[c].pc # "idle" /\ Tagger(c, "idle")
    /\ IF tagger[c].pc = "push" THEN Irregular ELSE Regular
    /\ UNCHANGED repository

\* A pull request merges into main.
MergeToMain(kind) ==
    /\ Len(mainline) < (IF irregular = 0 THEN MaxCommits ELSE FewCommits) /\ mainline' = Append(mainline, kind)
    /\ UNCHANGED <<head, known, remote, tagger, irregular>>

\* A pull moves HEAD to the tip; the tags come too, except that those the
\* clone has under the same name stay as they are.
Fetch(c) ==
    /\ known' = [known EXCEPT ![c] = @ \cup {t \in remote : \A u \in @ : u.version # t.version}]
    /\ UNCHANGED <<mainline, head, remote, tagger, irregular>>

MoveHead(c) ==
    /\ \/ head' = [head EXCEPT ![c] = [at |-> Len(mainline), ahead |-> {}]]
       \/ head' = [head EXCEPT ![c].ahead = {c}]
    /\ head' # head /\ (IF tagger[c].pc = "idle" THEN Regular ELSE Irregular)
    /\ UNCHANGED <<mainline, known, remote, tagger>>

Next ==
    \/ \E c \in Clones :
           \/ ResolveVersion(c) \/ TagExists(c) \/ VerifyHead(c) \/ Prompt(c) \/ CreateTag(c)
           \/ PushTag(c) \/ Interrupt(c) \/ Fetch(c) \/ MoveHead(c)
    \/ \E kind \in {"other", "feat", "breaking"} : MergeToMain(kind)
Spec == Init /\ [][Next]_vars

-----------------------------------------------------------------------------
(* Property                                                                *)

Between(t, u) == {mainline[i] : i \in t.on.at + 1 .. u.on.at}

\* As long as every push succeeds, versions are computed and nobody moves a
\* HEAD under a running command: whatever tags the clones lack, a published
\* version is on main, and of two the one of the later commit is the higher,
\* by at least what the commits between them ask for.  A clone without the
\* newest tags computes a version from an old base; what saves the order is
\* that such a version exists on the remote or is higher.
VersionsFollowMain ==
    irregular = 0 =>
        /\ \A t \in remote : t.on.ahead = {}
        /\ \A t, u \in remote : t.on.at < u.on.at =>
              /\ Less(t.version, u.version)
              /\ "breaking" \in Between(t, u) => t.version.major < u.version.major
              /\ "feat" \in Between(t, u) => Less([t.version EXCEPT !.patch = 0], [u.version EXCEPT !.patch = 0])

\* Why: the published versions are a ladder without gaps.  Of two tags the later
\* differs from the earlier exactly where the commits between them ask for it,
\* and the version that follows the earlier by those commits is published no
\* later than the later.  So a version that was computed from any published
\* tag is published already, or fits: above all tags of earlier commits and
\* below all of later ones.
Follows(v, w, kinds) ==
    IF "breaking" \in kinds THEN v.major < w.major
    ELSE /\ v.major = w.major
         /\ IF "feat" \in kinds THEN v.minor < w.minor ELSE v.minor = w.minor /\ v.patch < w.patch
Seed == [major |-> 0, minor |-> 1, patch |-> 0]
Ladder ==
    /\ remote # {} => \E t \in remote : t.version = Seed
    /\ \A t, u \in remote :
           /\ t.on.at = u.on.at => t = u
           /\ t.on.at < u.on.at =>
                  /\ Follows(t.version, u.version, Between(t, u))
                  /\ \E w \in remote : /\ t.on.at < w.on.at /\ w.on.at <= u.on.at
                                       /\ w.version = Bumped(t.version, LargestKind(Between(t, u)))
Finite == IsFiniteSet(remote) /\ \A c \in Clones : IsFiniteSet(known[c])
Tagged == \A c \in Clones : tagger[c].pc = "push" => \E t \in known[c] : t.version = tagger[c].next
OnMain ==
    /\ \A t \in remote : t.on.ahead = {} /\ t.on.at <= Len(mainline)
    /\ \A c \in Clones : head[c].at <= Len(mainline)
KnownAreRemote == \A c \in Clones : known[c] \subseteq remote \cup
    (IF tagger[c].pc = "push" THEN {[version |-> tagger[c].next, on |-> head[c]]} ELSE {})
Created == \A c \in Clones :
    /\ tagger[c].pc \in {"prompt", "create", "push"} => head[c].ahead = {}
    /\ tagger[c].pc = "push" => [version |-> tagger[c].next, on |-> head[c]] \in known[c]
Computed == \A c \in Clones : tagger[c].pc # "idle" =>
    \/ tagger[c].next = Seed
    \/ \E b \in remote : /\ Reaches(head[c], b.on) /\ KindsSince(c, b) # {}
                         /\ tagger[c].next = Bumped(b.version, LargestKind(KindsSince(c, b)))
IInv == TypeOK /\ Finite /\ Tagged /\ (irregular = 0 => Ladder /\ OnMain /\ KnownAreRemote /\ Created /\ Computed)
=============================================================================
