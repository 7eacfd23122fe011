----------------------------- MODULE Artefacts -----------------------------
(***************************************************************************)
(* Numbered markdown artefacts: `lw adr new` reserves the next number of a *)
(* corpus under a lock, `lw task new|edit|close|index` numbers, rewrites   *)
(* and indexes task files without one. Writers are terminals at work on    *)
(* the same checkout; each may fail or be killed between two calls.        *)
(***************************************************************************)
EXTENDS Naturals

CONSTANTS
    Writers, None,
    Slugs,          \* titles, as the slug their file is named for
    Fields,         \* frontmatter keys
    MaxNumber, MaxFaults

\* Assumed of the constants; the module that composes this one states it.
BoundsAssumption == MaxNumber \in Nat \ {0} /\ MaxFaults \in Nat /\ None \notin Writers

VARIABLES
    kind,      \* the artefacts of this behaviour: the two kinds share nothing
    adr,       \* files of the corpus: number and slug
    lock,      \* who holds .adr-alloc.lock
    tasks,     \* per task file (number and slug): the fields its edits have set
    index,     \* ~/.lightwave/state.json: the files it lists
    writer,    \* the command of each terminal
    done,      \* history: edits that reported success, per file
    faults,
    raced      \* history: two task commands were at work at once

vars == <<kind, adr, lock, tasks, index, writer, done, faults, raced>>

Names == (1 .. MaxNumber) \X Slugs
Idle == [pc |-> "idle", slug |-> None, n |-> 0, file |-> None, read |-> {}]
Pcs == {"idle", "lock", "scan", "create", "unlock", "next", "write", "rewrite", "index"}

TypeOK ==
    /\ kind \in {"adr", "task"} /\ adr \subseteq Names /\ lock \in Writers \cup {None}
    /\ DOMAIN tasks \subseteq Names /\ \A f \in DOMAIN tasks : tasks[f] \subseteq Fields
    /\ index \subseteq Names
    /\ writer \in [Writers -> [pc : Pcs, slug : Slugs \cup {None}, n : 0 .. MaxNumber + 1,
                              file : Names \cup {None}, read : SUBSET (Names \cup Fields)]]
    /\ DOMAIN done \subseteq Names /\ faults \in 0 .. MaxFaults /\ raced \in BOOLEAN

Init ==
    /\ kind \in {"adr", "task"}
    /\ adr = {} /\ lock = None /\ tasks = <<>> /\ index = {}
    /\ writer = [w \in Writers |-> Idle] /\ done = <<>>
    /\ faults = 0 /\ raced = FALSE

-----------------------------------------------------------------------------
Fine == UNCHANGED faults
Fail == faults < MaxFaults /\ faults' = faults + 1
At(w, pc) == writer[w].pc = pc
Go(w, pc) == writer' = [writer EXCEPT ![w].pc = pc]
End(w) == writer' = [writer EXCEPT ![w] = Idle]
Highest(files) == IF files = {} THEN 0 ELSE CHOOSE n \in {f[1] : f \in files} : \A f \in files : f[1] <= n
Put(f, k, v) == [x \in DOMAIN f \cup {k} |-> IF x = k THEN v ELSE f[x]]
corpus == <<kind, adr, lock>>
docs == <<tasks, index, done, raced>>

-----------------------------------------------------------------------------
(* lw adr new: Reserve                                                     *)

AdrNew(w, slug) ==
    /\ kind = "adr" /\ At(w, "idle") /\ UNCHANGED <<corpus, docs>> /\ Fine
    /\ writer' = [writer EXCEPT ![w] = [Idle EXCEPT !.pc = "lock", !.slug = slug]]

\* Mutant: the scan is not part of the critical section.
LockOpen(w) == At(w, "lock") /\ Go(w, "scan") /\ UNCHANGED <<corpus, docs>> /\ Fine

\* flock LOCK_EX waits; the kernel gives the lock of a dead process away.
Lock(w) ==
    /\ At(w, "lock") /\ UNCHANGED <<kind, adr, docs>>
    /\ \/ lock = None /\ lock' = w /\ Go(w, "scan") /\ Fine
       \/ UNCHANGED lock /\ End(w) /\ Fail

\* Max, and what a dry run reports without consuming it.
Max(w) ==
    /\ At(w, "scan") /\ UNCHANGED <<corpus, docs>>
    /\ \/ writer' = [writer EXCEPT ![w].pc = "create", ![w].n = Highest(adr) + 1] /\ Fine
       \/ Go(w, "unlock") /\ Fine
       \/ Go(w, "unlock") /\ Fail

\* O_EXCL: a file of that very name is not overwritten. A write that fails
\* leaves the file, and with it the number taken.
Create(w) ==
    /\ At(w, "create") /\ Go(w, "unlock") /\ UNCHANGED <<kind, lock, docs>>
    /\ LET name == <<writer[w].n, writer[w].slug>>
       IN \/ name \in Names /\ adr' = adr \cup {name} /\ Fine
          \/ UNCHANGED adr /\ Fail
          \/ name \notin Names /\ UNCHANGED adr /\ Fine      \* past the bound of this instance

Release(w) == IF lock = w THEN None ELSE lock
Unlock(w) == At(w, "unlock") /\ End(w) /\ lock' = Release(w) /\ UNCHANGED <<kind, adr, docs>> /\ Fine

-----------------------------------------------------------------------------
(* lw task new, edit, close, index                                         *)

Busy(w) == \E v \in Writers \ {w} : writer[v].pc \in {"next", "write", "rewrite", "index"}
Begin(w, command) ==
    /\ kind = "task" /\ At(w, "idle") /\ writer' = [writer EXCEPT ![w] = command] /\ Fine
    /\ raced' = (raced \/ Busy(w)) /\ UNCHANGED <<corpus, tasks, index, done>>

TaskNew(w, slug) == Begin(w, [Idle EXCEPT !.pc = "next", !.slug = slug])
\* NextTaskID over every domain; a --dry-run ends here.
NextTaskID(w) ==
    /\ At(w, "next") /\ UNCHANGED <<corpus, docs>> /\ Fine
    /\ \/ writer' = [writer EXCEPT ![w].pc = "write", ![w].n = Highest(DOMAIN tasks) + 1]
       \/ End(w)
\* WriteFile: a file of that name is written over.
New(w) ==
    /\ At(w, "write") /\ End(w) /\ UNCHANGED <<corpus, index, raced>>
    /\ LET name == <<writer[w].n, writer[w].slug>>
       IN IF name \in Names
          THEN \/ tasks' = Put(tasks, name, {}) /\ done' = Put(done, name, {}) /\ Fine
               \/ UNCHANGED <<tasks, done>> /\ Fail
          ELSE UNCHANGED <<tasks, done>> /\ Fine

\* FindByID: an id that two files carry is refused; then the file is read.
Edit(w, name) ==
    /\ name \in DOMAIN tasks /\ \A f \in DOMAIN tasks : f[1] = name[1] => f = name
    /\ Begin(w, [Idle EXCEPT !.pc = "rewrite", !.file = name, !.read = tasks[name]])
\* Mutant: the frontmatter is written anew, without the keys there were.
RewriteAnew(w) ==
    /\ At(w, "rewrite") /\ End(w) /\ UNCHANGED <<corpus, index, raced>>
    /\ \E set \in (SUBSET Fields) \ {{}} :
         /\ tasks' = Put(tasks, writer[w].file, set)
         /\ done' = [done EXCEPT ![writer[w].file] = @ \cup set] /\ Fine

\* setOrAdd keeps what was read, and the whole file is written; Close is the
\* edit of one field.
Rewrite(w) ==
    /\ At(w, "rewrite") /\ End(w) /\ UNCHANGED <<corpus, index, raced>>
    /\ \/ \E set \in (SUBSET Fields) \ {{}} :
            /\ tasks' = Put(tasks, writer[w].file, writer[w].read \cup set)
            /\ done' = [done EXCEPT ![writer[w].file] = @ \cup set] /\ Fine
       \/ UNCHANGED <<tasks, done>> /\ Fail

\* Build reads the files, and the write goes through a temporary file.
Index(w) == Begin(w, [Idle EXCEPT !.pc = "index", !.read = DOMAIN tasks])
WriteIndex(w) ==
    /\ At(w, "index") /\ End(w) /\ UNCHANGED <<corpus, tasks, done, raced>>
    /\ \/ index' = writer[w].read /\ Fine
       \/ UNCHANGED index /\ Fail

Killed(w) == ~At(w, "idle") /\ End(w) /\ lock' = Release(w) /\ UNCHANGED <<kind, adr, docs>> /\ Fail

Next ==
    \E w \in Writers :
        \/ \E s \in Slugs : AdrNew(w, s) \/ TaskNew(w, s)
        \/ Lock(w) \/ Max(w) \/ Create(w) \/ Unlock(w)
        \/ NextTaskID(w) \/ New(w) \/ Rewrite(w) \/ Index(w) \/ WriteIndex(w) \/ Killed(w)
        \/ \E name \in DOMAIN tasks : Edit(w, name)
Spec == Init /\ [][Next]_vars

-----------------------------------------------------------------------------
(* Property                                                                *)

\* No two files carry one number and no edit that reported success is lost -
\* for decision records however many writers there are, for tasks as long as
\* one command was at work at a time.
OneFileANumber(files) == \A f, g \in files : f[1] = g[1] => f = g
NumbersAndEditsKept ==
    /\ OneFileANumber(adr)
    /\ ~raced => /\ OneFileANumber(DOMAIN tasks)
                 /\ \A f \in DOMAIN done : done[f] \subseteq tasks[f]

\* Why they are kept: who numbers a record holds the lock, and its number is
\* above all there are; one task command at work is the only one, numbers above
\* all there are too, and writes back what the file still holds.
HoldsTheLock == \A w \in Writers : writer[w].pc \in {"scan", "create", "unlock"} => lock = w
NumberIsNext == \A w \in Writers : At(w, "create") => \A f \in adr : f[1] < writer[w].n
OneAtWork ==
    ~raced => \A v, w \in Writers :
        {writer[v].pc, writer[w].pc} \subseteq {"next", "write", "rewrite", "index"} => v = w
TaskIsNext ==
    ~raced => \A w \in Writers : At(w, "write") => \A f \in DOMAIN tasks : f[1] < writer[w].n
ReadIsCurrent ==
    \A w \in Writers :
        /\ At(w, "rewrite") => /\ writer[w].file \in DOMAIN tasks /\ writer[w].read \subseteq Fields
                              /\ (~raced => writer[w].read = tasks[writer[w].file])
        /\ At(w, "index") => writer[w].read \subseteq Names
EditedExist == DOMAIN done \subseteq DOMAIN tasks
IInv ==
    /\ TypeOK /\ HoldsTheLock /\ NumberIsNext /\ OneAtWork /\ TaskIsNext /\ ReadIsCurrent
    /\ EditedExist /\ NumbersAndEditsKept
=============================================================================
