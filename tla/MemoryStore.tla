---------------------------- MODULE MemoryStore ----------------------------
(***************************************************************************)
(* The file store behind `lw memory put|get|list|delete` and the session   *)
(* log of `lw task done`: a value is written to <path>.tmp and renamed. A  *)
(* name and what it names are kept apart, because the temporary file of a  *)
(* key has one name for all its writers. The index of markdown artefacts   *)
(* and the v_core record are written the same way.                         *)
(***************************************************************************)
EXTENDS Naturals, FiniteSets

CONSTANTS
    Keys,        \* keys of one namespace; "k" and "k.tmp" are both legal
    Values, Agents, None,
    Inodes,      \* files that may exist at once in this instance
    MaxFaults

\* Assumed of the constants; the module that composes this one states it.
BoundsAssumption == MaxFaults \in Nat /\ None \notin Keys \cup Values \cup Inodes

VARIABLES
    path, tmp,   \* per key: the file <path> and <path>.tmp name
    content,     \* per file: "empty", "torn", or a value
    agent,       \* the command of each agent
    shown,       \* what the last get printed, with whether two puts had overlapped
    last,        \* history: per key, what was put last
    overlapped,  \* history: keys two puts of which were at work at once
    faults

vars == <<path, tmp, content, agent, shown, last, overlapped, faults>>

Contents == Values \cup {"empty", "torn"}
Idle == [pc |-> "idle", k |-> None, v |-> None, inode |-> None]

TypeOK ==
    /\ path \in [Keys -> Inodes \cup {None}] /\ tmp \in [Keys -> Inodes \cup {None}]
    /\ content \in [Inodes -> Contents]
    /\ agent \in [Agents -> [pc : {"idle", "open", "write", "rename", "read"}, k : Keys \cup {None},
                             v : Values \cup {None}, inode : Inodes \cup {None}]]
    /\ shown \in [k : Keys \cup {None}, v : Contents \cup {None}]
    /\ last \in [Keys -> Values \cup {None}] /\ overlapped \subseteq Keys /\ faults \in 0 .. MaxFaults

Init ==
    /\ path = [k \in Keys |-> None] /\ tmp = [k \in Keys |-> None]
    /\ content = [i \in Inodes |-> "empty"]
    /\ agent = [a \in Agents |-> Idle] /\ shown = [k |-> None, v |-> None]
    /\ last = [k \in Keys |-> None] /\ overlapped = {} /\ faults = 0

-----------------------------------------------------------------------------
Fine == UNCHANGED faults
Fail == faults < MaxFaults /\ faults' = faults + 1
At(a, pc) == agent[a].pc = pc
Go(a, pc) == agent' = [agent EXCEPT ![a].pc = pc]
End(a) == agent' = [agent EXCEPT ![a] = Idle]
Forget == shown' = [k |-> None, v |-> None]
names == <<path, tmp>>
\* A file no name and no writer holds is free again.
Free == {i \in Inodes : (\A k \in Keys : i # path[k] /\ i # tmp[k]) /\ \A a \in Agents : agent[a].inode # i}

-----------------------------------------------------------------------------
(* Put                                                                     *)

\* runMemoryPut and the checks of namespace and key.
Put(a, k, v) ==
    /\ At(a, "idle") /\ agent' = [agent EXCEPT ![a] = [Idle EXCEPT !.pc = "open", !.k = k, !.v = v]]
    /\ overlapped' = overlapped \cup {k2 \in {k} : \E b \in Agents \ {a} : agent[b].k = k /\ agent[b].pc # "read"}
    /\ Forget /\ Fine /\ UNCHANGED <<names, content, last>>

\* Mutant: the value is written to the path itself.
OpenPath(a) ==
    /\ At(a, "open") /\ Forget /\ Fine /\ UNCHANGED <<last, overlapped>>
    /\ LET k == agent[a].k
       IN \E i \in (IF path[k] # None THEN {path[k]} ELSE Free) :
            /\ path' = [path EXCEPT ![k] = i] /\ content' = [content EXCEPT ![i] = "empty"]
            /\ tmp' = [tmp EXCEPT ![k] = i]
            /\ agent' = [agent EXCEPT ![a].pc = "write", ![a].inode = i]

\* O_CREATE|O_TRUNC on the one temporary name of the key.
OpenTmp(a) ==
    /\ At(a, "open") /\ Forget /\ UNCHANGED <<path, last, overlapped>>
    /\ \/ /\ Fine
          /\ LET k == agent[a].k
             IN \E i \in (IF tmp[k] # None THEN {tmp[k]} ELSE Free) :
                  /\ tmp' = [tmp EXCEPT ![k] = i] /\ content' = [content EXCEPT ![i] = "empty"]
                  /\ agent' = [agent EXCEPT ![a].pc = "write", ![a].inode = i]
       \/ UNCHANGED <<tmp, content>> /\ End(a) /\ Fail

\* The bytes; over another writer's they may leave a tail of it. A full disk
\* leaves a part, and the temporary file.
Write(a) ==
    /\ At(a, "write") /\ Forget /\ UNCHANGED <<names, last, overlapped>>
    /\ LET i == agent[a].inode
           Over(c) == content' = [content EXCEPT ![i] = c]
       IN \/ Go(a, "rename") /\ Over(agent[a].v) /\ Fine
          \/ Go(a, "rename") /\ content[i] \notin {"empty", agent[a].v} /\ Over("torn") /\ Fine
          \/ End(a) /\ Over("torn") /\ Fail

\* Without the temporary name - another writer has renamed it - an error.
Rename(a) ==
    /\ At(a, "rename") /\ End(a) /\ Forget /\ Fine /\ UNCHANGED <<content, overlapped>>
    /\ LET k == agent[a].k
       IN IF tmp[k] = None THEN UNCHANGED <<names, last>>
          ELSE /\ path' = [path EXCEPT ![k] = tmp[k]] /\ tmp' = [tmp EXCEPT ![k] = None]
               /\ last' = [last EXCEPT ![k] = agent[a].v]

-----------------------------------------------------------------------------
(* Get, list and delete                                                    *)

\* ReadFile opens, then reads what is there by then.
Get(a, k) ==
    /\ At(a, "idle") /\ Forget /\ Fine /\ UNCHANGED <<names, content, last, overlapped>>
    /\ path[k] # None /\ agent' = [agent EXCEPT ![a] = [Idle EXCEPT !.pc = "read", !.k = k, !.inode = path[k]]]
Read(a) ==
    /\ At(a, "read") /\ End(a) /\ Fine /\ UNCHANGED <<names, content, last, overlapped>>
    /\ shown' = [k |-> agent[a].k, v |-> content[agent[a].inode]]

\* Delete leaves the temporary file; deleting what is not there succeeds.
Delete(a, k) ==
    /\ At(a, "idle") /\ path[k] # None /\ path' = [path EXCEPT ![k] = None]
    /\ last' = [last EXCEPT ![k] = None]
    /\ Forget /\ Fine /\ UNCHANGED <<tmp, content, agent, overlapped>>

\* What list prints: entries that end in .tmp are taken for temporary files.
List == {k \in Keys : path[k] # None}

Killed(a) == ~At(a, "idle") /\ End(a) /\ Forget /\ Fail /\ UNCHANGED <<names, content, last, overlapped>>

Next ==
    \E a \in Agents :
        \/ \E k \in Keys, v \in Values : Put(a, k, v)
        \/ OpenTmp(a) \/ Write(a) \/ Rename(a) \/ Read(a) \/ Killed(a)
        \/ \E k \in Keys : Get(a, k) \/ Delete(a, k)
Spec == Init /\ [][Next]_vars

-----------------------------------------------------------------------------
(* Properties                                                              *)

\* A put that fails or is killed leaves the value before it, one that
\* succeeded is what is read and listed - as long as no two puts of the key
\* were at work at once.
ValuesSurvive ==
    \A k \in Keys \ overlapped :
        /\ (k \in List) <=> (last[k] # None)
        /\ k \in List => content[path[k]] = last[k]

\* What the comment on Put says: a reader never sees a partial value.
ReadsAreWhole == shown.v \notin {"empty", "torn"}

\* The strengthening: a command knows its key, and one that puts its value; no
\* file has two names, nor a name of one key and a writer of another; and the
\* only writer of a key writes to what the temporary name names, from nothing.
Putting(a) == agent[a].pc \in {"open", "write", "rename"}
Opened(a) == agent[a].pc \in {"write", "rename"}
Knows == \A a \in Agents :
    /\ Putting(a) => agent[a].k \in Keys /\ agent[a].v \in Values
    /\ Opened(a) \/ At(a, "read") => agent[a].k \in Keys /\ agent[a].inode \in Inodes
    /\ At(a, "idle") => agent[a].k = None
OneName == \A j, k \in Keys :
    /\ path[j] # None => path[j] # tmp[k] /\ (path[j] = path[k] => j = k)
    /\ tmp[j] # None /\ tmp[j] = tmp[k] => j = k
OneWriter == \A a \in Agents :
    /\ Opened(a) => \A j \in Keys \ {agent[a].k} : agent[a].inode \notin {path[j], tmp[j]}
    /\ Putting(a) /\ agent[a].k \notin overlapped =>
           \A b \in Agents \ {a} : Putting(b) => agent[b].k # agent[a].k
WritesTmp == \A a \in Agents :
    Opened(a) /\ agent[a].k \notin overlapped =>
        /\ tmp[agent[a].k] = agent[a].inode
        /\ content[agent[a].inode] = IF At(a, "write") THEN "empty" ELSE agent[a].v
IInv == TypeOK /\ Knows /\ OneName /\ OneWriter /\ WritesTmp /\ ValuesSurvive
=============================================================================
