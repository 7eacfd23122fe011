---------------------------- MODULE LocalStack ----------------------------
(***************************************************************************)
(* `lw local up | down | restart | clean | preflight | exec |              *)
(* install-frontend`: commands over one docker compose stack.  Containers  *)
(* come up, become healthy, fail and exit in their own time, other         *)
(* programs take ports, and several commands may be at work.               *)
(***************************************************************************)
EXTENDS Naturals, FiniteSets

CONSTANTS
    Services,    \* services of the compose file
    critical,    \* criticalServices: those an `up` waits for
    frontend,    \* the service with the node_modules volume
    Commands,    \* invocations of `lw local`
    MaxFaults    \* docker calls that fail, containers that fail

\* Assumed of the constants; the module that composes this one states it.
ServicesAssumption == critical \subseteq Services /\ frontend \in Services /\ MaxFaults \in Nat

VARIABLES
    container,   \* per service
    volume,      \* does the frontend's volume exist?
    stranger,    \* does another program hold a required port?
    command,     \* per invocation: what it does, where it is, how it ended
    faults

vars == <<container, volume, stranger, command, faults>>

Kinds == {"up", "up --bg", "up --bg one", "down", "restart", "restart --build", "clean", "preflight",
          "exec", "install", "install --force"}
Phases == {"ready", "preflight", "compose", "settle", "rebuild", "prompt", "stop", "rm", "volume",
           "probe", "run", "done"}

TypeOK ==
    /\ container \in [Services -> {"absent", "exited", "starting", "healthy", "unhealthy"}]
    /\ volume \in BOOLEAN /\ stranger \in BOOLEAN
    /\ command \in [Commands -> [kind : Kinds, pc : Phases, ok : BOOLEAN, saw : BOOLEAN]]
    /\ faults \in 0 .. MaxFaults

Init ==
    /\ container = [s \in Services |-> "absent"]
    /\ volume \in BOOLEAN /\ stranger \in BOOLEAN
    /\ command = [c \in Commands |-> [kind |-> "up", pc |-> "ready", ok |-> FALSE, saw |-> FALSE]]
    /\ faults = 0

-----------------------------------------------------------------------------
Up(s) == container[s] \in {"starting", "healthy", "unhealthy"}
At(c, pc) == command[c].pc = pc
Kind(c) == command[c].kind
Go(c, pc) == command' = [command EXCEPT ![c].pc = pc]
End(c, ok) == command' = [command EXCEPT ![c].pc = "done", ![c].ok = ok]
Fail == faults < MaxFaults /\ faults' = faults + 1
Fine == UNCHANGED faults
outside == <<volume, stranger>>
Error(c) == End(c, FALSE) /\ Fail /\ UNCHANGED <<container, volume>>

Start(c, kind) ==
    /\ At(c, "ready")
    /\ command' = [command EXCEPT ![c].kind = kind, ![c].pc =
           CASE kind \in {"up", "up --bg", "up --bg one", "preflight"} -> "preflight"
             [] kind \in {"clean", "install --force"} -> "prompt"
             [] kind \in {"exec", "install"} -> "probe"
             [] OTHER -> "compose"]
    /\ UNCHANGED <<container, outside>> /\ Fine

\* buildPreflightReport: a port in use counts against the run only when no
\* service of the stack is running; --skip-preflight goes on regardless.
Preflight(c) ==
    /\ At(c, "preflight") /\ UNCHANGED <<container, outside>>
    /\ LET passed == ~stranger \/ \E s \in Services : Up(s)
       IN \/ /\ Kind(c) = "preflight" /\ End(c, passed) /\ Fine
          \/ /\ Kind(c) # "preflight" /\ Go(c, "compose") /\ Fine
          \/ /\ Kind(c) # "preflight" /\ ~passed /\ End(c, FALSE) /\ Fine

\* One docker compose call: up starts what is not up and fails on a port
\* that is held, down and clean remove, restart restarts.
Compose(c) ==
    /\ At(c, "compose") /\ UNCHANGED stranger
    /\ \/ /\ Kind(c) \in {"up", "up --bg", "up --bg one"} /\ (~stranger \/ \A s \in Services : Up(s))
          /\ \E some \in IF Kind(c) = "up --bg one" THEN {{s} : s \in Services} ELSE {Services} :
                 container' = [s \in Services |-> IF s \notin some \/ Up(s) THEN container[s] ELSE "starting"]
          /\ IF Kind(c) = "up" THEN End(c, TRUE) ELSE Go(c, "settle")
          /\ volume' = TRUE /\ Fine
       \/ /\ Kind(c) \in {"down", "clean"}
          /\ container' = [s \in Services |-> "absent"]
          /\ volume' \in (IF Kind(c) = "clean" THEN {volume, FALSE} ELSE {volume})
          /\ End(c, TRUE) /\ Fine
       \/ /\ Kind(c) = "restart"
          /\ container' = [s \in Services |-> IF container[s] = "absent" THEN "absent" ELSE "starting"]
          /\ End(c, TRUE) /\ Fine /\ UNCHANGED volume
       \/ /\ Kind(c) = "restart --build"
          /\ container' = [s \in Services |-> "absent"]
          /\ Go(c, "rebuild") /\ Fine /\ UNCHANGED volume
       \/ Error(c)
       \/ /\ stranger /\ Kind(c) \in {"up", "up --bg", "up --bg one"} /\ (\E s \in Services : ~Up(s))
          /\ End(c, FALSE) /\ Fine /\ UNCHANGED <<container, volume>>

\* Restart with rebuild is down and then up; between the two nothing runs.
Rebuild(c) ==
    /\ At(c, "rebuild") /\ UNCHANGED stranger
    /\ \/ /\ ~stranger /\ container' = [s \in Services |-> IF Up(s) THEN container[s] ELSE "starting"]
          /\ volume' = TRUE /\ End(c, TRUE) /\ Fine
       \/ stranger /\ End(c, FALSE) /\ Fine /\ UNCHANGED <<container, volume>>
       \/ Error(c)

\* Mutant: services that compose does not list are not waited for.
SettleListed(c) ==
    /\ At(c, "settle") /\ UNCHANGED <<container, outside>>
    /\ LET pending == {s \in critical : container[s] \notin {"healthy", "absent"}}
       IN \/ pending = {} /\ command' = [command EXCEPT ![c].pc = "done", ![c].ok = TRUE, ![c].saw = TRUE] /\ Fine
          \/ pending # {} /\ End(c, FALSE) /\ Fail

\* waitHealthy: one `compose ps --all` per round, until no critical service
\* is missing, not running or not healthy, or the window is over.
Settle(c) ==
    /\ At(c, "settle") /\ UNCHANGED <<container, outside>>
    /\ LET pending == {s \in critical : container[s] # "healthy"}
       IN \/ pending = {} /\ command' = [command EXCEPT ![c].pc = "done", ![c].ok = TRUE, ![c].saw = TRUE] /\ Fine
          \/ pending # {} /\ End(c, FALSE) /\ Fail

\* clean and install --force ask first.
Prompt(c) ==
    /\ At(c, "prompt") /\ UNCHANGED <<container, outside>> /\ Fine
    /\ \/ End(c, TRUE)
       \/ Go(c, IF Kind(c) = "clean" THEN "compose" ELSE "stop")

\* stopAndRemoveVolume: stop, rm, volume rm; each may be the last.
StopService(c) ==
    /\ At(c, "stop") /\ UNCHANGED stranger
    /\ \/ /\ container' = [container EXCEPT ![frontend] = IF Up(frontend) THEN "exited" ELSE @]
          /\ Go(c, "rm") /\ Fine /\ UNCHANGED volume
       \/ Error(c)

RemoveContainer(c) ==
    /\ At(c, "rm") /\ UNCHANGED stranger
    /\ \/ /\ container' = [container EXCEPT ![frontend] = IF Up(frontend) THEN @ ELSE "absent"]
          /\ Go(c, "volume") /\ Fine /\ UNCHANGED volume
       \/ Error(c)

\* Docker keeps a volume that a container refers to.
RemoveVolume(c) ==
    /\ At(c, "volume") /\ UNCHANGED <<container, stranger>>
    /\ IF container[frontend] = "absent" THEN Go(c, "probe") /\ volume' = FALSE ELSE End(c, FALSE) /\ UNCHANGED volume
    /\ Fine

\* localExecHandler: exec in the running container, else a one-shot.
Probe(c) ==
    /\ At(c, "probe") /\ UNCHANGED <<container, outside>>
    /\ \/ command' = [command EXCEPT ![c].pc = "run", ![c].saw = Up(frontend)] /\ Fine
       \/ End(c, FALSE) /\ Fail

Run(c) ==
    /\ At(c, "run") /\ UNCHANGED <<container, stranger>>
    /\ \/ ~command[c].saw /\ volume' = TRUE /\ End(c, TRUE) /\ Fine
       \/ command[c].saw /\ Up(frontend) /\ End(c, TRUE) /\ Fine /\ UNCHANGED volume
       \/ command[c].saw /\ ~Up(frontend) /\ End(c, FALSE) /\ Fine /\ UNCHANGED volume

\* Containers become healthy or fail; other programs come and go.
Settles(s) ==
    /\ container[s] \in {"starting", "unhealthy"} /\ container' = [container EXCEPT ![s] = "healthy"]
    /\ UNCHANGED <<outside, command>> /\ Fine
Breaks(s) ==
    /\ Up(s) /\ \E broken \in {"exited", "unhealthy"} : container' = [container EXCEPT ![s] = broken]
    /\ UNCHANGED <<outside, command>> /\ Fail
Stranger == /\ stranger' = ~stranger /\ (stranger \/ \A s \in Services : ~Up(s))
            /\ UNCHANGED <<container, volume, command>> /\ Fine

Next ==
    \/ \E c \in Commands :
           \/ \E k \in Kinds : Start(c, k)
           \/ Preflight(c) \/ Compose(c) \/ Rebuild(c) \/ Settle(c) \/ Prompt(c) \/ StopService(c)
           \/ RemoveContainer(c) \/ RemoveVolume(c) \/ Probe(c) \/ Run(c)
    \/ \E s \in Services : Settles(s) \/ Breaks(s)
    \/ Stranger
Spec == Init /\ [][Next]_vars

-----------------------------------------------------------------------------
(* Property                                                                *)

\* The step in which a background up reports success is one at which every
\* critical service runs and passes its healthcheck, also when the up was
\* for one service only, and whatever other commands or failures did since
\* compose returned (waitHealthy in internal/cli/local.go).
UpMeansHealthy ==
    \A c \in Commands :
        ~command[c].ok /\ command'[c].ok /\ command[c].kind \in {"up --bg", "up --bg one"} =>
            \A s \in critical : container[s] = "healthy"

\* The strengthening: a background up is in none of the phases of the others.
Elsewhere == {"rebuild", "prompt", "stop", "rm", "volume", "probe", "run"}
PhaseFitsKind == \A c \in Commands :
    command[c].pc \in Elsewhere => command[c].kind \notin {"up --bg", "up --bg one"}
IInv == TypeOK /\ PhaseFitsKind
=============================================================================
