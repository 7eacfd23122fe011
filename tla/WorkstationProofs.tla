-------------------------- MODULE WorkstationProofs --------------------------
(***************************************************************************)
(* What is proved of a component holds of the machine it is part of.       *)
(***************************************************************************)
EXTENDS Workstation, WellFoundedInduction, TLAPS

Proved == INSTANCE SecretRotationProofs WITH refresh <- v1, version <- v2, loaded <- v3,
          run <- v4, ledger <- v5

-----------------------------------------------------------------------------
(* The rotation of secrets.                                                *)

\* The proof speaks of the component that the machine speaks of.
LEMMA SameInit == Rotation!Init <=> Proved!Init
BY DEF Rotation!Init, Proved!Init, Rotation!Daemons, Proved!Daemons, Rotation!Fresh, Proved!Fresh

LEMMA SameNext == Rotation!Next <=> Proved!Next
BY DEF Rotation!Next, Proved!Next, Rotation!Daemons, Proved!Daemons,
   Rotation!Rotate, Proved!Rotate, Rotation!Check, Proved!Check, Rotation!Refuse, Proved!Refuse,
   Rotation!Set, Proved!Set, Rotation!Fault, Proved!Fault, Rotation!Put, Proved!Put,
   Rotation!WriteSuccessor, Proved!WriteSuccessor, Rotation!Record, Proved!Record,
   Rotation!RecordRotated, Proved!RecordRotated, Rotation!AppendLedger, Proved!AppendLedger,
   Rotation!RefreshConsumer, Proved!RefreshConsumer, Rotation!Kickstart, Proved!Kickstart,
   Rotation!FetchNamed, Proved!FetchNamed, Rotation!NextConsumer, Proved!NextConsumer,
   Rotation!Refreshed, Proved!Refreshed, Rotation!ProbeConsumer, Proved!ProbeConsumer,
   Rotation!Probes, Proved!Probes, Rotation!Holds, Proved!Holds, Rotation!Conclude, Proved!Conclude,
   Rotation!ExitCode, Proved!ExitCode, Rotation!Exit, Proved!Exit, Rotation!Kill, Proved!Kill,
   Rotation!Restart, Proved!Restart

LEMMA SameAssumption == Proved!RotationAssumption
BY ConstantsAssumption DEF Rotation!RotationAssumption, Proved!RotationAssumption,
   Rotation!Daemons, Proved!Daemons, Rotation!IsFiniteSet, Proved!IsFiniteSet

LEMMA SameWords ==
    /\ Proved!ExitTellsStale => Rotation!ExitTellsStale
    /\ Proved!VerifiedRowIsTrue => Rotation!VerifiedRowIsTrue
    /\ Proved!DoneIsRecorded => Rotation!DoneIsRecorded
BY DEF Rotation!Daemons, Proved!Daemons, Rotation!Holds, Proved!Holds,
   Rotation!ExitTellsStale, Proved!ExitTellsStale,
   Rotation!VerifiedRowIsTrue, Proved!VerifiedRowIsTrue,
   Rotation!DoneIsRecorded, Proved!DoneIsRecorded

LEMMA RotationHolds == Spec => [](part = "rotation" => Proved!IInv)
<1> DEFINE Kept == part = "rotation" => Proved!IInv
<1>1. Init => Kept
  <2> SUFFICES ASSUME Init, part = "rotation" PROVE Proved!IInv
    OBVIOUS
  <2>1. Rotation!Init
    BY DEF Init
  <2> QED
    BY <2>1, SameInit, SameAssumption, Proved!InitIInv
<1>2. Kept /\ [Next]_vars => Kept'
  <2> SUFFICES ASSUME Kept, [Next]_vars, part' = "rotation" PROVE Proved!IInv'
    OBVIOUS
  <2>1. part = "rotation" /\ Proved!IInv
    BY DEF Next, vars
  <2>2. Rotation!Next \/ UNCHANGED Proved!rotationVars
    BY <2>1 DEF Next, vars, Proved!rotationVars
  <2>3. [Proved!Next]_(Proved!rotationVars)
    BY <2>2, SameNext
  <2> QED
    BY <2>1, <2>3, SameAssumption, Proved!NextKeeps
<1> QED
  BY <1>1, <1>2, PTL DEF Spec

\* The machine never reports a rotation as better than it went, for every set of
\* runs, consumers and secret maps (internal/secrets/rotate.go).
THEOREM RotationAlwaysTellsTheTruth == Spec => []RotationTellsTheTruth
<1>1. (part = "rotation" => Proved!IInv) => RotationTellsTheTruth
  BY SameWords, Proved!IInvTells DEF RotationTellsTheTruth
<1> QED
  BY <1>1, RotationHolds, PTL

-----------------------------------------------------------------------------
(* The tools of the MCP server.                                            *)

LEMMA ServerStarts == Server!Init => Server!IInv
BY ConstantsAssumption DEF Server!Init, Server!IInv, Server!TypeOK, Server!TierIsOfTheRequest,
   Server!RevocationHolds, Server!Tiers, Server!Requests, Server!FaultsAssumption

\* What an action does to the connection it is of, and to no other.
LEMMA ServerNext ==
    ASSUME Server!IInv, Server!Next
    PROVE  Server!IInv'
<1> USE DEF Server!Fine, Server!At, Server!IInv
<1>0. /\ Server!TypeOK /\ MaxFaults \in Nat
  BY ConstantsAssumption DEF Server!FaultsAssumption
<1>1. ASSUME NEW tier \in Server!Tiers, Server!EditPersona(tier)
      PROVE  Server!IInv'
  BY <1>0, <1>1 DEF Server!EditPersona, Server!TypeOK, Server!TierIsOfTheRequest, Server!RevocationHolds
<1>2. ASSUME NEW c \in Conns, NEW r \in Server!Requests, Server!Receive(c, r)
      PROVE  Server!IInv'
  BY <1>0, <1>2 DEF Server!Receive, Server!Reply, Server!TypeOK, Server!TierIsOfTheRequest, Server!RevocationHolds
<1>3. ASSUME NEW c \in Conns, Server!Handle(c)
      PROVE  Server!IInv'
  <2>1. /\ v1' = v1 /\ v3' = v3 /\ faults' = faults /\ v2[c].pc = "handle"
        /\ \/ Server!Go(c, "probe") /\ v2[c].request \in Server!toolsFor(v2[c].tier)
           \/ Server!Go(c, "connect") /\ v2[c].request \in Server!toolsFor(v2[c].tier)
           \/ Server!Reply(c, "result")
           \/ Server!Reply(c, "error")
    BY <1>3 DEF Server!Handle, Server!toolsFor, Server!Reads, Server!Writes, Server!Dispatch
  <2> QED
    BY <1>0, <2>1 DEF Server!TypeOK, Server!TierIsOfTheRequest, Server!RevocationHolds, Server!Reply, Server!Go
<1>4. ASSUME NEW c \in Conns, Server!Connect(c) \/ Server!Probe(c)
      PROVE  Server!IInv'
  <2>1. /\ v1' = v1 /\ v3' = v3 /\ faults' \in 0 .. MaxFaults
        /\ v2[c].pc \in {"connect", "probe"}
        /\ Server!Go(c, "apply") \/ Server!Go(c, "invoke") \/ Server!Reply(c, "error")
    BY <1>0, <1>4 DEF Server!Connect, Server!Probe, Server!Fail, Server!TypeOK
  <2> USE DEF Server!TypeOK, Server!TierIsOfTheRequest, Server!RevocationHolds
  <2>2. CASE Server!Go(c, "apply") \/ Server!Go(c, "invoke")
    BY <1>0, <2>1, <2>2 DEF Server!Go
  <2>3. CASE Server!Reply(c, "error")
    <3>1. v2' = [v2 EXCEPT ![c].pc = "idle", ![c].reply = "error"]
      BY <2>3 DEF Server!Reply
    <3>2. \A d \in Conns \ {c} : v2'[d] = v2[d]
      BY <1>0, <3>1
    <3>3. v2'[c].pc = "idle"
      BY <1>0, <3>1
    <3>4. v2' \in [Conns -> [pc : {"idle", "handle", "connect", "apply", "probe", "invoke"},
                            request : Server!Requests, tier : Server!Tiers,
                            since : SUBSET Server!Tiers, reply : {"none", "result", "error"}]]
      <4> DEFINE Conn == [pc : {"idle", "handle", "connect", "apply", "probe", "invoke"},
                          request : Server!Requests, tier : Server!Tiers,
                          since : SUBSET Server!Tiers, reply : {"none", "result", "error"}]
                 answered == [v2[c] EXCEPT !.pc = "idle", !.reply = "error"]
      <4>1. v2 \in [Conns -> Conn]
        BY <1>0
      <4>2. v2[c] \in Conn
        BY <4>1
      <4>3. answered \in Conn
        BY <4>2
      <4>4. v2' = [v2 EXCEPT ![c] = answered]
        BY <3>1, <4>1
      <4> HIDE DEF Conn, answered
      <4>5. v2' \in [Conns -> Conn]
        BY <4>1, <4>3, <4>4
      <4> QED
        BY <4>5 DEF Conn
    <3>5. Server!TypeOK'
      BY <1>0, <2>1, <3>4
    <3>6. Server!TierIsOfTheRequest'
      BY <1>0, <3>2, <3>3
    <3>7. Server!RevocationHolds'
      BY <1>0, <3>2, <3>3
    <3> QED
      BY <3>5, <3>6, <3>7
  <2> QED
    BY <2>1, <2>2, <2>3
<1>5. ASSUME NEW c \in Conns, Server!Apply(c)
      PROVE  Server!IInv'
  BY <1>0, <1>5 DEF Server!Apply, Server!Fail, Server!Reply,
     Server!TypeOK, Server!TierIsOfTheRequest, Server!RevocationHolds
<1>6. ASSUME NEW c \in Conns, Server!Invoke(c)
      PROVE  Server!IInv'
  BY <1>0, <1>6 DEF Server!Invoke, Server!Fail, Server!Reply, Server!Dispatch,
     Server!TypeOK, Server!TierIsOfTheRequest, Server!RevocationHolds
<1> QED
  BY <1>1, <1>2, <1>3, <1>4, <1>5, <1>6 DEF Server!Next

LEMMA ServerRests == Server!IInv /\ UNCHANGED Server!vars => Server!IInv'
BY DEF Server!vars, Server!IInv, Server!TypeOK, Server!TierIsOfTheRequest, Server!RevocationHolds

LEMMA ServerHolds == Spec => [](part = "server" => Server!IInv)
<1> DEFINE Kept == part = "server" => Server!IInv
<1>1. Init => Kept
  BY ServerStarts DEF Init
<1>2. Kept /\ [Next]_vars => Kept'
  BY ServerNext, ServerRests DEF Next, vars, Server!vars
<1> QED
  BY <1>1, <1>2, PTL DEF Spec

\* A persona that was revoked writes and dispatches nothing more than what was
\* at work, for any number of connections and failures (internal/mcp/server.go).
THEOREM RevocationAlwaysHolds == Spec => []RevocationHolds
<1>1. (part = "server" => Server!IInv) => RevocationHolds
  BY DEF RevocationHolds, Server!IInv
<1> QED
  BY <1>1, ServerHolds, PTL

-----------------------------------------------------------------------------
(* The compose stack.                                                      *)

Calls == [Callers -> [kind : Stack!Kinds, pc : Stack!Phases, ok : BOOLEAN, saw : BOOLEAN]]
Background == {"up --bg", "up --bg one"}
CallsFit == v4 \in Calls /\ Stack!PhaseFitsKind

\* What the docker daemon holds keeps its type.
StackOK ==
    /\ v1 \in [Services -> {"absent", "exited", "starting", "healthy", "unhealthy"}]
    /\ v2 \in BOOLEAN /\ v3 \in BOOLEAN /\ faults \in 0 .. MaxFaults

\* An invocation goes on, or ends; a background up succeeds in neither way.
LEMMA CallGoes ==
    ASSUME CallsFit, NEW c \in Callers, NEW pc \in Stack!Phases, Stack!Go(c, pc),
           pc \in Stack!Elsewhere => v4[c].kind \notin Background
    PROVE  CallsFit' /\ Stack!UpMeansHealthy
<1> USE DEF CallsFit, Stack!Go, Calls
<1>1. v4' \in Calls
  OBVIOUS
<1>2. Stack!PhaseFitsKind'
  BY DEF Stack!PhaseFitsKind, Background
<1>3. Stack!UpMeansHealthy
  BY DEF Stack!UpMeansHealthy
<1> QED
  BY <1>1, <1>2, <1>3

LEMMA CallStarts ==
    ASSUME CallsFit, NEW c \in Callers, NEW k \in Stack!Kinds, NEW pc \in Stack!Phases,
           v4' = [v4 EXCEPT ![c].kind = k, ![c].pc = pc],
           pc \in Stack!Elsewhere => k \notin Background
    PROVE  CallsFit' /\ Stack!UpMeansHealthy
<1> USE DEF CallsFit, Calls
<1>1. v4' \in Calls
  OBVIOUS
<1>2. Stack!PhaseFitsKind'
  BY DEF Stack!PhaseFitsKind, Background
<1>3. Stack!UpMeansHealthy
  BY DEF Stack!UpMeansHealthy
<1> QED
  BY <1>1, <1>2, <1>3

LEMMA CallSucceeds ==
    ASSUME CallsFit, NEW c \in Callers,
           v4' = [v4 EXCEPT ![c].pc = "done", ![c].ok = TRUE, ![c].saw = TRUE],
           \A s \in critical : v1[s] = "healthy"
    PROVE  CallsFit' /\ Stack!UpMeansHealthy
<1> USE DEF CallsFit, Calls
<1>0. "done" \in Stack!Phases /\ "done" \notin Stack!Elsewhere
  BY DEF Stack!Phases, Stack!Elsewhere
<1>1. v4' \in Calls
  BY <1>0
<1>2. Stack!PhaseFitsKind'
  BY <1>0 DEF Stack!PhaseFitsKind
<1>3. Stack!UpMeansHealthy
  BY DEF Stack!UpMeansHealthy
<1> QED
  BY <1>1, <1>2, <1>3

LEMMA CallEnds ==
    ASSUME CallsFit, NEW c \in Callers, NEW ok \in BOOLEAN, Stack!End(c, ok),
           ok => v4[c].kind \notin Background
    PROVE  CallsFit' /\ Stack!UpMeansHealthy
<1> USE DEF CallsFit, Stack!End, Calls
<1>0. "done" \in Stack!Phases /\ "done" \notin Stack!Elsewhere
  BY DEF Stack!Phases, Stack!Elsewhere
<1>1. v4' \in Calls
  BY <1>0
<1>2. Stack!PhaseFitsKind'
  BY <1>0 DEF Stack!PhaseFitsKind
<1>3. Stack!UpMeansHealthy
  BY DEF Stack!UpMeansHealthy, Background
<1> QED
  BY <1>1, <1>2, <1>3

LEMMA CallsRest == CallsFit /\ UNCHANGED v4 => CallsFit' /\ Stack!UpMeansHealthy
BY DEF CallsFit, Stack!PhaseFitsKind, Stack!UpMeansHealthy

LEMMA PhasesAreThese ==
    /\ {"ready", "preflight", "compose", "settle", "rebuild", "prompt", "stop", "rm", "volume", "probe",
        "run", "done"} = Stack!Phases
    /\ \A pc \in {"ready", "preflight", "compose", "settle", "done"} : pc \notin Stack!Elsewhere
BY DEF Stack!Phases, Stack!Elsewhere

\* Every action of the stack keeps the types of what docker holds.
LEMMA StackKeepsTypes == StackOK /\ Stack!Next => StackOK'
<1> SUFFICES ASSUME StackOK, Stack!Next PROVE StackOK'
  OBVIOUS
<1> USE DEF StackOK
<1>0. MaxFaults \in Nat /\ frontend \in Services
  BY ConstantsAssumption DEF Stack!ServicesAssumption
<1>1. v1' \in [Services -> {"absent", "exited", "starting", "healthy", "unhealthy"}]
  BY <1>0 DEF Stack!Next, Stack!Start, Stack!Preflight, Stack!Compose, Stack!Rebuild, Stack!Settle, Stack!Prompt,
     Stack!StopService, Stack!RemoveContainer, Stack!RemoveVolume, Stack!Probe, Stack!Run, Stack!Settles,
     Stack!Breaks, Stack!Stranger, Stack!Error, Stack!Up
<1>2. v2' \in BOOLEAN
  BY <1>0 DEF Stack!Next, Stack!Start, Stack!Preflight, Stack!Compose, Stack!Rebuild, Stack!Settle, Stack!Prompt,
     Stack!StopService, Stack!RemoveContainer, Stack!RemoveVolume, Stack!Probe, Stack!Run, Stack!Settles,
     Stack!Breaks, Stack!Stranger, Stack!Error, Stack!Up, Stack!outside
<1>3. v3' \in BOOLEAN
  BY <1>0 DEF Stack!Next, Stack!Start, Stack!Preflight, Stack!Compose, Stack!Rebuild, Stack!Settle, Stack!Prompt,
     Stack!StopService, Stack!RemoveContainer, Stack!RemoveVolume, Stack!Probe, Stack!Run, Stack!Settles,
     Stack!Breaks, Stack!Stranger, Stack!Error, Stack!Up, Stack!outside
<1>4. faults' \in 0 .. MaxFaults
  <2>1. Stack!Fail => faults' \in 0 .. MaxFaults
    BY <1>0 DEF Stack!Fail
  <2>2. Stack!Fine => faults' \in 0 .. MaxFaults
    BY <1>0 DEF Stack!Fine
  <2>3. Stack!Fail \/ Stack!Fine
    BY <1>0 DEF Stack!Next, Stack!Start, Stack!Preflight, Stack!Compose, Stack!Rebuild, Stack!Settle, Stack!Prompt,
     Stack!StopService, Stack!RemoveContainer, Stack!RemoveVolume, Stack!Probe, Stack!Run, Stack!Settles,
     Stack!Breaks, Stack!Stranger, Stack!Error
  <2> QED
    BY <2>1, <2>2, <2>3
<1> QED
  BY <1>1, <1>2, <1>3, <1>4

LEMMA StackNext ==
    ASSUME CallsFit, Stack!Next
    PROVE  CallsFit' /\ Stack!UpMeansHealthy
<1> USE DEF Stack!At, Stack!Kind
<1>1. ASSUME NEW c \in Callers, NEW k \in Stack!Kinds, Stack!Start(c, k)
      PROVE  CallsFit' /\ Stack!UpMeansHealthy
  <2>1. PICK pc \in Stack!Phases :
            /\ v4' = [v4 EXCEPT ![c].kind = k, ![c].pc = pc]
            /\ pc \in Stack!Elsewhere => k \notin Background
    BY <1>1, PhasesAreThese DEF Stack!Start, Background
  <2> QED
    BY <1>1, <2>1, CallStarts
<1>2. ASSUME NEW c \in Callers, Stack!Preflight(c)
      PROVE  CallsFit' /\ Stack!UpMeansHealthy
  <2>1. \/ Stack!End(c, ~v3 \/ \E s \in Services : Stack!Up(s)) /\ v4[c].kind = "preflight"
        \/ Stack!Go(c, "compose")
        \/ Stack!End(c, FALSE)
    BY <1>2 DEF Stack!Preflight
  <2> QED
    BY <2>1, CallGoes, CallEnds, PhasesAreThese DEF Background
<1>3. ASSUME NEW c \in Callers, Stack!Compose(c)
      PROVE  CallsFit' /\ Stack!UpMeansHealthy
  <2>1. \/ Stack!Go(c, "settle")
        \/ Stack!Go(c, "rebuild") /\ v4[c].kind \notin Background
        \/ Stack!End(c, TRUE) /\ v4[c].kind \notin Background
        \/ Stack!End(c, FALSE)
    BY <1>3 DEF Stack!Compose, Stack!Error, Background
  <2> QED
    BY <2>1, CallGoes, CallEnds, PhasesAreThese
<1>4. ASSUME NEW c \in Callers, Stack!Settle(c)
      PROVE  CallsFit' /\ Stack!UpMeansHealthy
  <2>1. CASE Stack!End(c, FALSE)
    BY <2>1, CallEnds
  <2>2. CASE /\ v4' = [v4 EXCEPT ![c].pc = "done", ![c].ok = TRUE, ![c].saw = TRUE]
             /\ \A s \in critical : v1[s] = "healthy"
    BY <2>2, CallSucceeds
  <2> QED
    BY <1>4, <2>1, <2>2 DEF Stack!Settle
<1>5. ASSUME NEW c \in Callers, v4[c].pc \in Stack!Elsewhere,
             Stack!Rebuild(c) \/ Stack!Prompt(c) \/ Stack!StopService(c) \/ Stack!RemoveContainer(c)
             \/ Stack!RemoveVolume(c) \/ Stack!Run(c)
      PROVE  CallsFit' /\ Stack!UpMeansHealthy
  <2>1. v4[c].kind \notin Background
    BY <1>5 DEF CallsFit, Stack!PhaseFitsKind, Background
  <2>2. \/ \E ok \in BOOLEAN : Stack!End(c, ok)
        \/ \E pc \in Stack!Phases : Stack!Go(c, pc)
    BY <1>5, PhasesAreThese DEF Stack!Rebuild, Stack!Prompt, Stack!StopService, Stack!RemoveContainer,
       Stack!RemoveVolume, Stack!Run, Stack!Error
  <2> QED
    BY <2>1, <2>2, CallGoes, CallEnds
<1>6. ASSUME NEW c \in Callers, Stack!Probe(c)
      PROVE  CallsFit' /\ Stack!UpMeansHealthy
  <2>1. v4[c].kind \notin Background
    BY <1>6 DEF CallsFit, Stack!PhaseFitsKind, Background, Stack!Probe, Stack!Elsewhere
  <2>2. CASE Stack!End(c, FALSE)
    BY <2>2, CallEnds
  <2>3. CASE v4' = [v4 EXCEPT ![c].pc = "run", ![c].saw = Stack!Up(frontend)]
    <3>1. Stack!Up(frontend) \in BOOLEAN
      BY DEF Stack!Up
    <3> QED
      BY <2>1, <2>3, <3>1, PhasesAreThese DEF CallsFit, Calls, Background, Stack!PhaseFitsKind, Stack!UpMeansHealthy
  <2> QED
    BY <1>6, <2>2, <2>3 DEF Stack!Probe
<1>7. ASSUME NEW s \in Services, Stack!Settles(s) \/ Stack!Breaks(s)
      PROVE  UNCHANGED v4
  BY <1>7 DEF Stack!Settles, Stack!Breaks
<1>8. ASSUME Stack!Stranger PROVE UNCHANGED v4
  BY <1>8 DEF Stack!Stranger
<1>9. ASSUME NEW c \in Callers, Stack!Rebuild(c) \/ Stack!Prompt(c) \/ Stack!StopService(c) \/ Stack!RemoveContainer(c)
             \/ Stack!RemoveVolume(c) \/ Stack!Run(c)
      PROVE  v4[c].pc \in Stack!Elsewhere
  BY <1>9 DEF Stack!Rebuild, Stack!Prompt, Stack!StopService, Stack!RemoveContainer, Stack!RemoveVolume, Stack!Run, Stack!Elsewhere
<1> QED
  BY <1>1, <1>2, <1>3, <1>4, <1>5, <1>6, <1>7, <1>8, <1>9, CallsRest DEF Stack!Next

LEMMA StackStarts ==
    ASSUME Stack!Init PROVE StackOK /\ CallsFit
<1>1. StackOK
  BY ConstantsAssumption DEF Stack!Init, StackOK, Stack!ServicesAssumption
<1>2. v4 \in Calls
  BY PhasesAreThese DEF Stack!Init, Calls, Stack!Kinds
<1>3. Stack!PhaseFitsKind
  BY DEF Stack!Init, Stack!PhaseFitsKind, Stack!Elsewhere
<1> QED
  BY <1>1, <1>2, <1>3 DEF CallsFit

LEMMA StackRests == StackOK /\ CallsFit /\ UNCHANGED Stack!vars => StackOK' /\ CallsFit' /\ Stack!UpMeansHealthy
BY CallsRest DEF Stack!vars, StackOK

LEMMA StackIInv == Stack!IInv <=> StackOK /\ CallsFit
BY DEF Stack!IInv, Stack!TypeOK, StackOK, CallsFit, Calls

LEMMA StackHolds == Spec => [](part = "stack" => Stack!IInv)
<1> DEFINE Kept == part = "stack" => Stack!IInv
<1>1. Init => Kept
  BY StackStarts, StackIInv DEF Init
<1>2. Kept /\ [Next]_vars => Kept'
  <2> SUFFICES ASSUME part = "stack", StackOK, CallsFit, [Next]_vars PROVE Stack!IInv'
    BY StackIInv DEF Next, vars
  <2>1. Stack!Next \/ UNCHANGED Stack!vars
    BY DEF Next, vars, Stack!vars
  <2> QED
    BY <2>1, StackKeepsTypes, StackNext, StackRests
       DEF Stack!IInv, Stack!TypeOK, StackOK, CallsFit, Calls
<1> QED
  BY <1>1, <1>2, PTL DEF Spec

\* A background up reports success only in a step at which every critical service
\* is healthy, for any set of services and invocations (internal/cli/local.go).
THEOREM UpAlwaysMeansHealthy == Spec => UpMeansHealthy
<1>1. (part = "stack" => Stack!IInv) /\ [Next]_vars => [part = "stack" => Stack!UpMeansHealthy]_vars
  <2> SUFFICES ASSUME part = "stack", StackOK, CallsFit, [Next]_vars PROVE Stack!UpMeansHealthy
    BY StackIInv
  <2>1. Stack!Next \/ UNCHANGED Stack!vars
    BY DEF Next, vars, Stack!vars
  <2> QED
    BY <2>1, StackNext, StackRests
<1> QED
  BY <1>1, StackHolds, PTL DEF Spec, UpMeansHealthy

-----------------------------------------------------------------------------
(* The v_core daemon.                                                      *)


LEMMA VcoreStarts == ASSUME Vcore!Init PROVE Vcore!IInv
BY ConstantsAssumption DEF Vcore!Init, Vcore!IInv, Vcore!TypeOK, Vcore!SpawnedFirst, Vcore!OneAtWork, Vcore!StaleWhenReplaced, Vcore!DaemonIsRecorded, Vcore!At, Vcore!AtWork, Vcore!DaemonsAssumption

LEMMA VcoreNext ==
    ASSUME Vcore!IInv, Vcore!Next
    PROVE  Vcore!IInv'
<1> USE DEF Vcore!At, Vcore!Go, Vcore!pidAlive, Vcore!history, Vcore!TypeOK
<1> DEFINE Goal == Vcore!TypeOK' /\ Vcore!SpawnedFirst' /\ Vcore!OneAtWork' /\ Vcore!StaleWhenReplaced' /\ Vcore!DaemonIsRecorded'
<1>0. /\ Vcore!TypeOK /\ Vcore!SpawnedFirst /\ Vcore!OneAtWork /\ Vcore!StaleWhenReplaced /\ Vcore!DaemonIsRecorded
      /\ None \notin VcorePids /\ MaxFaults \in Nat
  BY ConstantsAssumption DEF Vcore!DaemonsAssumption, Vcore!IInv
<1>1. ASSUME NEW c \in Callers, NEW k \in {"start", "stop", "status"}, Vcore!Invoke(c, k)
      PROVE  Goal
  <2>1. Vcore!TypeOK'
    BY <1>0, <1>1 DEF Vcore!Invoke, Vcore!Fail, Vcore!Fine
  <2>2. Vcore!SpawnedFirst'
    BY <1>0, <1>1 DEF Vcore!Invoke, Vcore!TypeOK, Vcore!SpawnedFirst
  <2>3. Vcore!OneAtWork'
    BY <1>0, <1>1 DEF Vcore!Invoke, Vcore!TypeOK, Vcore!OneAtWork, Vcore!AtWork
  <2>4. Vcore!StaleWhenReplaced'
    BY <1>0, <1>1 DEF Vcore!Invoke, Vcore!TypeOK, Vcore!StaleWhenReplaced, Vcore!SpawnedFirst, Vcore!OneAtWork, Vcore!AtWork
  <2>5. Vcore!DaemonIsRecorded'
    BY <1>0, <1>1 DEF Vcore!Invoke, Vcore!TypeOK, Vcore!DaemonIsRecorded, Vcore!StaleWhenReplaced, Vcore!SpawnedFirst, Vcore!OneAtWork, Vcore!AtWork
  <2> QED
    BY <2>1, <2>2, <2>3, <2>4, <2>5
<1>2. ASSUME NEW c \in Callers, Vcore!Load(c)
      PROVE  Goal
  <2>1. Vcore!TypeOK'
    BY <1>0, <1>2 DEF Vcore!Load, Vcore!Fail, Vcore!Fine
  <2>2. Vcore!SpawnedFirst'
    BY <1>0, <1>2 DEF Vcore!Load, Vcore!TypeOK, Vcore!SpawnedFirst
  <2>3. Vcore!OneAtWork'
    BY <1>0, <1>2 DEF Vcore!Load, Vcore!TypeOK, Vcore!OneAtWork, Vcore!AtWork
  <2>4. Vcore!StaleWhenReplaced'
    BY <1>0, <1>2 DEF Vcore!Load, Vcore!TypeOK, Vcore!StaleWhenReplaced, Vcore!SpawnedFirst, Vcore!OneAtWork, Vcore!AtWork
  <2>5. Vcore!DaemonIsRecorded'
    BY <1>0, <1>2 DEF Vcore!Load, Vcore!TypeOK, Vcore!DaemonIsRecorded, Vcore!StaleWhenReplaced, Vcore!SpawnedFirst, Vcore!OneAtWork, Vcore!AtWork
  <2> QED
    BY <2>1, <2>2, <2>3, <2>4, <2>5
<1>3. ASSUME NEW c \in Callers, Vcore!Clear(c)
      PROVE  Goal
  <2>1. Vcore!TypeOK'
    BY <1>0, <1>3 DEF Vcore!Clear, Vcore!Fail, Vcore!Fine
  <2>2. Vcore!SpawnedFirst'
    BY <1>0, <1>3 DEF Vcore!Clear, Vcore!TypeOK, Vcore!SpawnedFirst
  <2>3. Vcore!OneAtWork'
    BY <1>0, <1>3 DEF Vcore!Clear, Vcore!TypeOK, Vcore!OneAtWork, Vcore!AtWork
  <2>4. Vcore!StaleWhenReplaced'
    BY <1>0, <1>3 DEF Vcore!Clear, Vcore!TypeOK, Vcore!StaleWhenReplaced, Vcore!SpawnedFirst, Vcore!OneAtWork, Vcore!AtWork
  <2>5. Vcore!DaemonIsRecorded'
    BY <1>0, <1>3 DEF Vcore!Clear, Vcore!TypeOK, Vcore!DaemonIsRecorded, Vcore!StaleWhenReplaced, Vcore!SpawnedFirst, Vcore!OneAtWork, Vcore!AtWork
  <2> QED
    BY <2>1, <2>2, <2>3, <2>4, <2>5
<1>4. ASSUME NEW c \in Callers, Vcore!Spawn(c)
      PROVE  Goal
  <2>1. Vcore!TypeOK'
    BY <1>0, <1>4 DEF Vcore!Spawn, Vcore!Fail, Vcore!Fine
  <2>2. Vcore!SpawnedFirst'
    BY <1>0, <1>4 DEF Vcore!Spawn, Vcore!TypeOK, Vcore!SpawnedFirst
  <2>3. Vcore!OneAtWork'
    BY <1>0, <1>4 DEF Vcore!Spawn, Vcore!TypeOK, Vcore!OneAtWork, Vcore!AtWork
  <2>4. Vcore!StaleWhenReplaced'
    BY <1>0, <1>4 DEF Vcore!Spawn, Vcore!TypeOK, Vcore!StaleWhenReplaced, Vcore!SpawnedFirst, Vcore!OneAtWork, Vcore!AtWork
  <2>5. Vcore!DaemonIsRecorded'
    BY <1>0, <1>4 DEF Vcore!Spawn, Vcore!TypeOK, Vcore!DaemonIsRecorded, Vcore!StaleWhenReplaced, Vcore!SpawnedFirst, Vcore!OneAtWork, Vcore!AtWork
  <2> QED
    BY <2>1, <2>2, <2>3, <2>4, <2>5
<1>5. ASSUME NEW c \in Callers, Vcore!SaveState(c)
      PROVE  Goal
  <2>a. v3[c].found \in VcorePids \/ ~Vcore!At(c, "save")
    BY <1>0 DEF Vcore!SpawnedFirst
  <2>b. v1' = v1 /\ v4' = v4 /\ v3' = [v3 EXCEPT ![c].pc = "done"]
    BY <1>5 DEF Vcore!SaveState
  <2>c. v2' \in VcorePids \cup {None} /\ v5' \subseteq VcorePids
    BY <1>0, <1>5, <2>a DEF Vcore!SaveState
  <2>d. faults' \in 0 .. MaxFaults
    BY <1>0, <1>5 DEF Vcore!SaveState, Vcore!Fail, Vcore!Fine
  <2>1. Vcore!TypeOK'
    BY <1>0, <2>b, <2>c, <2>d
  <2>2. Vcore!SpawnedFirst'
    BY <1>0, <1>5 DEF Vcore!SaveState, Vcore!TypeOK, Vcore!SpawnedFirst
  <2>3. Vcore!OneAtWork'
    BY <1>0, <1>5 DEF Vcore!SaveState, Vcore!TypeOK, Vcore!OneAtWork, Vcore!AtWork
  <2>4. Vcore!StaleWhenReplaced'
    BY <1>0, <1>5 DEF Vcore!SaveState, Vcore!TypeOK, Vcore!StaleWhenReplaced, Vcore!SpawnedFirst, Vcore!OneAtWork, Vcore!AtWork
  <2>5. Vcore!DaemonIsRecorded'
    BY <1>0, <1>5 DEF Vcore!SaveState, Vcore!TypeOK, Vcore!DaemonIsRecorded, Vcore!StaleWhenReplaced, Vcore!SpawnedFirst, Vcore!OneAtWork, Vcore!AtWork
  <2> QED
    BY <2>1, <2>2, <2>3, <2>4, <2>5
<1>6. ASSUME NEW c \in Callers, Vcore!Stop(c)
      PROVE  Goal
  <2>1. Vcore!TypeOK'
    BY <1>0, <1>6 DEF Vcore!Stop, Vcore!Fail, Vcore!Fine
  <2>2. Vcore!SpawnedFirst'
    BY <1>0, <1>6 DEF Vcore!Stop, Vcore!TypeOK, Vcore!SpawnedFirst
  <2>3. Vcore!OneAtWork'
    BY <1>0, <1>6 DEF Vcore!Stop, Vcore!TypeOK, Vcore!OneAtWork, Vcore!AtWork
  <2>4. Vcore!StaleWhenReplaced'
    BY <1>0, <1>6 DEF Vcore!Stop, Vcore!TypeOK, Vcore!StaleWhenReplaced, Vcore!SpawnedFirst, Vcore!OneAtWork, Vcore!AtWork
  <2>5. Vcore!DaemonIsRecorded'
    BY <1>0, <1>6 DEF Vcore!Stop, Vcore!TypeOK, Vcore!DaemonIsRecorded, Vcore!StaleWhenReplaced, Vcore!SpawnedFirst, Vcore!OneAtWork, Vcore!AtWork
  <2> QED
    BY <2>1, <2>2, <2>3, <2>4, <2>5
<1>7. ASSUME NEW c \in Callers, Vcore!Stopped(c)
      PROVE  Goal
  <2>1. Vcore!TypeOK'
    BY <1>0, <1>7 DEF Vcore!Stopped, Vcore!Fail, Vcore!Fine
  <2>2. Vcore!SpawnedFirst'
    BY <1>0, <1>7 DEF Vcore!Stopped, Vcore!TypeOK, Vcore!SpawnedFirst
  <2>3. Vcore!OneAtWork'
    BY <1>0, <1>7 DEF Vcore!Stopped, Vcore!TypeOK, Vcore!OneAtWork, Vcore!AtWork
  <2>4. Vcore!StaleWhenReplaced'
    BY <1>0, <1>7 DEF Vcore!Stopped, Vcore!TypeOK, Vcore!StaleWhenReplaced, Vcore!SpawnedFirst, Vcore!OneAtWork, Vcore!AtWork
  <2>5. Vcore!DaemonIsRecorded'
    BY <1>0, <1>7 DEF Vcore!Stopped, Vcore!TypeOK, Vcore!DaemonIsRecorded, Vcore!StaleWhenReplaced, Vcore!SpawnedFirst, Vcore!OneAtWork, Vcore!AtWork
  <2> QED
    BY <2>1, <2>2, <2>3, <2>4, <2>5
<1>8. ASSUME NEW c \in Callers, Vcore!Kill(c)
      PROVE  Goal
  <2>a. v3[c].found \in VcorePids \/ ~Vcore!At(c, "save")
    BY <1>0 DEF Vcore!SpawnedFirst
  <2>b. v1' = v1 /\ v4' = v4 /\ v3' = [v3 EXCEPT ![c].pc = "done"]
    BY <1>8 DEF Vcore!Kill
  <2>c. v2' \in VcorePids \cup {None} /\ v5' \subseteq VcorePids
    BY <1>0, <1>8, <2>a DEF Vcore!Kill
  <2>d. faults' \in 0 .. MaxFaults
    BY <1>0, <1>8 DEF Vcore!Kill, Vcore!Fail, Vcore!Fine
  <2>1. Vcore!TypeOK'
    BY <1>0, <2>b, <2>c, <2>d
  <2>2. Vcore!SpawnedFirst'
    BY <1>0, <1>8 DEF Vcore!Kill, Vcore!TypeOK, Vcore!SpawnedFirst
  <2>3. Vcore!OneAtWork'
    BY <1>0, <1>8 DEF Vcore!Kill, Vcore!TypeOK, Vcore!OneAtWork, Vcore!AtWork
  <2>4. Vcore!StaleWhenReplaced'
    BY <1>0, <1>8 DEF Vcore!Kill, Vcore!TypeOK, Vcore!StaleWhenReplaced, Vcore!SpawnedFirst, Vcore!OneAtWork, Vcore!AtWork
  <2>5. Vcore!DaemonIsRecorded'
    BY <1>0, <1>8 DEF Vcore!Kill, Vcore!TypeOK, Vcore!DaemonIsRecorded, Vcore!StaleWhenReplaced, Vcore!SpawnedFirst, Vcore!OneAtWork, Vcore!AtWork
  <2> QED
    BY <2>1, <2>2, <2>3, <2>4, <2>5
<1>9. ASSUME NEW d \in VcorePids, Vcore!Exit(d)
      PROVE  Goal
  <2>1. Vcore!TypeOK'
    BY <1>0, <1>9 DEF Vcore!Exit, Vcore!Fail, Vcore!Fine
  <2>2. Vcore!SpawnedFirst'
    BY <1>0, <1>9 DEF Vcore!Exit, Vcore!TypeOK, Vcore!SpawnedFirst
  <2>3. Vcore!OneAtWork'
    BY <1>0, <1>9 DEF Vcore!Exit, Vcore!TypeOK, Vcore!OneAtWork, Vcore!AtWork
  <2>4. Vcore!StaleWhenReplaced'
    BY <1>0, <1>9 DEF Vcore!Exit, Vcore!TypeOK, Vcore!StaleWhenReplaced, Vcore!SpawnedFirst, Vcore!OneAtWork, Vcore!AtWork
  <2>5. Vcore!DaemonIsRecorded'
    BY <1>0, <1>9 DEF Vcore!Exit, Vcore!TypeOK, Vcore!DaemonIsRecorded, Vcore!StaleWhenReplaced, Vcore!SpawnedFirst, Vcore!OneAtWork, Vcore!AtWork
  <2> QED
    BY <2>1, <2>2, <2>3, <2>4, <2>5
<1> QED
  BY <1>1, <1>2, <1>3, <1>4, <1>5, <1>6, <1>7, <1>8, <1>9 DEF Vcore!Next, Vcore!Step, Vcore!IInv

LEMMA VcoreRests == Vcore!IInv /\ UNCHANGED Vcore!vars => Vcore!IInv'
BY DEF Vcore!vars, Vcore!IInv, Vcore!TypeOK, Vcore!SpawnedFirst, Vcore!OneAtWork, Vcore!StaleWhenReplaced, Vcore!DaemonIsRecorded, Vcore!At, Vcore!AtWork

LEMMA VcoreHolds == Spec => [](part = "vcore" => Vcore!IInv)
<1> DEFINE Kept == part = "vcore" => Vcore!IInv
<1>1. Init => Kept
  BY VcoreStarts DEF Init
<1>2. Kept /\ [Next]_vars => Kept'
  BY VcoreNext, VcoreRests DEF Next, vars, Vcore!vars
<1> QED
  BY <1>1, <1>2, PTL DEF Spec

-----------------------------------------------------------------------------
(* The sessions of agents.                                                 *)


\* What CopiesAreOfRecords says of one invocation at work.
SessionCopyFits(c) ==
    LET a == v5[c].on
    IN /\ a \in Agents /\ v4[a].status # "none" /\ v5[c].copy.status # "none"
       /\ v5[c].copy.status # "running" => v2[a] # "alive"
       /\ v5[c].pc \in {"save", "remove"} => v2[a] # "alive"
       /\ v5[c].pc = "remove" => v4[a].status # "running"

CallsOfSessions ==
    [pc : {"ready", "refresh", "prompt", "signal", "wait", "save", "remove", "done"},
     on : Agents \cup {None}, copy : Sessions!Records, stop : BOOLEAN]

LEMMA SessionsStarts == ASSUME Sessions!Init PROVE Sessions!IInv
BY ConstantsAssumption DEF Sessions!Init, Sessions!IInv, Sessions!TypeOK, Sessions!UnsavedUntilRunning, Sessions!CopiesAreOfRecords, Sessions!RecordsTellTheTruth, Sessions!AgentsAssumption, Sessions!Spawning, Sessions!Records, Sessions!Unsaved

LEMMA RunningIsSaved ==
    ASSUME v4 \in [Agents -> Sessions!Records], NEW a \in Agents
    PROVE  [v4 EXCEPT ![a].status = "running"] \in [Agents -> Sessions!Records]
BY DEF Sessions!Records

LEMMA SessionsNext ==
    ASSUME Sessions!IInv, Sessions!Next
    PROVE  Sessions!IInv'
<1> USE DEF Sessions!At, Sessions!Go, Sessions!pidAlive, Sessions!files, Sessions!Spawner, Sessions!Copy, Sessions!Agent, Sessions!TypeOK, Sessions!Records, Sessions!Spawning
<1> DEFINE Goal == Sessions!TypeOK' /\ Sessions!UnsavedUntilRunning' /\ Sessions!CopiesAreOfRecords' /\ Sessions!RecordsTellTheTruth'
<1>0. /\ Sessions!TypeOK /\ Sessions!UnsavedUntilRunning /\ Sessions!CopiesAreOfRecords /\ Sessions!RecordsTellTheTruth
      /\ None \notin Agents /\ MaxFaults \in Nat
  BY ConstantsAssumption DEF Sessions!AgentsAssumption, Sessions!IInv
<1>1. ASSUME NEW a \in Agents, Sessions!CreateWorktree(a)
      PROVE  Goal
  <2>1. Sessions!TypeOK'
    BY <1>0, <1>1 DEF Sessions!CreateWorktree, Sessions!Fail, Sessions!Fine, Sessions!CopiesAreOfRecords
  <2>2. Sessions!UnsavedUntilRunning'
    BY <1>0, <1>1 DEF Sessions!CreateWorktree, Sessions!UnsavedUntilRunning, Sessions!CopiesAreOfRecords
  <2>3. Sessions!CopiesAreOfRecords'
    BY <1>0, <1>1 DEF Sessions!CreateWorktree, Sessions!UnsavedUntilRunning, Sessions!CopiesAreOfRecords
  <2>4. Sessions!RecordsTellTheTruth'
    BY <1>0, <1>1 DEF Sessions!CreateWorktree, Sessions!UnsavedUntilRunning, Sessions!CopiesAreOfRecords, Sessions!RecordsTellTheTruth
  <2> QED
    BY <2>1, <2>2, <2>3, <2>4
<1>2. ASSUME NEW a \in Agents, Sessions!WriteContext(a)
      PROVE  Goal
  <2>1. Sessions!TypeOK'
    BY <1>0, <1>2, SMTT(30) DEF Sessions!WriteContext, Sessions!Fail, Sessions!Fine, Sessions!CopiesAreOfRecords
  <2>2. Sessions!UnsavedUntilRunning'
    BY <1>0, <1>2 DEF Sessions!WriteContext, Sessions!UnsavedUntilRunning, Sessions!CopiesAreOfRecords
  <2>3. Sessions!CopiesAreOfRecords'
    BY <1>0, <1>2 DEF Sessions!WriteContext, Sessions!UnsavedUntilRunning, Sessions!CopiesAreOfRecords
  <2>4. Sessions!RecordsTellTheTruth'
    BY <1>0, <1>2 DEF Sessions!WriteContext, Sessions!UnsavedUntilRunning, Sessions!CopiesAreOfRecords, Sessions!RecordsTellTheTruth
  <2> QED
    BY <2>1, <2>2, <2>3, <2>4
<1>3. ASSUME NEW a \in Agents, Sessions!StartChild(a)
      PROVE  Goal
  <2>a. v4' \in [Agents -> Sessions!Records]
    BY <1>0, <1>3 DEF Sessions!StartChild
  <2>c. faults' \in 0 .. MaxFaults
    BY <1>0, <1>3 DEF Sessions!StartChild, Sessions!Fail, Sessions!Fine
  <2>1. Sessions!TypeOK'
    BY <1>0, <1>3, <2>a, <2>c DEF Sessions!StartChild
  <2>2. Sessions!UnsavedUntilRunning'
    <3>1. CASE v2' = [v2 EXCEPT ![a] = "alive"] /\ v3' = v3 /\ v4' = v4 /\ v1' = [v1 EXCEPT ![a] = "save"]
      BY <1>0, <1>3, <3>1 DEF Sessions!StartChild, Sessions!UnsavedUntilRunning
    <3>2. CASE v2' = v2 /\ v3' = v3 \ {a} /\ v4' = [v4 EXCEPT ![a].status = "error"] /\ v1' = [v1 EXCEPT ![a] = "gone"]
      <4>1. v2[a] # "alive"
        BY <1>0, <1>3 DEF Sessions!StartChild, Sessions!UnsavedUntilRunning
      <4> QED
        BY <1>0, <1>3, <3>2, <4>1 DEF Sessions!UnsavedUntilRunning
    <3> QED
      BY <1>3, <3>1, <3>2 DEF Sessions!StartChild
  <2>3. Sessions!CopiesAreOfRecords'
    BY <1>0, <1>3 DEF Sessions!StartChild, Sessions!UnsavedUntilRunning, Sessions!CopiesAreOfRecords
  <2>4. Sessions!RecordsTellTheTruth'
    BY <1>0, <1>3 DEF Sessions!StartChild, Sessions!UnsavedUntilRunning, Sessions!CopiesAreOfRecords, Sessions!RecordsTellTheTruth
  <2> QED
    BY <2>1, <2>2, <2>3, <2>4
<1>4. ASSUME NEW a \in Agents, Sessions!Rollback(a)
      PROVE  Goal
  <2>1. Sessions!TypeOK'
    BY <1>0, <1>4 DEF Sessions!Rollback, Sessions!Fail, Sessions!Fine, Sessions!CopiesAreOfRecords
  <2>2. Sessions!UnsavedUntilRunning'
    BY <1>0, <1>4 DEF Sessions!Rollback, Sessions!UnsavedUntilRunning, Sessions!CopiesAreOfRecords
  <2>3. Sessions!CopiesAreOfRecords'
    BY <1>0, <1>4 DEF Sessions!Rollback, Sessions!UnsavedUntilRunning, Sessions!CopiesAreOfRecords
  <2>4. Sessions!RecordsTellTheTruth'
    BY <1>0, <1>4 DEF Sessions!Rollback, Sessions!UnsavedUntilRunning, Sessions!CopiesAreOfRecords, Sessions!RecordsTellTheTruth
  <2> QED
    BY <2>1, <2>2, <2>3, <2>4
<1>5. ASSUME NEW a \in Agents, Sessions!SaveRunning(a)
      PROVE  Goal
  <2>b. v4' = v4 \/ v4' = [v4 EXCEPT ![a].status = "running"]
    BY <1>5 DEF Sessions!SaveRunning
  <2>a. v4' \in [Agents -> Sessions!Records]
    <3> HIDE DEF Sessions!Records
    <3> QED
      BY <1>0, <2>b, RunningIsSaved
  <2>c. faults' \in 0 .. MaxFaults
    BY <1>0, <1>5 DEF Sessions!SaveRunning, Sessions!Fail, Sessions!Fine
  <2>1. Sessions!TypeOK'
    BY <1>0, <1>5, <2>a, <2>c DEF Sessions!SaveRunning
  <2>2. Sessions!UnsavedUntilRunning'
    BY <1>0, <1>5 DEF Sessions!SaveRunning, Sessions!UnsavedUntilRunning, Sessions!CopiesAreOfRecords
  <2>3. Sessions!CopiesAreOfRecords'
    BY <1>0, <1>5 DEF Sessions!SaveRunning, Sessions!UnsavedUntilRunning, Sessions!CopiesAreOfRecords
  <2>4. Sessions!RecordsTellTheTruth'
    BY <1>0, <1>5, SMTT(30) DEF Sessions!SaveRunning, Sessions!UnsavedUntilRunning, Sessions!CopiesAreOfRecords, Sessions!RecordsTellTheTruth
  <2> QED
    BY <2>1, <2>2, <2>3, <2>4
<1>6. ASSUME NEW a \in Agents, Sessions!ReapLoad(a)
      PROVE  Goal
  <2>1. Sessions!TypeOK'
    BY <1>0, <1>6 DEF Sessions!ReapLoad, Sessions!Fail, Sessions!Fine, Sessions!CopiesAreOfRecords
  <2>2. Sessions!UnsavedUntilRunning'
    BY <1>0, <1>6 DEF Sessions!ReapLoad, Sessions!UnsavedUntilRunning, Sessions!CopiesAreOfRecords
  <2>3. Sessions!CopiesAreOfRecords'
    BY <1>0, <1>6 DEF Sessions!ReapLoad, Sessions!UnsavedUntilRunning, Sessions!CopiesAreOfRecords
  <2>4. Sessions!RecordsTellTheTruth'
    BY <1>0, <1>6 DEF Sessions!ReapLoad, Sessions!UnsavedUntilRunning, Sessions!CopiesAreOfRecords, Sessions!RecordsTellTheTruth
  <2> QED
    BY <2>1, <2>2, <2>3, <2>4
<1>7. ASSUME NEW a \in Agents, Sessions!ReapSave(a)
      PROVE  Goal
  <2>a. v4' \in [Agents -> Sessions!Records]
    <3>1. [status |-> "exited", code |-> TRUE] \in Sessions!Records
      OBVIOUS
    <3>2. v4' = v4 \/ v4' = [v4 EXCEPT ![a] = [status |-> "exited", code |-> TRUE]]
      BY <1>7 DEF Sessions!ReapSave
    <3> HIDE DEF Sessions!Records
    <3> QED
      BY <1>0, <3>1, <3>2
  <2>c. faults' \in 0 .. MaxFaults
    BY <1>0, <1>7 DEF Sessions!ReapSave, Sessions!Fail, Sessions!Fine
  <2>1. Sessions!TypeOK'
    BY <1>0, <1>7, <2>a, <2>c DEF Sessions!ReapSave
  <2>2. Sessions!UnsavedUntilRunning'
    BY <1>0, <1>7 DEF Sessions!ReapSave, Sessions!UnsavedUntilRunning, Sessions!CopiesAreOfRecords
  <2>3. Sessions!CopiesAreOfRecords'
    BY <1>0, <1>7 DEF Sessions!ReapSave, Sessions!UnsavedUntilRunning, Sessions!CopiesAreOfRecords
  <2>4. Sessions!RecordsTellTheTruth'
    BY <1>0, <1>7 DEF Sessions!ReapSave, Sessions!UnsavedUntilRunning, Sessions!CopiesAreOfRecords, Sessions!RecordsTellTheTruth
  <2> QED
    BY <2>1, <2>2, <2>3, <2>4
<1>8. ASSUME NEW a \in Agents, Sessions!SpawnerEnds(a)
      PROVE  Goal
  <2>1. Sessions!TypeOK'
    BY <1>0, <1>8 DEF Sessions!SpawnerEnds, Sessions!Fail, Sessions!Fine, Sessions!CopiesAreOfRecords
  <2>2. Sessions!UnsavedUntilRunning'
    BY <1>0, <1>8 DEF Sessions!SpawnerEnds, Sessions!UnsavedUntilRunning, Sessions!CopiesAreOfRecords
  <2>3. Sessions!CopiesAreOfRecords'
    BY <1>0, <1>8 DEF Sessions!SpawnerEnds, Sessions!UnsavedUntilRunning, Sessions!CopiesAreOfRecords
  <2>4. Sessions!RecordsTellTheTruth'
    BY <1>0, <1>8 DEF Sessions!SpawnerEnds, Sessions!UnsavedUntilRunning, Sessions!CopiesAreOfRecords, Sessions!RecordsTellTheTruth
  <2> QED
    BY <2>1, <2>2, <2>3, <2>4
<1>9. ASSUME NEW a \in Agents, Sessions!ChildExits(a)
      PROVE  Goal
  <2>1. Sessions!TypeOK'
    BY <1>0, <1>9 DEF Sessions!ChildExits, Sessions!Fail, Sessions!Fine, Sessions!CopiesAreOfRecords
  <2>2. Sessions!UnsavedUntilRunning'
    BY <1>0, <1>9 DEF Sessions!ChildExits, Sessions!UnsavedUntilRunning, Sessions!CopiesAreOfRecords
  <2>3. Sessions!CopiesAreOfRecords'
    BY <1>0, <1>9 DEF Sessions!ChildExits, Sessions!UnsavedUntilRunning, Sessions!CopiesAreOfRecords
  <2>4. Sessions!RecordsTellTheTruth'
    BY <1>0, <1>9 DEF Sessions!ChildExits, Sessions!UnsavedUntilRunning, Sessions!CopiesAreOfRecords, Sessions!RecordsTellTheTruth
  <2> QED
    BY <2>1, <2>2, <2>3, <2>4
<1>10. ASSUME NEW c \in Callers, NEW a \in Agents, NEW stop \in BOOLEAN, Sessions!Load(c, a, stop)
      PROVE  Goal
  <2>1. Sessions!TypeOK'
    BY <1>0, <1>10 DEF Sessions!Load, Sessions!Fail, Sessions!Fine, Sessions!CopiesAreOfRecords
  <2>2. Sessions!UnsavedUntilRunning'
    BY <1>0, <1>10 DEF Sessions!Load, Sessions!UnsavedUntilRunning, Sessions!CopiesAreOfRecords
  <2>3. Sessions!CopiesAreOfRecords'
    <3> SUFFICES ASSUME NEW d \in Callers, v5'[d].pc \notin {"ready", "done"} PROVE SessionCopyFits(d)'
      BY DEF Sessions!CopiesAreOfRecords, SessionCopyFits
    <3>1. CASE d = c
      BY <1>0, <1>10, <3>1 DEF Sessions!Load, Sessions!CopiesAreOfRecords, SessionCopyFits, Sessions!UnsavedUntilRunning, Sessions!RecordsTellTheTruth
    <3>2. CASE d # c
      BY <1>0, <1>10, <3>2 DEF Sessions!Load, Sessions!CopiesAreOfRecords, SessionCopyFits, Sessions!UnsavedUntilRunning
    <3> QED
      BY <3>1, <3>2
  <2>4. Sessions!RecordsTellTheTruth'
    BY <1>0, <1>10 DEF Sessions!Load, Sessions!UnsavedUntilRunning, Sessions!CopiesAreOfRecords, Sessions!RecordsTellTheTruth
  <2> QED
    BY <2>1, <2>2, <2>3, <2>4
<1>11. ASSUME NEW c \in Callers, Sessions!RefreshStatus(c)
      PROVE  Goal
  <2>a. v4' \in [Agents -> Sessions!Records]
    BY <1>0, <1>11 DEF Sessions!RefreshStatus, Sessions!CopiesAreOfRecords
  <2>b. v5' \in [Callers -> CallsOfSessions]
    <3> DEFINE exited == [v5[c].copy EXCEPT !.status = "exited"]
    <3>1. exited \in Sessions!Records
      BY <1>0
    <3>2. \/ \E pc \in {"prompt", "done"} : v5' = [v5 EXCEPT ![c].pc = pc, ![c].copy = exited]
        \/ \E pc \in {"prompt", "done"} : v5' = [v5 EXCEPT ![c].pc = pc]
      BY <1>11 DEF Sessions!RefreshStatus
    <3> HIDE DEF exited, Sessions!Records
    <3> QED
      BY <1>0, <3>1, <3>2 DEF CallsOfSessions
  <2>c. faults' \in 0 .. MaxFaults
    BY <1>0, <1>11 DEF Sessions!RefreshStatus, Sessions!Fail, Sessions!Fine
  <2>1. Sessions!TypeOK'
    BY <1>0, <1>11, <2>a, <2>b, <2>c DEF Sessions!RefreshStatus, CallsOfSessions
  <2>2. Sessions!UnsavedUntilRunning'
    BY <1>0, <1>11 DEF Sessions!RefreshStatus, Sessions!UnsavedUntilRunning, Sessions!CopiesAreOfRecords
  <2>3. Sessions!CopiesAreOfRecords'
    <3> SUFFICES ASSUME NEW d \in Callers, v5'[d].pc \notin {"ready", "done"} PROVE SessionCopyFits(d)'
      BY DEF Sessions!CopiesAreOfRecords, SessionCopyFits
    <3>1. CASE d = c
      BY <1>0, <1>11, <3>1 DEF Sessions!RefreshStatus, Sessions!CopiesAreOfRecords, SessionCopyFits, Sessions!UnsavedUntilRunning, Sessions!RecordsTellTheTruth
    <3>2. CASE d # c
      BY <1>0, <1>11, <3>2 DEF Sessions!RefreshStatus, Sessions!CopiesAreOfRecords, SessionCopyFits, Sessions!UnsavedUntilRunning
    <3> QED
      BY <3>1, <3>2
  <2>4. Sessions!RecordsTellTheTruth'
    BY <1>0, <1>11 DEF Sessions!RefreshStatus, Sessions!UnsavedUntilRunning, Sessions!CopiesAreOfRecords, Sessions!RecordsTellTheTruth
  <2> QED
    BY <2>1, <2>2, <2>3, <2>4
<1>12. ASSUME NEW c \in Callers, Sessions!Prompt(c)
      PROVE  Goal
  <2>1. Sessions!TypeOK'
    <3>1. \E pc \in {"signal", "done", "save"} : v5' = [v5 EXCEPT ![c].pc = pc]
      BY <1>12 DEF Sessions!Prompt
    <3> HIDE DEF Sessions!Records
    <3> QED
      BY <1>0, <1>12, <3>1 DEF Sessions!Prompt, Sessions!Fine
  <2>2. Sessions!UnsavedUntilRunning'
    BY <1>0, <1>12 DEF Sessions!Prompt, Sessions!UnsavedUntilRunning, Sessions!CopiesAreOfRecords
  <2>3. Sessions!CopiesAreOfRecords'
    <3> SUFFICES ASSUME NEW d \in Callers, v5'[d].pc \notin {"ready", "done"} PROVE SessionCopyFits(d)'
      BY DEF Sessions!CopiesAreOfRecords, SessionCopyFits
    <3>1. CASE d = c
      <4>1. SessionCopyFits(c)
        BY <1>0, <1>12 DEF Sessions!Prompt, Sessions!CopiesAreOfRecords, SessionCopyFits
      <4>2. \/ v5[c].copy.status = "running" /\ v5' = [v5 EXCEPT ![c].pc = "signal"]
            \/ v5' = [v5 EXCEPT ![c].pc = "done"]
            \/ v5[c].copy.status # "running" /\ v5' = [v5 EXCEPT ![c].pc = "save"]
        BY <1>12 DEF Sessions!Prompt
      <4>3. v2' = v2 /\ v4' = v4
        BY <1>12 DEF Sessions!Prompt
      <4> QED
        BY <1>0, <3>1, <4>1, <4>2, <4>3 DEF SessionCopyFits
    <3>2. CASE d # c
      BY <1>0, <1>12, <3>2 DEF Sessions!Prompt, Sessions!CopiesAreOfRecords, SessionCopyFits, Sessions!UnsavedUntilRunning
    <3> QED
      BY <3>1, <3>2
  <2>4. Sessions!RecordsTellTheTruth'
    BY <1>0, <1>12 DEF Sessions!Prompt, Sessions!UnsavedUntilRunning, Sessions!CopiesAreOfRecords, Sessions!RecordsTellTheTruth
  <2> QED
    BY <2>1, <2>2, <2>3, <2>4
<1>13. ASSUME NEW c \in Callers, Sessions!Signal(c)
      PROVE  Goal
  <2>1. Sessions!TypeOK'
    BY <1>0, <1>13 DEF Sessions!Signal, Sessions!Fail, Sessions!Fine, Sessions!CopiesAreOfRecords
  <2>2. Sessions!UnsavedUntilRunning'
    BY <1>0, <1>13 DEF Sessions!Signal, Sessions!UnsavedUntilRunning, Sessions!CopiesAreOfRecords
  <2>3. Sessions!CopiesAreOfRecords'
    BY <1>0, <1>13 DEF Sessions!Signal, Sessions!UnsavedUntilRunning, Sessions!CopiesAreOfRecords
  <2>4. Sessions!RecordsTellTheTruth'
    BY <1>0, <1>13 DEF Sessions!Signal, Sessions!UnsavedUntilRunning, Sessions!CopiesAreOfRecords, Sessions!RecordsTellTheTruth
  <2> QED
    BY <2>1, <2>2, <2>3, <2>4
<1>14. ASSUME NEW c \in Callers, Sessions!SaveExited(c)
      PROVE  Goal
  <2>a. v4' \in [Agents -> Sessions!Records]
    BY <1>0, <1>14 DEF Sessions!SaveExited, Sessions!CopiesAreOfRecords
  <2>b. v5' \in [Callers -> CallsOfSessions]
    <3> DEFINE exited == [v5[c].copy EXCEPT !.status = "exited"]
    <3>1. exited \in Sessions!Records
      BY <1>0
    <3>2. \/ \E pc \in {"remove", "done"} : v5' = [v5 EXCEPT ![c].pc = pc]
      BY <1>14 DEF Sessions!SaveExited
    <3> HIDE DEF exited, Sessions!Records
    <3> QED
      BY <1>0, <3>1, <3>2 DEF CallsOfSessions
  <2>c. faults' \in 0 .. MaxFaults
    BY <1>0, <1>14 DEF Sessions!SaveExited, Sessions!Fail, Sessions!Fine
  <2>1. Sessions!TypeOK'
    BY <1>0, <1>14, <2>a, <2>b, <2>c DEF Sessions!SaveExited, CallsOfSessions
  <2>2. Sessions!UnsavedUntilRunning'
    BY <1>0, <1>14 DEF Sessions!SaveExited, Sessions!UnsavedUntilRunning, Sessions!CopiesAreOfRecords
  <2>3. Sessions!CopiesAreOfRecords'
    <3> SUFFICES ASSUME NEW d \in Callers, v5'[d].pc \notin {"ready", "done"} PROVE SessionCopyFits(d)'
      BY DEF Sessions!CopiesAreOfRecords, SessionCopyFits
    <3>1. CASE d = c
      BY <1>0, <1>14, <3>1 DEF Sessions!SaveExited, Sessions!CopiesAreOfRecords, SessionCopyFits, Sessions!UnsavedUntilRunning, Sessions!RecordsTellTheTruth
    <3>2. CASE d # c
      BY <1>0, <1>14, <3>2 DEF Sessions!SaveExited, Sessions!CopiesAreOfRecords, SessionCopyFits, Sessions!UnsavedUntilRunning
    <3> QED
      BY <3>1, <3>2
  <2>4. Sessions!RecordsTellTheTruth'
    BY <1>0, <1>14 DEF Sessions!SaveExited, Sessions!UnsavedUntilRunning, Sessions!CopiesAreOfRecords, Sessions!RecordsTellTheTruth
  <2> QED
    BY <2>1, <2>2, <2>3, <2>4
<1>15. ASSUME NEW c \in Callers, Sessions!RemoveWorktree(c)
      PROVE  Goal
  <2>1. Sessions!TypeOK'
    BY <1>0, <1>15, SMTT(30) DEF Sessions!RemoveWorktree, Sessions!Fail, Sessions!Fine, Sessions!CopiesAreOfRecords
  <2>2. Sessions!UnsavedUntilRunning'
    BY <1>0, <1>15 DEF Sessions!RemoveWorktree, Sessions!UnsavedUntilRunning, Sessions!CopiesAreOfRecords
  <2>3. Sessions!CopiesAreOfRecords'
    BY <1>0, <1>15 DEF Sessions!RemoveWorktree, Sessions!UnsavedUntilRunning, Sessions!CopiesAreOfRecords
  <2>4. Sessions!RecordsTellTheTruth'
    BY <1>0, <1>15 DEF Sessions!RemoveWorktree, Sessions!UnsavedUntilRunning, Sessions!CopiesAreOfRecords, Sessions!RecordsTellTheTruth
  <2> QED
    BY <2>1, <2>2, <2>3, <2>4
<1>16. ASSUME NEW c \in Callers, Sessions!Kill(c)
      PROVE  Goal
  <2>1. Sessions!TypeOK'
    BY <1>0, <1>16 DEF Sessions!Kill, Sessions!Fail, Sessions!Fine, Sessions!CopiesAreOfRecords
  <2>2. Sessions!UnsavedUntilRunning'
    BY <1>0, <1>16 DEF Sessions!Kill, Sessions!UnsavedUntilRunning, Sessions!CopiesAreOfRecords
  <2>3. Sessions!CopiesAreOfRecords'
    BY <1>0, <1>16 DEF Sessions!Kill, Sessions!UnsavedUntilRunning, Sessions!CopiesAreOfRecords
  <2>4. Sessions!RecordsTellTheTruth'
    BY <1>0, <1>16 DEF Sessions!Kill, Sessions!UnsavedUntilRunning, Sessions!CopiesAreOfRecords, Sessions!RecordsTellTheTruth
  <2> QED
    BY <2>1, <2>2, <2>3, <2>4
<1> QED
  BY <1>1, <1>2, <1>3, <1>4, <1>5, <1>6, <1>7, <1>8, <1>9, <1>10, <1>11, <1>12, <1>13, <1>14, <1>15, <1>16 DEF Sessions!Next, Sessions!AgentStep, Sessions!CommandStep, Sessions!IInv

LEMMA SessionsRests == Sessions!IInv /\ UNCHANGED Sessions!vars => Sessions!IInv'
BY DEF Sessions!vars, Sessions!IInv, Sessions!TypeOK, Sessions!UnsavedUntilRunning, Sessions!CopiesAreOfRecords, Sessions!RecordsTellTheTruth

LEMMA SessionsHolds == Spec => [](part = "sessions" => Sessions!IInv)
<1> DEFINE Kept == part = "sessions" => Sessions!IInv
<1>1. Init => Kept
  BY SessionsStarts DEF Init
<1>2. Kept /\ [Next]_vars => Kept'
  BY SessionsNext, SessionsRests DEF Next, vars, Sessions!vars
<1> QED
  BY <1>1, <1>2, PTL DEF Spec

-----------------------------------------------------------------------------
(* The managed MCP listener.                                               *)

Processes == [kind : Listener!Kinds, pc : Listener!Points, target : Pids \cup {None},
              outcome : Listener!Outcomes, term : BOOLEAN]

StartsListener(p, c) ==
    /\ v1[c].pc = "unborn"
    /\ v1' = [v1 EXCEPT ![p].pc = "record", ![p].target = c, ![c].pc = "check", ![c].kind = "foreground"]

\* What every kind of step leaves of the processes.
LEMMA SpawnedAreProcesses ==
    ASSUME v1 \in [Pids -> Processes], NEW p \in Pids, NEW c \in Pids \ {p}, StartsListener(p, c)
    PROVE  v1' \in [Pids -> Processes]
<1>1. "record" \in Listener!Points /\ "check" \in Listener!Points /\ "foreground" \in Listener!Kinds
  BY DEF Listener!Points, Listener!Kinds
<1>2. \A q \in Pids \ {p, c} : v1'[q] = v1[q]
  BY DEF StartsListener
<1>3. /\ v1'[p] = [v1[p] EXCEPT !.pc = "record", !.target = c]
      /\ v1'[c] = [v1[c] EXCEPT !.pc = "check", !.kind = "foreground"]
  BY DEF StartsListener
<1>4. v1'[p] \in Processes /\ v1'[c] \in Processes
  BY <1>1, <1>3 DEF Processes
<1>5. v1' = [q \in Pids |-> v1'[q]]
  BY DEF StartsListener
<1> QED
  BY <1>2, <1>4, <1>5

LEMMA ExitedAreProcesses ==
    ASSUME v1 \in [Pids -> Processes], NEW p \in Pids, NEW how \in Listener!Outcomes, Listener!Exit(p, how)
    PROVE  v1' \in [Pids -> Processes]
<1>1. "exited" \in Listener!Points
  BY DEF Listener!Points
<1> QED
  BY <1>1 DEF Processes, Listener!Exit

LEMMA SignalledAreProcesses ==
    ASSUME v1 \in [Pids -> Processes], NEW p \in Pids, NEW q \in Pids,
           v1' = [v1 EXCEPT ![p].pc = "wait", ![q].term = TRUE]
    PROVE  v1' \in [Pids -> Processes]
<1> DEFINE one == [v1 EXCEPT ![p].pc = "wait"]
<1>1. "wait" \in Listener!Points
  BY DEF Listener!Points
<1>2. one \in [Pids -> Processes]
  BY <1>1 DEF Processes
<1>3. v1' = [one EXCEPT ![q].term = TRUE]
  OBVIOUS
<1> HIDE DEF one
<1>4. [one[q] EXCEPT !.term = TRUE] \in Processes
  <2>1. one[q] \in Processes
    BY <1>2
  <2> QED
    BY <2>1 DEF Processes
<1> HIDE DEF Processes
<1>5. v1' = [x \in Pids |-> IF x = q THEN [one[q] EXCEPT !.term = TRUE] ELSE one[x]]
  BY <1>2, <1>3
<1> QED
  BY <1>2, <1>4, <1>5

LEMMA ListenerKeepsTypes ==
    ASSUME Listener!TypeOK, Listener!HasTarget, Listener!Next
    PROVE  Listener!TypeOK' /\ Listener!HasTarget'
<1> USE DEF Listener!At, Listener!Go, Listener!Exit, Listener!pidAlive, Listener!Running, Listener!Stopped, Listener!Fail, Listener!Fine, Listener!TypeOK, Listener!HasTarget,
   Listener!Kinds, Listener!Points, Listener!Outcomes
<1>0. None \notin Pids /\ MaxFaults \in Nat
  BY ConstantsAssumption DEF Listener!PidsAssumption
<1>1. ASSUME NEW p \in Pids, NEW k \in Listener!Kinds, Listener!Invoke(p, k)
      PROVE  Listener!TypeOK' /\ Listener!HasTarget'
  <2>1. v1' \in [Pids -> Processes]
    BY <1>0, <1>1 DEF Listener!Invoke, Processes
  <2>2. faults' \in 0 .. MaxFaults
    BY <1>0, <1>1 DEF Listener!Invoke
  <2>3. v2' \in Pids \cup {None} /\ v3' \in BOOLEAN
    BY <1>0, <1>1 DEF Listener!Invoke
  <2>4. Listener!HasTarget'
    BY <1>0, <1>1 DEF Listener!Invoke
  <2> QED
    BY <2>1, <2>2, <2>3, <2>4 DEF Processes
<1>2. ASSUME NEW p \in Pids, Listener!Confirm(p)
      PROVE  Listener!TypeOK' /\ Listener!HasTarget'
  <2>1. v1' \in [Pids -> Processes]
    BY <1>0, <1>2 DEF Listener!Confirm, Processes
  <2>2. faults' \in 0 .. MaxFaults
    BY <1>0, <1>2 DEF Listener!Confirm
  <2>3. v2' \in Pids \cup {None} /\ v3' \in BOOLEAN
    BY <1>0, <1>2 DEF Listener!Confirm
  <2>4. Listener!HasTarget'
    BY <1>0, <1>2 DEF Listener!Confirm
  <2> QED
    BY <2>1, <2>2, <2>3, <2>4 DEF Processes
<1>3. ASSUME NEW p \in Pids, Listener!Check(p)
      PROVE  Listener!TypeOK' /\ Listener!HasTarget'
  <2>1. v1' \in [Pids -> Processes]
    BY <1>0, <1>3 DEF Listener!Check, Processes
  <2>2. faults' \in 0 .. MaxFaults
    BY <1>0, <1>3 DEF Listener!Check
  <2>3. v2' \in Pids \cup {None} /\ v3' \in BOOLEAN
    BY <1>0, <1>3 DEF Listener!Check
  <2>4. Listener!HasTarget'
    BY <1>0, <1>3 DEF Listener!Check
  <2> QED
    BY <2>1, <2>2, <2>3, <2>4 DEF Processes
<1>4. ASSUME NEW p \in Pids, Listener!Write(p)
      PROVE  Listener!TypeOK' /\ Listener!HasTarget'
  <2>1. v1' \in [Pids -> Processes]
    BY <1>0, <1>4 DEF Listener!Write, Processes
  <2>2. faults' \in 0 .. MaxFaults
    BY <1>0, <1>4 DEF Listener!Write
  <2>3. v2' \in Pids \cup {None} /\ v3' \in BOOLEAN
    BY <1>0, <1>4 DEF Listener!Write
  <2>4. Listener!HasTarget'
    BY <1>0, <1>4 DEF Listener!Write
  <2> QED
    BY <2>1, <2>2, <2>3, <2>4 DEF Processes
<1>5. ASSUME NEW p \in Pids, Listener!Bind(p)
      PROVE  Listener!TypeOK' /\ Listener!HasTarget'
  <2>1. v1' \in [Pids -> Processes]
    BY <1>0, <1>5 DEF Listener!Bind, Processes
  <2>2. faults' \in 0 .. MaxFaults
    BY <1>0, <1>5 DEF Listener!Bind
  <2>3. v2' \in Pids \cup {None} /\ v3' \in BOOLEAN
    BY <1>0, <1>5 DEF Listener!Bind
  <2>4. Listener!HasTarget'
    BY <1>0, <1>5 DEF Listener!Bind
  <2> QED
    BY <2>1, <2>2, <2>3, <2>4 DEF Processes
<1>6. ASSUME NEW p \in Pids, Listener!Spawn(p)
      PROVE  Listener!TypeOK' /\ Listener!HasTarget'
  <2>0. \/ Listener!Exit(p, "failed") /\ Listener!Fail
        \/ \E c \in Pids \ {p} : StartsListener(p, c) /\ Listener!Fine
    BY <1>6 DEF Listener!Spawn, StartsListener
  <2>1. CASE Listener!Exit(p, "failed") /\ Listener!Fail
    <3>0. v1 \in [Pids -> Processes]
      BY DEF Processes
    <3>1. v1' \in [Pids -> Processes]
      BY <2>1, <3>0, ExitedAreProcesses
    <3>2. Listener!HasTarget'
      BY <2>1
    <3>3. v2' = v2
      BY <1>6 DEF Listener!Spawn
    <3>4. faults' \in 0 .. MaxFaults
      BY <1>0, <2>1
    <3>5. v3' \in BOOLEAN
      BY <2>1
    <3> QED
      BY <3>1, <3>2, <3>3, <3>4, <3>5 DEF Processes
  <2>2. ASSUME NEW c \in Pids \ {p}, StartsListener(p, c), Listener!Fine
        PROVE  Listener!TypeOK' /\ Listener!HasTarget'
    <3>1. v1' \in [Pids -> Processes]
      BY <2>2, SpawnedAreProcesses DEF Processes
    <3>2. Listener!HasTarget'
      BY <2>2 DEF StartsListener
    <3> QED
      BY <1>0, <1>6, <2>2, <3>1, <3>2 DEF Listener!Spawn, Processes
  <2> QED
    BY <2>0, <2>1, <2>2
<1>7. ASSUME NEW p \in Pids, Listener!Record(p)
      PROVE  Listener!TypeOK' /\ Listener!HasTarget'
  <2>1. v1' \in [Pids -> Processes]
    BY <1>0, <1>7 DEF Listener!Record, Processes
  <2>2. faults' \in 0 .. MaxFaults
    BY <1>0, <1>7 DEF Listener!Record
  <2>3. v2' \in Pids \cup {None} /\ v3' \in BOOLEAN
    BY <1>0, <1>7 DEF Listener!Record
  <2>4. Listener!HasTarget'
    BY <1>0, <1>7 DEF Listener!Record
  <2> QED
    BY <2>1, <2>2, <2>3, <2>4 DEF Processes
<1>8. ASSUME NEW p \in Pids, Listener!Health(p)
      PROVE  Listener!TypeOK' /\ Listener!HasTarget'
  <2>1. v1' \in [Pids -> Processes]
    BY <1>0, <1>8 DEF Listener!Health, Processes
  <2>2. faults' \in 0 .. MaxFaults
    BY <1>0, <1>8 DEF Listener!Health
  <2>3. v2' \in Pids \cup {None} /\ v3' \in BOOLEAN
    BY <1>0, <1>8 DEF Listener!Health
  <2>4. Listener!HasTarget'
    BY <1>0, <1>8 DEF Listener!Health
  <2> QED
    BY <2>1, <2>2, <2>3, <2>4 DEF Processes
<1>9. ASSUME NEW p \in Pids, Listener!Find(p)
      PROVE  Listener!TypeOK' /\ Listener!HasTarget'
  <2>1. v1' \in [Pids -> Processes]
    BY <1>0, <1>9 DEF Listener!Find, Processes
  <2>2. faults' \in 0 .. MaxFaults
    BY <1>0, <1>9 DEF Listener!Find
  <2>3. v2' \in Pids \cup {None} /\ v3' \in BOOLEAN
    BY <1>0, <1>9 DEF Listener!Find
  <2>4. Listener!HasTarget'
    BY <1>0, <1>9 DEF Listener!Find
  <2> QED
    BY <2>1, <2>2, <2>3, <2>4 DEF Processes
<1>10. ASSUME NEW p \in Pids, Listener!Signal(p)
      PROVE  Listener!TypeOK' /\ Listener!HasTarget'
  <2>a. v1[p].target \in Pids /\ v1' = [v1 EXCEPT ![p].pc = "wait", ![v1[p].target].term = TRUE]
    BY <1>10 DEF Listener!Signal
  <2>0. v1 \in [Pids -> Processes]
    BY DEF Processes
  <2>1. v1' \in [Pids -> Processes]
    BY <2>a, <2>0, SignalledAreProcesses
  <2>2. faults' \in 0 .. MaxFaults
    BY <1>0, <1>10 DEF Listener!Signal
  <2>3. v2' \in Pids \cup {None} /\ v3' \in BOOLEAN
    BY <1>0, <1>10 DEF Listener!Signal
  <2>4. Listener!HasTarget'
    BY <1>0, <1>10 DEF Listener!Signal
  <2> QED
    BY <2>1, <2>2, <2>3, <2>4 DEF Processes
<1>11. ASSUME NEW p \in Pids, Listener!Wait(p)
      PROVE  Listener!TypeOK' /\ Listener!HasTarget'
  <2>1. v1' \in [Pids -> Processes]
    BY <1>0, <1>11 DEF Listener!Wait, Processes
  <2>2. faults' \in 0 .. MaxFaults
    BY <1>0, <1>11 DEF Listener!Wait
  <2>3. v2' \in Pids \cup {None} /\ v3' \in BOOLEAN
    BY <1>0, <1>11 DEF Listener!Wait
  <2>4. Listener!HasTarget'
    BY <1>0, <1>11 DEF Listener!Wait
  <2> QED
    BY <2>1, <2>2, <2>3, <2>4 DEF Processes
<1>12. ASSUME NEW p \in Pids, Listener!Terminate(p)
      PROVE  Listener!TypeOK' /\ Listener!HasTarget'
  <2>a. Listener!Exit(p, "none") /\ v1 \in [Pids -> Processes]
    BY <1>12 DEF Listener!Terminate, Processes
  <2>1. v1' \in [Pids -> Processes]
    BY <2>a, ExitedAreProcesses
  <2>2. faults' \in 0 .. MaxFaults
    BY <1>0, <1>12 DEF Listener!Terminate
  <2>3. v2' \in Pids \cup {None} /\ v3' \in BOOLEAN
    BY <1>0, <1>12 DEF Listener!Terminate
  <2>4. Listener!HasTarget'
    BY <1>0, <1>12 DEF Listener!Terminate
  <2> QED
    BY <2>1, <2>2, <2>3, <2>4 DEF Processes
<1>13. ASSUME NEW p \in Pids, Listener!Crash(p)
      PROVE  Listener!TypeOK' /\ Listener!HasTarget'
  <2>a. Listener!Exit(p, "none") /\ v1 \in [Pids -> Processes]
    BY <1>13 DEF Listener!Crash, Processes
  <2>1. v1' \in [Pids -> Processes]
    BY <2>a, ExitedAreProcesses
  <2>2. faults' \in 0 .. MaxFaults
    BY <1>0, <1>13 DEF Listener!Crash
  <2>3. v2' \in Pids \cup {None} /\ v3' \in BOOLEAN
    BY <1>0, <1>13 DEF Listener!Crash
  <2>4. Listener!HasTarget'
    BY <1>0, <1>13 DEF Listener!Crash
  <2> QED
    BY <2>1, <2>2, <2>3, <2>4 DEF Processes
<1> QED
  BY <1>1, <1>2, <1>3, <1>4, <1>5, <1>6, <1>7, <1>8, <1>9, <1>10, <1>11, <1>12, <1>13 DEF Listener!Next, Listener!Step


Orderly == Listener!OneAtWork /\ Listener!KnowsWhoServes /\ Listener!NamesItself
LEMMA ListenerStaysOrderly ==
    ASSUME Listener!TypeOK, Listener!HasTarget, v3, Orderly, Listener!Next, v3'
    PROVE  Orderly'
<1> USE DEF Listener!At, Listener!Go, Listener!Exit, Listener!pidAlive, Listener!Running, Listener!Stopped, Listener!TypeOK,
    Listener!Busy, Listener!Unsignalled, Listener!SpawnedBy, Orderly
<1>0. None \notin Pids
  BY ConstantsAssumption DEF Listener!PidsAssumption
<1>1. ASSUME NEW p \in Pids, NEW k \in Listener!Kinds, Listener!Invoke(p, k)
      PROVE  Orderly'
  <2>1. Listener!OneAtWork'
    BY <1>0, <1>1 DEF Listener!Invoke, Listener!OneAtWork, Listener!HasTarget, Listener!Commands
  <2>2. Listener!KnowsWhoServes'
    BY <1>0, <1>1 DEF Listener!Invoke, Listener!OneAtWork, Listener!KnowsWhoServes, Listener!NamesItself, Listener!HasTarget, Listener!Serving
  <2>3. Listener!NamesItself'
    BY <1>0, <1>1 DEF Listener!Invoke, Listener!OneAtWork, Listener!NamesItself, Listener!HasTarget, Listener!KnowsWhoServes
  <2> QED
    BY <2>1, <2>2, <2>3
<1>2. ASSUME NEW p \in Pids, Listener!Confirm(p)
      PROVE  Orderly'
  <2>1. Listener!OneAtWork'
    BY <1>0, <1>2 DEF Listener!Confirm, Listener!OneAtWork, Listener!HasTarget, Listener!Commands
  <2>2. Listener!KnowsWhoServes'
    BY <1>0, <1>2 DEF Listener!Confirm, Listener!OneAtWork, Listener!KnowsWhoServes, Listener!NamesItself, Listener!HasTarget, Listener!Serving
  <2>3. Listener!NamesItself'
    BY <1>0, <1>2 DEF Listener!Confirm, Listener!OneAtWork, Listener!NamesItself, Listener!HasTarget, Listener!KnowsWhoServes
  <2> QED
    BY <2>1, <2>2, <2>3
<1>3. ASSUME NEW p \in Pids, Listener!Check(p)
      PROVE  Orderly'
  <2>1. Listener!OneAtWork'
    BY <1>0, <1>3 DEF Listener!Check, Listener!OneAtWork, Listener!HasTarget, Listener!Commands
  <2>2. Listener!KnowsWhoServes'
    BY <1>0, <1>3 DEF Listener!Check, Listener!OneAtWork, Listener!KnowsWhoServes, Listener!NamesItself, Listener!HasTarget, Listener!Serving
  <2>3. Listener!NamesItself'
    BY <1>0, <1>3 DEF Listener!Check, Listener!OneAtWork, Listener!NamesItself, Listener!HasTarget, Listener!KnowsWhoServes
  <2> QED
    BY <2>1, <2>2, <2>3
<1>4. ASSUME NEW p \in Pids, Listener!Write(p)
      PROVE  Orderly'
  <2>1. Listener!OneAtWork'
    BY <1>0, <1>4 DEF Listener!Write, Listener!OneAtWork, Listener!HasTarget, Listener!Commands
  <2>2. Listener!KnowsWhoServes'
    BY <1>0, <1>4 DEF Listener!Write, Listener!OneAtWork, Listener!KnowsWhoServes, Listener!NamesItself, Listener!HasTarget, Listener!Serving
  <2>3. Listener!NamesItself'
    BY <1>0, <1>4 DEF Listener!Write, Listener!OneAtWork, Listener!NamesItself, Listener!HasTarget, Listener!KnowsWhoServes
  <2> QED
    BY <2>1, <2>2, <2>3
<1>5. ASSUME NEW p \in Pids, Listener!Bind(p)
      PROVE  Orderly'
  <2>1. Listener!OneAtWork'
    BY <1>0, <1>5 DEF Listener!Bind, Listener!OneAtWork, Listener!HasTarget, Listener!Commands
  <2>2. Listener!KnowsWhoServes'
    BY <1>0, <1>5 DEF Listener!Bind, Listener!OneAtWork, Listener!KnowsWhoServes, Listener!NamesItself, Listener!HasTarget, Listener!Serving
  <2>3. Listener!NamesItself'
    BY <1>0, <1>5 DEF Listener!Bind, Listener!OneAtWork, Listener!NamesItself, Listener!HasTarget, Listener!KnowsWhoServes
  <2> QED
    BY <2>1, <2>2, <2>3
<1>6. ASSUME NEW p \in Pids, Listener!Spawn(p)
      PROVE  Orderly'
  <2>0. \/ Listener!Exit(p, "failed") /\ Listener!Fail
        \/ \E c \in Pids \ {p} : StartsListener(p, c) /\ Listener!Fine
    BY <1>6 DEF Listener!Spawn, StartsListener
  <2>1. CASE Listener!Exit(p, "failed")
    <3>0. v2' = v2 /\ v1[p].pc = "spawn"
      BY <1>6 DEF Listener!Spawn
    <3>1. Listener!OneAtWork'
      BY <2>1, <3>0 DEF Listener!OneAtWork
    <3>2. Listener!KnowsWhoServes'
      BY <2>1, <3>0 DEF Listener!KnowsWhoServes
    <3>3. Listener!NamesItself'
      BY <2>1, <3>0 DEF Listener!NamesItself
    <3> QED
      BY <3>1, <3>2, <3>3
  <2>2. ASSUME NEW c \in Pids \ {p}, StartsListener(p, c)
        PROVE  Orderly'
    <3>b. v2' = v2
      BY <1>6 DEF Listener!Spawn
    <3>0. /\ \A q \in Pids \ {p, c} : v1'[q] = v1[q]
          /\ v1'[p].pc = "record" /\ v1'[p].target = c
          /\ v1'[c].pc = "check" /\ v1'[c].kind = "foreground"
      BY <2>2 DEF StartsListener
    <3>a. v1[p].pc = "spawn" /\ v1[c].pc = "unborn"
      BY <1>6, <2>2 DEF Listener!Spawn, StartsListener
    <3>1. Listener!OneAtWork'
      BY <3>0, <3>a, <3>b DEF Listener!OneAtWork
    <3>2. Listener!KnowsWhoServes'
      BY <3>0, <3>a, <3>b DEF Listener!KnowsWhoServes
    <3>3. Listener!NamesItself'
      BY <3>0, <3>a, <3>b DEF Listener!NamesItself
    <3> QED
      BY <3>1, <3>2, <3>3
  <2> QED
    BY <2>0, <2>1, <2>2
<1>7. ASSUME NEW p \in Pids, Listener!Record(p)
      PROVE  Orderly'
  <2>1. Listener!OneAtWork'
    BY <1>0, <1>7 DEF Listener!Record, Listener!OneAtWork, Listener!HasTarget, Listener!Commands
  <2>2. Listener!KnowsWhoServes'
    BY <1>0, <1>7 DEF Listener!Record, Listener!OneAtWork, Listener!KnowsWhoServes, Listener!NamesItself, Listener!HasTarget, Listener!Serving
  <2>3. Listener!NamesItself'
    BY <1>0, <1>7 DEF Listener!Record, Listener!OneAtWork, Listener!NamesItself, Listener!HasTarget, Listener!KnowsWhoServes
  <2> QED
    BY <2>1, <2>2, <2>3
<1>8. ASSUME NEW p \in Pids, Listener!Health(p)
      PROVE  Orderly'
  <2>1. Listener!OneAtWork'
    BY <1>0, <1>8 DEF Listener!Health, Listener!OneAtWork, Listener!HasTarget, Listener!Commands
  <2>2. Listener!KnowsWhoServes'
    BY <1>0, <1>8 DEF Listener!Health, Listener!OneAtWork, Listener!KnowsWhoServes, Listener!NamesItself, Listener!HasTarget, Listener!Serving
  <2>3. Listener!NamesItself'
    BY <1>0, <1>8 DEF Listener!Health, Listener!OneAtWork, Listener!NamesItself, Listener!HasTarget, Listener!KnowsWhoServes
  <2> QED
    BY <2>1, <2>2, <2>3
<1>9. ASSUME NEW p \in Pids, Listener!Find(p)
      PROVE  Orderly'
  <2>1. Listener!OneAtWork'
    BY <1>0, <1>9 DEF Listener!Find, Listener!OneAtWork, Listener!HasTarget, Listener!Commands
  <2>2. Listener!KnowsWhoServes'
    BY <1>0, <1>9 DEF Listener!Find, Listener!OneAtWork, Listener!KnowsWhoServes, Listener!NamesItself, Listener!HasTarget, Listener!Serving
  <2>3. Listener!NamesItself'
    BY <1>0, <1>9 DEF Listener!Find, Listener!OneAtWork, Listener!NamesItself, Listener!HasTarget, Listener!KnowsWhoServes
  <2> QED
    BY <2>1, <2>2, <2>3
<1>10. ASSUME NEW p \in Pids, Listener!Signal(p)
      PROVE  Orderly'
  <2>1. Listener!OneAtWork'
    BY <1>0, <1>10 DEF Listener!Signal, Listener!OneAtWork, Listener!HasTarget, Listener!Commands
  <2>2. Listener!KnowsWhoServes'
    BY <1>0, <1>10 DEF Listener!Signal, Listener!OneAtWork, Listener!KnowsWhoServes, Listener!NamesItself, Listener!HasTarget, Listener!Serving
  <2>3. Listener!NamesItself'
    BY <1>0, <1>10 DEF Listener!Signal, Listener!OneAtWork, Listener!NamesItself, Listener!HasTarget, Listener!KnowsWhoServes
  <2> QED
    BY <2>1, <2>2, <2>3
<1>11. ASSUME NEW p \in Pids, Listener!Wait(p)
      PROVE  Orderly'
  <2>1. Listener!OneAtWork'
    BY <1>0, <1>11 DEF Listener!Wait, Listener!OneAtWork, Listener!HasTarget, Listener!Commands
  <2>2. Listener!KnowsWhoServes'
    BY <1>0, <1>11 DEF Listener!Wait, Listener!OneAtWork, Listener!KnowsWhoServes, Listener!NamesItself, Listener!HasTarget, Listener!Serving
  <2>3. Listener!NamesItself'
    BY <1>0, <1>11 DEF Listener!Wait, Listener!OneAtWork, Listener!NamesItself, Listener!HasTarget, Listener!KnowsWhoServes
  <2> QED
    BY <2>1, <2>2, <2>3
<1>12. ASSUME NEW p \in Pids, Listener!Terminate(p)
      PROVE  Orderly'
  <2>1. Listener!OneAtWork'
    BY <1>0, <1>12 DEF Listener!Terminate, Listener!OneAtWork, Listener!HasTarget, Listener!Commands
  <2>2. Listener!KnowsWhoServes'
    BY <1>0, <1>12 DEF Listener!Terminate, Listener!OneAtWork, Listener!KnowsWhoServes, Listener!NamesItself, Listener!HasTarget, Listener!Serving
  <2>3. Listener!NamesItself'
    BY <1>0, <1>12 DEF Listener!Terminate, Listener!OneAtWork, Listener!NamesItself, Listener!HasTarget, Listener!KnowsWhoServes
  <2> QED
    BY <2>1, <2>2, <2>3
<1>13. ASSUME NEW p \in Pids, Listener!Crash(p)
      PROVE  Orderly'
  <2>1. Listener!OneAtWork'
    BY <1>0, <1>13 DEF Listener!Crash, Listener!OneAtWork, Listener!HasTarget, Listener!Commands
  <2>2. Listener!KnowsWhoServes'
    BY <1>0, <1>13 DEF Listener!Crash, Listener!OneAtWork, Listener!KnowsWhoServes, Listener!NamesItself, Listener!HasTarget, Listener!Serving
  <2>3. Listener!NamesItself'
    BY <1>0, <1>13 DEF Listener!Crash, Listener!OneAtWork, Listener!NamesItself, Listener!HasTarget, Listener!KnowsWhoServes
  <2> QED
    BY <2>1, <2>2, <2>3
<1> QED
  BY <1>1, <1>2, <1>3, <1>4, <1>5, <1>6, <1>7, <1>8, <1>9, <1>10, <1>11, <1>12, <1>13 DEF Listener!Next, Listener!Step

\* The history of overlaps is never taken back.
LEMMA OverlapStays == Listener!TypeOK /\ Listener!Next /\ v3' => v3
BY DEF Listener!TypeOK, Listener!Next, Listener!Step, Listener!Invoke, Listener!Confirm, Listener!Check,
   Listener!Write, Listener!Bind, Listener!Spawn, Listener!Record, Listener!Health, Listener!Find,
   Listener!Signal, Listener!Wait, Listener!Terminate, Listener!Crash, Listener!Fail, Listener!Fine

LEMMA ListenerNext == Listener!IInv /\ Listener!Next => Listener!IInv'
<1> SUFFICES ASSUME Listener!IInv, Listener!Next PROVE Listener!IInv'
  OBVIOUS
<1>1. Listener!TypeOK' /\ Listener!HasTarget'
  BY ListenerKeepsTypes DEF Listener!IInv
<1>2. ASSUME v3' PROVE Orderly'
  BY <1>2, OverlapStays, ListenerStaysOrderly DEF Listener!IInv, Orderly
<1> QED
  BY <1>1, <1>2 DEF Listener!IInv, Orderly

LEMMA ListenerStarts == ASSUME Listener!Init PROVE Listener!IInv
<1> USE DEF Listener!Init, Listener!Unborn
<1>1. Listener!TypeOK
  BY ConstantsAssumption DEF Listener!TypeOK, Listener!Kinds, Listener!Points, Listener!Outcomes, Listener!PidsAssumption
<1>2. Listener!HasTarget /\ Listener!OneAtWork /\ Listener!KnowsWhoServes /\ Listener!NamesItself
  BY DEF Listener!HasTarget, Listener!OneAtWork, Listener!KnowsWhoServes, Listener!NamesItself,
     Listener!Busy, Listener!Unsignalled
<1> QED
  BY <1>1, <1>2 DEF Listener!IInv

LEMMA ListenerRests == Listener!IInv /\ UNCHANGED Listener!vars => Listener!IInv'
BY DEF Listener!vars, Listener!IInv, Listener!TypeOK, Listener!HasTarget, Listener!OneAtWork,
   Listener!KnowsWhoServes, Listener!NamesItself, Listener!Busy, Listener!Unsignalled, Listener!SpawnedBy

LEMMA ListenerHolds == Spec => [](part = "listener" => Listener!IInv)
<1> DEFINE Kept == part = "listener" => Listener!IInv
<1>1. Init => Kept
  BY ListenerStarts DEF Init
<1>2. Kept /\ [Next]_vars => Kept'
  BY ListenerNext, ListenerRests DEF Next, vars, Listener!vars
<1> QED
  BY <1>1, <1>2, PTL DEF Spec

\* As long as no two commands were at work at once, what serves, lives or runs is
\* on record, for any number of processes, commands, sessions and failures
\* (internal/mcp/lifecycle.go, internal/vcore/vcore.go, internal/agent).
THEOREM ProcessesAreAlwaysRecorded == Spec => []ProcessesAreRecorded
<1>1. (part = "listener" => Listener!IInv) => (part = "listener" => Listener!ServingIsRecorded)
  BY DEF Listener!IInv, Listener!KnowsWhoServes, Listener!Unsignalled, Listener!ServingIsRecorded, Listener!Serving
<1>2. (part = "vcore" => Vcore!IInv) => (part = "vcore" => Vcore!DaemonIsRecorded)
  BY DEF Vcore!IInv
<1>3. (part = "sessions" => Sessions!IInv) => (part = "sessions" => Sessions!RecordsTellTheTruth)
  BY DEF Sessions!IInv
<1>4. /\ part = "listener" => Listener!ServingIsRecorded
      /\ part = "vcore" => Vcore!DaemonIsRecorded
      /\ part = "sessions" => Sessions!RecordsTellTheTruth
      => ProcessesAreRecorded
  BY DEF ProcessesAreRecorded
<1> QED
  BY <1>1, <1>2, <1>3, <1>4, ListenerHolds, VcoreHolds, SessionsHolds, PTL

-----------------------------------------------------------------------------
(* The end of a task.                                                      *)

DoneRuns == [pc : {"idle", "tar", "remove", "worktree", "issue", "note"}, month : Months \cup {None},
             tree : BOOLEAN, close : BOOLEAN]
DoneRunOK == v7 \in DoneRuns
DoneTimeOK ==
    v3 \in {"none", "clean", "dirty"} /\ v4 \in {"open", "closed"} /\ v5 \in SUBSET Months /\ v6 \in Months
DoneDiskOK ==
    /\ v1 \in (SUBSET Files) \cup {None} /\ v2 \in [Months -> (SUBSET Files) \cup {None}]
    /\ v8 \subseteq Files /\ faults \in 0 .. MaxFaults /\ v9 \in BOOLEAN
FilesKept == v9 => \A f \in v8 : \/ v1 # None /\ f \in v1
                                 \/ \E m \in Months : v2[m] # None /\ f \in v2[m]

LEMMA DoneStarts == ASSUME Done!Init PROVE Done!IInv
BY ConstantsAssumption DEF Done!Init, Done!IInv, Done!TypeOK, Done!ArchivedFirst, Done!FilesAreSomewhere, Done!BoundsAssumption, Done!Idle

LEMMA FilesKeptIs == FilesKept <=> Done!FilesAreSomewhere
BY DEF FilesKept, Done!FilesAreSomewhere

LEMMA DoneNext ==
    ASSUME Done!IInv, Done!Next
    PROVE  Done!IInv'
<1> USE DEF Done!disk, Done!Go
<1> DEFINE Goal == DoneRunOK' /\ DoneTimeOK' /\ DoneDiskOK' /\ Done!ArchivedFirst' /\ FilesKept'
<1>0. /\ DoneRunOK /\ DoneTimeOK /\ DoneDiskOK /\ Done!ArchivedFirst /\ FilesKept
      /\ MaxFaults \in Nat /\ \A files \in SUBSET Files : files # None
  BY ConstantsAssumption, FilesKeptIs DEF Done!BoundsAssumption, Done!IInv, Done!TypeOK, DoneRunOK, DoneRuns, DoneTimeOK, DoneDiskOK
<1>1. ASSUME NEW close \in BOOLEAN, Done!Done(close)
      PROVE  Goal
  <2>1. DoneRunOK'
    <3>1. v7' = [pc |-> "tar", month |-> v6, tree |-> (v3 # "none"), close |-> close]
      BY <1>1 DEF Done!Done, Done!Idle
    <3>2. v6 \in Months /\ (v3 # "none") \in BOOLEAN
      BY <1>0 DEF DoneTimeOK
    <3> QED
      BY <3>1, <3>2 DEF DoneRunOK, DoneRuns
  <2>2. DoneTimeOK'
    BY <1>0, <1>1 DEF Done!Done, DoneTimeOK, DoneRunOK, DoneRuns, Done!ArchivedFirst
  <2>3. DoneDiskOK'
    BY <1>0, <1>1 DEF Done!Done, DoneDiskOK, Done!ArchivedFirst, Done!Fine, Done!Fail, Done!Archived
  <2>4. Done!ArchivedFirst'
    BY <1>0, <1>1 DEF Done!Done, Done!ArchivedFirst, DoneDiskOK, DoneTimeOK, DoneRunOK, DoneRuns, Done!Idle, Done!Fine, Done!Fail, Done!Archived
  <2>5. FilesKept'
    BY <1>0, <1>1 DEF Done!Done, Done!ArchivedFirst, FilesKept, DoneDiskOK, Done!Fine, Done!Fail, Done!Archived
  <2> QED
    BY <2>1, <2>2, <2>3, <2>4, <2>5
<1>2. ASSUME Done!TarGzDir
      PROVE  Goal
  <2>1. DoneRunOK'
    <3>1. v7' = [v7 EXCEPT !.pc = "remove"] \/ v7' = Done!Idle
      BY <1>2 DEF Done!TarGzDir
    <3>2. v7 \in DoneRuns
      BY <1>0 DEF DoneRunOK
    <3>3. Done!Idle \in DoneRuns
      BY DEF Done!Idle, DoneRuns
    <3> QED
      BY <3>1, <3>2, <3>3 DEF DoneRunOK, DoneRuns
  <2>2. DoneTimeOK'
    BY <1>0, <1>2 DEF Done!TarGzDir, DoneTimeOK, DoneRunOK, DoneRuns, Done!ArchivedFirst
  <2>3. DoneDiskOK'
    <3>1. v7.month \in Months /\ v1 \in (SUBSET Files) \cup {None}
      BY <1>0, <1>2 DEF Done!TarGzDir, Done!ArchivedFirst, DoneDiskOK
    <3>2. v2' \in [Months -> (SUBSET Files) \cup {None}]
      BY <1>0, <1>2, <3>1 DEF Done!TarGzDir, Done!Archived, DoneDiskOK
    <3>3. v9' \in BOOLEAN
      BY <1>0, <1>2 DEF Done!TarGzDir, Done!Archived, DoneDiskOK, Done!Fail
    <3>4. faults' \in 0 .. MaxFaults
      BY <1>0, <1>2 DEF Done!TarGzDir, DoneDiskOK, Done!Fail
    <3> QED
      BY <1>0, <1>2, <3>2, <3>3, <3>4 DEF Done!TarGzDir, DoneDiskOK
  <2>4. Done!ArchivedFirst'
    BY <1>0, <1>2 DEF Done!TarGzDir, Done!ArchivedFirst, DoneDiskOK, DoneTimeOK, DoneRunOK, DoneRuns, Done!Idle, Done!Fine, Done!Fail, Done!Archived
  <2>5. FilesKept'
    BY <1>0, <1>2 DEF Done!TarGzDir, Done!ArchivedFirst, FilesKept, DoneDiskOK, Done!Fine, Done!Fail, Done!Archived
  <2> QED
    BY <2>1, <2>2, <2>3, <2>4, <2>5
<1>3. ASSUME Done!RemoveArtefacts
      PROVE  Goal
  <2>1. DoneRunOK'
    <3>1. v7' = [v7 EXCEPT !.pc = "worktree"] \/ v7' = Done!Idle
      BY <1>3 DEF Done!RemoveArtefacts
    <3>2. v7 \in DoneRuns
      BY <1>0 DEF DoneRunOK
    <3>3. Done!Idle \in DoneRuns
      BY DEF Done!Idle, DoneRuns
    <3> QED
      BY <3>1, <3>2, <3>3 DEF DoneRunOK, DoneRuns
  <2>2. DoneTimeOK'
    BY <1>0, <1>3 DEF Done!RemoveArtefacts, DoneTimeOK, DoneRunOK, DoneRuns, Done!ArchivedFirst
  <2>3. DoneDiskOK'
    <3>0. v7.pc = "remove" /\ (v1' = None \/ v1' \in SUBSET v1)
      BY <1>3 DEF Done!RemoveArtefacts
    <3>1. v1 # None
      BY <1>0, <3>0 DEF Done!ArchivedFirst
    <3>a. v1 \in SUBSET Files
      BY <1>0, <3>1 DEF DoneDiskOK
    <3>2. v1' \in (SUBSET Files) \cup {None}
      BY <3>0, <3>a
    <3>3. v9' \in BOOLEAN /\ faults' \in 0 .. MaxFaults
      BY <1>0, <1>3 DEF Done!RemoveArtefacts, DoneDiskOK, Done!Fail, Done!Fine
    <3> QED
      BY <1>0, <1>3, <3>2, <3>3 DEF Done!RemoveArtefacts, DoneDiskOK
  <2>4. Done!ArchivedFirst'
    BY <1>0, <1>3 DEF Done!RemoveArtefacts, Done!ArchivedFirst, DoneDiskOK, DoneTimeOK, DoneRunOK, DoneRuns, Done!Idle, Done!Fine, Done!Fail, Done!Archived
  <2>5. FilesKept'
    BY <1>0, <1>3 DEF Done!RemoveArtefacts, Done!ArchivedFirst, FilesKept, DoneDiskOK, Done!Fine, Done!Fail, Done!Archived
  <2> QED
    BY <2>1, <2>2, <2>3, <2>4, <2>5
<1>4. ASSUME Done!RemoveWorktree
      PROVE  Goal
  <2>1. DoneRunOK'
    BY <1>0, <1>4 DEF Done!RemoveWorktree, DoneRunOK, DoneRuns, Done!Idle
  <2>2. DoneTimeOK'
    BY <1>0, <1>4 DEF Done!RemoveWorktree, DoneTimeOK, DoneRunOK, DoneRuns, Done!ArchivedFirst
  <2>3. DoneDiskOK'
    BY <1>0, <1>4 DEF Done!RemoveWorktree, DoneDiskOK, Done!ArchivedFirst, Done!Fine, Done!Fail, Done!Archived
  <2>4. Done!ArchivedFirst'
    BY <1>0, <1>4 DEF Done!RemoveWorktree, Done!ArchivedFirst, DoneDiskOK, DoneTimeOK, DoneRunOK, DoneRuns, Done!Idle, Done!Fine, Done!Fail, Done!Archived
  <2>5. FilesKept'
    BY <1>0, <1>4 DEF Done!RemoveWorktree, Done!ArchivedFirst, FilesKept, DoneDiskOK, Done!Fine, Done!Fail, Done!Archived
  <2> QED
    BY <2>1, <2>2, <2>3, <2>4, <2>5
<1>5. ASSUME Done!CloseIssue
      PROVE  Goal
  <2>1. DoneRunOK'
    BY <1>0, <1>5 DEF Done!CloseIssue, DoneRunOK, DoneRuns, Done!Idle
  <2>2. DoneTimeOK'
    BY <1>0, <1>5 DEF Done!CloseIssue, DoneTimeOK, DoneRunOK, DoneRuns, Done!ArchivedFirst
  <2>3. DoneDiskOK'
    BY <1>0, <1>5 DEF Done!CloseIssue, DoneDiskOK, Done!ArchivedFirst, Done!Fine, Done!Fail, Done!Archived
  <2>4. Done!ArchivedFirst'
    BY <1>0, <1>5 DEF Done!CloseIssue, Done!ArchivedFirst, DoneDiskOK, DoneTimeOK, DoneRunOK, DoneRuns, Done!Idle, Done!Fine, Done!Fail, Done!Archived
  <2>5. FilesKept'
    BY <1>0, <1>5 DEF Done!CloseIssue, Done!ArchivedFirst, FilesKept, DoneDiskOK, Done!Fine, Done!Fail, Done!Archived
  <2> QED
    BY <2>1, <2>2, <2>3, <2>4, <2>5
<1>6. ASSUME Done!Note
      PROVE  Goal
  <2>1. DoneRunOK'
    BY <1>0, <1>6 DEF Done!Note, DoneRunOK, DoneRuns, Done!Idle
  <2>2. DoneTimeOK'
    BY <1>0, <1>6 DEF Done!Note, DoneTimeOK, DoneRunOK, DoneRuns, Done!ArchivedFirst
  <2>3. DoneDiskOK'
    BY <1>0, <1>6 DEF Done!Note, DoneDiskOK, Done!ArchivedFirst, Done!Fine, Done!Fail, Done!Archived
  <2>4. Done!ArchivedFirst'
    BY <1>0, <1>6 DEF Done!Note, Done!ArchivedFirst, DoneDiskOK, DoneTimeOK, DoneRunOK, DoneRuns, Done!Idle, Done!Fine, Done!Fail, Done!Archived
  <2>5. FilesKept'
    BY <1>0, <1>6 DEF Done!Note, Done!ArchivedFirst, FilesKept, DoneDiskOK, Done!Fine, Done!Fail, Done!Archived
  <2> QED
    BY <2>1, <2>2, <2>3, <2>4, <2>5
<1>7. ASSUME Done!Killed
      PROVE  Goal
  <2>1. DoneRunOK'
    BY <1>0, <1>7 DEF Done!Killed, DoneRunOK, DoneRuns, Done!Idle
  <2>2. DoneTimeOK'
    BY <1>0, <1>7 DEF Done!Killed, DoneTimeOK, DoneRunOK, DoneRuns, Done!ArchivedFirst
  <2>3. DoneDiskOK'
    BY <1>0, <1>7 DEF Done!Killed, DoneDiskOK, Done!ArchivedFirst, Done!Fine, Done!Fail, Done!Archived
  <2>4. Done!ArchivedFirst'
    BY <1>0, <1>7 DEF Done!Killed, Done!ArchivedFirst, DoneDiskOK, DoneTimeOK, DoneRunOK, DoneRuns, Done!Idle, Done!Fine, Done!Fail, Done!Archived
  <2>5. FilesKept'
    BY <1>0, <1>7 DEF Done!Killed, Done!ArchivedFirst, FilesKept, DoneDiskOK, Done!Fine, Done!Fail, Done!Archived
  <2> QED
    BY <2>1, <2>2, <2>3, <2>4, <2>5
<1>8. ASSUME NEW f \in Files, Done!WriteFile(f)
      PROVE  Goal
  <2>1. DoneRunOK'
    BY <1>0, <1>8 DEF Done!WriteFile, DoneRunOK, DoneRuns, Done!Idle
  <2>2. DoneTimeOK'
    BY <1>0, <1>8 DEF Done!WriteFile, DoneTimeOK, DoneRunOK, DoneRuns, Done!ArchivedFirst
  <2>3. DoneDiskOK'
    BY <1>0, <1>8 DEF Done!WriteFile, DoneDiskOK, Done!ArchivedFirst, Done!Fine, Done!Fail, Done!Archived
  <2>0. /\ v7' = v7 /\ v2' = v2 /\ v8' = v8 \cup {f}
        /\ v9' => v9 /\ v7.pc = "idle"
    BY <1>0, <1>8 DEF Done!WriteFile, DoneDiskOK
  <2>a. v1' = (IF v1 = None THEN {f} ELSE v1 \cup {f})
    BY <1>8 DEF Done!WriteFile
  <2>b. v1' # None
    <3>1. v1 # None => v1 \in SUBSET Files
      BY <1>0 DEF DoneDiskOK
    <3>2. v1' \in SUBSET Files
      BY <2>a, <3>1
    <3> QED
      BY <1>0, <3>2
  <2>4. Done!ArchivedFirst'
    BY <1>0, <2>0, <2>b DEF Done!ArchivedFirst
  <2>5. FilesKept'
    BY <1>0, <2>0, <2>a, <2>b DEF FilesKept
  <2> QED
    BY <2>1, <2>2, <2>3, <2>4, <2>5
<1>9. ASSUME NEW w \in {"clean", "dirty"}, Done!Worktree(w)
      PROVE  Goal
  <2>1. DoneRunOK'
    BY <1>0, <1>9 DEF Done!Worktree, DoneRunOK, DoneRuns, Done!Idle
  <2>2. DoneTimeOK'
    BY <1>0, <1>9 DEF Done!Worktree, DoneTimeOK, DoneRunOK, DoneRuns, Done!ArchivedFirst
  <2>3. DoneDiskOK'
    BY <1>0, <1>9 DEF Done!Worktree, DoneDiskOK, Done!ArchivedFirst, Done!Fine, Done!Fail, Done!Archived
  <2>4. Done!ArchivedFirst'
    BY <1>0, <1>9 DEF Done!Worktree, Done!ArchivedFirst, DoneDiskOK, DoneTimeOK, DoneRunOK, DoneRuns, Done!Idle, Done!Fine, Done!Fail, Done!Archived
  <2>5. FilesKept'
    BY <1>0, <1>9 DEF Done!Worktree, Done!ArchivedFirst, FilesKept, DoneDiskOK, Done!Fine, Done!Fail, Done!Archived
  <2> QED
    BY <2>1, <2>2, <2>3, <2>4, <2>5
<1>10. ASSUME Done!NextMonth
      PROVE  Goal
  <2>1. DoneRunOK'
    BY <1>0, <1>10 DEF Done!NextMonth, DoneRunOK, DoneRuns, Done!Idle
  <2>2. DoneTimeOK'
    BY <1>0, <1>10 DEF Done!NextMonth, DoneTimeOK, DoneRunOK, DoneRuns, Done!ArchivedFirst
  <2>3. DoneDiskOK'
    BY <1>0, <1>10 DEF Done!NextMonth, DoneDiskOK, Done!ArchivedFirst, Done!Fine, Done!Fail, Done!Archived
  <2>4. Done!ArchivedFirst'
    BY <1>0, <1>10 DEF Done!NextMonth, Done!ArchivedFirst, DoneDiskOK, DoneTimeOK, DoneRunOK, DoneRuns, Done!Idle, Done!Fine, Done!Fail, Done!Archived
  <2>5. FilesKept'
    BY <1>0, <1>10 DEF Done!NextMonth, Done!ArchivedFirst, FilesKept, DoneDiskOK, Done!Fine, Done!Fail, Done!Archived
  <2> QED
    BY <2>1, <2>2, <2>3, <2>4, <2>5
<1>11. Goal
  BY <1>1, <1>2, <1>3, <1>4, <1>5, <1>6, <1>7, <1>8, <1>9, <1>10 DEF Done!Next
<1> QED
  BY <1>11, FilesKeptIs DEF Done!IInv, Done!TypeOK, DoneRunOK, DoneRuns, DoneTimeOK, DoneDiskOK, FilesKept, Done!FilesAreSomewhere

LEMMA DoneRests == Done!IInv /\ UNCHANGED Done!vars => Done!IInv'
BY DEF Done!vars, Done!IInv, Done!TypeOK, Done!ArchivedFirst, Done!FilesAreSomewhere

LEMMA DoneHolds == Spec => [](part = "done" => Done!IInv)
<1> DEFINE Kept == part = "done" => Done!IInv
<1>1. Init => Kept
  BY DoneStarts DEF Init
<1>2. Kept /\ [Next]_vars => Kept'
  BY DoneNext, DoneRests DEF Next, vars, Done!vars
<1> QED
  BY <1>1, <1>2, PTL DEF Spec

-----------------------------------------------------------------------------
(* The file store of agent memory.                                         *)

MemoryPutters == [pc : {"idle", "open", "write", "rename", "read"}, k : Keys \cup {None},
                  v : Values \cup {None}, inode : Inodes \cup {None}]
MemoryAgents == v4 \in [Agents -> MemoryPutters]
MemoryTypes ==
    /\ v1 \in [Keys -> Inodes \cup {None}] /\ v2 \in [Keys -> Inodes \cup {None}]
    /\ v3 \in [Inodes -> Values \cup {"empty", "torn"}]
    /\ v5 \in [k : Keys \cup {None}, v : Values \cup {"empty", "torn"} \cup {None}]
    /\ v6 \in [Keys -> Values \cup {None}] /\ v7 \subseteq Keys /\ faults \in 0 .. MaxFaults

LEMMA MemoryStarts == ASSUME Memory!Init PROVE Memory!IInv
BY ConstantsAssumption DEF Memory!Init, Memory!IInv, Memory!TypeOK, Memory!Knows, Memory!OneName, Memory!OneWriter, Memory!WritesTmp, Memory!ValuesSurvive, Memory!BoundsAssumption, Memory!Idle, Memory!Contents, Memory!Putting, Memory!Opened, Memory!At, Memory!List

LEMMA MemoryNext ==
    ASSUME Memory!IInv, Memory!Next
    PROVE  Memory!IInv'
<1> USE DEF Memory!At, Memory!Go, Memory!End, Memory!Fine, Memory!Fail, Memory!Forget, Memory!Idle, Memory!Putting, Memory!Opened, Memory!names
<1> DEFINE Goal == MemoryAgents' /\ MemoryTypes' /\ Memory!Knows' /\ Memory!OneName' /\ Memory!OneWriter' /\ Memory!WritesTmp' /\ Memory!ValuesSurvive'
<1>0. /\ MemoryAgents /\ MemoryTypes /\ Memory!Knows /\ Memory!OneName /\ Memory!OneWriter /\ Memory!WritesTmp /\ Memory!ValuesSurvive
      /\ MaxFaults \in Nat /\ None \notin Keys \cup Values \cup Inodes
  BY ConstantsAssumption DEF Memory!BoundsAssumption, Memory!IInv, Memory!TypeOK, MemoryAgents, MemoryPutters, MemoryTypes, Memory!Contents
<1>1. ASSUME NEW a \in Agents, NEW k \in Keys, NEW v \in Values, Memory!Put(a, k, v)
      PROVE  Goal
  <2>1. MemoryAgents'
    BY <1>0, <1>1 DEF Memory!Put, MemoryAgents, MemoryPutters, MemoryTypes
  <2>2. MemoryTypes'
    BY <1>0, <1>1 DEF Memory!Put, MemoryTypes, MemoryAgents, Memory!Knows, MemoryPutters, Memory!Free
  <2>3. Memory!Knows'
    BY <1>0, <1>1 DEF Memory!Put, MemoryTypes, MemoryAgents, Memory!Knows, MemoryPutters
  <2>4. Memory!OneName'
    BY <1>0, <1>1 DEF Memory!Put, MemoryTypes, MemoryAgents, Memory!Knows, MemoryPutters, Memory!OneName, Memory!Free, Memory!names
  <2>5. Memory!OneWriter'
    BY <1>0, <1>1 DEF Memory!Put, MemoryTypes, MemoryAgents, Memory!Knows, MemoryPutters, Memory!OneName, Memory!OneWriter, Memory!Free, Memory!names
  <2>6. Memory!WritesTmp'
    BY <1>0, <1>1 DEF Memory!Put, MemoryTypes, MemoryAgents, Memory!Knows, MemoryPutters, Memory!OneName, Memory!OneWriter, Memory!WritesTmp, Memory!Free, Memory!names
  <2>7. Memory!ValuesSurvive'
    BY <1>0, <1>1 DEF Memory!Put, MemoryTypes, MemoryAgents, Memory!Knows, MemoryPutters, Memory!OneName, Memory!OneWriter, Memory!WritesTmp, Memory!ValuesSurvive, Memory!List, Memory!Free, Memory!names
  <2> QED
    BY <2>1, <2>2, <2>3, <2>4, <2>5, <2>6, <2>7
<1>2. ASSUME NEW a \in Agents, Memory!OpenTmp(a)
      PROVE  Goal
  <2>1. MemoryAgents'
    BY <1>0, <1>2 DEF Memory!OpenTmp, MemoryAgents, MemoryPutters, MemoryTypes
  <2>2. MemoryTypes'
    BY <1>0, <1>2 DEF Memory!OpenTmp, MemoryTypes, MemoryAgents, Memory!Knows, MemoryPutters, Memory!Free
  <2>3. Memory!Knows'
    <3>1. CASE v4' = [v4 EXCEPT ![a] = Memory!Idle]
      BY <1>0, <3>1 DEF MemoryAgents, MemoryPutters, Memory!Knows
    <3>2. ASSUME NEW i \in Inodes, v4' = [v4 EXCEPT ![a].pc = "write", ![a].inode = i]
          PROVE  Memory!Knows'
      <4>1. v4[a].pc = "open" /\ v4[a].k \in Keys /\ v4[a].v \in Values
        BY <1>0, <1>2 DEF Memory!OpenTmp, Memory!Knows
      <4>2. \A b \in Agents \ {a} : v4'[b] = v4[b]
        BY <1>0, <3>2 DEF MemoryAgents
      <4>3. v4'[a].pc = "write" /\ v4'[a].k = v4[a].k /\ v4'[a].v = v4[a].v /\ v4'[a].inode = i
        BY <1>0, <3>2 DEF MemoryAgents, MemoryPutters
      <4> QED
        BY <1>0, <4>1, <4>2, <4>3 DEF Memory!Knows
    <3>3. v4[a].k \in Keys
      BY <1>0, <1>2 DEF Memory!OpenTmp, Memory!Knows
    <3> QED
      BY <1>0, <1>2, <3>1, <3>2, <3>3 DEF Memory!OpenTmp, MemoryTypes, Memory!Free
  <2>4. Memory!OneName'
    BY <1>0, <1>2 DEF Memory!OpenTmp, MemoryTypes, MemoryAgents, Memory!Knows, MemoryPutters, Memory!OneName, Memory!Free, Memory!names
  <2>5. Memory!OneWriter'
    BY <1>0, <1>2 DEF Memory!OpenTmp, MemoryTypes, MemoryAgents, Memory!Knows, MemoryPutters, Memory!OneName, Memory!OneWriter, Memory!Free, Memory!names
  <2>6. Memory!WritesTmp'
    BY <1>0, <1>2, SMTT(30) DEF Memory!OpenTmp, MemoryTypes, MemoryAgents, Memory!Knows, MemoryPutters, Memory!OneName, Memory!OneWriter, Memory!WritesTmp, Memory!Free, Memory!names
  <2>7. Memory!ValuesSurvive'
    BY <1>0, <1>2 DEF Memory!OpenTmp, MemoryTypes, MemoryAgents, Memory!Knows, MemoryPutters, Memory!OneName, Memory!OneWriter, Memory!WritesTmp, Memory!ValuesSurvive, Memory!List, Memory!Free, Memory!names
  <2> QED
    BY <2>1, <2>2, <2>3, <2>4, <2>5, <2>6, <2>7
<1>3. ASSUME NEW a \in Agents, Memory!Write(a)
      PROVE  Goal
  <2>1. MemoryAgents'
    BY <1>0, <1>3 DEF Memory!Write, MemoryAgents, MemoryPutters, MemoryTypes
  <2>2. MemoryTypes'
    BY <1>0, <1>3 DEF Memory!Write, MemoryTypes, MemoryAgents, Memory!Knows, MemoryPutters, Memory!Free
  <2>3. Memory!Knows'
    BY <1>0, <1>3 DEF Memory!Write, MemoryTypes, MemoryAgents, Memory!Knows, MemoryPutters
  <2>4. Memory!OneName'
    BY <1>0, <1>3 DEF Memory!Write, MemoryTypes, MemoryAgents, Memory!Knows, MemoryPutters, Memory!OneName, Memory!Free, Memory!names
  <2>5. Memory!OneWriter'
    BY <1>0, <1>3 DEF Memory!Write, MemoryTypes, MemoryAgents, Memory!Knows, MemoryPutters, Memory!OneName, Memory!OneWriter, Memory!Free, Memory!names
  <2>6. Memory!WritesTmp'
    BY <1>0, <1>3 DEF Memory!Write, MemoryTypes, MemoryAgents, Memory!Knows, MemoryPutters, Memory!OneName, Memory!OneWriter, Memory!WritesTmp, Memory!Free, Memory!names
  <2>7. Memory!ValuesSurvive'
    BY <1>0, <1>3 DEF Memory!Write, MemoryTypes, MemoryAgents, Memory!Knows, MemoryPutters, Memory!OneName, Memory!OneWriter, Memory!WritesTmp, Memory!ValuesSurvive, Memory!List, Memory!Free, Memory!names
  <2> QED
    BY <2>1, <2>2, <2>3, <2>4, <2>5, <2>6, <2>7
<1>4. ASSUME NEW a \in Agents, Memory!Rename(a)
      PROVE  Goal
  <2>1. MemoryAgents'
    BY <1>0, <1>4 DEF Memory!Rename, MemoryAgents, MemoryPutters, MemoryTypes
  <2>2. MemoryTypes'
    BY <1>0, <1>4 DEF Memory!Rename, MemoryTypes, MemoryAgents, Memory!Knows, MemoryPutters, Memory!Free
  <2>3. Memory!Knows'
    BY <1>0, <1>4 DEF Memory!Rename, MemoryTypes, MemoryAgents, Memory!Knows, MemoryPutters
  <2>4. Memory!OneName'
    BY <1>0, <1>4 DEF Memory!Rename, MemoryTypes, MemoryAgents, Memory!Knows, MemoryPutters, Memory!OneName, Memory!Free, Memory!names
  <2>5. Memory!OneWriter'
    BY <1>0, <1>4 DEF Memory!Rename, MemoryTypes, MemoryAgents, Memory!Knows, MemoryPutters, Memory!OneName, Memory!OneWriter, Memory!Free, Memory!names
  <2>6. Memory!WritesTmp'
    BY <1>0, <1>4 DEF Memory!Rename, MemoryTypes, MemoryAgents, Memory!Knows, MemoryPutters, Memory!OneName, Memory!OneWriter, Memory!WritesTmp, Memory!Free, Memory!names
  <2>7. Memory!ValuesSurvive'
    BY <1>0, <1>4 DEF Memory!Rename, MemoryTypes, MemoryAgents, Memory!Knows, MemoryPutters, Memory!OneName, Memory!OneWriter, Memory!WritesTmp, Memory!ValuesSurvive, Memory!List, Memory!Free, Memory!names
  <2> QED
    BY <2>1, <2>2, <2>3, <2>4, <2>5, <2>6, <2>7
<1>5. ASSUME NEW a \in Agents, Memory!Read(a)
      PROVE  Goal
  <2>1. MemoryAgents'
    BY <1>0, <1>5 DEF Memory!Read, MemoryAgents, MemoryPutters, MemoryTypes
  <2>2. MemoryTypes'
    BY <1>0, <1>5 DEF Memory!Read, MemoryTypes, MemoryAgents, Memory!Knows, MemoryPutters, Memory!Free
  <2>3. Memory!Knows'
    BY <1>0, <1>5 DEF Memory!Read, MemoryTypes, MemoryAgents, Memory!Knows, MemoryPutters
  <2>4. Memory!OneName'
    BY <1>0, <1>5 DEF Memory!Read, MemoryTypes, MemoryAgents, Memory!Knows, MemoryPutters, Memory!OneName, Memory!Free, Memory!names
  <2>5. Memory!OneWriter'
    BY <1>0, <1>5 DEF Memory!Read, MemoryTypes, MemoryAgents, Memory!Knows, MemoryPutters, Memory!OneName, Memory!OneWriter, Memory!Free, Memory!names
  <2>6. Memory!WritesTmp'
    BY <1>0, <1>5 DEF Memory!Read, MemoryTypes, MemoryAgents, Memory!Knows, MemoryPutters, Memory!OneName, Memory!OneWriter, Memory!WritesTmp, Memory!Free, Memory!names
  <2>7. Memory!ValuesSurvive'
    BY <1>0, <1>5 DEF Memory!Read, MemoryTypes, MemoryAgents, Memory!Knows, MemoryPutters, Memory!OneName, Memory!OneWriter, Memory!WritesTmp, Memory!ValuesSurvive, Memory!List, Memory!Free, Memory!names
  <2> QED
    BY <2>1, <2>2, <2>3, <2>4, <2>5, <2>6, <2>7
<1>6. ASSUME NEW a \in Agents, Memory!Killed(a)
      PROVE  Goal
  <2>1. MemoryAgents'
    BY <1>0, <1>6 DEF Memory!Killed, MemoryAgents, MemoryPutters, MemoryTypes
  <2>2. MemoryTypes'
    BY <1>0, <1>6 DEF Memory!Killed, MemoryTypes, MemoryAgents, Memory!Knows, MemoryPutters, Memory!Free
  <2>3. Memory!Knows'
    BY <1>0, <1>6 DEF Memory!Killed, MemoryTypes, MemoryAgents, Memory!Knows, MemoryPutters
  <2>4. Memory!OneName'
    BY <1>0, <1>6 DEF Memory!Killed, MemoryTypes, MemoryAgents, Memory!Knows, MemoryPutters, Memory!OneName, Memory!Free, Memory!names
  <2>5. Memory!OneWriter'
    BY <1>0, <1>6 DEF Memory!Killed, MemoryTypes, MemoryAgents, Memory!Knows, MemoryPutters, Memory!OneName, Memory!OneWriter, Memory!Free, Memory!names
  <2>6. Memory!WritesTmp'
    BY <1>0, <1>6 DEF Memory!Killed, MemoryTypes, MemoryAgents, Memory!Knows, MemoryPutters, Memory!OneName, Memory!OneWriter, Memory!WritesTmp, Memory!Free, Memory!names
  <2>7. Memory!ValuesSurvive'
    BY <1>0, <1>6 DEF Memory!Killed, MemoryTypes, MemoryAgents, Memory!Knows, MemoryPutters, Memory!OneName, Memory!OneWriter, Memory!WritesTmp, Memory!ValuesSurvive, Memory!List, Memory!Free, Memory!names
  <2> QED
    BY <2>1, <2>2, <2>3, <2>4, <2>5, <2>6, <2>7
<1>7. ASSUME NEW a \in Agents, NEW k \in Keys, Memory!Get(a, k)
      PROVE  Goal
  <2>1. MemoryAgents'
    BY <1>0, <1>7 DEF Memory!Get, MemoryAgents, MemoryPutters, MemoryTypes
  <2>2. MemoryTypes'
    BY <1>0, <1>7 DEF Memory!Get, MemoryTypes, MemoryAgents, Memory!Knows, MemoryPutters, Memory!Free
  <2>3. Memory!Knows'
    BY <1>0, <1>7 DEF Memory!Get, MemoryTypes, MemoryAgents, Memory!Knows, MemoryPutters
  <2>4. Memory!OneName'
    BY <1>0, <1>7 DEF Memory!Get, MemoryTypes, MemoryAgents, Memory!Knows, MemoryPutters, Memory!OneName, Memory!Free, Memory!names
  <2>5. Memory!OneWriter'
    BY <1>0, <1>7 DEF Memory!Get, MemoryTypes, MemoryAgents, Memory!Knows, MemoryPutters, Memory!OneName, Memory!OneWriter, Memory!Free, Memory!names
  <2>6. Memory!WritesTmp'
    BY <1>0, <1>7 DEF Memory!Get, MemoryTypes, MemoryAgents, Memory!Knows, MemoryPutters, Memory!OneName, Memory!OneWriter, Memory!WritesTmp, Memory!Free, Memory!names
  <2>7. Memory!ValuesSurvive'
    BY <1>0, <1>7 DEF Memory!Get, MemoryTypes, MemoryAgents, Memory!Knows, MemoryPutters, Memory!OneName, Memory!OneWriter, Memory!WritesTmp, Memory!ValuesSurvive, Memory!List, Memory!Free, Memory!names
  <2> QED
    BY <2>1, <2>2, <2>3, <2>4, <2>5, <2>6, <2>7
<1>8. ASSUME NEW a \in Agents, NEW k \in Keys, Memory!Delete(a, k)
      PROVE  Goal
  <2>1. MemoryAgents'
    BY <1>0, <1>8 DEF Memory!Delete, MemoryAgents, MemoryPutters, MemoryTypes
  <2>2. MemoryTypes'
    BY <1>0, <1>8 DEF Memory!Delete, MemoryTypes, MemoryAgents, Memory!Knows, MemoryPutters, Memory!Free
  <2>3. Memory!Knows'
    BY <1>0, <1>8 DEF Memory!Delete, MemoryTypes, MemoryAgents, Memory!Knows, MemoryPutters
  <2>4. Memory!OneName'
    BY <1>0, <1>8 DEF Memory!Delete, MemoryTypes, MemoryAgents, Memory!Knows, MemoryPutters, Memory!OneName, Memory!Free, Memory!names
  <2>5. Memory!OneWriter'
    BY <1>0, <1>8 DEF Memory!Delete, MemoryTypes, MemoryAgents, Memory!Knows, MemoryPutters, Memory!OneName, Memory!OneWriter, Memory!Free, Memory!names
  <2>6. Memory!WritesTmp'
    BY <1>0, <1>8 DEF Memory!Delete, MemoryTypes, MemoryAgents, Memory!Knows, MemoryPutters, Memory!OneName, Memory!OneWriter, Memory!WritesTmp, Memory!Free, Memory!names
  <2>7. Memory!ValuesSurvive'
    BY <1>0, <1>8 DEF Memory!Delete, MemoryTypes, MemoryAgents, Memory!Knows, MemoryPutters, Memory!OneName, Memory!OneWriter, Memory!WritesTmp, Memory!ValuesSurvive, Memory!List, Memory!Free, Memory!names
  <2> QED
    BY <2>1, <2>2, <2>3, <2>4, <2>5, <2>6, <2>7
<1> QED
  BY <1>1, <1>2, <1>3, <1>4, <1>5, <1>6, <1>7, <1>8 DEF Memory!Next, Memory!IInv, Memory!TypeOK, MemoryAgents, MemoryPutters, MemoryTypes, Memory!Contents

LEMMA MemoryRests == Memory!IInv /\ UNCHANGED Memory!vars => Memory!IInv'
BY DEF Memory!vars, Memory!IInv, Memory!TypeOK, Memory!Knows, Memory!OneName, Memory!OneWriter, Memory!WritesTmp, Memory!ValuesSurvive, Memory!Putting, Memory!Opened, Memory!At, Memory!List

LEMMA MemoryHolds == Spec => [](part = "memory" => Memory!IInv)
<1> DEFINE Kept == part = "memory" => Memory!IInv
<1>1. Init => Kept
  BY MemoryStarts DEF Init
<1>2. Kept /\ [Next]_vars => Kept'
  BY MemoryNext, MemoryRests DEF Next, vars, Memory!vars
<1> QED
  BY <1>1, <1>2, PTL DEF Spec

-----------------------------------------------------------------------------
(* Numbered artefacts.                                                     *)

NumbersPcs == {"idle", "lock", "scan", "create", "unlock", "next", "write", "rewrite", "index"}
NumbersCommands == [pc : NumbersPcs, slug : Slugs \cup {None}, n : 0 .. MaxNumber + 1,
                    file : Numbers!Names \cup {None}, read : SUBSET (Numbers!Names \cup Fields)]
NumbersWriters == v6 \in [Writers -> NumbersCommands]
NumbersTypes ==
    /\ v1 \in {"adr", "task"} /\ v2 \subseteq Numbers!Names /\ v3 \in Writers \cup {None}
    /\ v5 \subseteq Numbers!Names /\ DOMAIN v7 \subseteq Numbers!Names
    /\ faults \in 0 .. MaxFaults /\ v8 \in BOOLEAN
NumbersTasks == DOMAIN v4 \subseteq Numbers!Names /\ \A f \in DOMAIN v4 : v4[f] \subseteq Fields

\* The highest number of some files is none or that of one, and none is above it.
LEMMA HighestBounds ==
    ASSUME NEW files \in SUBSET Numbers!Names
    PROVE  /\ Numbers!Highest(files) \in 0 .. MaxNumber
           /\ \A f \in files : f[1] <= Numbers!Highest(files)
           /\ \A f \in files : f[1] \in Nat
<1>0. MaxNumber \in Nat /\ \A f \in files : f[1] \in 1 .. MaxNumber
  BY ConstantsAssumption DEF Numbers!BoundsAssumption, Numbers!Names
<1>1. CASE files = {}
  BY <1>0, <1>1 DEF Numbers!Highest
<1>2. CASE files # {}
  <2> DEFINE Below == {MaxNumber - f[1] : f \in files}
  <2>1. Below \in SUBSET Nat /\ Below # {}
    BY <1>0, <1>2
  <2> HIDE DEF Below
  <2>2. PICK m \in Below : \A k \in Below : m <= k
    <3>1. PICK m \in Below : \A k \in Below : ~(<<k, m>> \in OpToRel(<, Nat))
      BY <2>1, NatLessThanWellFounded, WFMin
    <3>2. \A x, y \in Nat : x <= y \/ <<y, x>> \in OpToRel(<, Nat)
      BY DEF OpToRel
    <3> QED
      BY <2>1, <3>1, <3>2
  <2>3. PICK g \in files : m = MaxNumber - g[1]
    BY <2>2 DEF Below
  <2>4. \A f \in files : f[1] <= g[1]
    <3> TAKE f \in files
    <3>1. MaxNumber - f[1] \in Below
      BY DEF Below
    <3> QED
      BY <3>1, <2>2, <2>3, <1>0
  <2> DEFINE IsHighest(n) == \A f \in files : f[1] <= n
  <2>5. g[1] \in {f[1] : f \in files} /\ IsHighest(g[1])
    BY <2>4
  <2>6. Numbers!Highest(files) = CHOOSE n \in {f[1] : f \in files} : IsHighest(n)
    BY <1>2 DEF Numbers!Highest
  <2> HIDE DEF IsHighest
  <2>7. Numbers!Highest(files) \in {f[1] : f \in files} /\ IsHighest(Numbers!Highest(files))
    BY <2>5, <2>6
  <2> QED
    BY <2>7, <1>0 DEF IsHighest
<1> QED
  BY <1>1, <1>2

\* A terminal that takes up a command has one.
LEMMA CommandStarts ==
    ASSUME NEW w \in Writers, NumbersWriters, NEW r \in NumbersCommands, v6' = [v6 EXCEPT ![w] = r]
    PROVE  NumbersWriters'
BY DEF NumbersWriters

LEMMA CommandsThereAre ==
    /\ Numbers!Idle \in NumbersCommands
    /\ \A pc \in NumbersPcs, slug \in Slugs \cup {None} :
          [Numbers!Idle EXCEPT !.pc = pc, !.slug = slug] \in NumbersCommands
    /\ \A pc \in NumbersPcs, file \in Numbers!Names \cup {None}, read \in SUBSET (Numbers!Names \cup Fields) :
          [Numbers!Idle EXCEPT !.pc = pc, !.file = file, !.read = read] \in NumbersCommands
    /\ \A pc \in NumbersPcs, read \in SUBSET (Numbers!Names \cup Fields) :
          [Numbers!Idle EXCEPT !.pc = pc, !.read = read] \in NumbersCommands
<1>1. Numbers!Idle \in NumbersCommands
  <2>1. 0 \in 0 .. MaxNumber + 1
    BY ConstantsAssumption DEF Numbers!BoundsAssumption
  <2> QED
    BY <2>1 DEF Numbers!Idle, NumbersCommands, NumbersPcs
<1> QED
  BY <1>1 DEF NumbersCommands

LEMMA NumbersStarts == ASSUME Numbers!Init PROVE Numbers!IInv
<1>1. /\ MaxNumber \in Nat /\ MaxFaults \in Nat
      /\ v6 = [w \in Writers |-> Numbers!Idle] /\ DOMAIN v4 = {} /\ DOMAIN v7 = {} /\ v2 = {} /\ v5 = {}
  BY ConstantsAssumption DEF Numbers!Init, Numbers!BoundsAssumption
<1>2. \A w \in Writers : v6[w].pc = "idle"
  BY <1>1 DEF Numbers!Idle
<1>3. NumbersWriters
  BY <1>1, CommandsThereAre DEF NumbersWriters
<1>4. Numbers!TypeOK
  <2>1. v6 \in [Writers -> [pc : Numbers!Pcs, slug : Slugs \cup {None}, n : 0 .. MaxNumber + 1,
                 file : Numbers!Names \cup {None}, read : SUBSET (Numbers!Names \cup Fields)]]
    BY <1>3 DEF NumbersWriters, NumbersCommands, NumbersPcs, Numbers!Pcs
  <2>2. faults = 0 /\ v1 \in {"adr", "task"} /\ v3 = None /\ v8 = FALSE
    BY Zenon DEF Numbers!Init
  <2> QED
    <3>1. faults \in 0 .. MaxFaults
      BY <1>1, <2>2
    <3>2. /\ v2 \subseteq Numbers!Names /\ DOMAIN v4 \subseteq Numbers!Names
          /\ \A f \in DOMAIN v4 : v4[f] \subseteq Fields
          /\ v5 \subseteq Numbers!Names /\ DOMAIN v7 \subseteq Numbers!Names
      BY <1>1, Zenon
    <3> QED
      BY <2>1, <2>2, <3>1, <3>2 DEF Numbers!TypeOK
<1> QED
  BY <1>1, <1>2, <1>4 DEF Numbers!Init, Numbers!IInv, Numbers!HoldsTheLock, Numbers!NumberIsNext, Numbers!OneAtWork,
     Numbers!TaskIsNext, Numbers!ReadIsCurrent, Numbers!EditedExist, Numbers!NumbersAndEditsKept,
     Numbers!OneFileANumber, Numbers!At

LEMMA NumbersNext ==
    ASSUME Numbers!IInv, Numbers!Next
    PROVE  Numbers!IInv'
<1> USE DEF Numbers!At, Numbers!Go, Numbers!End, Numbers!Fine, Numbers!Fail, Numbers!Idle, Numbers!corpus, Numbers!docs, Numbers!Release, Numbers!Begin, Numbers!Busy, Numbers!Put
<1> DEFINE Goal == NumbersWriters' /\ NumbersTypes' /\ NumbersTasks' /\ Numbers!HoldsTheLock' /\ Numbers!NumberIsNext' /\ Numbers!OneAtWork' /\ Numbers!TaskIsNext' /\ Numbers!ReadIsCurrent' /\ Numbers!EditedExist' /\ Numbers!NumbersAndEditsKept'
<1>0. /\ NumbersWriters /\ NumbersTypes /\ NumbersTasks /\ Numbers!HoldsTheLock /\ Numbers!NumberIsNext /\ Numbers!OneAtWork
      /\ Numbers!TaskIsNext /\ Numbers!ReadIsCurrent /\ Numbers!EditedExist /\ Numbers!NumbersAndEditsKept
      /\ MaxFaults \in Nat /\ MaxNumber \in Nat \ {0} /\ None \notin Writers
  BY ConstantsAssumption DEF Numbers!BoundsAssumption, Numbers!IInv, Numbers!TypeOK, NumbersWriters, NumbersCommands, NumbersPcs, NumbersTypes, NumbersTasks, Numbers!Pcs
<1>a. /\ Numbers!Highest(v2) \in 0 .. MaxNumber
      /\ \A f \in v2 : f[1] <= Numbers!Highest(v2)
      /\ \A f \in v2 : f[1] \in Nat
  BY <1>0, HighestBounds DEF NumbersTypes
<1>b. /\ Numbers!Highest(DOMAIN v4) \in 0 .. MaxNumber
      /\ \A f \in DOMAIN v4 : f[1] <= Numbers!Highest(DOMAIN v4)
      /\ \A f \in DOMAIN v4 : f[1] \in Nat
  BY <1>0, HighestBounds DEF NumbersTasks
<1>1. ASSUME NEW w \in Writers, NEW s \in Slugs, Numbers!AdrNew(w, s)
      PROVE  Goal
  <2>1. NumbersWriters'
    <3> HIDE DEF Numbers!Idle
    <3>1. v6' = [v6 EXCEPT ![w] = [Numbers!Idle EXCEPT !.pc = "lock", !.slug = s]]
      BY <1>1 DEF Numbers!AdrNew
    <3>2. [Numbers!Idle EXCEPT !.pc = "lock", !.slug = s] \in NumbersCommands
      BY <1>0, <1>1, CommandsThereAre DEF NumbersPcs
    <3> QED
      BY <1>0, <3>1, <3>2, CommandStarts
  <2>2. NumbersTypes'
    BY <1>0, <1>1 DEF Numbers!AdrNew, NumbersTypes, NumbersTasks, NumbersWriters, NumbersCommands, Numbers!Names
  <2>3. NumbersTasks'
    BY <1>0, <1>1 DEF Numbers!AdrNew, NumbersTypes, NumbersTasks, NumbersWriters, NumbersCommands, Numbers!ReadIsCurrent
  <2>4. Numbers!HoldsTheLock'
    BY <1>0, <1>1 DEF Numbers!AdrNew, NumbersTypes, NumbersTasks, NumbersWriters, NumbersCommands, Numbers!HoldsTheLock
  <2>5. Numbers!NumberIsNext'
    BY <1>0, <1>1 DEF Numbers!AdrNew, NumbersTypes, NumbersTasks, NumbersWriters, NumbersCommands, Numbers!HoldsTheLock, Numbers!NumberIsNext
  <2>6. Numbers!OneAtWork'
    BY <1>0, <1>1 DEF Numbers!AdrNew, NumbersTypes, NumbersTasks, NumbersWriters, NumbersCommands, Numbers!OneAtWork
  <2>7. Numbers!TaskIsNext'
    BY <1>0, <1>1 DEF Numbers!AdrNew, NumbersTypes, NumbersTasks, NumbersWriters, NumbersCommands, Numbers!OneAtWork, Numbers!TaskIsNext, Numbers!ReadIsCurrent
  <2>8. Numbers!ReadIsCurrent'
    BY <1>0, <1>1 DEF Numbers!AdrNew, NumbersTypes, NumbersTasks, NumbersWriters, NumbersCommands, Numbers!OneAtWork, Numbers!ReadIsCurrent
  <2>9. Numbers!EditedExist'
    BY <1>0, <1>1 DEF Numbers!AdrNew, NumbersTypes, NumbersTasks, NumbersWriters, NumbersCommands, Numbers!EditedExist, Numbers!ReadIsCurrent
  <2>10. Numbers!NumbersAndEditsKept'
    BY <1>0, <1>1 DEF Numbers!AdrNew, NumbersTypes, NumbersTasks, NumbersWriters, NumbersCommands, Numbers!NumbersAndEditsKept, Numbers!OneFileANumber, Numbers!NumberIsNext, Numbers!TaskIsNext, Numbers!ReadIsCurrent, Numbers!EditedExist
  <2> QED
    BY <2>1, <2>2, <2>3, <2>4, <2>5, <2>6, <2>7, <2>8, <2>9, <2>10
<1>2. ASSUME NEW w \in Writers, NEW s \in Slugs, Numbers!TaskNew(w, s)
      PROVE  Goal
  <2>1. NumbersWriters'
    <3> HIDE DEF Numbers!Idle
    <3>1. v6' = [v6 EXCEPT ![w] = [Numbers!Idle EXCEPT !.pc = "next", !.slug = s]]
      BY <1>2 DEF Numbers!TaskNew
    <3>2. [Numbers!Idle EXCEPT !.pc = "next", !.slug = s] \in NumbersCommands
      BY <1>0, <1>2, CommandsThereAre DEF NumbersPcs
    <3> QED
      BY <1>0, <3>1, <3>2, CommandStarts
  <2>2. NumbersTypes'
    BY <1>0, <1>2 DEF Numbers!TaskNew, NumbersTypes, NumbersTasks, NumbersWriters, NumbersCommands, Numbers!Names
  <2>3. NumbersTasks'
    BY <1>0, <1>2 DEF Numbers!TaskNew, NumbersTypes, NumbersTasks, NumbersWriters, NumbersCommands, Numbers!ReadIsCurrent
  <2>4. Numbers!HoldsTheLock'
    BY <1>0, <1>2 DEF Numbers!TaskNew, NumbersTypes, NumbersTasks, NumbersWriters, NumbersCommands, Numbers!HoldsTheLock
  <2>5. Numbers!NumberIsNext'
    BY <1>0, <1>2 DEF Numbers!TaskNew, NumbersTypes, NumbersTasks, NumbersWriters, NumbersCommands, Numbers!HoldsTheLock, Numbers!NumberIsNext
  <2>6. Numbers!OneAtWork'
    BY <1>0, <1>2 DEF Numbers!TaskNew, NumbersTypes, NumbersTasks, NumbersWriters, NumbersCommands, Numbers!OneAtWork
  <2>7. Numbers!TaskIsNext'
    BY <1>0, <1>2 DEF Numbers!TaskNew, NumbersTypes, NumbersTasks, NumbersWriters, NumbersCommands, Numbers!OneAtWork, Numbers!TaskIsNext, Numbers!ReadIsCurrent
  <2>8. Numbers!ReadIsCurrent'
    BY <1>0, <1>2 DEF Numbers!TaskNew, NumbersTypes, NumbersTasks, NumbersWriters, NumbersCommands, Numbers!OneAtWork, Numbers!ReadIsCurrent
  <2>9. Numbers!EditedExist'
    BY <1>0, <1>2 DEF Numbers!TaskNew, NumbersTypes, NumbersTasks, NumbersWriters, NumbersCommands, Numbers!EditedExist, Numbers!ReadIsCurrent
  <2>10. Numbers!NumbersAndEditsKept'
    BY <1>0, <1>2 DEF Numbers!TaskNew, NumbersTypes, NumbersTasks, NumbersWriters, NumbersCommands, Numbers!NumbersAndEditsKept, Numbers!OneFileANumber, Numbers!NumberIsNext, Numbers!TaskIsNext, Numbers!ReadIsCurrent, Numbers!EditedExist
  <2> QED
    BY <2>1, <2>2, <2>3, <2>4, <2>5, <2>6, <2>7, <2>8, <2>9, <2>10
<1>3. ASSUME NEW w \in Writers, Numbers!Lock(w)
      PROVE  Goal
  <2>1. NumbersWriters'
    BY <1>0, <1>3 DEF Numbers!Lock, NumbersTypes, NumbersTasks, NumbersWriters, NumbersCommands, NumbersPcs, Numbers!Names
  <2>2. NumbersTypes'
    BY <1>0, <1>3 DEF Numbers!Lock, NumbersTypes, NumbersTasks, NumbersWriters, NumbersCommands, Numbers!Names
  <2>3. NumbersTasks'
    BY <1>0, <1>3 DEF Numbers!Lock, NumbersTypes, NumbersTasks, NumbersWriters, NumbersCommands, Numbers!ReadIsCurrent
  <2>4. Numbers!HoldsTheLock'
    BY <1>0, <1>3 DEF Numbers!Lock, NumbersTypes, NumbersTasks, NumbersWriters, NumbersCommands, Numbers!HoldsTheLock
  <2>5. Numbers!NumberIsNext'
    BY <1>0, <1>3 DEF Numbers!Lock, NumbersTypes, NumbersTasks, NumbersWriters, NumbersCommands, Numbers!HoldsTheLock, Numbers!NumberIsNext
  <2>6. Numbers!OneAtWork'
    BY <1>0, <1>3 DEF Numbers!Lock, NumbersTypes, NumbersTasks, NumbersWriters, NumbersCommands, Numbers!OneAtWork
  <2>7. Numbers!TaskIsNext'
    BY <1>0, <1>3 DEF Numbers!Lock, NumbersTypes, NumbersTasks, NumbersWriters, NumbersCommands, Numbers!OneAtWork, Numbers!TaskIsNext, Numbers!ReadIsCurrent
  <2>8. Numbers!ReadIsCurrent'
    BY <1>0, <1>3 DEF Numbers!Lock, NumbersTypes, NumbersTasks, NumbersWriters, NumbersCommands, Numbers!OneAtWork, Numbers!ReadIsCurrent
  <2>9. Numbers!EditedExist'
    BY <1>0, <1>3 DEF Numbers!Lock, NumbersTypes, NumbersTasks, NumbersWriters, NumbersCommands, Numbers!EditedExist, Numbers!ReadIsCurrent
  <2>10. Numbers!NumbersAndEditsKept'
    BY <1>0, <1>3 DEF Numbers!Lock, NumbersTypes, NumbersTasks, NumbersWriters, NumbersCommands, Numbers!NumbersAndEditsKept, Numbers!OneFileANumber, Numbers!NumberIsNext, Numbers!TaskIsNext, Numbers!ReadIsCurrent, Numbers!EditedExist
  <2> QED
    BY <2>1, <2>2, <2>3, <2>4, <2>5, <2>6, <2>7, <2>8, <2>9, <2>10
<1>4. ASSUME NEW w \in Writers, Numbers!Max(w)
      PROVE  Goal
  <2>1. NumbersWriters'
    BY <1>0, <1>4, <1>a DEF Numbers!Max, NumbersTypes, NumbersTasks, NumbersWriters, NumbersCommands, NumbersPcs, Numbers!Names
  <2>2. NumbersTypes'
    BY <1>0, <1>4, <1>a DEF Numbers!Max, NumbersTypes, NumbersTasks, NumbersWriters, NumbersCommands, Numbers!Names
  <2>3. NumbersTasks'
    BY <1>0, <1>4, <1>a DEF Numbers!Max, NumbersTypes, NumbersTasks, NumbersWriters, NumbersCommands, Numbers!ReadIsCurrent
  <2>4. Numbers!HoldsTheLock'
    BY <1>0, <1>4, <1>a DEF Numbers!Max, NumbersTypes, NumbersTasks, NumbersWriters, NumbersCommands, Numbers!HoldsTheLock
  <2>5. Numbers!NumberIsNext'
    BY <1>0, <1>4, <1>a DEF Numbers!Max, NumbersTypes, NumbersTasks, NumbersWriters, NumbersCommands, Numbers!HoldsTheLock, Numbers!NumberIsNext
  <2>6. Numbers!OneAtWork'
    BY <1>0, <1>4, <1>a DEF Numbers!Max, NumbersTypes, NumbersTasks, NumbersWriters, NumbersCommands, Numbers!OneAtWork
  <2>7. Numbers!TaskIsNext'
    BY <1>0, <1>4, <1>a DEF Numbers!Max, NumbersTypes, NumbersTasks, NumbersWriters, NumbersCommands, Numbers!OneAtWork, Numbers!TaskIsNext, Numbers!ReadIsCurrent
  <2>8. Numbers!ReadIsCurrent'
    BY <1>0, <1>4, <1>a DEF Numbers!Max, NumbersTypes, NumbersTasks, NumbersWriters, NumbersCommands, Numbers!OneAtWork, Numbers!ReadIsCurrent
  <2>9. Numbers!EditedExist'
    BY <1>0, <1>4, <1>a DEF Numbers!Max, NumbersTypes, NumbersTasks, NumbersWriters, NumbersCommands, Numbers!EditedExist, Numbers!ReadIsCurrent
  <2>10. Numbers!NumbersAndEditsKept'
    BY <1>0, <1>4, <1>a DEF Numbers!Max, NumbersTypes, NumbersTasks, NumbersWriters, NumbersCommands, Numbers!NumbersAndEditsKept, Numbers!OneFileANumber, Numbers!NumberIsNext, Numbers!TaskIsNext, Numbers!ReadIsCurrent, Numbers!EditedExist
  <2> QED
    BY <2>1, <2>2, <2>3, <2>4, <2>5, <2>6, <2>7, <2>8, <2>9, <2>10
<1>5. ASSUME NEW w \in Writers, Numbers!Create(w)
      PROVE  Goal
  <2>1. NumbersWriters'
    <3>1. v6' = [v6 EXCEPT ![w].pc = "unlock"]
      BY <1>5 DEF Numbers!Create
    <3> QED
      BY <1>0, <3>1 DEF NumbersWriters, NumbersCommands, NumbersPcs
  <2>2. NumbersTypes'
    BY <1>0, <1>5 DEF Numbers!Create, NumbersTypes, NumbersTasks, NumbersWriters, NumbersCommands, Numbers!Names
  <2>3. NumbersTasks'
    BY <1>0, <1>5 DEF Numbers!Create, NumbersTypes, NumbersTasks, NumbersWriters, NumbersCommands, Numbers!ReadIsCurrent
  <2>4. Numbers!HoldsTheLock'
    BY <1>0, <1>5 DEF Numbers!Create, NumbersTypes, NumbersTasks, NumbersWriters, NumbersCommands, Numbers!HoldsTheLock
  <2>5. Numbers!NumberIsNext'
    BY <1>0, <1>5 DEF Numbers!Create, NumbersTypes, NumbersTasks, NumbersWriters, NumbersCommands, Numbers!HoldsTheLock, Numbers!NumberIsNext
  <2>6. Numbers!OneAtWork'
    BY <1>0, <1>5 DEF Numbers!Create, NumbersTypes, NumbersTasks, NumbersWriters, NumbersCommands, Numbers!OneAtWork
  <2>7. Numbers!TaskIsNext'
    BY <1>0, <1>5 DEF Numbers!Create, NumbersTypes, NumbersTasks, NumbersWriters, NumbersCommands, Numbers!OneAtWork, Numbers!TaskIsNext, Numbers!ReadIsCurrent
  <2>8. Numbers!ReadIsCurrent'
    BY <1>0, <1>5 DEF Numbers!Create, NumbersTypes, NumbersTasks, NumbersWriters, NumbersCommands, Numbers!OneAtWork, Numbers!ReadIsCurrent
  <2>9. Numbers!EditedExist'
    BY <1>0, <1>5 DEF Numbers!Create, NumbersTypes, NumbersTasks, NumbersWriters, NumbersCommands, Numbers!EditedExist, Numbers!ReadIsCurrent
  <2>10. Numbers!NumbersAndEditsKept'
    BY <1>0, <1>5 DEF Numbers!Create, NumbersTypes, NumbersTasks, NumbersWriters, NumbersCommands, Numbers!NumbersAndEditsKept, Numbers!OneFileANumber, Numbers!NumberIsNext, Numbers!TaskIsNext, Numbers!ReadIsCurrent, Numbers!EditedExist
  <2> QED
    BY <2>1, <2>2, <2>3, <2>4, <2>5, <2>6, <2>7, <2>8, <2>9, <2>10
<1>6. ASSUME NEW w \in Writers, Numbers!Unlock(w)
      PROVE  Goal
  <2>1. NumbersWriters'
    BY <1>0, <1>6 DEF Numbers!Unlock, NumbersTypes, NumbersTasks, NumbersWriters, NumbersCommands, NumbersPcs, Numbers!Names
  <2>2. NumbersTypes'
    BY <1>0, <1>6 DEF Numbers!Unlock, NumbersTypes, NumbersTasks, NumbersWriters, NumbersCommands, Numbers!Names
  <2>3. NumbersTasks'
    BY <1>0, <1>6 DEF Numbers!Unlock, NumbersTypes, NumbersTasks, NumbersWriters, NumbersCommands, Numbers!ReadIsCurrent
  <2>4. Numbers!HoldsTheLock'
    BY <1>0, <1>6 DEF Numbers!Unlock, NumbersTypes, NumbersTasks, NumbersWriters, NumbersCommands, Numbers!HoldsTheLock
  <2>5. Numbers!NumberIsNext'
    BY <1>0, <1>6 DEF Numbers!Unlock, NumbersTypes, NumbersTasks, NumbersWriters, NumbersCommands, Numbers!HoldsTheLock, Numbers!NumberIsNext
  <2>6. Numbers!OneAtWork'
    BY <1>0, <1>6 DEF Numbers!Unlock, NumbersTypes, NumbersTasks, NumbersWriters, NumbersCommands, Numbers!OneAtWork
  <2>7. Numbers!TaskIsNext'
    BY <1>0, <1>6 DEF Numbers!Unlock, NumbersTypes, NumbersTasks, NumbersWriters, NumbersCommands, Numbers!OneAtWork, Numbers!TaskIsNext, Numbers!ReadIsCurrent
  <2>8. Numbers!ReadIsCurrent'
    BY <1>0, <1>6 DEF Numbers!Unlock, NumbersTypes, NumbersTasks, NumbersWriters, NumbersCommands, Numbers!OneAtWork, Numbers!ReadIsCurrent
  <2>9. Numbers!EditedExist'
    BY <1>0, <1>6 DEF Numbers!Unlock, NumbersTypes, NumbersTasks, NumbersWriters, NumbersCommands, Numbers!EditedExist, Numbers!ReadIsCurrent
  <2>10. Numbers!NumbersAndEditsKept'
    BY <1>0, <1>6 DEF Numbers!Unlock, NumbersTypes, NumbersTasks, NumbersWriters, NumbersCommands, Numbers!NumbersAndEditsKept, Numbers!OneFileANumber, Numbers!NumberIsNext, Numbers!TaskIsNext, Numbers!ReadIsCurrent, Numbers!EditedExist
  <2> QED
    BY <2>1, <2>2, <2>3, <2>4, <2>5, <2>6, <2>7, <2>8, <2>9, <2>10
<1>7. ASSUME NEW w \in Writers, Numbers!NextTaskID(w)
      PROVE  Goal
  <2>1. NumbersWriters'
    BY <1>0, <1>7, <1>b DEF Numbers!NextTaskID, NumbersTypes, NumbersTasks, NumbersWriters, NumbersCommands, NumbersPcs, Numbers!Names
  <2>2. NumbersTypes'
    BY <1>0, <1>7, <1>b DEF Numbers!NextTaskID, NumbersTypes, NumbersTasks, NumbersWriters, NumbersCommands, Numbers!Names
  <2>3. NumbersTasks'
    BY <1>0, <1>7, <1>b DEF Numbers!NextTaskID, NumbersTypes, NumbersTasks, NumbersWriters, NumbersCommands, Numbers!ReadIsCurrent
  <2>4. Numbers!HoldsTheLock'
    BY <1>0, <1>7, <1>b DEF Numbers!NextTaskID, NumbersTypes, NumbersTasks, NumbersWriters, NumbersCommands, Numbers!HoldsTheLock
  <2>5. Numbers!NumberIsNext'
    BY <1>0, <1>7, <1>b DEF Numbers!NextTaskID, NumbersTypes, NumbersTasks, NumbersWriters, NumbersCommands, Numbers!HoldsTheLock, Numbers!NumberIsNext
  <2>6. Numbers!OneAtWork'
    BY <1>0, <1>7, <1>b DEF Numbers!NextTaskID, NumbersTypes, NumbersTasks, NumbersWriters, NumbersCommands, Numbers!OneAtWork
  <2>7. Numbers!TaskIsNext'
    BY <1>0, <1>7, <1>b DEF Numbers!NextTaskID, NumbersTypes, NumbersTasks, NumbersWriters, NumbersCommands, Numbers!OneAtWork, Numbers!TaskIsNext, Numbers!ReadIsCurrent
  <2>8. Numbers!ReadIsCurrent'
    BY <1>0, <1>7, <1>b DEF Numbers!NextTaskID, NumbersTypes, NumbersTasks, NumbersWriters, NumbersCommands, Numbers!OneAtWork, Numbers!ReadIsCurrent
  <2>9. Numbers!EditedExist'
    BY <1>0, <1>7, <1>b DEF Numbers!NextTaskID, NumbersTypes, NumbersTasks, NumbersWriters, NumbersCommands, Numbers!EditedExist, Numbers!ReadIsCurrent
  <2>10. Numbers!NumbersAndEditsKept'
    BY <1>0, <1>7, <1>b DEF Numbers!NextTaskID, NumbersTypes, NumbersTasks, NumbersWriters, NumbersCommands, Numbers!NumbersAndEditsKept, Numbers!OneFileANumber, Numbers!NumberIsNext, Numbers!TaskIsNext, Numbers!ReadIsCurrent, Numbers!EditedExist
  <2> QED
    BY <2>1, <2>2, <2>3, <2>4, <2>5, <2>6, <2>7, <2>8, <2>9, <2>10
<1>8. ASSUME NEW w \in Writers, Numbers!New(w)
      PROVE  Goal
  <2>1. NumbersWriters'
    BY <1>0, <1>8 DEF Numbers!New, NumbersTypes, NumbersTasks, NumbersWriters, NumbersCommands, NumbersPcs, Numbers!Names
  <2>2. NumbersTypes'
    BY <1>0, <1>8 DEF Numbers!New, NumbersTypes, NumbersTasks, NumbersWriters, NumbersCommands, Numbers!Names
  <2>3. NumbersTasks'
    BY <1>0, <1>8 DEF Numbers!New, NumbersTypes, NumbersTasks, NumbersWriters, NumbersCommands, Numbers!ReadIsCurrent
  <2>4. Numbers!HoldsTheLock'
    BY <1>0, <1>8 DEF Numbers!New, NumbersTypes, NumbersTasks, NumbersWriters, NumbersCommands, Numbers!HoldsTheLock
  <2>5. Numbers!NumberIsNext'
    BY <1>0, <1>8 DEF Numbers!New, NumbersTypes, NumbersTasks, NumbersWriters, NumbersCommands, Numbers!HoldsTheLock, Numbers!NumberIsNext
  <2>6. Numbers!OneAtWork'
    BY <1>0, <1>8 DEF Numbers!New, NumbersTypes, NumbersTasks, NumbersWriters, NumbersCommands, Numbers!OneAtWork
  <2>7. Numbers!TaskIsNext'
    BY <1>0, <1>8 DEF Numbers!New, NumbersTypes, NumbersTasks, NumbersWriters, NumbersCommands, Numbers!OneAtWork, Numbers!TaskIsNext, Numbers!ReadIsCurrent
  <2>8. Numbers!ReadIsCurrent'
    BY <1>0, <1>8 DEF Numbers!New, NumbersTypes, NumbersTasks, NumbersWriters, NumbersCommands, Numbers!OneAtWork, Numbers!ReadIsCurrent
  <2>9. Numbers!EditedExist'
    BY <1>0, <1>8 DEF Numbers!New, NumbersTypes, NumbersTasks, NumbersWriters, NumbersCommands, Numbers!EditedExist, Numbers!ReadIsCurrent
  <2>10. Numbers!NumbersAndEditsKept'
    BY <1>0, <1>8 DEF Numbers!New, NumbersTypes, NumbersTasks, NumbersWriters, NumbersCommands, Numbers!NumbersAndEditsKept, Numbers!OneFileANumber, Numbers!NumberIsNext, Numbers!TaskIsNext, Numbers!ReadIsCurrent, Numbers!EditedExist
  <2> QED
    BY <2>1, <2>2, <2>3, <2>4, <2>5, <2>6, <2>7, <2>8, <2>9, <2>10
<1>9. ASSUME NEW w \in Writers, Numbers!Rewrite(w)
      PROVE  Goal
  <2>1. NumbersWriters'
    BY <1>0, <1>9 DEF Numbers!Rewrite, NumbersTypes, NumbersTasks, NumbersWriters, NumbersCommands, NumbersPcs, Numbers!Names
  <2>2. NumbersTypes'
    BY <1>0, <1>9 DEF Numbers!Rewrite, NumbersTypes, NumbersTasks, NumbersWriters, NumbersCommands, Numbers!Names
  <2>3. NumbersTasks'
    BY <1>0, <1>9 DEF Numbers!Rewrite, NumbersTypes, NumbersTasks, NumbersWriters, NumbersCommands, Numbers!ReadIsCurrent
  <2>4. Numbers!HoldsTheLock'
    BY <1>0, <1>9 DEF Numbers!Rewrite, NumbersTypes, NumbersTasks, NumbersWriters, NumbersCommands, Numbers!HoldsTheLock
  <2>5. Numbers!NumberIsNext'
    BY <1>0, <1>9 DEF Numbers!Rewrite, NumbersTypes, NumbersTasks, NumbersWriters, NumbersCommands, Numbers!HoldsTheLock, Numbers!NumberIsNext
  <2>6. Numbers!OneAtWork'
    BY <1>0, <1>9 DEF Numbers!Rewrite, NumbersTypes, NumbersTasks, NumbersWriters, NumbersCommands, Numbers!OneAtWork
  <2>7. Numbers!TaskIsNext'
    BY <1>0, <1>9 DEF Numbers!Rewrite, NumbersTypes, NumbersTasks, NumbersWriters, NumbersCommands, Numbers!OneAtWork, Numbers!TaskIsNext, Numbers!ReadIsCurrent
  <2>8. Numbers!ReadIsCurrent'
    BY <1>0, <1>9 DEF Numbers!Rewrite, NumbersTypes, NumbersTasks, NumbersWriters, NumbersCommands, Numbers!OneAtWork, Numbers!ReadIsCurrent
  <2>9. Numbers!EditedExist'
    BY <1>0, <1>9 DEF Numbers!Rewrite, NumbersTypes, NumbersTasks, NumbersWriters, NumbersCommands, Numbers!EditedExist, Numbers!ReadIsCurrent
  <2>10. Numbers!NumbersAndEditsKept'
    BY <1>0, <1>9 DEF Numbers!Rewrite, NumbersTypes, NumbersTasks, NumbersWriters, NumbersCommands, Numbers!NumbersAndEditsKept, Numbers!OneFileANumber, Numbers!NumberIsNext, Numbers!TaskIsNext, Numbers!ReadIsCurrent, Numbers!EditedExist
  <2> QED
    BY <2>1, <2>2, <2>3, <2>4, <2>5, <2>6, <2>7, <2>8, <2>9, <2>10
<1>10. ASSUME NEW w \in Writers, Numbers!Index(w)
      PROVE  Goal
  <2>1. NumbersWriters'
    <3> HIDE DEF Numbers!Idle
    <3>1. v6' = [v6 EXCEPT ![w] = [Numbers!Idle EXCEPT !.pc = "index", !.read = DOMAIN v4]]
      BY <1>10 DEF Numbers!Index
    <3>2. [Numbers!Idle EXCEPT !.pc = "index", !.read = DOMAIN v4] \in NumbersCommands
      BY <1>0, <1>10, CommandsThereAre DEF NumbersTasks, NumbersPcs
    <3> QED
      BY <1>0, <3>1, <3>2, CommandStarts
  <2>2. NumbersTypes'
    BY <1>0, <1>10 DEF Numbers!Index, NumbersTypes, NumbersTasks, NumbersWriters, NumbersCommands, Numbers!Names
  <2>3. NumbersTasks'
    BY <1>0, <1>10 DEF Numbers!Index, NumbersTypes, NumbersTasks, NumbersWriters, NumbersCommands, Numbers!ReadIsCurrent
  <2>4. Numbers!HoldsTheLock'
    BY <1>0, <1>10 DEF Numbers!Index, NumbersTypes, NumbersTasks, NumbersWriters, NumbersCommands, Numbers!HoldsTheLock
  <2>5. Numbers!NumberIsNext'
    BY <1>0, <1>10 DEF Numbers!Index, NumbersTypes, NumbersTasks, NumbersWriters, NumbersCommands, Numbers!HoldsTheLock, Numbers!NumberIsNext
  <2>6. Numbers!OneAtWork'
    BY <1>0, <1>10 DEF Numbers!Index, NumbersTypes, NumbersTasks, NumbersWriters, NumbersCommands, Numbers!OneAtWork
  <2>7. Numbers!TaskIsNext'
    BY <1>0, <1>10 DEF Numbers!Index, NumbersTypes, NumbersTasks, NumbersWriters, NumbersCommands, Numbers!OneAtWork, Numbers!TaskIsNext, Numbers!ReadIsCurrent
  <2>8. Numbers!ReadIsCurrent'
    BY <1>0, <1>10 DEF Numbers!Index, NumbersTypes, NumbersTasks, NumbersWriters, NumbersCommands, Numbers!OneAtWork, Numbers!ReadIsCurrent
  <2>9. Numbers!EditedExist'
    BY <1>0, <1>10 DEF Numbers!Index, NumbersTypes, NumbersTasks, NumbersWriters, NumbersCommands, Numbers!EditedExist, Numbers!ReadIsCurrent
  <2>10. Numbers!NumbersAndEditsKept'
    BY <1>0, <1>10 DEF Numbers!Index, NumbersTypes, NumbersTasks, NumbersWriters, NumbersCommands, Numbers!NumbersAndEditsKept, Numbers!OneFileANumber, Numbers!NumberIsNext, Numbers!TaskIsNext, Numbers!ReadIsCurrent, Numbers!EditedExist
  <2> QED
    BY <2>1, <2>2, <2>3, <2>4, <2>5, <2>6, <2>7, <2>8, <2>9, <2>10
<1>11. ASSUME NEW w \in Writers, Numbers!WriteIndex(w)
      PROVE  Goal
  <2>1. NumbersWriters'
    BY <1>0, <1>11 DEF Numbers!WriteIndex, NumbersTypes, NumbersTasks, NumbersWriters, NumbersCommands, NumbersPcs, Numbers!Names
  <2>2. NumbersTypes'
    BY <1>0, <1>11 DEF Numbers!WriteIndex, NumbersTypes, NumbersTasks, NumbersWriters, NumbersCommands, Numbers!ReadIsCurrent
  <2>3. NumbersTasks'
    BY <1>0, <1>11 DEF Numbers!WriteIndex, NumbersTypes, NumbersTasks, NumbersWriters, NumbersCommands, Numbers!ReadIsCurrent
  <2>4. Numbers!HoldsTheLock'
    BY <1>0, <1>11 DEF Numbers!WriteIndex, NumbersTypes, NumbersTasks, NumbersWriters, NumbersCommands, Numbers!HoldsTheLock
  <2>5. Numbers!NumberIsNext'
    BY <1>0, <1>11 DEF Numbers!WriteIndex, NumbersTypes, NumbersTasks, NumbersWriters, NumbersCommands, Numbers!HoldsTheLock, Numbers!NumberIsNext
  <2>6. Numbers!OneAtWork'
    BY <1>0, <1>11 DEF Numbers!WriteIndex, NumbersTypes, NumbersTasks, NumbersWriters, NumbersCommands, Numbers!OneAtWork
  <2>7. Numbers!TaskIsNext'
    BY <1>0, <1>11 DEF Numbers!WriteIndex, NumbersTypes, NumbersTasks, NumbersWriters, NumbersCommands, Numbers!OneAtWork, Numbers!TaskIsNext, Numbers!ReadIsCurrent
  <2>8. Numbers!ReadIsCurrent'
    BY <1>0, <1>11 DEF Numbers!WriteIndex, NumbersTypes, NumbersTasks, NumbersWriters, NumbersCommands, Numbers!OneAtWork, Numbers!ReadIsCurrent
  <2>9. Numbers!EditedExist'
    BY <1>0, <1>11 DEF Numbers!WriteIndex, NumbersTypes, NumbersTasks, NumbersWriters, NumbersCommands, Numbers!EditedExist, Numbers!ReadIsCurrent
  <2>10. Numbers!NumbersAndEditsKept'
    BY <1>0, <1>11 DEF Numbers!WriteIndex, NumbersTypes, NumbersTasks, NumbersWriters, NumbersCommands, Numbers!NumbersAndEditsKept, Numbers!OneFileANumber, Numbers!NumberIsNext, Numbers!TaskIsNext, Numbers!ReadIsCurrent, Numbers!EditedExist
  <2> QED
    BY <2>1, <2>2, <2>3, <2>4, <2>5, <2>6, <2>7, <2>8, <2>9, <2>10
<1>12. ASSUME NEW w \in Writers, Numbers!Killed(w)
      PROVE  Goal
  <2>1. NumbersWriters'
    BY <1>0, <1>12 DEF Numbers!Killed, NumbersTypes, NumbersTasks, NumbersWriters, NumbersCommands, NumbersPcs, Numbers!Names
  <2>2. NumbersTypes'
    BY <1>0, <1>12 DEF Numbers!Killed, NumbersTypes, NumbersTasks, NumbersWriters, NumbersCommands, Numbers!Names
  <2>3. NumbersTasks'
    BY <1>0, <1>12 DEF Numbers!Killed, NumbersTypes, NumbersTasks, NumbersWriters, NumbersCommands, Numbers!ReadIsCurrent
  <2>4. Numbers!HoldsTheLock'
    BY <1>0, <1>12 DEF Numbers!Killed, NumbersTypes, NumbersTasks, NumbersWriters, NumbersCommands, Numbers!HoldsTheLock
  <2>5. Numbers!NumberIsNext'
    BY <1>0, <1>12 DEF Numbers!Killed, NumbersTypes, NumbersTasks, NumbersWriters, NumbersCommands, Numbers!HoldsTheLock, Numbers!NumberIsNext
  <2>6. Numbers!OneAtWork'
    BY <1>0, <1>12 DEF Numbers!Killed, NumbersTypes, NumbersTasks, NumbersWriters, NumbersCommands, Numbers!OneAtWork
  <2>7. Numbers!TaskIsNext'
    BY <1>0, <1>12 DEF Numbers!Killed, NumbersTypes, NumbersTasks, NumbersWriters, NumbersCommands, Numbers!OneAtWork, Numbers!TaskIsNext, Numbers!ReadIsCurrent
  <2>8. Numbers!ReadIsCurrent'
    BY <1>0, <1>12 DEF Numbers!Killed, NumbersTypes, NumbersTasks, NumbersWriters, NumbersCommands, Numbers!OneAtWork, Numbers!ReadIsCurrent
  <2>9. Numbers!EditedExist'
    BY <1>0, <1>12 DEF Numbers!Killed, NumbersTypes, NumbersTasks, NumbersWriters, NumbersCommands, Numbers!EditedExist, Numbers!ReadIsCurrent
  <2>10. Numbers!NumbersAndEditsKept'
    BY <1>0, <1>12 DEF Numbers!Killed, NumbersTypes, NumbersTasks, NumbersWriters, NumbersCommands, Numbers!NumbersAndEditsKept, Numbers!OneFileANumber, Numbers!NumberIsNext, Numbers!TaskIsNext, Numbers!ReadIsCurrent, Numbers!EditedExist
  <2> QED
    BY <2>1, <2>2, <2>3, <2>4, <2>5, <2>6, <2>7, <2>8, <2>9, <2>10
<1>13. ASSUME NEW w \in Writers, NEW name \in DOMAIN v4, Numbers!Edit(w, name)
      PROVE  Goal
  <2>1. NumbersWriters'
    <3> HIDE DEF Numbers!Idle
    <3>1. v6' = [v6 EXCEPT ![w] = [Numbers!Idle EXCEPT !.pc = "rewrite", !.file = name, !.read = v4[name]]]
      BY <1>13 DEF Numbers!Edit
    <3>2. [Numbers!Idle EXCEPT !.pc = "rewrite", !.file = name, !.read = v4[name]] \in NumbersCommands
      BY <1>0, <1>13, CommandsThereAre DEF NumbersTasks, NumbersPcs
    <3> QED
      BY <1>0, <3>1, <3>2, CommandStarts
  <2>2. NumbersTypes'
    BY <1>0, <1>13 DEF Numbers!Edit, NumbersTypes, NumbersTasks, NumbersWriters, NumbersCommands, Numbers!Names
  <2>3. NumbersTasks'
    BY <1>0, <1>13 DEF Numbers!Edit, NumbersTypes, NumbersTasks, NumbersWriters, NumbersCommands, Numbers!ReadIsCurrent
  <2>4. Numbers!HoldsTheLock'
    BY <1>0, <1>13 DEF Numbers!Edit, NumbersTypes, NumbersTasks, NumbersWriters, NumbersCommands, Numbers!HoldsTheLock
  <2>5. Numbers!NumberIsNext'
    BY <1>0, <1>13 DEF Numbers!Edit, NumbersTypes, NumbersTasks, NumbersWriters, NumbersCommands, Numbers!HoldsTheLock, Numbers!NumberIsNext
  <2>6. Numbers!OneAtWork'
    BY <1>0, <1>13 DEF Numbers!Edit, NumbersTypes, NumbersTasks, NumbersWriters, NumbersCommands, Numbers!OneAtWork
  <2>7. Numbers!TaskIsNext'
    BY <1>0, <1>13 DEF Numbers!Edit, NumbersTypes, NumbersTasks, NumbersWriters, NumbersCommands, Numbers!OneAtWork, Numbers!TaskIsNext, Numbers!ReadIsCurrent
  <2>8. Numbers!ReadIsCurrent'
    BY <1>0, <1>13 DEF Numbers!Edit, NumbersTypes, NumbersTasks, NumbersWriters, NumbersCommands, Numbers!OneAtWork, Numbers!ReadIsCurrent
  <2>9. Numbers!EditedExist'
    BY <1>0, <1>13 DEF Numbers!Edit, NumbersTypes, NumbersTasks, NumbersWriters, NumbersCommands, Numbers!EditedExist, Numbers!ReadIsCurrent
  <2>10. Numbers!NumbersAndEditsKept'
    BY <1>0, <1>13 DEF Numbers!Edit, NumbersTypes, NumbersTasks, NumbersWriters, NumbersCommands, Numbers!NumbersAndEditsKept, Numbers!OneFileANumber, Numbers!NumberIsNext, Numbers!TaskIsNext, Numbers!ReadIsCurrent, Numbers!EditedExist
  <2> QED
    BY <2>1, <2>2, <2>3, <2>4, <2>5, <2>6, <2>7, <2>8, <2>9, <2>10
<1> QED
  BY <1>1, <1>2, <1>3, <1>4, <1>5, <1>6, <1>7, <1>8, <1>9, <1>10, <1>11, <1>12, <1>13 DEF Numbers!Next, Numbers!IInv, Numbers!TypeOK, NumbersWriters, NumbersCommands, NumbersPcs, NumbersTypes, NumbersTasks, Numbers!Pcs

LEMMA NumbersRests == Numbers!IInv /\ UNCHANGED Numbers!vars => Numbers!IInv'
BY DEF Numbers!vars, Numbers!IInv, Numbers!TypeOK, Numbers!HoldsTheLock, Numbers!NumberIsNext, Numbers!OneAtWork, Numbers!TaskIsNext, Numbers!ReadIsCurrent, Numbers!EditedExist, Numbers!NumbersAndEditsKept, Numbers!OneFileANumber, Numbers!At

LEMMA NumbersHolds == Spec => [](part = "numbers" => Numbers!IInv)
<1> DEFINE Kept == part = "numbers" => Numbers!IInv
<1>1. Init => Kept
  BY NumbersStarts DEF Init
<1>2. Kept /\ [Next]_vars => Kept'
  BY NumbersNext, NumbersRests DEF Next, vars, Numbers!vars
<1> QED
  BY <1>1, <1>2, PTL DEF Spec

\* A file of a finished task is never in neither place, a value that a put
\* reported is what is read, and no record takes the number of another or loses
\* an edit that succeeded, wherever a command was cut off and however many are
\* at work (internal/task/done.go, internal/memory, internal/adr, internal/mdtasks).
THEOREM NothingWrittenIsEverLost == Spec => []NothingWrittenIsLost
<1> DEFINE Kept ==
      /\ part = "done" => Done!IInv
      /\ part = "memory" => Memory!IInv
      /\ part = "numbers" => Numbers!IInv
<1>1. Kept => NothingWrittenIsLost
  BY DEF NothingWrittenIsLost, Done!IInv, Memory!IInv, Numbers!IInv
<1> QED
  BY <1>1, DoneHolds, MemoryHolds, NumbersHolds, PTL

-----------------------------------------------------------------------------
(* Hygiene of the home.                                                    *)

HomePcs == {"idle", "create", "read", "truncate", "prune"}
HomeCommands == [pc : HomePcs, stamp : 0 .. MaxSeconds, copied : SUBSET (1 .. v2), cut : BOOLEAN, plan : SUBSET Dirs]
HomeHands == v4 \in [Hands -> HomeCommands]
HomeLog ==
    /\ v1 \subseteq 1 .. v2 /\ v8 \subseteq 1 .. v2 /\ v2 \in 0 .. MaxLines
    /\ v3 \in [Home!Seconds -> [state : {"absent", "partial", "whole"}, lines : SUBSET (1 .. v2)]]
HomeTree == v5 \in Home!Seconds /\ v6 \subseteq Dirs /\ v7 \subseteq v6 /\ v9 \subseteq Dirs /\ faults \in 0 .. MaxFaults
HomeFiles == v9 \subseteq v7
HomeLines == \A line \in 1 .. v2 : line \in v1 \cup v8 \/ Home!Archived(line)
HomeDirs == \A d \in Dirs \ v6 : Home!Expendable(d)

\* A hand goes on with a command, and the others with theirs.
LEMMA HandGoes ==
    ASSUME HomeHands, NEW h \in Hands, NEW r \in HomeCommands, Home!Go(h, r), v2' = v2
    PROVE  /\ HomeHands' /\ v4'[h] = r
           /\ \A g \in Hands : g # h => v4'[g] = v4[g]
BY DEF HomeHands, HomeCommands, Home!Go

LEMMA HandCommands ==
    /\ Home!Idle \in HomeCommands
    /\ \A pc \in HomePcs, stamp \in 0 .. MaxSeconds :
          [Home!Idle EXCEPT !.pc = pc, !.stamp = stamp] \in HomeCommands
    /\ \A pc \in HomePcs, plan \in SUBSET Dirs :
          [Home!Idle EXCEPT !.pc = pc, !.plan = plan] \in HomeCommands
    /\ \A r \in HomeCommands, pc \in HomePcs : [r EXCEPT !.pc = pc] \in HomeCommands
    /\ \A r \in HomeCommands, pc \in HomePcs : [r EXCEPT !.pc = pc, !.cut = FALSE] \in HomeCommands
    /\ \A r \in HomeCommands, copied \in SUBSET (1 .. v2) : [r EXCEPT !.copied = copied] \in HomeCommands
    /\ \A r \in HomeCommands, plan \in SUBSET Dirs : [r EXCEPT !.plan = plan] \in HomeCommands
<1>1. Home!Idle \in HomeCommands
  <2>1. 0 \in 0 .. MaxSeconds
    BY ConstantsAssumption DEF Home!HomeAssumption
  <2> QED
    BY <2>1 DEF Home!Idle, HomeCommands, HomePcs
<1>2. \A r \in HomeCommands, pc \in HomePcs : [r EXCEPT !.pc = pc, !.cut = FALSE] \in HomeCommands
  BY DEF HomeCommands
<1>3. \A pc \in HomePcs, stamp \in 0 .. MaxSeconds :
          [Home!Idle EXCEPT !.pc = pc, !.stamp = stamp] \in HomeCommands
  BY <1>1 DEF HomeCommands
<1>4. \A pc \in HomePcs, plan \in SUBSET Dirs :
          [Home!Idle EXCEPT !.pc = pc, !.plan = plan] \in HomeCommands
  BY <1>1 DEF HomeCommands
<1> QED
  BY <1>1, <1>2, <1>3, <1>4 DEF HomeCommands

LEMMA HomeStarts == ASSUME Home!Init PROVE Home!IInv
<1>1. /\ {Budget, MaxLines, MaxSeconds, MaxFaults} \subseteq Nat /\ MaxSeconds # 0
      /\ v1 = {} /\ v2 = 0 /\ v8 = {} /\ v6 = Dirs /\ v7 = {} /\ v9 = {} /\ faults = 0 /\ v5 = 1
      /\ v3 = [s \in Home!Seconds |-> Home!Absent] /\ v4 = [h \in Hands |-> Home!Idle]
  BY ConstantsAssumption DEF Home!Init, Home!HomeAssumption
<1>2. \A h \in Hands : v4[h].pc = "idle" /\ ~v4[h].cut
  BY <1>1 DEF Home!Idle
<1>3. v4 \in [Hands -> HomeCommands]
  BY <1>1, HandCommands
<1>4. v3 \in [Home!Seconds -> [state : {"absent", "partial", "whole"}, lines : SUBSET (1 .. v2)]]
  BY <1>1 DEF Home!Absent
<1>5. Home!TypeOK
  BY <1>1, <1>3, <1>4 DEF Home!TypeOK, HomeCommands, HomePcs, Home!Seconds
<1> QED
  BY <1>1, <1>2, <1>5 DEF Home!IInv, Home!Dated, Home!OwnArchive, Home!Truncatable, Home!CutUnderCopy,
     Home!PlansExpendable, Home!NothingOfValueGoes, Home!At

LEMMA HomeNext ==
    ASSUME Home!IInv, Home!Next
    PROVE  Home!IInv'
<1> USE DEF Home!At, Home!Go, Home!End, Home!Fine, Home!Fail, Home!Idle, Home!logs, Home!tree, Home!Seconds, Home!Absent
<1> DEFINE Goal == HomeHands' /\ HomeLog' /\ HomeTree' /\ Home!Dated' /\ Home!OwnArchive' /\ Home!Truncatable' /\ Home!CutUnderCopy' /\ Home!PlansExpendable' /\ HomeFiles' /\ HomeLines' /\ HomeDirs'
<1>0. /\ HomeHands /\ HomeLog /\ HomeTree /\ Home!Dated /\ Home!OwnArchive /\ Home!Truncatable /\ Home!CutUnderCopy
      /\ Home!PlansExpendable /\ HomeFiles /\ HomeLines /\ HomeDirs
      /\ MaxFaults \in Nat /\ MaxLines \in Nat /\ MaxSeconds \in Nat /\ None \notin Dirs
  BY ConstantsAssumption DEF Home!HomeAssumption, Home!IInv, Home!TypeOK, Home!NothingOfValueGoes, HomeHands, HomePcs, HomeCommands, HomeLog, HomeTree, HomeFiles, HomeLines, HomeDirs
<1>1. ASSUME Home!Append
      PROVE  Goal
  <2>1. HomeHands'
    BY <1>0, <1>1 DEF Home!Append, HomeHands, HomeCommands, HomePcs, HomeLog, HomeTree
  <2>2. HomeLog'
    BY <1>0, <1>1 DEF Home!Append, HomeLog, HomeHands, HomeCommands, Home!Dated
  <2>3. HomeTree'
    BY <1>0, <1>1 DEF Home!Append, HomeTree, Home!Empty
  <2>4. Home!Dated'
    BY <1>0, <1>1 DEF Home!Append, Home!Dated, HomeHands, HomeCommands, HomeTree
  <2>5. Home!OwnArchive'
    BY <1>0, <1>1 DEF Home!Append, Home!OwnArchive, Home!Dated, HomeHands, HomeCommands, HomeLog
  <2>6. Home!Truncatable'
    BY <1>0, <1>1 DEF Home!Append, Home!Truncatable, Home!OwnArchive, Home!CutUnderCopy, Home!Archived, Home!Dated, HomeHands, HomeCommands, HomeLog
  <2>7. Home!CutUnderCopy'
    BY <1>0, <1>1 DEF Home!Append, Home!CutUnderCopy, HomeHands, HomeCommands, HomeLog
  <2>8. Home!PlansExpendable'
    BY <1>0, <1>1 DEF Home!Append, Home!PlansExpendable, HomeHands, HomeCommands
  <2>9. HomeFiles'
    BY <1>0, <1>1 DEF Home!Append, HomeFiles, HomeTree, Home!Empty
  <2>10. HomeLines'
    BY <1>0, <1>1 DEF Home!Append, HomeLines, Home!Truncatable, Home!OwnArchive, Home!Archived, Home!Dated, HomeHands, HomeCommands, HomeLog
  <2>11. HomeDirs'
    BY <1>0, <1>1 DEF Home!Append, HomeDirs, Home!PlansExpendable, HomeHands, HomeCommands
  <2> QED
    BY <2>1, <2>2, <2>3, <2>4, <2>5, <2>6, <2>7, <2>8, <2>9, <2>10, <2>11
<1>2. ASSUME Home!Tick
      PROVE  Goal
  <2>1. HomeHands'
    BY <1>0, <1>2 DEF Home!Tick, HomeHands, HomeCommands, HomePcs, HomeLog, HomeTree
  <2>2. HomeLog'
    BY <1>0, <1>2 DEF Home!Tick, HomeLog, HomeHands, HomeCommands, Home!Dated
  <2>3. HomeTree'
    BY <1>0, <1>2 DEF Home!Tick, HomeTree, Home!Empty
  <2>4. Home!Dated'
    BY <1>0, <1>2 DEF Home!Tick, Home!Dated, HomeHands, HomeCommands, HomeTree
  <2>5. Home!OwnArchive'
    BY <1>0, <1>2 DEF Home!Tick, Home!OwnArchive, Home!Dated, HomeHands, HomeCommands, HomeLog
  <2>6. Home!Truncatable'
    BY <1>0, <1>2 DEF Home!Tick, Home!Truncatable, Home!OwnArchive, Home!CutUnderCopy, Home!Archived, Home!Dated, HomeHands, HomeCommands, HomeLog
  <2>7. Home!CutUnderCopy'
    BY <1>0, <1>2 DEF Home!Tick, Home!CutUnderCopy, HomeHands, HomeCommands, HomeLog
  <2>8. Home!PlansExpendable'
    BY <1>0, <1>2 DEF Home!Tick, Home!PlansExpendable, HomeHands, HomeCommands
  <2>9. HomeFiles'
    BY <1>0, <1>2 DEF Home!Tick, HomeFiles, HomeTree, Home!Empty
  <2>10. HomeLines'
    BY <1>0, <1>2 DEF Home!Tick, HomeLines, Home!Truncatable, Home!OwnArchive, Home!Archived, Home!Dated, HomeHands, HomeCommands, HomeLog
  <2>11. HomeDirs'
    BY <1>0, <1>2 DEF Home!Tick, HomeDirs, Home!PlansExpendable, HomeHands, HomeCommands
  <2> QED
    BY <2>1, <2>2, <2>3, <2>4, <2>5, <2>6, <2>7, <2>8, <2>9, <2>10, <2>11
<1>3. ASSUME NEW d \in Dirs, Home!MakeDir(d)
      PROVE  Goal
  <2>1. HomeHands'
    BY <1>0, <1>3 DEF Home!MakeDir, HomeHands, HomeCommands, HomePcs, HomeLog, HomeTree
  <2>2. HomeLog'
    BY <1>0, <1>3 DEF Home!MakeDir, HomeLog, HomeHands, HomeCommands, Home!Dated
  <2>3. HomeTree'
    BY <1>0, <1>3 DEF Home!MakeDir, HomeTree, Home!Empty
  <2>4. Home!Dated'
    BY <1>0, <1>3 DEF Home!MakeDir, Home!Dated, HomeHands, HomeCommands, HomeTree
  <2>5. Home!OwnArchive'
    BY <1>0, <1>3 DEF Home!MakeDir, Home!OwnArchive, Home!Dated, HomeHands, HomeCommands, HomeLog
  <2>6. Home!Truncatable'
    BY <1>0, <1>3 DEF Home!MakeDir, Home!Truncatable, Home!OwnArchive, Home!CutUnderCopy, Home!Archived, Home!Dated, HomeHands, HomeCommands, HomeLog
  <2>7. Home!CutUnderCopy'
    BY <1>0, <1>3 DEF Home!MakeDir, Home!CutUnderCopy, HomeHands, HomeCommands, HomeLog
  <2>8. Home!PlansExpendable'
    BY <1>0, <1>3 DEF Home!MakeDir, Home!PlansExpendable, HomeHands, HomeCommands
  <2>9. HomeFiles'
    BY <1>0, <1>3 DEF Home!MakeDir, HomeFiles, HomeTree, Home!Empty
  <2>10. HomeLines'
    BY <1>0, <1>3 DEF Home!MakeDir, HomeLines, Home!Truncatable, Home!OwnArchive, Home!Archived, Home!Dated, HomeHands, HomeCommands, HomeLog
  <2>11. HomeDirs'
    BY <1>0, <1>3 DEF Home!MakeDir, HomeDirs, Home!PlansExpendable, HomeHands, HomeCommands
  <2> QED
    BY <2>1, <2>2, <2>3, <2>4, <2>5, <2>6, <2>7, <2>8, <2>9, <2>10, <2>11
<1>4. ASSUME NEW d \in Dirs, Home!Fill(d)
      PROVE  Goal
  <2>1. HomeHands'
    BY <1>0, <1>4 DEF Home!Fill, HomeHands, HomeCommands, HomePcs, HomeLog, HomeTree
  <2>2. HomeLog'
    BY <1>0, <1>4 DEF Home!Fill, HomeLog, HomeHands, HomeCommands, Home!Dated
  <2>3. HomeTree'
    BY <1>0, <1>4 DEF Home!Fill, HomeTree, Home!Empty
  <2>4. Home!Dated'
    BY <1>0, <1>4 DEF Home!Fill, Home!Dated, HomeHands, HomeCommands, HomeTree
  <2>5. Home!OwnArchive'
    BY <1>0, <1>4 DEF Home!Fill, Home!OwnArchive, Home!Dated, HomeHands, HomeCommands, HomeLog
  <2>6. Home!Truncatable'
    BY <1>0, <1>4 DEF Home!Fill, Home!Truncatable, Home!OwnArchive, Home!CutUnderCopy, Home!Archived, Home!Dated, HomeHands, HomeCommands, HomeLog
  <2>7. Home!CutUnderCopy'
    BY <1>0, <1>4 DEF Home!Fill, Home!CutUnderCopy, HomeHands, HomeCommands, HomeLog
  <2>8. Home!PlansExpendable'
    BY <1>0, <1>4 DEF Home!Fill, Home!PlansExpendable, HomeHands, HomeCommands
  <2>9. HomeFiles'
    BY <1>0, <1>4 DEF Home!Fill, HomeFiles, HomeTree, Home!Empty
  <2>10. HomeLines'
    BY <1>0, <1>4 DEF Home!Fill, HomeLines, Home!Truncatable, Home!OwnArchive, Home!Archived, Home!Dated, HomeHands, HomeCommands, HomeLog
  <2>11. HomeDirs'
    BY <1>0, <1>4 DEF Home!Fill, HomeDirs, Home!PlansExpendable, HomeHands, HomeCommands
  <2> QED
    BY <2>1, <2>2, <2>3, <2>4, <2>5, <2>6, <2>7, <2>8, <2>9, <2>10, <2>11
<1>5. ASSUME NEW h \in Hands, Home!Plan(h)
      PROVE  Goal
  <2>1. HomeHands'
    <3> HIDE DEF Home!Idle, Home!Go
    <3>1. Home!Go(h, [Home!Idle EXCEPT !.pc = "create", !.stamp = v5]) /\ v2' = v2
      BY <1>5 DEF Home!Plan
    <3>2. v5 \in 0 .. MaxSeconds /\ "create" \in HomePcs
      BY <1>0 DEF HomeTree, HomePcs
    <3> QED
      BY <1>0, <3>1, <3>2, HandCommands, HandGoes
  <2>2. HomeLog'
    BY <1>0, <1>5 DEF Home!Plan, HomeLog, HomeHands, HomeCommands, Home!Dated
  <2>3. HomeTree'
    BY <1>0, <1>5 DEF Home!Plan, HomeTree, Home!Empty
  <2>4. Home!Dated'
    BY <1>0, <1>5 DEF Home!Plan, Home!Dated, HomeHands, HomeCommands, HomeTree
  <2>5. Home!OwnArchive'
    BY <1>0, <1>5 DEF Home!Plan, Home!OwnArchive, Home!Dated, HomeHands, HomeCommands, HomeLog
  <2>6. Home!Truncatable'
    BY <1>0, <1>5 DEF Home!Plan, Home!Truncatable, Home!OwnArchive, Home!CutUnderCopy, Home!Archived, Home!Dated, HomeHands, HomeCommands, HomeLog
  <2>7. Home!CutUnderCopy'
    BY <1>0, <1>5 DEF Home!Plan, Home!CutUnderCopy, HomeHands, HomeCommands, HomeLog
  <2>8. Home!PlansExpendable'
    BY <1>0, <1>5 DEF Home!Plan, Home!PlansExpendable, HomeHands, HomeCommands
  <2>9. HomeFiles'
    BY <1>0, <1>5 DEF Home!Plan, HomeFiles, HomeTree, Home!Empty
  <2>10. HomeLines'
    BY <1>0, <1>5 DEF Home!Plan, HomeLines, Home!Truncatable, Home!OwnArchive, Home!Archived, Home!Dated, HomeHands, HomeCommands, HomeLog
  <2>11. HomeDirs'
    BY <1>0, <1>5 DEF Home!Plan, HomeDirs, Home!PlansExpendable, HomeHands, HomeCommands
  <2> QED
    BY <2>1, <2>2, <2>3, <2>4, <2>5, <2>6, <2>7, <2>8, <2>9, <2>10, <2>11
<1>6. ASSUME NEW h \in Hands, Home!Create(h)
      PROVE  Goal
  <2>u. UNCHANGED <<v2, v5, v6, v7, v8, v9>>
    BY <1>6 DEF Home!Create
  <2>s. v4[h] \in HomeCommands /\ v3 \in [Home!Seconds -> [state : {"absent", "partial", "whole"}, lines : SUBSET (1 .. v2)]]
    BY <1>0 DEF HomeHands, HomeLog
  <2>1. CASE /\ v4[h].pc = "create" /\ v3[v4[h].stamp].state = "absent"
             /\ v3' = [v3 EXCEPT ![v4[h].stamp].state = "partial"]
             /\ Home!Go(h, [v4[h] EXCEPT !.pc = "read"]) /\ UNCHANGED <<v1, faults>>
    <3>h. /\ HomeHands' /\ v4'[h].pc = "read" /\ v4'[h].cut = v4[h].cut /\ v4'[h].stamp = v4[h].stamp
          /\ \A g \in Hands : g # h => v4'[g] = v4[g]
      <4>1. [v4[h] EXCEPT !.pc = "read"] \in HomeCommands
        BY <2>s, HandCommands DEF HomePcs
      <4>2. LET r == [v4[h] EXCEPT !.pc = "read"]
            IN r.pc = "read" /\ r.cut = v4[h].cut /\ r.stamp = v4[h].stamp
        BY <2>s DEF HomeCommands
      <4> HIDE DEF Home!Go
      <4> QED
        BY <1>0, <2>1, <2>u, <4>1, <4>2, HandGoes
    <3>1. HomeHands'
      BY <3>h
    <3>2. HomeLog'
      <4>1. v4[h].stamp \in Home!Seconds /\ v4[h].copied \in SUBSET (1 .. v2)
        BY <1>0, <2>1, <2>s DEF Home!Dated, HomeCommands
      <4>2. v3' \in [Home!Seconds -> [state : {"absent", "partial", "whole"}, lines : SUBSET (1 .. v2)]]
        BY <2>1, <2>s, <4>1
      <4> QED
        BY <1>0, <2>1, <2>u, <4>2 DEF HomeLog
    <3>3. HomeTree'
      BY <1>0, <2>1, <2>u, <2>s, <3>h DEF HomeTree
    <3>4. Home!Dated'
      BY <1>0, <2>1, <2>u, <2>s, <3>h DEF Home!Dated
    <3>5. Home!OwnArchive'
      BY <1>0, <2>1, <2>u, <2>s, <3>h DEF Home!OwnArchive, Home!Dated, HomeLog
    <3>6. Home!Truncatable'
      BY <1>0, <2>1, <2>u, <2>s, <3>h DEF Home!Truncatable, Home!OwnArchive, Home!CutUnderCopy, Home!Archived, Home!Dated, HomeLog
    <3>7. Home!CutUnderCopy'
      BY <1>0, <2>1, <2>u, <2>s, <3>h DEF Home!CutUnderCopy
    <3>8. Home!PlansExpendable'
      BY <1>0, <2>1, <2>u, <2>s, <3>h DEF Home!PlansExpendable
    <3>9. HomeFiles'
      BY <1>0, <2>1, <2>u, <2>s, <3>h DEF HomeFiles
    <3>10. HomeLines'
      BY <1>0, <2>1, <2>u, <2>s, <3>h DEF HomeLines, Home!Truncatable, Home!OwnArchive, Home!Archived, Home!Dated, HomeLog
    <3>11. HomeDirs'
      BY <1>0, <2>1, <2>u, <2>s, <3>h DEF HomeDirs
    <3> QED
      BY <3>1, <3>2, <3>3, <3>4, <3>5, <3>6, <3>7, <3>8, <3>9, <3>10, <3>11
  <2>2. CASE UNCHANGED <<v1, v3>> /\ Home!End(h) /\ (Home!Fine \/ Home!Fail)
    <3>h. /\ HomeHands' /\ v4'[h].pc = "idle" /\ v4'[h].cut = FALSE
          /\ \A g \in Hands : g # h => v4'[g] = v4[g]
      <4>1. Home!Idle \in HomeCommands /\ Home!Idle.pc = "idle" /\ Home!Idle.cut = FALSE
        BY HandCommands
      <4> HIDE DEF Home!Idle, Home!Go
      <4> QED
        BY <1>0, <2>2, <2>u, <4>1, HandGoes DEF Home!End
    <3>1. HomeHands'
      BY <3>h
    <3>2. HomeLog'
      BY <1>0, <2>2, <2>u, <2>s, <3>h DEF HomeLog, HomeHands, HomeCommands
    <3>3. HomeTree'
      BY <1>0, <2>2, <2>u, <2>s, <3>h DEF HomeTree
    <3>4. Home!Dated'
      BY <1>0, <2>2, <2>u, <2>s, <3>h DEF Home!Dated
    <3>5. Home!OwnArchive'
      BY <1>0, <2>2, <2>u, <2>s, <3>h DEF Home!OwnArchive, Home!Dated, HomeLog
    <3>6. Home!Truncatable'
      BY <1>0, <2>2, <2>u, <2>s, <3>h DEF Home!Truncatable, Home!OwnArchive, Home!CutUnderCopy, Home!Archived, Home!Dated, HomeLog
    <3>7. Home!CutUnderCopy'
      BY <1>0, <2>2, <2>u, <2>s, <3>h DEF Home!CutUnderCopy
    <3>8. Home!PlansExpendable'
      BY <1>0, <2>2, <2>u, <2>s, <3>h DEF Home!PlansExpendable
    <3>9. HomeFiles'
      BY <1>0, <2>2, <2>u, <2>s, <3>h DEF HomeFiles
    <3>10. HomeLines'
      BY <1>0, <2>2, <2>u, <2>s, <3>h DEF HomeLines, Home!Truncatable, Home!OwnArchive, Home!Archived, Home!Dated, HomeLog
    <3>11. HomeDirs'
      BY <1>0, <2>2, <2>u, <2>s, <3>h DEF HomeDirs
    <3> QED
      BY <3>1, <3>2, <3>3, <3>4, <3>5, <3>6, <3>7, <3>8, <3>9, <3>10, <3>11
  <2> QED
    BY <1>6, <2>1, <2>2 DEF Home!Create
<1>7. ASSUME NEW h \in Hands, Home!Read(h)
      PROVE  Goal
  <2>1. HomeHands'
    <3> HIDE DEF Home!Idle, Home!Go
    <3>1. Home!Go(h, [v4[h] EXCEPT !.copied = v1]) /\ v2' = v2
      BY <1>7 DEF Home!Read
    <3>2. [v4[h] EXCEPT !.copied = v1] \in HomeCommands
      BY <1>0, <1>7, HandCommands DEF HomeHands, HomeLog
    <3> QED
      BY <1>0, <3>1, <3>2, HandGoes
  <2>2. HomeLog'
    BY <1>0, <1>7 DEF Home!Read, HomeLog, HomeHands, HomeCommands, Home!Dated
  <2>3. HomeTree'
    BY <1>0, <1>7 DEF Home!Read, HomeTree, Home!Empty
  <2>4. Home!Dated'
    BY <1>0, <1>7 DEF Home!Read, Home!Dated, HomeHands, HomeCommands, HomeTree
  <2>5. Home!OwnArchive'
    BY <1>0, <1>7 DEF Home!Read, Home!OwnArchive, Home!Dated, HomeHands, HomeCommands, HomeLog
  <2>6. Home!Truncatable'
    BY <1>0, <1>7 DEF Home!Read, Home!Truncatable, Home!OwnArchive, Home!CutUnderCopy, Home!Archived, Home!Dated, HomeHands, HomeCommands, HomeLog
  <2>7. Home!CutUnderCopy'
    BY <1>0, <1>7 DEF Home!Read, Home!CutUnderCopy, HomeHands, HomeCommands, HomeLog
  <2>8. Home!PlansExpendable'
    BY <1>0, <1>7 DEF Home!Read, Home!PlansExpendable, HomeHands, HomeCommands
  <2>9. HomeFiles'
    BY <1>0, <1>7 DEF Home!Read, HomeFiles, HomeTree, Home!Empty
  <2>10. HomeLines'
    BY <1>0, <1>7 DEF Home!Read, HomeLines, Home!Truncatable, Home!OwnArchive, Home!Archived, Home!Dated, HomeHands, HomeCommands, HomeLog
  <2>11. HomeDirs'
    BY <1>0, <1>7 DEF Home!Read, HomeDirs, Home!PlansExpendable, HomeHands, HomeCommands
  <2> QED
    BY <2>1, <2>2, <2>3, <2>4, <2>5, <2>6, <2>7, <2>8, <2>9, <2>10, <2>11
<1>8. ASSUME NEW h \in Hands, Home!WriteGzip(h)
      PROVE  Goal
  <2>u. UNCHANGED <<v2, v5, v6, v7, v8, v9>>
    BY <1>8 DEF Home!WriteGzip
  <2>s. v4[h] \in HomeCommands /\ v3 \in [Home!Seconds -> [state : {"absent", "partial", "whole"}, lines : SUBSET (1 .. v2)]]
    BY <1>0 DEF HomeHands, HomeLog
  <2>1. CASE /\ v4[h].pc = "read" /\ (v4[h].cut \/ v4[h].copied = v1)
             /\ v3' = [v3 EXCEPT ![v4[h].stamp] = [state |-> "whole", lines |-> v4[h].copied]]
             /\ Home!Go(h, [v4[h] EXCEPT !.pc = "truncate", !.cut = FALSE]) /\ UNCHANGED <<v1, faults>>
    <3>h. /\ HomeHands' /\ v4'[h].pc = "truncate" /\ v4'[h].cut = FALSE /\ v4'[h].stamp = v4[h].stamp
          /\ \A g \in Hands : g # h => v4'[g] = v4[g]
      <4>1. [v4[h] EXCEPT !.pc = "truncate", !.cut = FALSE] \in HomeCommands
        BY <2>s, HandCommands DEF HomePcs
      <4>2. LET r == [v4[h] EXCEPT !.pc = "truncate", !.cut = FALSE]
            IN r.pc = "truncate" /\ r.cut = FALSE /\ r.stamp = v4[h].stamp
        BY <2>s DEF HomeCommands
      <4> HIDE DEF Home!Go
      <4> QED
        BY <1>0, <2>1, <2>u, <4>1, <4>2, HandGoes
    <3>1. HomeHands'
      BY <3>h
    <3>2. HomeLog'
      <4>1. v4[h].stamp \in Home!Seconds /\ v4[h].copied \in SUBSET (1 .. v2)
        BY <1>0, <2>1, <2>s DEF Home!Dated, HomeCommands
      <4>2. v3' \in [Home!Seconds -> [state : {"absent", "partial", "whole"}, lines : SUBSET (1 .. v2)]]
        BY <2>1, <2>s, <4>1
      <4> QED
        BY <1>0, <2>1, <2>u, <4>2 DEF HomeLog
    <3>3. HomeTree'
      BY <1>0, <2>1, <2>u, <2>s, <3>h DEF HomeTree
    <3>4. Home!Dated'
      BY <1>0, <2>1, <2>u, <2>s, <3>h DEF Home!Dated
    <3>5. Home!OwnArchive'
      BY <1>0, <2>1, <2>u, <2>s, <3>h DEF Home!OwnArchive, Home!Dated, HomeLog
    <3>6. Home!Truncatable'
      BY <1>0, <2>1, <2>u, <2>s, <3>h DEF Home!Truncatable, Home!OwnArchive, Home!CutUnderCopy, Home!Archived, Home!Dated, HomeLog
    <3>7. Home!CutUnderCopy'
      BY <1>0, <2>1, <2>u, <2>s, <3>h DEF Home!CutUnderCopy
    <3>8. Home!PlansExpendable'
      BY <1>0, <2>1, <2>u, <2>s, <3>h DEF Home!PlansExpendable
    <3>9. HomeFiles'
      BY <1>0, <2>1, <2>u, <2>s, <3>h DEF HomeFiles
    <3>10. HomeLines'
      BY <1>0, <2>1, <2>u, <2>s, <3>h DEF HomeLines, Home!Truncatable, Home!OwnArchive, Home!Archived, Home!Dated, HomeLog
    <3>11. HomeDirs'
      BY <1>0, <2>1, <2>u, <2>s, <3>h DEF HomeDirs
    <3> QED
      BY <3>1, <3>2, <3>3, <3>4, <3>5, <3>6, <3>7, <3>8, <3>9, <3>10, <3>11
  <2>2. CASE /\ v4[h].pc = "read" /\ v3' \in {v3, [v3 EXCEPT ![v4[h].stamp] = Home!Absent]}
             /\ Home!End(h) /\ v1' = v1 /\ (Home!Fine \/ Home!Fail)
    <3>h. /\ HomeHands' /\ v4'[h].pc = "idle" /\ v4'[h].cut = FALSE
          /\ \A g \in Hands : g # h => v4'[g] = v4[g]
      <4>1. Home!Idle \in HomeCommands /\ Home!Idle.pc = "idle" /\ Home!Idle.cut = FALSE
        BY HandCommands
      <4> HIDE DEF Home!Idle, Home!Go
      <4> QED
        BY <1>0, <2>2, <2>u, <4>1, HandGoes DEF Home!End
    <3>1. HomeHands'
      BY <3>h
    <3>2. HomeLog'
      <4>1. v4[h].stamp \in Home!Seconds /\ v4[h].copied \in SUBSET (1 .. v2)
        BY <1>0, <2>2, <2>s DEF Home!Dated, HomeCommands
      <4>2. v3' \in [Home!Seconds -> [state : {"absent", "partial", "whole"}, lines : SUBSET (1 .. v2)]]
        BY <2>2, <2>s, <4>1
      <4> QED
        BY <1>0, <2>2, <2>u, <4>2 DEF HomeLog
    <3>3. HomeTree'
      BY <1>0, <2>2, <2>u, <2>s, <3>h DEF HomeTree
    <3>4. Home!Dated'
      BY <1>0, <2>2, <2>u, <2>s, <3>h DEF Home!Dated
    <3>5. Home!OwnArchive'
      BY <1>0, <2>2, <2>u, <2>s, <3>h DEF Home!OwnArchive, Home!Dated, HomeLog
    <3>6. Home!Truncatable'
      BY <1>0, <2>2, <2>u, <2>s, <3>h DEF Home!Truncatable, Home!OwnArchive, Home!CutUnderCopy, Home!Archived, Home!Dated, HomeLog
    <3>7. Home!CutUnderCopy'
      BY <1>0, <2>2, <2>u, <2>s, <3>h DEF Home!CutUnderCopy
    <3>8. Home!PlansExpendable'
      BY <1>0, <2>2, <2>u, <2>s, <3>h DEF Home!PlansExpendable
    <3>9. HomeFiles'
      BY <1>0, <2>2, <2>u, <2>s, <3>h DEF HomeFiles
    <3>10. HomeLines'
      BY <1>0, <2>2, <2>u, <2>s, <3>h DEF HomeLines, Home!Truncatable, Home!OwnArchive, Home!Archived, Home!Dated, HomeLog
    <3>11. HomeDirs'
      BY <1>0, <2>2, <2>u, <2>s, <3>h DEF HomeDirs
    <3> QED
      BY <3>1, <3>2, <3>3, <3>4, <3>5, <3>6, <3>7, <3>8, <3>9, <3>10, <3>11
  <2> QED
    BY <1>8, <2>1, <2>2 DEF Home!WriteGzip
<1>9. ASSUME NEW h \in Hands, Home!Truncate(h)
      PROVE  Goal
  <2>u. UNCHANGED <<v2, v5, v6, v7, v8, v9>>
    BY <1>9 DEF Home!Truncate
  <2>s. v4[h] \in HomeCommands /\ v3 \in [Home!Seconds -> [state : {"absent", "partial", "whole"}, lines : SUBSET (1 .. v2)]]
    BY <1>0 DEF HomeHands, HomeLog
  <2>1. CASE /\ v4[h].pc = "truncate" /\ v1' = {} /\ UNCHANGED <<v3, faults>>
             /\ v4' = [g \in Hands |-> IF g = h THEN Home!Idle
                                      ELSE [v4[g] EXCEPT !.cut = @ \/ Home!Cut(v4[g])]]
    <3>h. /\ HomeHands'
          /\ \A g \in Hands : /\ v4'[g].cut => v4'[g].pc = "read"
                              /\ v4'[g].pc # "idle" => g # h /\ v4'[g].pc = v4[g].pc /\ v4'[g].stamp = v4[g].stamp /\ v4'[g].plan = v4[g].plan
      <4> DEFINE Recut(r) == [r EXCEPT !.cut = @ \/ Home!Cut(r)]
      <4>1. \A r \in HomeCommands :
              /\ Recut(r) \in HomeCommands /\ (Recut(r).cut => r.cut \/ Home!Cut(r))
              /\ Recut(r).pc = r.pc /\ Recut(r).stamp = r.stamp /\ Recut(r).plan = r.plan
        BY DEF HomeCommands, Home!Cut
      <4>2. \A r \in HomeCommands : Home!Cut(r) => r.pc = "read"
        BY DEF Home!Cut
      <4>3. \A g \in Hands : v4[g] \in HomeCommands /\ (v4[g].cut => v4[g].pc = "read")
        BY <1>0 DEF HomeHands, Home!CutUnderCopy
      <4>4. Home!Idle \in HomeCommands /\ Home!Idle.pc = "idle" /\ ~Home!Idle.cut
        BY HandCommands
      <4>5. v4' = [g \in Hands |-> IF g = h THEN Home!Idle ELSE Recut(v4[g])]
        BY <2>1
      <4> HIDE DEF Recut, Home!Idle
      <4>6. HomeCommands' = HomeCommands
        BY <2>u DEF HomeCommands
      <4>7. \A g \in Hands : v4'[g] \in HomeCommands /\ (v4'[g].cut => v4'[g].pc = "read")
        <5> TAKE g \in Hands
        <5>1. CASE g = h
          <6>1. v4'[g] = Home!Idle
            BY <4>5, <5>1
          <6> QED
            BY <6>1, <4>4
        <5>2. CASE g # h
          <6>1. v4'[g] = Recut(v4[g])
            BY <4>5, <5>2
          <6>2. Recut(v4[g]) \in HomeCommands /\ (Recut(v4[g]).cut => v4[g].cut \/ Home!Cut(v4[g]))
            BY <4>1, <4>3
          <6>3. Recut(v4[g]).pc = v4[g].pc
            BY <4>1, <4>3
          <6> QED
            BY <6>1, <6>2, <6>3, <4>2, <4>3
        <5> QED
          BY <5>1, <5>2
      <4>8. HomeHands'
        BY <4>5, <4>6, <4>7 DEF HomeHands
      <4> QED
        BY <4>1, <4>3, <4>4, <4>5, <4>7, <4>8
    <3>1. HomeHands'
      BY <3>h
    <3>2. HomeLog'
      BY <1>0, <2>1, <2>u, <2>s, <3>h DEF HomeLog, HomeHands, HomeCommands
    <3>3. HomeTree'
      BY <1>0, <2>1, <2>u, <2>s, <3>h DEF HomeTree
    <3>4. Home!Dated'
      BY <1>0, <2>1, <2>u, <2>s, <3>h DEF Home!Dated
    <3>5. Home!OwnArchive'
      BY <1>0, <2>1, <2>u, <2>s, <3>h DEF Home!OwnArchive, Home!Dated, HomeLog
    <3>6. Home!Truncatable'
      BY <1>0, <2>1, <2>u, <2>s, <3>h DEF Home!Truncatable, Home!OwnArchive, Home!CutUnderCopy, Home!Archived, Home!Dated, HomeLog
    <3>7. Home!CutUnderCopy'
      BY <1>0, <2>1, <2>u, <2>s, <3>h DEF Home!CutUnderCopy
    <3>8. Home!PlansExpendable'
      BY <1>0, <2>1, <2>u, <2>s, <3>h DEF Home!PlansExpendable
    <3>9. HomeFiles'
      BY <1>0, <2>1, <2>u, <2>s, <3>h DEF HomeFiles
    <3>10. HomeLines'
      BY <1>0, <2>1, <2>u, <2>s, <3>h DEF HomeLines, Home!Truncatable, Home!OwnArchive, Home!Archived, Home!Dated, HomeLog
    <3>11. HomeDirs'
      BY <1>0, <2>1, <2>u, <2>s, <3>h DEF HomeDirs
    <3> QED
      BY <3>1, <3>2, <3>3, <3>4, <3>5, <3>6, <3>7, <3>8, <3>9, <3>10, <3>11
  <2>2. CASE /\ v4[h].pc = "truncate" /\ UNCHANGED <<v1, v3>>
             /\ Home!End(h) /\ (Home!Fine \/ Home!Fail)
    <3>h. /\ HomeHands' /\ v4'[h].pc = "idle" /\ v4'[h].cut = FALSE
          /\ \A g \in Hands : g # h => v4'[g] = v4[g]
      <4>1. Home!Idle \in HomeCommands /\ Home!Idle.pc = "idle" /\ Home!Idle.cut = FALSE
        BY HandCommands
      <4> HIDE DEF Home!Idle, Home!Go
      <4> QED
        BY <1>0, <2>2, <2>u, <4>1, HandGoes DEF Home!End
    <3>1. HomeHands'
      BY <3>h
    <3>2. HomeLog'
      BY <1>0, <2>2, <2>u, <2>s, <3>h DEF HomeLog, HomeHands, HomeCommands
    <3>3. HomeTree'
      BY <1>0, <2>2, <2>u, <2>s, <3>h DEF HomeTree
    <3>4. Home!Dated'
      BY <1>0, <2>2, <2>u, <2>s, <3>h DEF Home!Dated
    <3>5. Home!OwnArchive'
      BY <1>0, <2>2, <2>u, <2>s, <3>h DEF Home!OwnArchive, Home!Dated, HomeLog
    <3>6. Home!Truncatable'
      BY <1>0, <2>2, <2>u, <2>s, <3>h DEF Home!Truncatable, Home!OwnArchive, Home!CutUnderCopy, Home!Archived, Home!Dated, HomeLog
    <3>7. Home!CutUnderCopy'
      BY <1>0, <2>2, <2>u, <2>s, <3>h DEF Home!CutUnderCopy
    <3>8. Home!PlansExpendable'
      BY <1>0, <2>2, <2>u, <2>s, <3>h DEF Home!PlansExpendable
    <3>9. HomeFiles'
      BY <1>0, <2>2, <2>u, <2>s, <3>h DEF HomeFiles
    <3>10. HomeLines'
      BY <1>0, <2>2, <2>u, <2>s, <3>h DEF HomeLines, Home!Truncatable, Home!OwnArchive, Home!Archived, Home!Dated, HomeLog
    <3>11. HomeDirs'
      BY <1>0, <2>2, <2>u, <2>s, <3>h DEF HomeDirs
    <3> QED
      BY <3>1, <3>2, <3>3, <3>4, <3>5, <3>6, <3>7, <3>8, <3>9, <3>10, <3>11
  <2> QED
    BY <1>9, <2>1, <2>2 DEF Home!Truncate
<1>10. ASSUME NEW h \in Hands, Home!ScanDirs(h)
      PROVE  Goal
  <2>1. HomeHands'
    <3> HIDE DEF Home!Idle, Home!Go
    <3>1. Home!Go(h, [Home!Idle EXCEPT !.pc = "prune", !.plan = Home!PlanPrune(Home!EmptyDirs)]) /\ v2' = v2
      BY <1>10 DEF Home!ScanDirs
    <3>2. Home!PlanPrune(Home!EmptyDirs) \in SUBSET Dirs
      BY <1>0 DEF Home!PlanPrune, Home!EmptyDirs, Home!Walked, HomeTree
    <3> QED
      BY <1>0, <3>1, <3>2, HandCommands, HandGoes DEF HomePcs
  <2>2. HomeLog'
    BY <1>0, <1>10 DEF Home!ScanDirs, HomeLog, HomeHands, HomeCommands, Home!Dated
  <2>3. HomeTree'
    BY <1>0, <1>10 DEF Home!ScanDirs, HomeTree, Home!Empty
  <2>4. Home!Dated'
    BY <1>0, <1>10 DEF Home!ScanDirs, Home!Dated, HomeHands, HomeCommands, HomeTree
  <2>5. Home!OwnArchive'
    BY <1>0, <1>10 DEF Home!ScanDirs, Home!OwnArchive, Home!Dated, HomeHands, HomeCommands, HomeLog
  <2>6. Home!Truncatable'
    BY <1>0, <1>10 DEF Home!ScanDirs, Home!Truncatable, Home!OwnArchive, Home!CutUnderCopy, Home!Archived, Home!Dated, HomeHands, HomeCommands, HomeLog
  <2>7. Home!CutUnderCopy'
    BY <1>0, <1>10 DEF Home!ScanDirs, Home!CutUnderCopy, HomeHands, HomeCommands, HomeLog
  <2>8. Home!PlansExpendable'
    <3>1. \A d \in Home!PlanPrune(Home!EmptyDirs) : Home!Expendable(d)
      BY DEF Home!PlanPrune, Home!EmptyDirs, Home!Walked, Home!Expendable
    <3> QED
      BY <1>0, <1>10, <3>1 DEF Home!ScanDirs, Home!PlansExpendable, HomeHands, HomeCommands
  <2>9. HomeFiles'
    BY <1>0, <1>10 DEF Home!ScanDirs, HomeFiles, HomeTree, Home!Empty
  <2>10. HomeLines'
    BY <1>0, <1>10 DEF Home!ScanDirs, HomeLines, Home!Truncatable, Home!OwnArchive, Home!Archived, Home!Dated, HomeHands, HomeCommands, HomeLog
  <2>11. HomeDirs'
    BY <1>0, <1>10 DEF Home!ScanDirs, HomeDirs, Home!PlansExpendable, HomeHands, HomeCommands
  <2> QED
    BY <2>1, <2>2, <2>3, <2>4, <2>5, <2>6, <2>7, <2>8, <2>9, <2>10, <2>11
<1>11. ASSUME NEW h \in Hands, Home!Prune(h)
      PROVE  Goal
  <2>1. HomeHands'
    <3> HIDE DEF Home!Idle, Home!Go
    <3>1. PICK d \in v4[h].plan : Home!Go(h, IF v4[h].plan = {d} THEN Home!Idle ELSE [v4[h] EXCEPT !.plan = @ \ {d}])
      BY <1>11 DEF Home!Prune
    <3>2. v4[h] \in HomeCommands /\ v4[h].plan \ {d} \in SUBSET Dirs /\ v2' = v2
      BY <1>0, <1>11 DEF HomeHands, HomeCommands, Home!Prune
    <3> QED
      BY <1>0, <3>1, <3>2, HandCommands, HandGoes
  <2>2. HomeLog'
    BY <1>0, <1>11 DEF Home!Prune, HomeLog, HomeHands, HomeCommands, Home!Dated
  <2>3. HomeTree'
    BY <1>0, <1>11 DEF Home!Prune, HomeTree, Home!Empty
  <2>4. Home!Dated'
    BY <1>0, <1>11 DEF Home!Prune, Home!Dated, HomeHands, HomeCommands, HomeTree
  <2>5. Home!OwnArchive'
    BY <1>0, <1>11 DEF Home!Prune, Home!OwnArchive, Home!Dated, HomeHands, HomeCommands, HomeLog
  <2>6. Home!Truncatable'
    BY <1>0, <1>11 DEF Home!Prune, Home!Truncatable, Home!OwnArchive, Home!CutUnderCopy, Home!Archived, Home!Dated, HomeHands, HomeCommands, HomeLog
  <2>7. Home!CutUnderCopy'
    BY <1>0, <1>11 DEF Home!Prune, Home!CutUnderCopy, HomeHands, HomeCommands, HomeLog
  <2>8. Home!PlansExpendable'
    BY <1>0, <1>11 DEF Home!Prune, Home!PlansExpendable, HomeHands, HomeCommands
  <2>9. HomeFiles'
    BY <1>0, <1>11 DEF Home!Prune, HomeFiles, HomeTree, Home!Empty
  <2>10. HomeLines'
    BY <1>0, <1>11 DEF Home!Prune, HomeLines, Home!Truncatable, Home!OwnArchive, Home!Archived, Home!Dated, HomeHands, HomeCommands, HomeLog
  <2>11. HomeDirs'
    BY <1>0, <1>11 DEF Home!Prune, HomeDirs, Home!PlansExpendable, HomeHands, HomeCommands
  <2> QED
    BY <2>1, <2>2, <2>3, <2>4, <2>5, <2>6, <2>7, <2>8, <2>9, <2>10, <2>11
<1>12. ASSUME NEW h \in Hands, Home!Killed(h)
      PROVE  Goal
  <2>1. HomeHands'
    BY <1>0, <1>12 DEF Home!Killed, HomeHands, HomeCommands, HomePcs, HomeLog, HomeTree
  <2>2. HomeLog'
    BY <1>0, <1>12 DEF Home!Killed, HomeLog, HomeHands, HomeCommands, Home!Dated
  <2>3. HomeTree'
    BY <1>0, <1>12 DEF Home!Killed, HomeTree, Home!Empty
  <2>4. Home!Dated'
    BY <1>0, <1>12 DEF Home!Killed, Home!Dated, HomeHands, HomeCommands, HomeTree
  <2>5. Home!OwnArchive'
    BY <1>0, <1>12 DEF Home!Killed, Home!OwnArchive, Home!Dated, HomeHands, HomeCommands, HomeLog
  <2>6. Home!Truncatable'
    BY <1>0, <1>12 DEF Home!Killed, Home!Truncatable, Home!OwnArchive, Home!CutUnderCopy, Home!Archived, Home!Dated, HomeHands, HomeCommands, HomeLog
  <2>7. Home!CutUnderCopy'
    BY <1>0, <1>12 DEF Home!Killed, Home!CutUnderCopy, HomeHands, HomeCommands, HomeLog
  <2>8. Home!PlansExpendable'
    BY <1>0, <1>12 DEF Home!Killed, Home!PlansExpendable, HomeHands, HomeCommands
  <2>9. HomeFiles'
    BY <1>0, <1>12 DEF Home!Killed, HomeFiles, HomeTree, Home!Empty
  <2>10. HomeLines'
    BY <1>0, <1>12 DEF Home!Killed, HomeLines, Home!Truncatable, Home!OwnArchive, Home!Archived, Home!Dated, HomeHands, HomeCommands, HomeLog
  <2>11. HomeDirs'
    BY <1>0, <1>12 DEF Home!Killed, HomeDirs, Home!PlansExpendable, HomeHands, HomeCommands
  <2> QED
    BY <2>1, <2>2, <2>3, <2>4, <2>5, <2>6, <2>7, <2>8, <2>9, <2>10, <2>11
<1> QED
  BY <1>1, <1>2, <1>3, <1>4, <1>5, <1>6, <1>7, <1>8, <1>9, <1>10, <1>11, <1>12 DEF Home!Next, Home!IInv, Home!TypeOK, Home!NothingOfValueGoes, HomeHands, HomeCommands, HomePcs, HomeLog, HomeTree, HomeFiles, HomeLines, HomeDirs

LEMMA HomeRests == Home!IInv /\ UNCHANGED Home!vars => Home!IInv'
BY DEF Home!vars, Home!IInv, Home!TypeOK, Home!Dated, Home!OwnArchive, Home!Truncatable, Home!CutUnderCopy, Home!PlansExpendable, Home!NothingOfValueGoes, Home!Archived, Home!At

LEMMA HomeHolds == Spec => [](part = "home" => Home!IInv)
<1> DEFINE Kept == part = "home" => Home!IInv
<1>1. Init => Kept
  BY HomeStarts DEF Init
<1>2. Kept /\ [Next]_vars => Kept'
  BY HomeNext, HomeRests DEF Next, vars, Home!vars
<1> QED
  BY <1>1, <1>2, PTL DEF Spec

\* Hygiene costs no line a daemon wrote, no file and no directory that is
\* protected, declared or another tool's, for every home and however many
\* commands and daemons are at work (internal/maintenance).
THEOREM NothingOfValueEverGoes == Spec => []NothingOfValueGoes
<1>1. (part = "home" => Home!IInv) => NothingOfValueGoes
  BY DEF NothingOfValueGoes, Home!IInv
<1> QED
  BY <1>1, HomeHolds, PTL

-----------------------------------------------------------------------------
(* Runbooks.                                                               *)

Ran == INSTANCE RunbookEngineProofs WITH print <- v1, tree <- v2, core <- v3, changes <- v4,
          cmd <- v5, seen <- v6, Commands <- Operators, Step <- Declared

LEMMA SameEngineInit == Engine!Init <=> Ran!Init
BY DEF Engine!Init, Ran!Init, Engine!NoPrint, Ran!NoPrint, Engine!LegacyPrint, Ran!LegacyPrint,
   Engine!Idle, Ran!Idle, Engine!StepIds, Ran!StepIds, Engine!StartPrint, Ran!StartPrint,
   Engine!Undone, Ran!Undone, Engine!Fingerprint, Ran!Fingerprint, Engine!CleanCommit,
   Ran!CleanCommit

LEMMA SameEngineNext == Engine!Next <=> Ran!Next
BY DEF Engine!Next, Ran!Next, Engine!Start, Ran!Start, Engine!Load, Ran!Load, Engine!Apply,
   Ran!Apply, Engine!StepIds, Ran!StepIds, Engine!StepComplete, Ran!StepComplete, Engine!Deny,
   Ran!Deny, Engine!Cancel, Ran!Cancel, Engine!RequireExecuted, Ran!RequireExecuted, Engine!Kill,
   Ran!Kill, Engine!Refused, Ran!Refused, Engine!ChangeTree, Ran!ChangeTree, Engine!ChangeCore,
   Ran!ChangeCore, Engine!NoPrint, Ran!NoPrint, Engine!StartPrint, Ran!StartPrint, Engine!At,
   Ran!At, Engine!Turn, Ran!Turn, Engine!Idle, Ran!Idle, Engine!ApplyObserve, Ran!ApplyObserve,
   Engine!ApplyOpen, Ran!ApplyOpen, Engine!Pause, Ran!Pause, Engine!RunStep, Ran!RunStep,
   Engine!EndStep, Ran!EndStep, Engine!AuditStep, Ran!AuditStep, Engine!Record, Ran!Record,
   Engine!Complete, Ran!Complete, Engine!Finished, Ran!Finished, Engine!Save, Ran!Save,
   Engine!Signed, Ran!Signed, Engine!RanForReal, Ran!RanForReal, Engine!Drifted, Ran!Drifted,
   Engine!EditionHolds, Ran!EditionHolds, Engine!ObserveDrift, Ran!ObserveDrift, Engine!runbookVars,
   Ran!runbookVars, Engine!Trees, Ran!Trees, Engine!Cores, Ran!Cores, Engine!Undone, Ran!Undone,
   Engine!Fingerprint, Ran!Fingerprint, Engine!CleanCommit, Ran!CleanCommit,
   Engine!InvalidateProvenance, Ran!InvalidateProvenance, Engine!Goto, Ran!Goto, Engine!Failed,
   Ran!Failed, Engine!CompletedOutputs, Ran!CompletedOutputs, Engine!AllOver, Ran!AllOver,
   Engine!AwaitsSignoff, Ran!AwaitsSignoff, Engine!Current, Ran!Current, Engine!Paused, Ran!Paused,
   Engine!Begun, Ran!Begun, Engine!Executes, Ran!Executes, Engine!Outcomes, Ran!Outcomes,
   Engine!WithStep, Ran!WithStep, Engine!Commits, Ran!Commits, Engine!StepOver, Ran!StepOver,
   Engine!Renders, Ran!Renders

LEMMA SameEngineType == Engine!TypeOK <=> Ran!TypeOK
BY DEF Engine!TypeOK, Ran!TypeOK, Engine!Prints, Ran!Prints, Engine!NoPrint, Ran!NoPrint,
   Engine!Trees, Ran!Trees, Engine!Cores, Ran!Cores, Engine!StepIds, Ran!StepIds, Engine!Commits,
   Ran!Commits

LEMMA SameEngineAssumption == Ran!RunbookAssumption
BY ConstantsAssumption DEF Engine!RunbookAssumption, Ran!RunbookAssumption, Engine!StepIds, Ran!StepIds

LEMMA EngineHolds == Spec => [](part = "runbook" => Ran!IInv)
<1> DEFINE Kept == part = "runbook" => Ran!IInv
<1>1. Init => Kept
  <2> SUFFICES ASSUME Init, part = "runbook" PROVE Ran!IInv
    OBVIOUS
  <2>1. Engine!Init
    BY DEF Init
  <2> QED
    BY <2>1, SameEngineInit, SameEngineAssumption, Ran!InitIInv
<1>2. Kept /\ [Next]_vars => Kept'
  <2> SUFFICES ASSUME Kept, [Next]_vars, part' = "runbook" PROVE Ran!IInv'
    OBVIOUS
  <2>1. part = "runbook" /\ Ran!IInv
    BY DEF Next, vars
  <2>2. Engine!Next \/ UNCHANGED Ran!runbookVars
    BY <2>1 DEF Next, vars, Ran!runbookVars
  <2>3. [Ran!Next]_(Ran!runbookVars)
    BY <2>2, SameEngineNext
  <2> QED
    BY <2>1, <2>3, SameEngineAssumption, Ran!NextKeeps
<1> QED
  BY <1>1, <1>2, PTL DEF Spec

LEMMA LoneEngineHolds ==
    ASSUME NEW p, Operators = {p}
    PROVE  Spec => [](part = "runbook" => Ran!LoneIInv)
<1> DEFINE Kept == part = "runbook" => Ran!LoneIInv
<1>1. Init => Kept
  <2> SUFFICES ASSUME Init, part = "runbook" PROVE Ran!LoneIInv
    OBVIOUS
  <2>1. Ran!Init
    BY SameEngineInit DEF Init
  <2>2. Ran!IInv /\ \A o \in Operators : Ran!Word(v1, v5[o], v6, faults)
    BY <2>1, SameEngineAssumption, Ran!InitIInv, Ran!InitWord
  <2> QED
    BY <2>2 DEF Ran!LoneIInv
<1>2. Kept /\ [Next]_vars => Kept'
  <2> SUFFICES ASSUME Kept, [Next]_vars, part' = "runbook" PROVE Ran!LoneIInv'
    OBVIOUS
  <2>1. part = "runbook" /\ Ran!LoneIInv
    BY DEF Next, vars
  <2>2. Engine!Next \/ UNCHANGED Ran!runbookVars
    BY <2>1 DEF Next, vars, Ran!runbookVars
  <2>3. [Ran!Next]_(Ran!runbookVars)
    BY <2>2, SameEngineNext
  <2> QED
    BY <2>1, <2>3, SameEngineAssumption, Ran!LoneNextKeeps
<1> QED
  BY <1>1, <1>2, PTL DEF Spec

LEMMA SameReceipt == Engine!Accepts(v1) <=> Ran!Accepts(v1)
BY DEF Engine!Accepts, Ran!Accepts, Engine!NoPrint, Ran!NoPrint, Engine!RanForReal, Ran!RanForReal,
   Engine!Drifted, Ran!Drifted, Engine!CleanCommit, Ran!CleanCommit, Engine!EditionHolds,
   Ran!EditionHolds, Engine!Fingerprint, Ran!Fingerprint, Engine!StepsExecuted, Ran!StepsExecuted,
   Engine!StepIds, Ran!StepIds

\* What the invariant says of the state.
LEMMA EngineWord ==
    ASSUME NEW p, Operators = {p}, Ran!LoneIInv
    PROVE  /\ Engine!UnsignedNeverRuns /\ Engine!ReceiptMeansRan /\ Engine!ReceiptBindsCommit
           /\ Engine!ObservedDriftVoids /\ Engine!RunsOnlyOnce /\ Engine!CompletedIsAudited
           /\ Engine!OutputsSurviveThePause
<1>0. Ran!IInv
  BY DEF Ran!LoneIInv
<1>1. /\ Ran!UnsignedNeverRuns /\ Ran!ReceiptMeansRan /\ Ran!CompletedIsAudited
      /\ Ran!OutputsSurviveThePause
  BY <1>0, SameEngineAssumption, Ran!InvariantWord
<1>2. Ran!ReceiptBindsCommit /\ Ran!ObservedDriftVoids /\ Ran!RunsOnlyOnce
  BY Ran!WordBinds
<1>3. Engine!UnsignedNeverRuns
  BY <1>1 DEF Ran!UnsignedNeverRuns, Engine!UnsignedNeverRuns, Ran!StepIds, Engine!StepIds
<1>4. Engine!ReceiptMeansRan
  BY <1>1, SameReceipt DEF Ran!ReceiptMeansRan, Engine!ReceiptMeansRan, Ran!StepIds, Engine!StepIds
<1>5. Engine!ReceiptBindsCommit
  BY <1>2, SameReceipt DEF Ran!ReceiptBindsCommit, Engine!ReceiptBindsCommit, Ran!StepIds, Engine!StepIds
<1>6. Engine!ObservedDriftVoids
  BY <1>2, SameReceipt DEF Ran!ObservedDriftVoids, Engine!ObservedDriftVoids
<1>7. Engine!RunsOnlyOnce
  BY <1>2 DEF Ran!RunsOnlyOnce, Engine!RunsOnlyOnce, Ran!StepIds, Engine!StepIds
<1>8. Engine!CompletedIsAudited
  BY <1>1 DEF Ran!CompletedIsAudited, Engine!CompletedIsAudited, Ran!StepIds, Engine!StepIds,
     Ran!NoPrint, Engine!NoPrint
<1>9. Engine!OutputsSurviveThePause
  BY <1>1 DEF Ran!OutputsSurviveThePause, Engine!OutputsSurviveThePause, Ran!At, Engine!At,
     Ran!Current, Engine!Current, Ran!StepIds, Engine!StepIds, Ran!StepOver, Engine!StepOver
<1> QED
  BY <1>3, <1>4, <1>5, <1>6, <1>7, <1>8, <1>9

\* Of runbook commands that come one after the other, for every edition and with
\* any number of kills and failed saves: no step that needs a sign-off runs without
\* its own, a receipt means that every step ran, audited, at the commit it names
\* with no drift seen, a step runs again only for a fault and has the outputs of
\* those before it, and what is over stays over (internal/runbook).  Commands that
\* overlap keep only a part of this word.
THEOREM RunbookAlwaysKeepsItsWord ==
    ASSUME NEW p, Operators = {p}
    PROVE  Spec => RunbookKeepsItsWord
<1> DEFINE Kept == part = "runbook" => Ran!LoneIInv
           Says == /\ Engine!UnsignedNeverRuns /\ Engine!ReceiptMeansRan /\ Engine!ReceiptBindsCommit
                   /\ Engine!ObservedDriftVoids /\ Engine!RunsOnlyOnce /\ Engine!CompletedIsAudited
                   /\ Engine!OutputsSurviveThePause
           Said == part = "runbook" => Says
<1>1. Spec => []Kept
  BY LoneEngineHolds
<1>2. Kept => Said
  BY EngineWord
<1>3. Kept' => Said'
  BY <1>2, PTL
<1>4. /\ Kept /\ Kept' /\ [Next]_vars
      => [part = "runbook" =>
           /\ (/\ Engine!UnsignedNeverRuns /\ Engine!ReceiptMeansRan /\ Engine!ReceiptBindsCommit
               /\ Engine!ObservedDriftVoids /\ Engine!RunsOnlyOnce /\ Engine!CompletedIsAudited
               /\ Engine!OutputsSurviveThePause)'
           /\ Engine!StaysFinished]_vars
  <2> SUFFICES ASSUME Kept, Kept', Next, part = "runbook" PROVE Says' /\ Engine!StaysFinished
    OBVIOUS
  <2>1. part' = "runbook"
    BY DEF Next
  <2>2. Said'
    BY <1>3
  <2>3. Engine!StaysFinished
    <3>1. [Ran!Next]_(Ran!runbookVars)
      BY SameEngineNext DEF Next
    <3>2. Ran!StaysFinished
      BY <3>1, SameEngineAssumption, Ran!OverStaysOver
    <3> QED
      BY <3>2 DEF Ran!StaysFinished, Engine!StaysFinished, Ran!NoPrint, Engine!NoPrint,
         Ran!Finished, Engine!Finished
  <2> HIDE DEF Says
  <2> QED
    BY <2>1, <2>2, <2>3
<1> QED
  BY <1>1, <1>4, PTL DEF Spec, RunbookKeepsItsWord

-----------------------------------------------------------------------------
(* The machine.                                                            *)

LEMMA SameRotationType == Proved!TypeOK => Rotation!TypeOK
BY DEF Proved!TypeOK, Rotation!TypeOK, Proved!Daemons, Rotation!Daemons, Proved!Versions, Rotation!Versions,
   Proved!Cardinality, Rotation!Cardinality, Proved!IsFiniteSet, Rotation!IsFiniteSet

\* Every variable of the machine keeps the type that its component gives it, for
\* every set of processes, files, keys, secrets and runbooks.
THEOREM TypesAreKept == Spec => []TypeOK
<1> DEFINE Kept ==
      /\ part = "listener" => Listener!IInv
      /\ part = "vcore" => Vcore!IInv
      /\ part = "sessions" => Sessions!IInv
      /\ part = "server" => Server!IInv
      /\ part = "stack" => Stack!IInv
      /\ part = "done" => Done!IInv
      /\ part = "memory" => Memory!IInv
      /\ part = "numbers" => Numbers!IInv
      /\ part = "home" => Home!IInv
      /\ part = "rotation" => Proved!IInv
      /\ part = "runbook" => Ran!IInv
<1> DEFINE Parts == {"listener", "vcore", "sessions", "server", "stack", "done", "memory",
                     "numbers", "home", "rotation", "runbook"}
<1>1. Spec => [](part \in Parts)
  <2>1. Init => part \in Parts
    BY DEF Init
  <2>2. part \in Parts /\ [Next]_vars => (part \in Parts)'
    BY DEF Next, vars
  <2> QED
    BY <2>1, <2>2, PTL DEF Spec
<1>2. Spec => []Kept
  BY ListenerHolds, VcoreHolds, SessionsHolds, ServerHolds, StackHolds, DoneHolds,
     MemoryHolds, NumbersHolds, HomeHolds, RotationHolds, EngineHolds, PTL
<1>3. part \in Parts /\ Kept => TypeOK
  BY SameRotationType, SameEngineType DEF TypeOK, Listener!IInv, Vcore!IInv, Sessions!IInv, Server!IInv,
     Stack!IInv, Done!IInv, Memory!IInv, Numbers!IInv, Home!IInv, Proved!IInv, Ran!IInv
<1> QED
  BY <1>1, <1>2, <1>3, PTL
=============================================================================
