----------------------------- MODULE McpServer -----------------------------
(***************************************************************************)
(* `lw mcp serve`: connections of long-lived clients, each a loop of one   *)
(* request at a time, whose tools depend on the tier in the persona's      *)
(* file.  The operator edits or removes that file at any time.             *)
(***************************************************************************)
EXTENDS Naturals, FiniteSets

CONSTANTS
    Conns,       \* connections, over stdio or HTTP
    MaxFaults    \* planes that are down, replies that fail after the effect

\* Assumed of the constants; the module that composes this one states it.
FaultsAssumption == MaxFaults \in Nat

VARIABLES
    persona,     \* the tier the file declares, "none" when it resolves to nothing
    conn,        \* per connection: where it is, its request and the tier it got
    effects,     \* kinds of effect each connection has had on the planes
    faults

vars == <<persona, conn, effects, faults>>

Tiers == {"none", "developer", "engineer", "singular"}
Reads == {"library", "context", "queue_read"}
Writes == {"epic_write", "story_write", "task_write"}
Dispatch == {"dispatch_agent"}
Tools == Reads \cup Writes \cup Dispatch
Requests == {"notification", "malformed", "initialize", "tools/list", "unknown"} \cup Tools

TypeOK ==
    /\ persona \in Tiers
    /\ conn \in [Conns -> [pc : {"idle", "handle", "connect", "apply", "probe", "invoke"},
                           request : Requests, tier : Tiers, since : SUBSET Tiers, reply : {"none", "result", "error"}]]
    /\ effects \in [Conns -> SUBSET (Writes \cup Dispatch)]
    /\ faults \in 0 .. MaxFaults

Init ==
    /\ persona \in Tiers
    /\ conn = [c \in Conns |-> [pc |-> "idle", request |-> "initialize", tier |-> "none",
                                since |-> {}, reply |-> "none"]]
    /\ effects = [c \in Conns |-> {}]
    /\ faults = 0

-----------------------------------------------------------------------------
allowsWrite(tier) == tier \in {"engineer", "singular"}
allowsDispatch(tier) == tier = "singular"

\* toolsFor: what is listed, and toolAllowed asks the same list.
toolsFor(tier) ==
    IF tier = "none" THEN {}
    ELSE Reads \cup (IF allowsWrite(tier) THEN Writes ELSE {})
               \cup (IF allowsDispatch(tier) THEN Dispatch ELSE {})

At(c, pc) == conn[c].pc = pc
Go(c, pc) == conn' = [conn EXCEPT ![c].pc = pc]
Reply(c, r) == conn' = [conn EXCEPT ![c].pc = "idle", ![c].reply = r]
Fail == faults < MaxFaults /\ faults' = faults + 1
Fine == UNCHANGED faults

\* The operator changes or removes the persona's file.
EditPersona(tier) ==
    /\ tier # persona /\ persona' = tier
    /\ conn' = [c \in Conns |-> IF At(c, "idle") THEN conn[c]
                                ELSE [conn[c] EXCEPT !.since = @ \cup {tier}]]
    /\ UNCHANGED effects /\ Fine

\* Mutant: the tier is resolved when the connection opens.
ReceiveOnce(c, request) ==
    /\ At(c, "idle") /\ UNCHANGED <<persona, effects>> /\ Fine
    /\ CASE request = "malformed" -> Reply(c, "error")
         [] request = "notification" -> Reply(c, "none")
         [] OTHER -> conn' = [conn EXCEPT ![c] = [pc |-> "handle", request |-> request,
                                  tier |-> IF conn[c].since = {} THEN persona ELSE conn[c].tier,
                                  since |-> {persona}, reply |-> "none"]]

\* Serve reads one message; malformed ones get an error, notifications
\* nothing, and every other request its tier resolved afresh.
Receive(c, request) ==
    /\ At(c, "idle") /\ UNCHANGED <<persona, effects>> /\ Fine
    /\ CASE request = "malformed" -> Reply(c, "error")
         [] request = "notification" -> Reply(c, "none")
         [] OTHER -> conn' = [conn EXCEPT ![c] = [pc |-> "handle", request |-> request, tier |-> persona,
                                                  since |-> {persona}, reply |-> "none"]]

\* handle and callTool: the tier that came with the request decides.
Handle(c) ==
    /\ At(c, "handle") /\ UNCHANGED <<persona, effects>> /\ Fine
    /\ LET r == conn[c].request
           granted == toolsFor(conn[c].tier)
       IN CASE r \in {"initialize", "tools/list"} -> Reply(c, "result")
            [] r \notin {"initialize", "tools/list"} \cup granted -> Reply(c, "error")
            [] r \in granted \cap {"library", "context"} -> Reply(c, "result")
            [] r \in granted \cap Dispatch -> Go(c, "probe")
            [] OTHER -> Go(c, "connect")

\* withDB: a pool per call; no pool is "runtime_plane_down".
Connect(c) ==
    /\ At(c, "connect") /\ UNCHANGED <<persona, effects>>
    /\ \/ Go(c, "apply") /\ Fine
       \/ Reply(c, "error") /\ Fail

\* The statement, and the deadline of the call that may strike after it.
Apply(c) ==
    /\ At(c, "apply") /\ UNCHANGED persona
    /\ LET written == effects' = [effects EXCEPT ![c] = @ \cup ({conn[c].request} \cap Writes)]
       IN \/ written /\ Reply(c, "result") /\ Fine
          \/ written /\ Reply(c, "error") /\ Fail
          \/ UNCHANGED effects /\ Reply(c, "error") /\ Fail

\* dispatchAgent: /health first, then the instance.
Probe(c) ==
    /\ At(c, "probe") /\ UNCHANGED <<persona, effects>>
    /\ \/ Go(c, "invoke") /\ Fine
       \/ Reply(c, "error") /\ Fail

Invoke(c) ==
    /\ At(c, "invoke") /\ UNCHANGED persona
    /\ LET sent == effects' = [effects EXCEPT ![c] = @ \cup Dispatch]
       IN \/ sent /\ Reply(c, "result") /\ Fine
          \/ sent /\ Reply(c, "error") /\ Fail
          \/ UNCHANGED effects /\ Reply(c, "error") /\ Fail

Next ==
    \/ \E tier \in Tiers : EditPersona(tier)
    \/ \E c \in Conns :
           \/ \E r \in Requests : Receive(c, r)
           \/ Handle(c) \/ Connect(c) \/ Apply(c) \/ Probe(c) \/ Invoke(c)
Spec == Init /\ [][Next]_vars

-----------------------------------------------------------------------------
(* Property                                                                *)

\* A revoked persona writes and dispatches nothing more, on a connection
\* however old, than the request it was already working on: what a request
\* does, some tier the file has declared since that request arrived allows
\* (ResolveTier at each request boundary in internal/mcp/server.go).
RevocationHolds ==
    \A c \in Conns : conn[c].pc \in {"connect", "apply", "probe", "invoke"} =>
        \E tier \in conn[c].since : conn[c].request \in toolsFor(tier)

\* The strengthening: the tier a request got is one the file has declared since
\* the request arrived, until the request is let through or refused.
TierIsOfTheRequest == \A c \in Conns : conn[c].pc = "handle" => conn[c].tier \in conn[c].since
IInv == TypeOK /\ TierIsOfTheRequest /\ RevocationHolds
=============================================================================
