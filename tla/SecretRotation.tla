-------------------------- MODULE SecretRotation --------------------------
(***************************************************************************)
(* internal/secrets: `lw secret rotate` of one generate-mode key.  A run   *)
(* writes a successor to SSM, records it, restarts the consumers that read *)
(* the key at their start, probes them and records how that went.  Several *)
(* runs may overlap; calls fail, lose their reply, and processes die.      *)
(***************************************************************************)
EXTENDS Naturals, FiniteSets

CONSTANTS
    Runs,         \* invocations of lw secret rotate
    Consumers,    \* the daemons that load the key are 1 .. Consumers
    SecretMaps,   \* what may stand in the map: each consumer's refresh, which is
                  \* a launchd label, "none" or "person"
    Probed,       \* the consumers with a verify probe
    MaxFaults     \* bound on failed calls, lost replies and kills

Daemons == 1 .. Consumers

\* Assumed of the constants; the module that composes this one states it.
RotationAssumption ==
    /\ IsFiniteSet(Runs) /\ Consumers \in Nat /\ MaxFaults \in Nat
    /\ SecretMaps \subseteq [Daemons -> STRING]
    /\ Probed \subseteq Daemons

VARIABLES
    refresh,   \* the secret map as it stands
    version,   \* SSM: the version of the key's value
    loaded,    \* the version each consumer works with
    run,       \* the invocations
    ledger,    \* secrets-exposure.jsonl: the rows, by the version they name
    faults     \* failed calls, lost replies and kills so far

rotationVars == <<refresh, version, loaded, run, ledger, faults>>

\* Result: to, the failures, what is pending; code is the exit code.
Fresh == [pc |-> "start", to |-> 0, at |-> 1, kicked |-> {}, pending |-> {},
          failed |-> FALSE, code |-> "none"]

Versions == 1 .. 1 + Cardinality(Runs)

Fault == faults < MaxFaults /\ faults' = faults + 1

Set(r, next) == run' = [run EXCEPT ![r] = next]

AppendLedger(row) == ledger' = ledger \cup {row}

\* The key as a consumer that starts reads it, or as a rotation writes it.
FetchNamed(ds) == loaded' = [d \in Daemons |-> IF d \in ds THEN version ELSE loaded[d]]
Put == version' = version + 1

\* A consumer that reads the key at each use never holds an old one.
Holds(d, v) == refresh[d] = "none" \/ loaded[d] >= v

\* ExitCode: 1 when something failed, 3 when a refresh is owed, else 0.
ExitCodeOfRow(result) == IF result.failed THEN "incomplete" ELSE "verified"    \* mutant
ExitCodeIgnoringPending(result) == IF result.failed THEN "failed" ELSE "done"  \* mutant
ExitCode(result) ==
    IF result.failed THEN "failed" ELSE IF result.pending # {} THEN "pending" ELSE "done"

-----------------------------------------------------------------------------
(* Rotate                                                                  *)

\* No writer for this caller, an unknown consumer, no metadata of the key.
Refuse(r) == Set(r, [run[r] EXCEPT !.pc = "end", !.code = "refused"])

\* The checks of record, caller and metadata; refused or a dry run ends here.
Check(r) ==
    /\ run[r].pc = "start"
    /\ \/ Set(r, [run[r] EXCEPT !.pc = "write"])
       \/ Refuse(r)
       \/ Set(r, [run[r] EXCEPT !.pc = "end", !.code = "done"])
    /\ UNCHANGED <<version, loaded, ledger, faults>>

\* writeSuccessor.  A Put that fails may have written all the same.
WriteSuccessor(r) ==
    /\ run[r].pc = "write"
    /\ \/ /\ Put
          /\ Set(r, [run[r] EXCEPT !.pc = "rotated", !.to = version + 1])
          /\ UNCHANGED faults
       \/ /\ Fault
          /\ Put \/ UNCHANGED version
          /\ Set(r, [run[r] EXCEPT !.pc = "end", !.code = "failed"])
    /\ UNCHANGED <<loaded, ledger>>

\* Mutant: a row that cannot be written is forgotten.
RecordBestEffort(r, event, next) ==
    \/ AppendLedger([event |-> event, to |-> run[r].to]) /\ Set(r, next) /\ UNCHANGED faults
    \/ Fault /\ Set(r, next) /\ UNCHANGED ledger

\* record: a row that cannot be written is a failure of the run.
Record(r, event, next) ==
    \/ AppendLedger([event |-> event, to |-> run[r].to]) /\ Set(r, next) /\ UNCHANGED faults
    \/ Fault /\ Set(r, [next EXCEPT !.failed = TRUE]) /\ UNCHANGED ledger

RecordRotated(r) ==
    /\ run[r].pc = "rotated"
    /\ Record(r, "rotated", [run[r] EXCEPT !.pc = "refresh"])
    /\ UNCHANGED <<version, loaded>>

\* Kickstart: every consumer behind the label starts anew and reads the key.
Kickstart(label) == FetchNamed({d \in Daemons : refresh[d] = label})

NextConsumer(r) == [run[r] EXCEPT !.at = @ + 1]

\* Mutant: a failed restart is left to the probe to find.
RefreshConsumerUnreported(r) ==
    LET d == run[r].at
    IN  /\ run[r].pc = "refresh" /\ d \in Daemons
        /\ \/ /\ refresh[d] = "none" \/ refresh[d] \in run[r].kicked
              /\ Set(r, NextConsumer(r)) /\ UNCHANGED <<loaded, faults>>
           \/ /\ refresh[d] \notin {"none", "person"} \cup run[r].kicked
              /\ \/ Kickstart(refresh[d]) /\ UNCHANGED faults
                 \/ Fault /\ UNCHANGED loaded
              /\ Set(r, [NextConsumer(r) EXCEPT !.kicked = @ \cup {refresh[d]}])
           \/ /\ refresh[d] = "person"
              /\ Set(r, [NextConsumer(r) EXCEPT !.pending = @ \cup {d}])
              /\ UNCHANGED <<loaded, faults>>
        /\ UNCHANGED <<version, ledger>>

\* followUp, first loop: one consumer.
RefreshConsumer(r) ==
    LET d == run[r].at
    IN  /\ run[r].pc = "refresh" /\ d \in Daemons
        /\ \/ /\ refresh[d] = "none" \/ refresh[d] \in run[r].kicked
              /\ Set(r, NextConsumer(r)) /\ UNCHANGED <<loaded, faults>>
           \/ /\ refresh[d] \notin {"none", "person"} \cup run[r].kicked
              /\ \/ /\ Kickstart(refresh[d]) /\ UNCHANGED faults
                    /\ Set(r, [NextConsumer(r) EXCEPT !.kicked = @ \cup {refresh[d]}])
                 \/ /\ Fault
                    /\ Kickstart(refresh[d]) \/ UNCHANGED loaded
                    /\ Set(r, [NextConsumer(r) EXCEPT !.kicked = @ \cup {refresh[d]}, !.failed = TRUE])
           \/ /\ refresh[d] = "person"
              /\ Set(r, [NextConsumer(r) EXCEPT !.pending = @ \cup {d}])
              /\ UNCHANGED <<loaded, faults>>
        /\ UNCHANGED <<version, ledger>>

Refreshed(r) ==
    /\ run[r].pc = "refresh" /\ run[r].at \notin Daemons
    /\ Set(r, [run[r] EXCEPT !.pc = "probe", !.at = 1])
    /\ UNCHANGED <<version, loaded, ledger, faults>>

\* A probe reads the key from SSM, so it passes only where the consumer works
\* with the value SSM has at that time.
Probes(d) == Holds(d, version)

\* followUp, second loop.
ProbeConsumer(r) ==
    LET d == run[r].at
    IN  /\ run[r].pc = "probe" /\ d \in Daemons
        /\ \/ /\ d \in run[r].pending \/ d \notin Probed
              /\ Set(r, NextConsumer(r)) /\ UNCHANGED faults
           \/ /\ d \in Probed \ run[r].pending
              /\ \/ Probes(d) /\ Set(r, NextConsumer(r)) /\ UNCHANGED faults
                 \/ ~Probes(d) /\ Set(r, [NextConsumer(r) EXCEPT !.failed = TRUE]) /\ UNCHANGED faults
                 \/ Fault /\ Set(r, [NextConsumer(r) EXCEPT !.failed = TRUE])
        /\ UNCHANGED <<version, loaded, ledger>>

\* The last row says how the follow-up went; the exit code is read after it.
Conclude(r) ==
    /\ run[r].pc = "probe" /\ run[r].at \notin Daemons
    /\ Record(r, IF ExitCode(run[r]) = "done" THEN "verified" ELSE "incomplete",
              [run[r] EXCEPT !.pc = "exit"])
    /\ UNCHANGED <<version, loaded>>

Exit(r) ==
    /\ run[r].pc = "exit"
    /\ Set(r, [run[r] EXCEPT !.pc = "end", !.code = ExitCode(run[r])])
    /\ UNCHANGED <<version, loaded, ledger, faults>>

-----------------------------------------------------------------------------
(* The surroundings                                                        *)

Kill(r) ==
    /\ run[r].pc \notin {"start", "end"}
    /\ Fault
    /\ Set(r, [run[r] EXCEPT !.pc = "end", !.code = "killed"])
    /\ UNCHANGED <<version, loaded, ledger>>

\* A person refreshes a consumer; launchd restarts one.
Restart(d) ==
    /\ FetchNamed({d})
    /\ UNCHANGED <<version, run, ledger, faults>>

-----------------------------------------------------------------------------

Init ==
    /\ refresh \in SecretMaps
    /\ version = 1
    /\ loaded = [d \in Daemons |-> 1]
    /\ run = [r \in Runs |-> Fresh]
    /\ ledger = {}
    /\ faults = 0

Rotate(r) ==
    \/ Check(r)
    \/ WriteSuccessor(r)
    \/ RecordRotated(r)
    \/ RefreshConsumer(r)
    \/ Refreshed(r)
    \/ ProbeConsumer(r)
    \/ Conclude(r)
    \/ Exit(r)

Next ==
    /\ \/ \E r \in Runs : Rotate(r) \/ Kill(r)
       \/ \E d \in Daemons : Restart(d)
    /\ UNCHANGED refresh

Spec == Init /\ [][Next]_rotationVars

-----------------------------------------------------------------------------
(* Properties                                                              *)

\* Every variable keeps its type.
TypeOK ==
    /\ refresh \in SecretMaps
    /\ version \in Versions
    /\ loaded \in [Daemons -> Versions]
    /\ run \in [Runs -> [pc : {"start", "write", "rotated", "refresh", "probe", "exit", "end"},
                         to : Versions \cup {0}, at : 1 .. Consumers + 1,
                         kicked : SUBSET {refresh[d] : d \in Daemons}, pending : SUBSET Daemons,
                         failed : BOOLEAN,
                         code : {"none", "refused", "done", "pending", "failed", "killed"}]]
    /\ ledger \in SUBSET [event : {"rotated", "verified", "incomplete"}, to : Versions]
    /\ faults \in 0 .. MaxFaults

\* When a run says it is done, or that some refreshes are owed, every consumer
\* it does not name as pending works with its value or a later one: also when
\* another run wrote, restarted and probed between its steps.
ExitTellsStale ==
    \A r \in Runs : run[r].to > 0 /\ run[r].code \in {"done", "pending"} =>
        \A d \in Daemons \ run[r].pending : Holds(d, run[r].to)

\* A row that calls a version verified is preceded by the row of its rotation,
\* and no consumer works with an older value: none was left to a person.
VerifiedRowIsTrue ==
    \A row \in ledger : row.event = "verified" =>
        /\ [event |-> "rotated", to |-> row.to] \in ledger
        /\ \A d \in Daemons : Holds(d, row.to)

\* A rotation that exits with success has left both of its rows.
DoneIsRecorded ==
    \A r \in Runs : run[r].to > 0 /\ run[r].code = "done" =>
        {[event |-> e, to |-> run[r].to] : e \in {"rotated", "verified"}} \subseteq ledger

=============================================================================
