------------------------ MODULE SecretRotationProofs ------------------------
(***************************************************************************)
(* What the rotations of one key guarantee, however many run at once, for  *)
(* every set of consumers and every number of failed calls and kills.      *)
(***************************************************************************)
EXTENDS SecretRotation, FiniteSetTheorems, TLAPS

-----------------------------------------------------------------------------
(* The strengthening: what a rotation knows between two steps.             *)

Invocations ==
    [pc : {"start", "write", "rotated", "refresh", "probe", "exit", "end"},
     to : Versions \cup {0}, at : 1 .. Consumers + 1,
     kicked : SUBSET {refresh[d] : d \in Daemons}, pending : SUBSET Daemons,
     failed : BOOLEAN,
     code : {"none", "refused", "done", "pending", "failed", "killed"}]

\* Every version above the first was put by a run that got past its write.
Writers == {r \in Runs : run[r].pc \notin {"start", "write"}}
Counted == version <= 1 + Cardinality(Writers)

\* Nobody works with a version that SSM never had.
Behind == \A d \in Daemons : loaded[d] <= version

Following(r) == run[r].pc \in {"refresh", "probe", "exit"}

\* A run names a version from the time it wrote it to its end.
Names(r) ==
    /\ run[r].to <= version
    /\ run[r].pc \in {"start", "write"} => run[r].to = 0
    /\ run[r].pc = "rotated" \/ Following(r) => run[r].to > 0
    /\ run[r].pc \in {"start", "write", "rotated"} => run[r].at = 1 /\ run[r].kicked = {}
    /\ run[r].pc # "end" => run[r].code = "none"

\* What a run without a failure kicked has its version.
Kicks(r) ==
    run[r].pc # "end" /\ ~run[r].failed =>
        \A d \in Daemons : refresh[d] \in run[r].kicked => loaded[d] >= run[r].to

\* Each consumer it has passed holds its version or is pending.
Passed(r) ==
    Following(r) /\ ~run[r].failed =>
        \A d \in Daemons : (run[r].pc = "refresh" => d < run[r].at) =>
            d \in run[r].pending \/ Holds(d, run[r].to)

\* The rows of a run without a failure are written.
Rows(r) ==
    Following(r) /\ ~run[r].failed =>
        /\ [event |-> "rotated", to |-> run[r].to] \in ledger
        /\ run[r].pc = "exit" /\ run[r].pending = {} =>
               [event |-> "verified", to |-> run[r].to] \in ledger

\* The part of ExitTellsStale and of DoneIsRecorded that is about r.
Ends(r) ==
    run[r].to > 0 =>
        /\ run[r].code \in {"done", "pending"} =>
               \A d \in Daemons \ run[r].pending : Holds(d, run[r].to)
        /\ run[r].code = "done" =>
               {[event |-> e, to |-> run[r].to] : e \in {"rotated", "verified"}} \subseteq ledger

Fits(r) == Names(r) /\ Kicks(r) /\ Passed(r) /\ Rows(r) /\ Ends(r)

IInv ==
    /\ TypeOK /\ Counted /\ Behind
    /\ \A r \in Runs : Fits(r)
    /\ VerifiedRowIsTrue

-----------------------------------------------------------------------------
(* What the steps have in common.                                          *)

\* Nothing is taken back: versions and consumers move forward, rows stay.
Forward ==
    /\ refresh' = refresh
    /\ version' \in Nat /\ version' >= version
    /\ \A d \in Daemons : loaded'[d] \in Nat /\ loaded'[d] >= loaded[d]
    /\ ledger \subseteq ledger'

LEMMA Types ==
    ASSUME RotationAssumption, TypeOK
    PROVE  /\ Cardinality(Runs) \in Nat /\ Consumers \in Nat /\ MaxFaults \in Nat
           /\ version \in Nat /\ version >= 1
           /\ \A d \in Daemons : loaded[d] \in Nat /\ refresh[d] \in STRING
           /\ run \in [Runs -> Invocations]
           /\ \A r \in Runs : run[r] \in Invocations /\ run[r].to \in Nat /\ run[r].at \in Nat
           /\ \A row \in ledger : row.to \in Nat
<1>1. Cardinality(Runs) \in Nat
  BY FS_CardinalityType DEF RotationAssumption
<1>2. run \in [Runs -> Invocations]
  BY DEF TypeOK, Invocations
<1> QED
  BY <1>1, <1>2 DEF RotationAssumption, TypeOK, Versions, Invocations

LEMMA HoldsOn ==
    ASSUME RotationAssumption, TypeOK, Forward, NEW d \in Daemons, NEW v \in Nat, Holds(d, v)
    PROVE  Holds(d, v)'
BY Types DEF Forward, Holds

\* A run that does not move stays fit.
LEMMA OthersFit ==
    ASSUME RotationAssumption, TypeOK, Forward,
           NEW r \in Runs, run'[r] = run[r], Fits(r)
    PROVE  Fits(r)'
<1>0. run[r].to \in Nat /\ version \in Nat
  BY Types
<1>1. Names(r)'
  BY <1>0 DEF Fits, Names, Forward, Following
<1>2. Kicks(r)'
  BY <1>0, Types DEF Fits, Kicks, Forward
<1>3. Passed(r)'
  <2> SUFFICES ASSUME Following(r), ~run[r].failed, NEW d \in Daemons,
                      run[r].pc = "refresh" => d < run[r].at, d \notin run[r].pending
               PROVE  Holds(d, run[r].to)'
    BY DEF Passed, Following, Holds
  <2>1. Holds(d, run[r].to)
    BY DEF Fits, Passed
  <2> QED
    BY <1>0, <2>1, Types DEF Holds, Forward
<1>4. Rows(r)'
  BY DEF Fits, Rows, Following, Forward
<1>5. Ends(r)'
  BY <1>0, Types DEF Fits, Ends, Holds, Forward
<1> QED
  BY <1>1, <1>2, <1>3, <1>4, <1>5 DEF Fits

\* The rows on record stay true.
LEMMA OldRowsStayTrue ==
    ASSUME RotationAssumption, TypeOK, Forward, VerifiedRowIsTrue,
           NEW row \in ledger, row.event = "verified"
    PROVE  /\ [event |-> "rotated", to |-> row.to] \in ledger'
           /\ \A d \in Daemons : Holds(d, row.to)'
BY Types DEF VerifiedRowIsTrue, Forward, Holds

\* A step that appends no row, or a true one, leaves them all true.
LEMMA RowsStayTrue ==
    ASSUME RotationAssumption, TypeOK, Forward, VerifiedRowIsTrue,
           \A row \in ledger' \ ledger : row.event # "verified"
    PROVE  VerifiedRowIsTrue'
<1> SUFFICES ASSUME NEW row \in ledger', row.event = "verified"
             PROVE  /\ [event |-> "rotated", to |-> row.to] \in ledger'
                    /\ \A d \in Daemons : Holds(d, row.to)'
  BY DEF VerifiedRowIsTrue, Holds
<1>1. row \in ledger
  OBVIOUS
<1> QED
  BY <1>1, OldRowsStayTrue

\* A consumer that reads the key as it starts moves forward.
LEMMA FetchForward ==
    ASSUME RotationAssumption, TypeOK, Behind, version' = version,
           NEW ds, FetchNamed(ds)
    PROVE  /\ loaded' \in [Daemons -> Versions]
           /\ \A d \in Daemons : loaded'[d] \in Nat /\ loaded'[d] >= loaded[d]
           /\ \A d \in ds \cap Daemons : loaded'[d] = version
           /\ Behind'
BY Types DEF FetchNamed, Behind, TypeOK, Versions

-----------------------------------------------------------------------------
(* The count of the writers.                                               *)

LEMMA WritersAreCounted ==
    ASSUME RotationAssumption
    PROVE  /\ IsFiniteSet(Writers)
           /\ Cardinality(Writers) \in Nat
           /\ Cardinality(Writers) <= Cardinality(Runs)
<1>1. Writers \in SUBSET Runs /\ IsFiniteSet(Runs)
  BY DEF Writers, RotationAssumption
<1> QED
  BY <1>1, FS_Subset, FS_CardinalityType

LEMMA CountedStays ==
    ASSUME RotationAssumption, IInv, NEW r \in Runs, NEW next, Set(r, next),
           version' = version,
           run[r].pc \notin {"start", "write"} => next.pc \notin {"start", "write"}
    PROVE  Counted'
<1>1. \A q \in Runs : run'[q] = IF q = r THEN next ELSE run[q]
  BY Types DEF IInv, Set
<1>2. Writers \in SUBSET Writers'
  BY <1>1 DEF Writers
<1>3. Writers' \in SUBSET Runs /\ IsFiniteSet(Runs)
  BY DEF Writers, RotationAssumption
<1>4. IsFiniteSet(Writers') /\ Cardinality(Writers') \in Nat
  BY <1>3, FS_Subset, FS_CardinalityType
<1>5. Cardinality(Writers) <= Cardinality(Writers')
  BY <1>2, <1>4, FS_Subset
<1> QED
  BY <1>4, <1>5, WritersAreCounted, Types DEF IInv, Counted

LEMMA CountedGrows ==
    ASSUME RotationAssumption, IInv, NEW r \in Runs, NEW next, Set(r, next),
           version' \in {version, version + 1},
           run[r].pc = "write", next.pc \notin {"start", "write"}
    PROVE  Counted' /\ version' \in Versions
<1>1. \A q \in Runs : run'[q] = IF q = r THEN next ELSE run[q]
  BY Types DEF IInv, Set
<1>2. Writers' = Writers \cup {r} /\ r \notin Writers
  BY <1>1 DEF Writers
<1>3. Cardinality(Writers') = Cardinality(Writers) + 1
  BY <1>2, FS_AddElement, WritersAreCounted
<1>4. Writers' \in SUBSET Runs /\ IsFiniteSet(Runs)
  BY DEF Writers, RotationAssumption
<1>5. Cardinality(Writers') <= Cardinality(Runs)
  BY <1>4, FS_Subset
<1>6. version \in Nat /\ version >= 1 /\ Cardinality(Runs) \in Nat
  BY Types DEF IInv
<1>7. version' <= 1 + Cardinality(Writers')
  BY <1>3, <1>6, WritersAreCounted DEF IInv, Counted
<1>8. version' \in Versions
  BY <1>3, <1>5, <1>6, <1>7, WritersAreCounted DEF Versions
<1> QED
  BY <1>7, <1>8 DEF Counted

-----------------------------------------------------------------------------
(* A step of one run keeps the invariant when that run fits after it.      *)

LEMMA StepKeeps ==
    ASSUME RotationAssumption, IInv, Forward,
           NEW r \in Runs, NEW next \in Invocations, Set(r, next),
           version' \in Versions, loaded' \in [Daemons -> Versions],
           ledger' \in SUBSET [event : {"rotated", "verified", "incomplete"}, to : Versions],
           faults' \in 0 .. MaxFaults,
           Counted', Behind', Fits(r)', VerifiedRowIsTrue'
    PROVE  IInv'
<1>0. run \in [Runs -> Invocations]
  BY Types DEF IInv
<1>1. run'[r] = next /\ \A q \in Runs \ {r} : run'[q] = run[q]
  BY <1>0 DEF Set
<1>2. refresh' = refresh /\ refresh' \in SecretMaps
  BY DEF Forward, IInv, TypeOK
<1>3. run' \in [Runs -> Invocations']
  BY <1>0, <1>2 DEF Set, Invocations
<1>4. TypeOK'
  BY <1>2, <1>3 DEF TypeOK, Invocations
<1>5. \A q \in Runs \ {r} : Fits(q)'
  BY <1>1, OthersFit DEF IInv
<1> QED
  BY <1>4, <1>5 DEF IInv

\* Most steps write nothing and restart nobody.
LEMMA QuietStepKeeps ==
    ASSUME RotationAssumption, IInv, refresh' = refresh,
           NEW r \in Runs, NEW next \in Invocations, Set(r, next),
           UNCHANGED <<version, loaded, ledger>>,
           UNCHANGED faults \/ Fault,
           run[r].pc \notin {"start", "write"} => next.pc \notin {"start", "write"},
           Fits(r)'
    PROVE  IInv'
<1>1. Forward
  BY Types DEF IInv, Forward
<1>2. /\ version' \in Versions /\ loaded' \in [Daemons -> Versions]
      /\ ledger' \in SUBSET [event : {"rotated", "verified", "incomplete"}, to : Versions]
  BY DEF IInv, TypeOK
<1>3. faults' \in 0 .. MaxFaults
  BY Types DEF IInv, TypeOK, Fault
<1>4. Counted'
  BY CountedStays
<1>5. Behind' /\ VerifiedRowIsTrue'
  BY <1>1, RowsStayTrue DEF IInv, Behind
<1> QED
  BY <1>1, <1>2, <1>3, <1>4, <1>5, StepKeeps

-----------------------------------------------------------------------------
(* The initial states.                                                     *)

LEMMA InitIInv == ASSUME RotationAssumption, Init PROVE IInv
<1>1. Cardinality(Runs) \in Nat /\ Consumers \in Nat
  BY FS_CardinalityType DEF RotationAssumption
<1>2. TypeOK
  BY <1>1 DEF Init, TypeOK, Fresh, Versions, RotationAssumption
<1>3. Writers = {}
  BY DEF Writers, Init, Fresh
<1>4. Counted
  BY <1>3, FS_EmptySet DEF Counted, Init
<1>5. Behind /\ VerifiedRowIsTrue
  BY DEF Init, Behind, VerifiedRowIsTrue
<1>6. \A r \in Runs : Fits(r)
  BY DEF Init, Fresh, Fits, Names, Kicks, Passed, Following, Rows, Ends
<1> QED
  BY <1>2, <1>4, <1>5, <1>6 DEF IInv

-----------------------------------------------------------------------------
(* One lemma per step.                                                     *)

LEMMA CheckKeeps ==
    ASSUME RotationAssumption, IInv, refresh' = refresh, NEW r \in Runs, Check(r)
    PROVE  IInv'
<1>0. run[r] \in Invocations /\ run[r].pc = "start" /\ Fits(r)
  BY Types DEF IInv, Check
<1>1. PICK next \in {[run[r] EXCEPT !.pc = "write"],
                     [run[r] EXCEPT !.pc = "end", !.code = "refused"],
                     [run[r] EXCEPT !.pc = "end", !.code = "done"]} : Set(r, next)
  BY DEF Check, Refuse
<1>2. next \in Invocations /\ next.to = 0 /\ next.pc \in {"write", "end"} /\ next.at = 1
      /\ next.kicked = {} /\ (next.pc # "end" => next.code = "none")
  BY <1>0 DEF Invocations, Fits, Names
<1>3. run'[r] = next /\ version' = version
  BY <1>1, Types DEF IInv, Set, Check
<1>4. Fits(r)'
  BY <1>2, <1>3, Types DEF IInv, Fits, Names, Kicks, Passed, Following, Rows, Ends
<1> QED
  BY <1>0, <1>1, <1>2, <1>4, QuietStepKeeps DEF Check

LEMMA WriteKeeps ==
    ASSUME RotationAssumption, IInv, refresh' = refresh, NEW r \in Runs, WriteSuccessor(r)
    PROVE  IInv'
<1>0. /\ run[r] \in Invocations /\ run[r].pc = "write" /\ Fits(r)
      /\ version \in Nat /\ version >= 1
      /\ loaded \in [Daemons -> Versions] /\ \A d \in Daemons : loaded[d] \in Nat
  BY Types DEF IInv, WriteSuccessor, TypeOK
<1>1. PICK next : /\ Set(r, next) /\ version' \in {version, version + 1}
                  /\ \/ next = [run[r] EXCEPT !.pc = "rotated", !.to = version + 1]
                        /\ version' = version + 1
                     \/ next = [run[r] EXCEPT !.pc = "end", !.code = "failed"]
  BY DEF WriteSuccessor, Put
<1>2. /\ next.pc \in {"rotated", "end"} /\ next.at = 1 /\ next.kicked = {}
      /\ next.to \in Nat /\ next.to <= version' /\ (next.pc = "rotated" => next.to > 0)
      /\ (next.pc # "end" => next.code = "none")
  <2>1. /\ run[r].at = 1 /\ run[r].kicked = {} /\ run[r].to = 0 /\ run[r].code = "none"
    BY <1>0 DEF Fits, Names
  <2>2. CASE next = [run[r] EXCEPT !.pc = "rotated", !.to = version + 1] /\ version' = version + 1
    <3>1. /\ next.pc = "rotated" /\ next.to = version + 1 /\ next.at = run[r].at
          /\ next.kicked = run[r].kicked /\ next.code = run[r].code
      BY <1>0, <2>2 DEF Invocations
    <3> QED
      BY <1>0, <2>1, <2>2, <3>1
  <2>3. CASE next = [run[r] EXCEPT !.pc = "end", !.code = "failed"]
    <3>1. /\ next.pc = "end" /\ next.to = run[r].to /\ next.at = run[r].at
          /\ next.kicked = run[r].kicked
      BY <1>0, <2>3 DEF Invocations
    <3> QED
      BY <1>0, <1>1, <2>1, <3>1
  <2> QED
    BY <1>1, <2>2, <2>3
<1>3. Counted' /\ version' \in Versions
  BY <1>0, <1>1, <1>2, CountedGrows
<1>4. next \in Invocations
  BY <1>0, <1>1, <1>3 DEF Invocations
<1>5. run'[r] = next
  BY <1>1, Types DEF IInv, Set
<1>6. Forward
  BY <1>0, <1>1 DEF Forward, WriteSuccessor
<1>7. faults' \in 0 .. MaxFaults
  BY Types DEF IInv, TypeOK, Fault, WriteSuccessor
<1>8. Behind' /\ VerifiedRowIsTrue'
  BY <1>0, <1>1, <1>6, RowsStayTrue DEF IInv, Behind, WriteSuccessor
<1>9. Fits(r)'
  <2>1. Names(r)'
    BY <1>1, <1>2, <1>5 DEF Names, Following
  <2>2. next.kicked = {} /\ ~(next.pc \in {"refresh", "probe", "exit"})
    BY <1>0, <1>1, <1>2 DEF Fits, Names, Invocations
  <2>3. next.code \notin {"done", "pending"}
    BY <1>0, <1>1 DEF Fits, Names, Invocations
  <2> QED
    BY <1>5, <2>1, <2>2, <2>3 DEF Fits, Kicks, Passed, Following, Rows, Ends
<1> QED
  BY <1>0, <1>1, <1>3, <1>4, <1>6, <1>7, <1>8, <1>9, StepKeeps DEF WriteSuccessor, IInv, TypeOK

\* record adds a row, or the run has failed; no row is a false "verified".
LEMMA RecordKeeps ==
    ASSUME RotationAssumption, IInv, refresh' = refresh, UNCHANGED <<version, loaded>>,
           NEW r \in Runs, NEW event \in {"rotated", "verified", "incomplete"},
           NEW next \in Invocations, Record(r, event, next),
           run[r].to \in Versions, run[r].pc \notin {"start", "write"},
           next.pc \notin {"start", "write", "end"}, next.to = run[r].to,
           \* the run fits when its row is there, and when it has failed
           run'[r] = next /\ [event |-> event, to |-> run[r].to] \in ledger' => Fits(r)',
           run'[r] = [next EXCEPT !.failed = TRUE] => Fits(r)',
           event = "verified" => /\ [event |-> "rotated", to |-> run[r].to] \in ledger
                                 /\ \A d \in Daemons : Holds(d, run[r].to)
    PROVE  IInv'
<1> DEFINE row == [event |-> event, to |-> run[r].to]
<1>0. run \in [Runs -> Invocations] /\ row \in [event : {"rotated", "verified", "incomplete"}, to : Versions]
  BY Types DEF IInv
<1>1. CASE /\ AppendLedger(row) /\ Set(r, next) /\ UNCHANGED faults
  <2>1. ledger' = ledger \cup {row}
    BY <1>1 DEF AppendLedger
  <2>2. Forward
    BY <2>1, Types DEF IInv, Forward
  <2>3. VerifiedRowIsTrue'
    <3> SUFFICES ASSUME NEW w \in ledger', w.event = "verified"
                 PROVE  /\ [event |-> "rotated", to |-> w.to] \in ledger'
                        /\ \A d \in Daemons : Holds(d, w.to)'
      BY DEF VerifiedRowIsTrue, Holds
    <3>1. CASE w \in ledger
      BY <2>2, <3>1, OldRowsStayTrue DEF IInv
    <3>2. CASE w = row
      BY <2>1, <3>2 DEF Holds
    <3> QED
      BY <2>1, <3>1, <3>2
  <2>4. run'[r] = next
    BY <1>0, <1>1 DEF Set
  <2>5. Fits(r)'
    BY <2>1, <2>4
  <2>6. Counted'
    BY <1>1, CountedStays
  <2>7. /\ version' \in Versions /\ loaded' \in [Daemons -> Versions] /\ faults' \in 0 .. MaxFaults
        /\ ledger' \in SUBSET [event : {"rotated", "verified", "incomplete"}, to : Versions]
        /\ Behind'
    BY <1>0, <1>1, <2>1 DEF IInv, TypeOK, Behind
  <2> QED
    BY <1>1, <2>2, <2>3, <2>5, <2>6, <2>7, StepKeeps
<1>2. CASE Fault /\ Set(r, [next EXCEPT !.failed = TRUE]) /\ UNCHANGED ledger
  <2>1. [next EXCEPT !.failed = TRUE] \in Invocations
        /\ [next EXCEPT !.failed = TRUE].pc \notin {"start", "write"}
    BY DEF Invocations
  <2>2. run'[r] = [next EXCEPT !.failed = TRUE]
    BY <1>0, <1>2 DEF Set
  <2> QED
    BY <1>2, <2>1, <2>2, QuietStepKeeps
<1> QED
  BY <1>1, <1>2 DEF Record


\* What is known of a run that has written.
LEMMA Written ==
    ASSUME RotationAssumption, IInv, NEW r \in Runs, run[r].pc = "rotated" \/ Following(r)
    PROVE  /\ run[r] \in Invocations /\ Fits(r) /\ run[r].to \in Nat /\ run[r].at \in Nat
           /\ run[r].to \in Versions /\ run[r].to > 0 /\ run[r].to <= version
           /\ run[r].code = "none"
           /\ run[r].pc \notin {"start", "write", "end"}
           /\ version \in Nat
<1>1. /\ run[r] \in Invocations /\ Fits(r) /\ run[r].to \in Nat /\ run[r].at \in Nat
      /\ version \in Nat
  BY Types DEF IInv
<1>2. run[r].to > 0 /\ run[r].to <= version
  BY DEF IInv, Fits, Names
<1>3. run[r].pc \notin {"start", "write", "end"}
  BY DEF Following
<1>4. run[r].code = "none"
  BY <1>3 DEF IInv, Fits, Names
<1>5. run[r].to \in Versions
  BY <1>1, <1>2 DEF Invocations
<1> QED
  BY <1>1, <1>2, <1>3, <1>4, <1>5

\* A run that has failed answers for its name only.
LEMMA FailedFits ==
    ASSUME NEW r \in Runs, run'[r].failed = TRUE, Names(r)',
           run'[r].code \notin {"done", "pending"}
    PROVE  Fits(r)'
BY DEF Fits, Kicks, Passed, Rows, Ends

LEMMA RecordRotatedKeeps ==
    ASSUME RotationAssumption, IInv, refresh' = refresh, NEW r \in Runs, RecordRotated(r)
    PROVE  IInv'
<1> DEFINE next == [run[r] EXCEPT !.pc = "refresh"]
<1>0. run[r].pc = "rotated" /\ run[r].kicked = {} /\ run[r].at = 1
  BY DEF IInv, Fits, Names, RecordRotated
<1>1. /\ next \in Invocations /\ next.pc = "refresh" /\ next.to = run[r].to /\ next.at = 1
      /\ next.kicked = {} /\ next.code = "none"
  BY <1>0, Written DEF Invocations
<1>2. version' = version /\ loaded' = loaded
  BY DEF RecordRotated
<1>3. ASSUME run'[r] = next, [event |-> "rotated", to |-> run[r].to] \in ledger'
      PROVE  Fits(r)'
  <2>1. Names(r)'
    BY <1>0, <1>1, <1>2, <1>3, Written DEF Names, Following
  <2> HIDE DEF next
  <2>2. Kicks(r)' /\ Passed(r)' /\ Rows(r)' /\ Ends(r)'
    BY <1>1, <1>3 DEF Kicks, Passed, Following, Rows, Ends, Daemons
  <2> QED
    BY <2>1, <2>2 DEF Fits
<1>4. ASSUME run'[r] = [next EXCEPT !.failed = TRUE] PROVE Fits(r)'
  <2>1. /\ run'[r].pc = "refresh" /\ run'[r].to = run[r].to /\ run'[r].code = "none"
        /\ run'[r].failed = TRUE
    BY <1>1, <1>4 DEF Invocations
  <2>2. Names(r)'
    BY <1>0, <1>2, <2>1, Written DEF Names, Following
  <2> QED
    BY <2>1, <2>2, FailedFits
<1>5. Record(r, "rotated", next)
  BY DEF RecordRotated
<1> HIDE DEF next
<1> QED
  BY <1>0, <1>1, <1>2, <1>3, <1>4, <1>5, Written, RecordKeeps

LEMMA RefreshedKeeps ==
    ASSUME RotationAssumption, IInv, refresh' = refresh, NEW r \in Runs, Refreshed(r)
    PROVE  IInv'
<1> DEFINE next == [run[r] EXCEPT !.pc = "probe", !.at = 1]
<1>0. run[r].pc = "refresh" /\ Following(r) /\ Set(r, next)
      /\ UNCHANGED <<version, loaded, ledger, faults>>
  BY DEF Refreshed, Following
<1>1. /\ next \in Invocations /\ next.pc = "probe" /\ next.to = run[r].to
      /\ next.kicked = run[r].kicked /\ next.pending = run[r].pending
      /\ next.failed = run[r].failed /\ next.code = "none"
  <2>1. run[r] \in Invocations /\ run[r].code = "none" /\ 1 \in 1 .. Consumers + 1
    BY <1>0, Written, Types DEF IInv
  <2> QED
    BY <2>1 DEF Invocations
<1>2. run'[r] = next
  BY <1>0, Types DEF IInv, Set
<1> HIDE DEF next
<1>3. \A d \in Daemons : d < run[r].at
  BY <1>0, Written, Types DEF Refreshed, Daemons, Invocations, IInv
<1>4. Names(r)'
  BY <1>0, <1>1, <1>2, Written DEF Names, Following
<1>5. Kicks(r)'
  BY <1>0, <1>1, <1>2, Written DEF Kicks, Fits
<1>6. Passed(r)'
  BY <1>0, <1>1, <1>2, <1>3, Written DEF Passed, Fits, Following, Holds
<1>7. Rows(r)' /\ Ends(r)'
  BY <1>0, <1>1, <1>2, Written DEF Rows, Ends, Fits, Following
<1> QED
  BY <1>0, <1>1, <1>4, <1>5, <1>6, <1>7, QuietStepKeeps DEF Fits

LEMMA NextIsInvocation ==
    ASSUME RotationAssumption, IInv, NEW r \in Runs, run[r].at \in Daemons
    PROVE  /\ NextConsumer(r) \in Invocations
           /\ NextConsumer(r).pc = run[r].pc /\ NextConsumer(r).to = run[r].to
           /\ NextConsumer(r).at = run[r].at + 1
           /\ NextConsumer(r).kicked = run[r].kicked /\ NextConsumer(r).pending = run[r].pending
           /\ NextConsumer(r).failed = run[r].failed /\ NextConsumer(r).code = run[r].code
<1>1. run[r] \in Invocations /\ run[r].at + 1 \in 1 .. Consumers + 1
  BY Types DEF IInv, Daemons
<1> QED
  BY <1>1 DEF NextConsumer, Invocations

LEMMA ProbeKeeps ==
    ASSUME RotationAssumption, IInv, refresh' = refresh, NEW r \in Runs, ProbeConsumer(r)
    PROVE  IInv'
<1>0. /\ run[r].pc = "probe" /\ Following(r) /\ run[r].at \in Daemons
      /\ UNCHANGED <<version, loaded, ledger>> /\ (UNCHANGED faults \/ Fault)
  BY DEF ProbeConsumer, Following
<1>1. PICK next \in {NextConsumer(r), [NextConsumer(r) EXCEPT !.failed = TRUE]} : Set(r, next)
  BY DEF ProbeConsumer
<1>2. /\ next \in Invocations /\ next.pc = "probe" /\ next.to = run[r].to
      /\ next.kicked = run[r].kicked /\ next.pending = run[r].pending
      /\ (~next.failed => ~run[r].failed) /\ next.code = "none"
  <2>1. run[r].code = "none" /\ NextConsumer(r).pc = "probe"
    BY <1>0, Written DEF NextConsumer, Invocations
  <2>2. CASE next = NextConsumer(r)
    BY <1>0, <2>1, <2>2, NextIsInvocation
  <2>3. CASE next = [NextConsumer(r) EXCEPT !.failed = TRUE]
    BY <1>0, <2>1, <2>3, NextIsInvocation DEF Invocations
  <2> QED
    BY <1>1, <2>2, <2>3
<1>3. run'[r] = next
  BY <1>1, Types DEF IInv, Set
<1>4. Names(r)'
  BY <1>0, <1>2, <1>3, Written DEF Names, Following
<1>5. Kicks(r)'
  BY <1>0, <1>2, <1>3, Written DEF Kicks, Fits
<1>6. Passed(r)'
  BY <1>0, <1>2, <1>3, Written DEF Passed, Fits, Following, Holds
<1>7. Rows(r)' /\ Ends(r)'
  BY <1>0, <1>2, <1>3, Written DEF Rows, Ends, Fits, Following
<1> QED
  BY <1>0, <1>1, <1>2, <1>4, <1>5, <1>6, <1>7, QuietStepKeeps DEF Fits

LEMMA ExitKeeps ==
    ASSUME RotationAssumption, IInv, refresh' = refresh, NEW r \in Runs, Exit(r)
    PROVE  IInv'
<1> DEFINE next == [run[r] EXCEPT !.pc = "end", !.code = ExitCode(run[r])]
<1>0. /\ run[r].pc = "exit" /\ Following(r) /\ Set(r, next)
      /\ UNCHANGED <<version, loaded, ledger, faults>>
  BY DEF Exit, Following
<1>1. /\ next \in Invocations /\ next.pc = "end" /\ next.to = run[r].to
      /\ next.pending = run[r].pending /\ next.failed = run[r].failed
      /\ next.code = ExitCode(run[r])
  BY <1>0, Written DEF Invocations, ExitCode
<1>2. run'[r] = next
  BY <1>0, Types DEF IInv, Set
<1> HIDE DEF next
<1>3. Names(r)'
  BY <1>0, <1>1, <1>2, Written DEF Names, Following
<1>4. Kicks(r)' /\ Passed(r)' /\ Rows(r)'
  BY <1>1, <1>2 DEF Kicks, Passed, Rows, Following
<1>5. Ends(r)'
  <2>1. CASE ExitCode(run[r]) \in {"done", "pending"}
    <3>1. ~run[r].failed
      BY <2>1 DEF ExitCode
    <3>2. \A d \in Daemons \ run[r].pending : Holds(d, run[r].to)
      BY <1>0, <3>1, Written DEF Fits, Passed
    <3>3. ExitCode(run[r]) = "done" => run[r].pending = {}
      BY <3>1 DEF ExitCode
    <3>4. ExitCode(run[r]) = "done" =>
            /\ [event |-> "rotated", to |-> run[r].to] \in ledger
            /\ [event |-> "verified", to |-> run[r].to] \in ledger
      BY <1>0, <3>1, <3>3, Written DEF Fits, Rows
    <3> QED
      BY <1>0, <1>1, <1>2, <3>2, <3>4 DEF Ends, Holds
  <2>2. CASE ExitCode(run[r]) \notin {"done", "pending"}
    BY <1>1, <1>2, <2>2 DEF Ends
  <2> QED
    BY <2>1, <2>2
<1> QED
  BY <1>0, <1>1, <1>3, <1>4, <1>5, QuietStepKeeps DEF Fits

LEMMA KillKeeps ==
    ASSUME RotationAssumption, IInv, refresh' = refresh, NEW r \in Runs, Kill(r)
    PROVE  IInv'
<1> DEFINE next == [run[r] EXCEPT !.pc = "end", !.code = "killed"]
<1>0. /\ Set(r, next) /\ Fault /\ UNCHANGED <<version, loaded, ledger>>
      /\ run[r] \in Invocations /\ Names(r) /\ run[r].to \in Nat /\ version \in Nat
  BY Types DEF Kill, IInv, Fits
<1>1. next \in Invocations /\ next.pc = "end" /\ next.to = run[r].to /\ next.code = "killed"
  BY <1>0 DEF Invocations
<1>2. run'[r] = next
  BY <1>0, Types DEF IInv, Set
<1> HIDE DEF next
<1>3. Fits(r)'
  BY <1>0, <1>1, <1>2 DEF Fits, Names, Kicks, Passed, Rows, Ends, Following
<1> QED
  BY <1>0, <1>1, <1>3, QuietStepKeeps

LEMMA ConcludeKeeps ==
    ASSUME RotationAssumption, IInv, refresh' = refresh, NEW r \in Runs, Conclude(r)
    PROVE  IInv'
<1> DEFINE next == [run[r] EXCEPT !.pc = "exit"]
           event == IF ExitCode(run[r]) = "done" THEN "verified" ELSE "incomplete"
<1>0. /\ run[r].pc = "probe" /\ Following(r) /\ Record(r, event, next)
      /\ version' = version /\ loaded' = loaded
  BY DEF Conclude, Following
<1>1. /\ next \in Invocations /\ next.pc = "exit" /\ next.to = run[r].to
      /\ next.kicked = run[r].kicked /\ next.pending = run[r].pending
      /\ next.failed = run[r].failed /\ next.code = "none"
  BY <1>0, Written DEF Invocations
<1> HIDE DEF next
<1>2. ledger \subseteq ledger'
  BY <1>0 DEF Record, AppendLedger
<1>3. ASSUME run'[r] = next, [event |-> event, to |-> run[r].to] \in ledger'
      PROVE  Fits(r)'
  <2>1. Names(r)' /\ Kicks(r)'
    BY <1>0, <1>1, <1>3, Written DEF Names, Following, Kicks, Fits
  <2>2. Passed(r)'
    BY <1>0, <1>1, <1>3, Written DEF Passed, Fits, Following, Holds
  <2>3. Rows(r)'
    <3> SUFFICES ASSUME ~run[r].failed
                 PROVE  /\ [event |-> "rotated", to |-> run[r].to] \in ledger'
                        /\ run[r].pending = {} =>
                               [event |-> "verified", to |-> run[r].to] \in ledger'
      BY <1>1, <1>3 DEF Rows
    <3>1. [event |-> "rotated", to |-> run[r].to] \in ledger
      BY <1>0, Written DEF Fits, Rows
    <3>2. run[r].pending = {} => event = "verified"
      BY DEF ExitCode
    <3> QED
      BY <1>2, <1>3, <3>1, <3>2
  <2>4. Ends(r)'
    BY <1>1, <1>3 DEF Ends
  <2> QED
    BY <2>1, <2>2, <2>3, <2>4 DEF Fits
<1>4. ASSUME run'[r] = [next EXCEPT !.failed = TRUE] PROVE Fits(r)'
  <2>1. /\ run'[r].pc = "exit" /\ run'[r].to = run[r].to /\ run'[r].code = "none"
        /\ run'[r].failed = TRUE
    BY <1>1, <1>4 DEF Invocations
  <2>2. Names(r)'
    BY <1>0, <2>1, Written DEF Names, Following
  <2> QED
    BY <2>1, <2>2, FailedFits
<1>5. event = "verified" => /\ [event |-> "rotated", to |-> run[r].to] \in ledger
                            /\ \A d \in Daemons : Holds(d, run[r].to)
  <2> SUFFICES ASSUME event = "verified"
               PROVE  /\ [event |-> "rotated", to |-> run[r].to] \in ledger
                      /\ \A d \in Daemons : Holds(d, run[r].to)
    OBVIOUS
  <2>1. ~run[r].failed /\ run[r].pending = {}
    BY DEF ExitCode
  <2> QED
    BY <1>0, <2>1, Written DEF Fits, Rows, Passed
<1>6. event \in {"rotated", "verified", "incomplete"}
  OBVIOUS
<1> HIDE DEF event
<1> QED
  BY <1>0, <1>1, <1>3, <1>4, <1>5, <1>6, Written, RecordKeeps

\* A consumer that starts anew keeps the invariant whoever started it.
LEMMA RestartKeeps ==
    ASSUME RotationAssumption, IInv, refresh' = refresh, NEW d \in Daemons, Restart(d)
    PROVE  IInv'
<1>1. /\ version' = version /\ run' = run /\ ledger' = ledger /\ faults' = faults
      /\ loaded' \in [Daemons -> Versions] /\ Behind'
      /\ \A c \in Daemons : loaded'[c] \in Nat /\ loaded'[c] >= loaded[c]
  BY FetchForward DEF IInv, Restart
<1>2. Forward
  BY <1>1, Types DEF Forward, IInv
<1>3. \A r \in Runs : Fits(r)'
  BY <1>1, <1>2, OthersFit DEF IInv
<1>4. VerifiedRowIsTrue'
  BY <1>1, <1>2, RowsStayTrue DEF IInv
<1>5. TypeOK' /\ Counted'
  BY <1>1 DEF IInv, TypeOK, Counted, Writers
<1> QED
  BY <1>1, <1>3, <1>4, <1>5 DEF IInv

\* The kickstart of a label hands everyone behind it the version of the run.
LEMMA KickedHold ==
    ASSUME RotationAssumption, IInv, UNCHANGED <<refresh, version, ledger>>,
           NEW r \in Runs, run[r].pc = "refresh", run[r].at \in Daemons,
           Kickstart(refresh[run[r].at])
    PROVE  /\ Forward
           /\ loaded' \in [Daemons -> Versions] /\ Behind'
           /\ \A d \in Daemons : loaded'[d] >= loaded[d]
           /\ \A d \in Daemons : refresh[d] = refresh[run[r].at] => loaded'[d] >= run[r].to
<1> DEFINE ds == {d \in Daemons : refresh[d] = refresh[run[r].at]}
<1>1. /\ loaded' \in [Daemons -> Versions] /\ Behind'
      /\ \A d \in Daemons : loaded'[d] \in Nat /\ loaded'[d] >= loaded[d]
      /\ \A d \in ds \cap Daemons : loaded'[d] = version
  BY FetchForward DEF IInv, Kickstart
<1>2. run[r].to <= version /\ version \in Nat /\ run[r].to \in Nat
  BY Written DEF Following
<1>3. Forward
  BY <1>1, <1>2 DEF Forward
<1> QED
  BY <1>1, <1>2, <1>3

LEMMA RefreshKeeps ==
    ASSUME RotationAssumption, IInv, refresh' = refresh, NEW r \in Runs, RefreshConsumer(r)
    PROVE  IInv'
<1> DEFINE d == run[r].at
           moved == NextConsumer(r)
<1>0. /\ run[r].pc = "refresh" /\ Following(r) /\ d \in Daemons
      /\ version' = version /\ ledger' = ledger
  BY DEF RefreshConsumer, Following
<1>1. run \in [Runs -> Invocations] /\ Fits(r)
  BY Types DEF IInv
<1>2. \A c \in Daemons : c < d + 1 => c < d \/ c = d
  BY <1>0 DEF Daemons
<1>3. /\ moved \in Invocations /\ moved.pc = "refresh" /\ moved.to = run[r].to
      /\ moved.at = d + 1 /\ moved.kicked = run[r].kicked /\ moved.pending = run[r].pending
      /\ moved.failed = run[r].failed /\ moved.code = "none"
  BY <1>0, NextIsInvocation, Written
<1> HIDE DEF moved
<1>4. CASE /\ refresh[d] = "none" \/ refresh[d] \in run[r].kicked
           /\ Set(r, moved) /\ UNCHANGED <<loaded, faults>>
  <2>1. run'[r] = moved
    BY <1>1, <1>4 DEF Set
  <2>2. ~run[r].failed => Holds(d, run[r].to)
    BY <1>0, <1>1, <1>4 DEF Fits, Kicks, Holds
  <2>3. Names(r)' /\ Kicks(r)' /\ Rows(r)' /\ Ends(r)'
    BY <1>0, <1>1, <1>3, <1>4, <2>1, Written DEF Fits, Names, Following, Kicks, Rows, Ends
  <2>4. Passed(r)'
    BY <1>0, <1>1, <1>2, <1>3, <1>4, <2>1, <2>2 DEF Fits, Passed, Following, Holds
  <2> QED
    BY <1>0, <1>3, <1>4, <2>3, <2>4, QuietStepKeeps DEF Fits
<1>5. CASE /\ refresh[d] = "person"
           /\ Set(r, [moved EXCEPT !.pending = @ \cup {d}]) /\ UNCHANGED <<loaded, faults>>
  <2> DEFINE next == [moved EXCEPT !.pending = @ \cup {d}]
  <2>0. /\ next \in Invocations /\ next.pc = "refresh" /\ next.to = run[r].to
        /\ next.at = d + 1 /\ next.kicked = run[r].kicked
        /\ next.pending = run[r].pending \cup {d}
        /\ next.failed = run[r].failed /\ next.code = "none"
    BY <1>0, <1>3 DEF Invocations
  <2>1. run'[r] = next
    BY <1>1, <1>5 DEF Set
  <2> HIDE DEF next
  <2>3. Names(r)' /\ Kicks(r)' /\ Rows(r)' /\ Ends(r)'
    BY <1>0, <1>1, <1>5, <2>0, <2>1, Written DEF Fits, Names, Following, Kicks, Rows, Ends
  <2>4. Passed(r)'
    BY <1>0, <1>1, <1>2, <1>5, <2>0, <2>1 DEF Fits, Passed, Following, Holds
  <2>5. Set(r, next)
    BY <1>5 DEF next
  <2> QED
    BY <1>0, <1>5, <2>0, <2>3, <2>4, <2>5, QuietStepKeeps DEF Fits
<1>6. CASE /\ refresh[d] \notin {"none", "person"} \cup run[r].kicked
           /\ Kickstart(refresh[d]) /\ UNCHANGED faults
           /\ Set(r, [moved EXCEPT !.kicked = @ \cup {refresh[d]}])
  <2> DEFINE next == [moved EXCEPT !.kicked = @ \cup {refresh[d]}]
  <2>0. /\ next \in Invocations /\ next.pc = "refresh" /\ next.to = run[r].to
        /\ next.at = d + 1 /\ next.kicked = run[r].kicked \cup {refresh[d]}
        /\ next.pending = run[r].pending /\ next.failed = run[r].failed /\ next.code = "none"
    BY <1>0, <1>3 DEF Invocations
  <2>1. run'[r] = next
    BY <1>1, <1>6 DEF Set
  <2>2. Set(r, next)
    BY <1>6
  <2> HIDE DEF next
  <2>3. /\ Forward /\ loaded' \in [Daemons -> Versions] /\ Behind'
        /\ \A c \in Daemons : loaded'[c] >= loaded[c]
        /\ \A c \in Daemons : refresh[c] = refresh[d] => loaded'[c] >= run[r].to
    BY <1>0, <1>6, KickedHold
  <2>4. \A c \in Daemons : loaded[c] \in Nat /\ loaded'[c] \in Nat
    BY <2>3, Types DEF IInv, Forward
  <2>5. Names(r)' /\ Rows(r)' /\ Ends(r)'
    BY <1>0, <1>1, <2>0, <2>1, Written DEF Fits, Names, Following, Rows, Ends
  <2>6. Kicks(r)'
    BY <1>0, <1>1, <2>0, <2>1, <2>3, <2>4, Written DEF Fits, Kicks
  <2>7. Passed(r)'
    <3> SUFFICES ASSUME ~run[r].failed, NEW c \in Daemons, c < d + 1, c \notin run[r].pending
                 PROVE  Holds(c, run[r].to)'
      BY <2>0, <2>1 DEF Passed, Holds
    <3>1. CASE c = d
      BY <2>0, <2>1, <2>3, <3>1 DEF Holds
    <3>2. CASE c < d
      <4>1. Holds(c, run[r].to)
        BY <1>0, <1>1, <3>2 DEF Fits, Passed
      <4> QED
        BY <1>0, <2>0, <2>1, <2>3, <2>4, <4>1, Written DEF Holds, Forward
    <3> QED
      BY <1>2, <3>1, <3>2
  <2>8. Counted'
    BY <1>0, <2>0, <2>2, CountedStays
  <2>9. /\ version' \in Versions /\ faults' \in 0 .. MaxFaults
        /\ ledger' \in SUBSET [event : {"rotated", "verified", "incomplete"}, to : Versions]
    BY <1>0, <1>6 DEF IInv, TypeOK
  <2>10. VerifiedRowIsTrue'
    BY <1>0, <2>3, RowsStayTrue DEF IInv
  <2> QED
    BY <2>0, <2>2, <2>3, <2>5, <2>6, <2>7, <2>8, <2>9, <2>10, StepKeeps DEF Fits
<1>7. CASE /\ refresh[d] \notin {"none", "person"} \cup run[r].kicked
           /\ Fault /\ (Kickstart(refresh[d]) \/ UNCHANGED loaded)
           /\ Set(r, [moved EXCEPT !.kicked = @ \cup {refresh[d]}, !.failed = TRUE])
  <2> DEFINE next == [moved EXCEPT !.kicked = @ \cup {refresh[d]}, !.failed = TRUE]
  <2>0. /\ next \in Invocations /\ next.pc = "refresh" /\ next.to = run[r].to
        /\ next.failed = TRUE /\ next.code = "none"
    BY <1>0, <1>3 DEF Invocations
  <2>1. run'[r] = next
    BY <1>1, <1>7 DEF Set
  <2>2. Set(r, next)
    BY <1>7
  <2> HIDE DEF next
  <2>3. Forward /\ loaded' \in [Daemons -> Versions] /\ Behind'
    <3>1. CASE Kickstart(refresh[d])
      BY <1>0, <3>1, KickedHold
    <3>2. CASE UNCHANGED loaded
      BY <1>0, <3>2, Types DEF IInv, Forward, TypeOK, Behind
    <3> QED
      BY <1>7, <3>1, <3>2
  <2>4. Names(r)'
    BY <1>0, <2>0, <2>1, Written DEF Names, Following
  <2>5. Fits(r)'
    BY <2>0, <2>1, <2>4, FailedFits
  <2>6. Counted'
    BY <1>0, <2>0, <2>2, CountedStays
  <2>7. /\ version' \in Versions /\ faults' \in 0 .. MaxFaults
        /\ ledger' \in SUBSET [event : {"rotated", "verified", "incomplete"}, to : Versions]
    BY <1>0, <1>7, Types DEF IInv, TypeOK, Fault
  <2>8. VerifiedRowIsTrue'
    BY <1>0, <2>3, RowsStayTrue DEF IInv
  <2> QED
    BY <2>0, <2>2, <2>3, <2>5, <2>6, <2>7, <2>8, StepKeeps
<1> QED
  BY <1>4, <1>5, <1>6, <1>7 DEF RefreshConsumer, moved

-----------------------------------------------------------------------------
(* The invariant, and what follows from it.                                *)

LEMMA NextKeeps ==
    ASSUME RotationAssumption, IInv, [Next]_rotationVars
    PROVE  IInv'
<1>1. CASE Next
  <2>1. refresh' = refresh
    BY <1>1 DEF Next
  <2>2. ASSUME NEW r \in Runs, Rotate(r) PROVE IInv'
    BY <2>1, <2>2, CheckKeeps, WriteKeeps, RecordRotatedKeeps, RefreshKeeps, RefreshedKeeps,
       ProbeKeeps, ConcludeKeeps, ExitKeeps DEF Rotate
  <2>3. ASSUME NEW r \in Runs, Kill(r) PROVE IInv'
    BY <2>1, <2>3, KillKeeps
  <2>4. ASSUME NEW d \in Daemons, Restart(d) PROVE IInv'
    BY <2>1, <2>4, RestartKeeps
  <2> QED
    BY <1>1, <2>2, <2>3, <2>4 DEF Next
<1>2. CASE UNCHANGED rotationVars
  BY <1>2 DEF rotationVars, IInv, TypeOK, Counted, Writers, Behind, Fits, Names, Kicks, Passed,
              Rows, Ends, Following, VerifiedRowIsTrue, Holds
<1> QED
  BY <1>1, <1>2

LEMMA IInvTells ==
    ASSUME IInv
    PROVE  TypeOK /\ ExitTellsStale /\ VerifiedRowIsTrue /\ DoneIsRecorded
BY DEF IInv, Fits, Ends, ExitTellsStale, DoneIsRecorded

\* However many rotations overlap and whatever fails, one that ends well names
\* every consumer left with an old value, a verified row is true of all of them,
\* and a success has left both of its rows (internal/secrets/rotate.go).
THEOREM RotationsTellTheTruth ==
    ASSUME RotationAssumption
    PROVE  Spec => [](TypeOK /\ ExitTellsStale /\ VerifiedRowIsTrue /\ DoneIsRecorded)
<1>1. Init => IInv
  BY InitIInv
<1>2. IInv /\ [Next]_rotationVars => IInv'
  BY NextKeeps
<1>3. IInv => TypeOK /\ ExitTellsStale /\ VerifiedRowIsTrue /\ DoneIsRecorded
  BY IInvTells
<1> QED
  BY <1>1, <1>2, <1>3, PTL DEF Spec
=============================================================================
