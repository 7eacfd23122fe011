------------------------ MODULE RunbookEngineProofs ------------------------
(***************************************************************************)
(* What holds of one runbook instance for every edition and any number of  *)
(* commands that load the print, work on their copies and save them back   *)
(* over one another, with any number of kills and failed writes; and what  *)
(* holds besides when the commands come one after the other.               *)
(***************************************************************************)
EXTENDS RunbookEngine, WellFoundedInduction, TLAPS

-----------------------------------------------------------------------------
(* The strengthening.                                                      *)

\* The print says nothing that did not happen.  It is said of a print on disk
\* and of every copy, since any copy may be what the next Save leaves.
Sound(inst, history) ==
    \A s \in StepIds :
        /\ inst.steps[s].signed => s \in history.authorised
        /\ inst.steps[s].status = "skipped" => inst.dryRun \/ ~Step[s].runs
        /\ inst.steps[s].status = "completed" =>
               /\ s \in history.audited
               /\ Step[s].runs => history.runs[s] > 0

AtStep(c) == c.pc \in {"running", "ended", "audited"}

\* The step at hand: what runs for real has been counted, what is called
\* executed ran, and what is about to be recorded has its audit row.
Honest(c, history) ==
    LET s == Current(c.inst)
    IN  /\ c.pc = "running" /\ Executes(c.inst, s, c.outputs) => history.runs[s] > 0
        /\ c.pc \in {"ended", "audited"} /\ c.outcome = "ok" /\ Step[s].runs => history.runs[s] > 0
        /\ c.pc = "audited" /\ c.outcome # "fail" => s \in history.audited
        /\ c.pc \in {"ended", "audited"} /\ c.outcome = "skipped" => c.inst.dryRun

\* The loop over the steps is under way.
Applying(c) == c.pc = "next" \/ AtStep(c)

Fits(c, history) ==
    c.pc # "idle" =>
        /\ c.inst \in Prints
        /\ Sound(c.inst, history)
        /\ Applying(c) => CompletedOutputs(c.inst) \subseteq c.outputs
        /\ AtStep(c) => ~AllOver(c.inst) /\ Honest(c, history)

IInv ==
    /\ TypeOK
    /\ print # NoPrint => Sound(print, seen)
    /\ \A p \in Commands : Fits(cmd[p], seen)
    /\ UnsignedNeverRuns

\* The recorded commit: what ran for real ended there, it is recorded at the
\* first such run and never again, and a drift that was seen has voided it.
Binds(inst, history) ==
    /\ inst.commit # "" => inst.started = "yes" /\ ~inst.dryRun
    /\ history.drift => inst.commit = "" /\ inst.started = "yes"
    /\ \A s \in StepIds :
          Step[s].runs /\ inst.steps[s].status = "completed" =>
              /\ inst.dryRun \/ inst.started # "no"
              /\ inst.commit # "" => history.endedAt[s] = inst.commit

\* The step at hand, once it has run, is about to be completed in such a print.
BindsAtHand(c, history) ==
    LET s == Current(c.inst)
    IN  AtStep(c) =>
            /\ Step[s].runs => c.inst.dryRun \/ c.inst.started # "no"
            /\ c.pc # "running" /\ c.inst.commit # "" => history.endedAt[s] = c.inst.commit

\* A copy against the print it will be saved over, when nobody else saves: the
\* same until the loop begins, and from then on only ahead of it.
Mirrors(c, disk) ==
    c.pc # "idle" =>
        /\ disk # NoPrint
        /\ disk.commit = c.inst.commit /\ disk.started = c.inst.started
        /\ ~Applying(c) => disk = c.inst
        /\ Applying(c) =>
              /\ ~Finished(disk) /\ ~Finished(c.inst)
              /\ \A s \in StepIds :
                    disk.steps[s].status = "completed" => c.inst.steps[s].status = "completed"

\* What is still to be done was begun once for each fault and no more often.
Counted(inst, at, history, n) ==
    \A s \in StepIds \ at : ~StepOver(inst, s) => history.runs[s] <= n

AtHand(c) == IF AtStep(c) THEN {Current(c.inst)} ELSE {}

\* One command c, the print on disk, the history and the faults so far.
Word(disk, c, history, n) ==
    /\ \A s \in StepIds : history.runs[s] <= 1 + n
    /\ disk = NoPrint => c.pc = "idle" /\ ~history.drift /\ \A s \in StepIds : history.runs[s] <= n
    /\ disk # NoPrint => Binds(disk, history)
    /\ c.pc # "idle" => Binds(c.inst, history) /\ BindsAtHand(c, history)
    /\ Mirrors(c, disk)
    /\ disk # NoPrint /\ ~Finished(disk) /\ ~Applying(c) => Counted(disk, {}, history, n)
    /\ Applying(c) => Counted(c.inst, AtHand(c), history, n)

\* The invariant of commands that come one after the other.
LoneIInv == IInv /\ \A p \in Commands : Word(print, cmd[p], seen, faults)

-----------------------------------------------------------------------------
(* Prints, copies and the history.                                         *)

Copies == [pc : {"idle", "apply", "open", "next", "running", "ended", "audited",
                 "sign", "cancel", "require"},
           inst : Prints \cup {NoPrint}, outputs : SUBSET StepIds,
           outcome : {"ok", "fail", "skipped"}]

Histories == [runs : [StepIds -> 0 .. MaxRuns], endedAt : [StepIds -> Trees \cup {""}],
              audited : SUBSET StepIds, authorised : SUBSET StepIds, drift : BOOLEAN]

\* A history forgets nothing.
Grows(h, k) ==
    /\ h.audited \subseteq k.audited
    /\ h.authorised \subseteq k.authorised
    /\ \A s \in StepIds : h.runs[s] > 0 => k.runs[s] > 0

LEMMA SoundGrows ==
    ASSUME NEW inst, NEW h, NEW k, Grows(h, k), Sound(inst, h)
    PROVE  Sound(inst, k)
BY DEF Grows, Sound

LEMMA CurrentIsAStep ==
    ASSUME RunbookAssumption, NEW inst, ~AllOver(inst)
    PROVE  /\ Current(inst) \in StepIds /\ ~StepOver(inst, Current(inst))
           /\ \A t \in 1 .. Current(inst) - 1 : StepOver(inst, t)
<1> DEFINE due == {s \in StepIds : ~StepOver(inst, s)}
<1>1. due \in SUBSET Nat /\ due # {}
  <2>1. StepIds \subseteq Nat
    BY DEF StepIds, RunbookAssumption
  <2>2. \E s \in StepIds : ~StepOver(inst, s)
    BY DEF AllOver
  <2> QED
    BY <2>1, <2>2
<1>2. PICK s \in due : \A t \in due : s <= t
  <2> HIDE DEF due
  <2>1. PICK s \in due : \A t \in due : ~(<<t, s>> \in OpToRel(<, Nat))
    BY <1>1, NatLessThanWellFounded, WFMin
  <2>2. \A x, y \in Nat : x <= y \/ <<y, x>> \in OpToRel(<, Nat)
    BY DEF OpToRel
  <2> QED
    BY <1>1, <2>1, <2>2
<1>3. s \in StepIds /\ s \in Nat /\ ~StepOver(inst, s) /\ Steps \in Nat
  BY <1>1, <1>2 DEF RunbookAssumption
<1>4. ASSUME NEW t \in 1 .. s - 1 PROVE StepOver(inst, t)
  <2>1. t \in StepIds /\ t \in Nat /\ ~(s <= t)
    BY <1>3 DEF StepIds
  <2> QED
    BY <1>2, <2>1
<1>5. \E u \in StepIds : ~StepOver(inst, u) /\ \A t \in 1 .. u - 1 : StepOver(inst, t)
  BY <1>3, <1>4
<1> QED
  BY <1>5 DEF Current

LEMMA FitsGrows ==
    ASSUME RunbookAssumption, NEW c, NEW h, NEW k, Grows(h, k), Fits(c, h)
    PROVE  Fits(c, k)
<1> SUFFICES ASSUME c.pc # "idle"
             PROVE  Sound(c.inst, k) /\ (AtStep(c) => ~AllOver(c.inst) /\ Honest(c, k))
  BY DEF Fits
<1>1. Sound(c.inst, k)
  BY SoundGrows DEF Fits
<1>2. ASSUME AtStep(c) PROVE ~AllOver(c.inst) /\ Honest(c, k)
  <2>1. ~AllOver(c.inst) /\ Honest(c, h)
    BY <1>2 DEF Fits
  <2>2. Current(c.inst) \in StepIds
    BY <2>1, CurrentIsAStep
  <2> QED
    BY <2>1, <2>2 DEF Honest, Grows
<1> QED
  BY <1>1, <1>2

\* What only marks a print otherwise than in its steps leaves the step at hand.
SameSteps(inst, other) == inst.steps = other.steps /\ inst.dryRun = other.dryRun

LEMMA SameStepsSame ==
    ASSUME NEW inst, NEW other, SameSteps(inst, other)
    PROVE  /\ Current(inst) = Current(other) /\ AllOver(inst) = AllOver(other)
           /\ CompletedOutputs(inst) = CompletedOutputs(other) /\ inst.dryRun = other.dryRun
           /\ \A s, outputs : Executes(inst, s, outputs) = Executes(other, s, outputs)
           /\ \A h : Sound(inst, h) = Sound(other, h)
BY DEF SameSteps, Current, AllOver, StepOver, Executes, Sound, CompletedOutputs

LEMMA Types ==
    ASSUME RunbookAssumption, TypeOK
    PROVE  /\ cmd \in [Commands -> Copies] /\ seen \in Histories
           /\ Steps \in Nat /\ MaxRuns \in Nat /\ MaxFaults \in Nat
           /\ \A s \in StepIds : seen.runs[s] \in Nat
<1>1. cmd \in [Commands -> Copies]
  BY DEF TypeOK, Copies
<1>2. seen \in Histories
  BY DEF TypeOK, Histories
<1>3. Steps \in Nat /\ MaxRuns \in Nat /\ MaxFaults \in Nat
  BY DEF RunbookAssumption
<1>4. seen.runs \in [StepIds -> 0 .. MaxRuns]
  BY <1>2 DEF Histories
<1>5. \A s \in StepIds : seen.runs[s] \in Nat
  BY <1>3, <1>4
<1> QED
  BY <1>1, <1>2, <1>3, <1>5

\* Marks of a print that leave it a print.
LEMMA PrintFields ==
    ASSUME NEW inst \in Prints
    PROVE  /\ inst # NoPrint
           /\ \A status \in {"pending", "running", "waiting_approval", "completed", "failed", "cancelled"} :
                 /\ [inst EXCEPT !.status = status] \in Prints
                 /\ SameSteps([inst EXCEPT !.status = status], inst)
           /\ [inst EXCEPT !.commit = ""] \in Prints
           /\ SameSteps([inst EXCEPT !.commit = ""], inst)
           /\ Failed(inst) \in Prints /\ SameSteps(Failed(inst), inst)
<1>1. inst.status \in {"pending", "running", "waiting_approval", "completed", "failed", "cancelled"}
  BY DEF Prints
<1>2. inst # NoPrint
  BY <1>1 DEF NoPrint
<1> QED
  BY <1>2 DEF Prints, SameSteps, Failed

LEMMA StatusKeepsTheSteps ==
    ASSUME NEW inst \in Prints,
           NEW status \in {"pending", "running", "waiting_approval", "completed", "failed", "cancelled"}
    PROVE  /\ [inst EXCEPT !.status = status] \in Prints
           /\ SameSteps([inst EXCEPT !.status = status], inst)
BY PrintFields

\* A print that differs from another in the status of one step.
Marked(new, inst, s, status) ==
    /\ new \in Prints
    /\ new.dryRun = inst.dryRun /\ new.commit = inst.commit /\ new.started = inst.started
    /\ new.status = inst.status
    /\ \A t \in StepIds : new.steps[t].signed = inst.steps[t].signed
    /\ new.steps[s].status = status
    /\ \A t \in StepIds \ {s} : new.steps[t] = inst.steps[t]

LEMMA StepMarked ==
    ASSUME NEW inst \in Prints, NEW s \in StepIds,
           NEW status \in {"pending", "completed", "skipped", "failed", "waiting_approval"}
    PROVE  Marked(WithStep(inst, s, status), inst, s, status)
BY DEF Prints, WithStep, Marked

-----------------------------------------------------------------------------
(* Saving, and everything a command does, keep the invariant.              *)

\* One command moves; what it may have left on disk was sound.
LEMMA CommandStepKeeps ==
    ASSUME RunbookAssumption, IInv, NEW p \in Commands,
           NEW next \in Copies, cmd' = [cmd EXCEPT ![p] = next],
           print' \in Prints \cup {NoPrint},
           tree' = tree, core' = core, changes' = changes, faults' \in 0 .. MaxFaults,
           seen' \in Histories, Grows(seen, seen'),
           print' # NoPrint => Sound(print', seen'),
           Fits(next, seen'), UnsignedNeverRuns'
    PROVE  IInv'
<1>1. cmd \in [Commands -> Copies]
  BY Types DEF IInv
<1>2. cmd' \in [Commands -> Copies]
  BY <1>1
<1>3. TypeOK'
  BY <1>2 DEF IInv, TypeOK, Copies, Histories
<1>4. \A q \in Commands : Fits(cmd'[q], seen')
  <2> TAKE q \in Commands
  <2>1. CASE q = p
    BY <1>1, <2>1
  <2>2. CASE q # p
    <3>1. cmd'[q] = cmd[q] /\ Fits(cmd[q], seen)
      BY <1>1, <2>2 DEF IInv
    <3> QED
      BY <3>1, FitsGrows
  <2> QED
    BY <2>1, <2>2
<1> QED
  BY <1>3, <1>4 DEF IInv

LEMMA IdleFits == Idle \in Copies /\ \A h : Fits(Idle, h)
BY DEF Idle, Copies, Fits

\* A save of a sound print.
LEMMA SaveKeeps ==
    ASSUME RunbookAssumption, IInv, NEW p \in Commands,
           NEW inst \in Prints, NEW next \in Copies, Save(p, inst, next),
           UNCHANGED <<tree, core, changes>>,
           seen' \in Histories, Grows(seen, seen'),
           Sound(inst, seen'), Fits(next, seen'), UnsignedNeverRuns'
    PROVE  IInv'
<1>0. MaxFaults \in Nat /\ faults \in 0 .. MaxFaults /\ print \in Prints \cup {NoPrint}
  BY DEF RunbookAssumption, IInv, TypeOK
<1>1. print # NoPrint => Sound(print, seen')
  BY SoundGrows DEF IInv
<1>2. CASE print' = inst /\ Turn(p, next) /\ UNCHANGED faults
  BY <1>0, <1>2, CommandStepKeeps DEF Turn
<1>3. CASE /\ faults < MaxFaults /\ faults' = faults + 1
           /\ print' \in {print, inst} /\ Turn(p, Idle)
  <2>1. faults' \in 0 .. MaxFaults
    BY <1>0, <1>3
  <2>2. print' # NoPrint => Sound(print', seen')
    BY <1>1, <1>3
  <2> QED
    BY <1>0, <1>3, <2>1, <2>2, IdleFits, CommandStepKeeps DEF Turn
<1> QED
  BY <1>2, <1>3 DEF Save

\* A turn that saves nothing.
LEMMA TurnKeeps ==
    ASSUME RunbookAssumption, IInv, NEW p \in Commands,
           NEW next \in Copies, Turn(p, next), UNCHANGED <<print, tree, core, changes>>,
           faults' \in 0 .. MaxFaults,
           seen' \in Histories, Grows(seen, seen'),
           Fits(next, seen'), UnsignedNeverRuns'
    PROVE  IInv'
<1>1. print' \in Prints \cup {NoPrint}
  BY DEF IInv, TypeOK
<1>2. print' # NoPrint => Sound(print', seen')
  BY SoundGrows DEF IInv
<1> QED
  BY <1>1, <1>2, CommandStepKeeps DEF Turn

\* The history as it is.
LEMMA HistoryStill ==
    ASSUME RunbookAssumption, IInv, UNCHANGED seen
    PROVE  /\ seen' \in Histories /\ Grows(seen, seen') /\ UnsignedNeverRuns'
           /\ faults' = faults => faults' \in 0 .. MaxFaults
BY Types DEF IInv, Grows, UnsignedNeverRuns, TypeOK

\* The drift it saw, and where a step ended, are of no concern here.
LEMMA HistoryNotes ==
    ASSUME RunbookAssumption, IInv, NEW d \in BOOLEAN,
           \/ seen' = [seen EXCEPT !.drift = d]
           \/ \E s \in StepIds, w \in Trees \cup {""} :
                  seen' = [seen EXCEPT !.drift = d, !.endedAt[s] = w]
    PROVE  seen' \in Histories /\ Grows(seen, seen') /\ UnsignedNeverRuns'
<1>0. seen \in Histories
  BY Types DEF IInv
<1>1. /\ seen' \in Histories /\ seen'.runs = seen.runs /\ seen'.audited = seen.audited
      /\ seen'.authorised = seen.authorised
  <2>1. CASE seen' = [seen EXCEPT !.drift = d]
    BY <1>0, <2>1 DEF Histories
  <2>2. ASSUME NEW s \in StepIds, NEW w \in Trees \cup {""},
               seen' = [seen EXCEPT !.drift = d, !.endedAt[s] = w]
        PROVE  /\ seen' \in Histories /\ seen'.runs = seen.runs /\ seen'.audited = seen.audited
               /\ seen'.authorised = seen.authorised
    <3>1. [seen.endedAt EXCEPT ![s] = w] \in [StepIds -> Trees \cup {""}]
      BY <1>0 DEF Histories
    <3>2. seen' = [runs |-> seen.runs, endedAt |-> [seen.endedAt EXCEPT ![s] = w],
                   audited |-> seen.audited, authorised |-> seen.authorised, drift |-> d]
      BY <1>0, <2>2 DEF Histories
    <3> QED
      BY <1>0, <3>1, <3>2 DEF Histories
  <2> QED
    BY <2>1, <2>2
<1> QED
  BY <1>1 DEF Grows, UnsignedNeverRuns, IInv

\* What a command at work holds.
LEMMA AtWork ==
    ASSUME RunbookAssumption, IInv, NEW p \in Commands, cmd[p].pc # "idle"
    PROVE  /\ cmd[p] \in Copies /\ cmd[p].inst \in Prints /\ cmd[p].inst # NoPrint
           /\ Sound(cmd[p].inst, seen)
           /\ Applying(cmd[p]) => CompletedOutputs(cmd[p].inst) \subseteq cmd[p].outputs
           /\ AtStep(cmd[p]) => /\ ~AllOver(cmd[p].inst) /\ Honest(cmd[p], seen)
                                /\ Current(cmd[p].inst) \in StepIds
BY Types, PrintFields, CurrentIsAStep DEF IInv, Fits

LEMMA LoadKeeps ==
    ASSUME RunbookAssumption, IInv, NEW p \in Commands,
           NEW what \in {"apply", "sign", "cancel", "require"}, Load(p, what)
    PROVE  IInv'
<1> DEFINE next == [Idle EXCEPT !.pc = what, !.inst = print]
<1>0. print \in Prints /\ Sound(print, seen)
  BY DEF IInv, TypeOK, Load
<1>1. next \in Copies /\ next.inst = print /\ next.pc = what
  BY <1>0 DEF Idle, Copies
<1>2. ~AtStep(next) /\ ~Applying(next)
  BY <1>1 DEF AtStep, Applying
<1>3. Turn(p, next) /\ UNCHANGED <<print, tree, core, changes, faults, seen>>
  BY DEF Load
<1> HIDE DEF next
<1>4. Fits(next, seen')
  BY <1>0, <1>1, <1>2, <1>3 DEF Fits
<1> QED
  BY <1>1, <1>3, <1>4, HistoryStill, TurnKeeps

LEMMA KillKeeps == ASSUME RunbookAssumption, IInv, NEW p \in Commands, Kill(p) PROVE IInv'
<1>0. faults \in 0 .. MaxFaults /\ MaxFaults \in Nat
  BY DEF RunbookAssumption, IInv, TypeOK
<1>1. faults' \in 0 .. MaxFaults
  BY <1>0 DEF Kill
<1> QED
  BY <1>1, IdleFits, HistoryStill, TurnKeeps DEF Kill

\* Nothing but the surroundings changes.
LEMMA SurroundingsKeep ==
    ASSUME RunbookAssumption, IInv, UNCHANGED <<print, cmd, faults, seen>>,
           tree' \in Trees, core' \in Cores, changes' \in 0 .. MaxChanges
    PROVE  IInv'
<1>1. TypeOK'
  BY DEF IInv, TypeOK
<1> QED
  BY <1>1 DEF IInv, UnsignedNeverRuns

-----------------------------------------------------------------------------
(* A print begins.                                                         *)

\* What it is begun from is there.
LEMMA FreshPrint ==
    ASSUME RunbookAssumption, core \in Cores \ {"gone"}, NEW dry \in BOOLEAN
    PROVE  /\ StartPrint(dry) \in Prints
           /\ \A h : Sound(StartPrint(dry), h)
           /\ LegacyPrint \in Prints
           /\ \A h : Sound(LegacyPrint, h)
<1>1. Fingerprint(core) \in {"bytes", "edited"} /\ CleanCommit(core) \in Cores \cup {""}
  BY DEF Fingerprint, CleanCommit, Cores
<1>2. [s \in StepIds |-> Undone] \in [StepIds ->
          [status : {"pending", "completed", "skipped", "failed", "waiting_approval"}, signed : BOOLEAN]]
  BY DEF Undone
<1>3. ASSUME NEW d \in BOOLEAN
      PROVE  StartPrint(d) \in Prints /\ StartPrint(d).steps = [s \in StepIds |-> Undone]
  BY <1>1, <1>2 DEF StartPrint, Prints
<1>4. LegacyPrint \in Prints /\ LegacyPrint.steps = [s \in StepIds |-> Undone]
  BY <1>3 DEF LegacyPrint, Prints
<1> QED
  BY <1>3, <1>4 DEF Sound, Undone

LEMMA InitIInv == ASSUME RunbookAssumption, Init PROVE IInv
<1>1. core \in Cores \ {"gone"} /\ tree \in Trees
  BY DEF Init, Cores, Trees, Commits
<1>2. print \in Prints \cup {NoPrint} /\ (print # NoPrint => Sound(print, seen))
  BY <1>1, FreshPrint DEF Init
<1>3. cmd \in [Commands -> Copies] /\ \A p \in Commands : Fits(cmd[p], seen)
  BY IdleFits DEF Init
<1> DEFINE runs == [s \in StepIds |-> 0]
           endedAt == [s \in StepIds |-> ""]
<1>4. /\ seen = [runs |-> runs, endedAt |-> endedAt, audited |-> {}, authorised |-> {},
               drift |-> FALSE]
      /\ changes = 0 /\ faults = 0
  BY DEF Init
<1>7. runs \in [StepIds -> 0 .. MaxRuns] /\ endedAt \in [StepIds -> Trees \cup {""}]
      /\ 0 \in 0 .. MaxChanges /\ 0 \in 0 .. MaxFaults
  BY DEF RunbookAssumption
<1>8. \A s \in StepIds : ~(runs[s] > 0)
  OBVIOUS
<1> HIDE DEF runs, endedAt
<1>9. seen \in Histories
  BY <1>4, <1>7 DEF Histories
<1>5. TypeOK
  BY <1>1, <1>2, <1>3, <1>4, <1>7, <1>9 DEF TypeOK, Copies, Histories
<1>6. UnsignedNeverRuns
  BY <1>4, <1>8 DEF UnsignedNeverRuns
<1> QED
  BY <1>2, <1>3, <1>5, <1>6 DEF IInv

LEMMA StartKeeps ==
    ASSUME RunbookAssumption, IInv, NEW dry \in BOOLEAN, Start(dry)
    PROVE  IInv'
<1>1. core \in Cores \ {"gone"}
  BY DEF IInv, TypeOK, Start
<1>2. print' \in Prints /\ Sound(print', seen)
  BY <1>1, FreshPrint DEF Start
<1>3. UNCHANGED <<tree, core, changes, cmd, faults, seen>>
  BY DEF Start
<1>4. TypeOK'
  BY <1>2, <1>3 DEF IInv, TypeOK
<1> QED
  BY <1>2, <1>3, <1>4 DEF IInv, UnsignedNeverRuns

-----------------------------------------------------------------------------
(* Apply.                                                                  *)

\* Voiding the recorded commit leaves what the command holds about steps.
LEMMA InvalidateKeeps ==
    ASSUME RunbookAssumption, IInv, NEW p \in Commands, cmd[p].pc # "idle",
           NEW next \in Copies, next.inst = cmd[p].inst, InvalidateProvenance(p, next),
           UNCHANGED <<tree, core, changes>>,
           seen' \in Histories, Grows(seen, seen'), Fits(next, seen'), UnsignedNeverRuns'
    PROVE  IInv'
<1> DEFINE inst == cmd[p].inst
           void == [inst EXCEPT !.commit = ""]
           voided == [next EXCEPT !.inst = void]
<1>0. inst \in Prints /\ Sound(inst, seen)
  BY AtWork
<1>1. void \in Prints /\ SameSteps(void, inst)
  BY <1>0, PrintFields
<1>2. Sound(void, seen')
  <2>1. Sound(inst, seen')
    BY <1>0, SoundGrows
  <2> HIDE DEF void
  <2> QED
    BY <1>1, <2>1, SameStepsSame
<1>3. CASE Drifted(inst)
  <2>1. /\ voided \in Copies /\ voided.inst = void /\ voided.pc = next.pc
        /\ voided.outcome = next.outcome /\ voided.outputs = next.outputs
    BY <1>1 DEF Copies
  <2>2. Save(p, void, voided)
    BY <1>3 DEF InvalidateProvenance
  <2>3. Fits(voided, seen')
    <3> HIDE DEF voided, void
    <3>1. AtStep(voided) = AtStep(next) /\ Applying(voided) = Applying(next)
      BY <2>1 DEF AtStep, Applying
    <3>2. Current(void) = Current(inst) /\ AllOver(void) = AllOver(inst)
          /\ \A s, outputs : Executes(void, s, outputs) = Executes(inst, s, outputs)
          /\ CompletedOutputs(void) = CompletedOutputs(inst) /\ void.dryRun = inst.dryRun
      BY <1>1, SameStepsSame
    <3>3. Honest(next, seen') => Honest(voided, seen')
      BY <2>1, <3>2 DEF Honest
    <3> QED
      BY <1>1, <1>2, <2>1, <3>1, <3>2, <3>3 DEF Fits
  <2> QED
    BY <1>1, <1>2, <2>1, <2>2, <2>3, SaveKeeps
<1>4. CASE ~Drifted(inst)
  <2>1. Turn(p, next) /\ UNCHANGED <<print, faults>>
    BY <1>4 DEF InvalidateProvenance
  <2>2. faults' \in 0 .. MaxFaults
    BY <2>1 DEF IInv, TypeOK
  <2> QED
    BY <2>1, <2>2, TurnKeeps
<1> QED
  BY <1>3, <1>4

\* ObserveDrift is a Boolean.
LEMMA DriftObserved ==
    ASSUME TypeOK, NEW p \in Commands
    PROVE  ObserveDrift(p) \in BOOLEAN
BY DEF ObserveDrift, TypeOK

LEMMA ApplyObserveKeeps ==
    ASSUME RunbookAssumption, IInv, NEW p \in Commands, ApplyObserve(p)
    PROVE  IInv'
<1> DEFINE next == Goto(p, "open")
<1>0. cmd[p].pc = "apply" /\ cmd[p] \in Copies /\ cmd[p].inst \in Prints /\ Sound(cmd[p].inst, seen)
  BY AtWork DEF ApplyObserve, At
<1>1. next \in Copies /\ next.pc = "open" /\ next.inst = cmd[p].inst
  BY <1>0 DEF Goto, Copies
<1>2. seen' = [seen EXCEPT !.drift = ObserveDrift(p)]
  BY DEF ApplyObserve
<1>3. PICK d \in BOOLEAN : d = ObserveDrift(p)
  BY DriftObserved DEF IInv
<1>4. seen' \in Histories /\ Grows(seen, seen') /\ UnsignedNeverRuns'
  BY <1>2, <1>3, HistoryNotes
<1>5. InvalidateProvenance(p, next) /\ UNCHANGED <<tree, core, changes>>
  BY DEF ApplyObserve
<1> HIDE DEF next
<1>6. Fits(next, seen')
  BY <1>0, <1>1, <1>4, SoundGrows DEF Fits, AtStep, Applying
<1> QED
  BY <1>0, <1>1, <1>4, <1>5, <1>6, InvalidateKeeps

\* A command that only marks the print as a whole, and ends.
LEMMA MarkKeeps ==
    ASSUME RunbookAssumption, IInv, NEW p \in Commands, cmd[p].pc # "idle",
           NEW inst \in Prints, SameSteps(inst, cmd[p].inst), Save(p, inst, Idle),
           UNCHANGED <<tree, core, changes>>,
           seen' \in Histories, Grows(seen, seen'), UnsignedNeverRuns'
    PROVE  IInv'
<1>1. Sound(cmd[p].inst, seen')
  BY AtWork, SoundGrows
<1>2. Sound(inst, seen')
  BY <1>1, SameStepsSame
<1> QED
  BY <1>2, IdleFits, SaveKeeps

LEMMA ApplyOpenKeeps ==
    ASSUME RunbookAssumption, IInv, NEW p \in Commands, ApplyOpen(p)
    PROVE  IInv'
<1> DEFINE inst == cmd[p].inst
           running == [inst EXCEPT !.status = "running"]
           next == [pc |-> "next", inst |-> running, outputs |-> CompletedOutputs(inst),
                    outcome |-> "ok"]
<1>0. cmd[p].pc # "idle" /\ UNCHANGED <<tree, core, changes, seen>>
  BY DEF ApplyOpen, At
<1>1. inst \in Prints /\ Sound(inst, seen)
  BY <1>0, AtWork
<1>2. CASE Turn(p, Idle) /\ UNCHANGED <<print, faults>>
  BY <1>0, <1>2, IdleFits, HistoryStill, TurnKeeps
<1>3. CASE Save(p, Failed(inst), Idle)
  BY <1>0, <1>1, <1>3, PrintFields, HistoryStill, MarkKeeps
<1>4. CASE Turn(p, next) /\ UNCHANGED <<print, faults>>
  <2>1. running \in Prints /\ SameSteps(running, inst)
    BY <1>1, PrintFields
  <2>2. /\ next \in Copies /\ next.inst = running /\ next.pc = "next"
        /\ next.outputs = CompletedOutputs(inst)
    BY <2>1 DEF Copies, CompletedOutputs
  <2> HIDE DEF next, running
  <2>3. CompletedOutputs(running) = CompletedOutputs(inst) /\ Sound(running, seen)
    BY <1>1, <2>1, SameStepsSame
  <2>4. Fits(next, seen')
    BY <1>0, <2>1, <2>2, <2>3 DEF Fits, AtStep
  <2> QED
    BY <1>0, <1>4, <2>2, <2>4, HistoryStill, TurnKeeps
<1> QED
  BY <1>2, <1>3, <1>4 DEF ApplyOpen

LEMMA PauseKeeps ==
    ASSUME RunbookAssumption, IInv, NEW p \in Commands, Pause(p)
    PROVE  IInv'
<1> DEFINE inst == cmd[p].inst
           s == Current(inst)
           marked == WithStep(inst, s, "waiting_approval")
<1>0. /\ cmd[p].pc # "idle" /\ UNCHANGED <<tree, core, changes, seen>> /\ ~AllOver(inst)
      /\ Save(p, Paused(inst, s), Idle)
  BY DEF Pause, At
<1>1. inst \in Prints /\ Sound(inst, seen) /\ s \in StepIds
  BY <1>0, AtWork, CurrentIsAStep
<1>2. Marked(marked, inst, s, "waiting_approval")
  <2> HIDE DEF inst, s
  <2> QED
    BY <1>1, StepMarked
<1> HIDE DEF marked
<1>3. marked \in Prints /\ Sound(marked, seen)
  BY <1>1, <1>2 DEF Sound, Marked
<1>4. Paused(inst, s) = [marked EXCEPT !.status = "waiting_approval"]
  BY DEF Paused, marked
<1>5. Paused(inst, s) \in Prints /\ Sound(Paused(inst, s), seen)
  <2>1. marked \in Prints
    BY <1>3
  <2>2. /\ [marked EXCEPT !.status = "waiting_approval"] \in Prints
        /\ SameSteps([marked EXCEPT !.status = "waiting_approval"], marked)
    BY <2>1, StatusKeepsTheSteps
  <2>3. Paused(inst, s) \in Prints /\ SameSteps(Paused(inst, s), marked)
    BY <1>4, <2>2
  <2> QED
    BY <1>3, <2>3, SameStepsSame
<1> QED
  BY <1>0, <1>5, IdleFits, HistoryStill, SaveKeeps

\* The first execution marks the print as a whole.
LEMMA BegunFields ==
    ASSUME NEW inst \in Prints, tree \in Trees
    PROVE  Begun(inst) \in Prints /\ SameSteps(Begun(inst), inst)
<1>1. CleanCommit(tree) \in Trees \cup {""}
  BY DEF CleanCommit
<1>2. CASE inst.dryRun \/ inst.started # "no"
  BY <1>2 DEF Begun, SameSteps
<1>3. CASE ~(inst.dryRun \/ inst.started # "no")
  <2> DEFINE commit == IF inst.editionCommit # "" THEN CleanCommit(tree) ELSE inst.commit
  <2>1. commit \in Trees \cup {""}
    BY <1>1 DEF Prints
  <2>2. Begun(inst) = [inst EXCEPT !.started = "yes", !.commit = commit]
    BY <1>3 DEF Begun
  <2> HIDE DEF commit
  <2> QED
    BY <2>1, <2>2 DEF Prints, SameSteps
<1> QED
  BY <1>2, <1>3

\* A counted run of a step that has the sign-off it needs.
LEMMA RunCounted ==
    ASSUME RunbookAssumption, IInv, NEW s \in StepIds,
           seen' = [seen EXCEPT !.runs[s] = IF @ < MaxRuns THEN @ + 1 ELSE @],
           Step[s].highBlast => s \in seen.authorised
    PROVE  /\ seen' \in Histories /\ Grows(seen, seen') /\ UnsignedNeverRuns'
           /\ seen'.runs[s] > 0
<1> DEFINE count == IF seen.runs[s] < MaxRuns THEN seen.runs[s] + 1 ELSE seen.runs[s]
           runs == [seen.runs EXCEPT ![s] = count]
<1>a. MaxRuns \in Nat /\ MaxRuns > 0
  BY DEF RunbookAssumption
<1>0. seen \in Histories /\ MaxRuns \in Nat /\ MaxRuns > 0 /\ seen.runs \in [StepIds -> 0 .. MaxRuns]
  BY <1>a, Types DEF IInv, Histories
<1>1. count \in 0 .. MaxRuns /\ count > 0
  BY <1>0
<1> HIDE DEF count
<1>2. /\ runs \in [StepIds -> 0 .. MaxRuns] /\ runs[s] = count
      /\ \A t \in StepIds \ {s} : runs[t] = seen.runs[t]
  BY <1>0, <1>1
<1>3. seen' = [runs |-> runs, endedAt |-> seen.endedAt, audited |-> seen.audited,
               authorised |-> seen.authorised, drift |-> seen.drift]
  BY <1>0 DEF Histories, count
<1> HIDE DEF runs
<1>4. seen' \in Histories
  <2>1. /\ seen.endedAt \in [StepIds -> Trees \cup {""}] /\ seen.audited \in SUBSET StepIds
        /\ seen.authorised \in SUBSET StepIds /\ seen.drift \in BOOLEAN
    BY <1>0 DEF Histories
  <2>2. runs \in [StepIds -> 0 .. MaxRuns]
    BY <1>2
  <2>3. [runs |-> runs, endedAt |-> seen.endedAt, audited |-> seen.audited,
         authorised |-> seen.authorised, drift |-> seen.drift] \in Histories
    BY <2>1, <2>2, Zenon DEF Histories
  <2> QED
    BY <1>3, <2>3, Zenon
<1> QED
  BY <1>1, <1>2, <1>3, <1>4 DEF Grows, UnsignedNeverRuns, IInv

\* A step may begin that is signed, or asks for no signature.
LEMMA MayRun ==
    ASSUME RunbookAssumption, IInv, NEW p \in Commands, cmd[p].pc # "idle",
           NEW s \in StepIds, ~AwaitsSignoff(cmd[p].inst, s)
    PROVE  Step[s].highBlast => s \in seen.authorised
<1>1. Sound(cmd[p].inst, seen) /\ cmd[p].inst.steps[s].signed \in BOOLEAN
  BY AtWork DEF Prints
<1>2. Step[s].highBlast \in BOOLEAN
  BY DEF RunbookAssumption
<1> QED
  BY <1>1, <1>2 DEF AwaitsSignoff, Sound

LEMMA RunStepKeeps ==
    ASSUME RunbookAssumption, IInv, NEW p \in Commands, RunStep(p)
    PROVE  IInv'
<1>0. /\ cmd[p].pc = "next" /\ ~AllOver(cmd[p].inst) /\ UNCHANGED <<tree, core, changes>>
      /\ cmd[p] \in Copies /\ cmd[p].inst \in Prints /\ Sound(cmd[p].inst, seen)
      /\ CompletedOutputs(cmd[p].inst) \subseteq cmd[p].outputs /\ tree \in Trees
  BY AtWork DEF RunStep, At, Applying, IInv, TypeOK
<1>1. PICK inst \in Prints, s \in StepIds, outputs \in SUBSET StepIds :
          /\ inst = cmd[p].inst /\ s = Current(cmd[p].inst) /\ outputs = cmd[p].outputs
  BY <1>0, CurrentIsAStep DEF Copies
<1>2. Step[s].highBlast => s \in seen.authorised
  BY <1>0, <1>1, MayRun DEF RunStep
<1>3. CASE Save(p, Failed(inst), Idle) /\ UNCHANGED seen
  BY <1>0, <1>1, <1>3, PrintFields, HistoryStill, MarkKeeps
<1>4. CASE /\ \/ Save(p, Begun(inst), [cmd[p] EXCEPT !.pc = "running", !.inst = Begun(inst)])
              \/ Turn(p, [cmd[p] EXCEPT !.pc = "running"]) /\ UNCHANGED <<print, faults>>
           /\ IF Executes(inst, s, outputs) /\ cmd'[p].pc = "running"
              THEN seen' = [seen EXCEPT !.runs[s] = IF @ < MaxRuns THEN @ + 1 ELSE @]
              ELSE UNCHANGED seen
  <2>1. seen' \in Histories /\ Grows(seen, seen') /\ UnsignedNeverRuns'
    BY <1>2, <1>4, RunCounted, HistoryStill
  <2>2. Executes(inst, s, outputs) /\ cmd'[p].pc = "running" => seen'.runs[s] > 0
    BY <1>2, <1>4, RunCounted
  <2>3. ASSUME NEW begun \in Prints, SameSteps(begun, inst), NEW next \in Copies,
               next.pc = "running", next.inst = begun, next.outputs = outputs,
               cmd' = [cmd EXCEPT ![p] = next]
        PROVE  Fits(next, seen')
    <3>1. cmd'[p].pc = "running"
      BY <2>3, Types DEF IInv
    <3>2. /\ Current(begun) = s /\ ~AllOver(begun)
          /\ Executes(begun, s, outputs) = Executes(inst, s, outputs)
          /\ CompletedOutputs(begun) = CompletedOutputs(inst)
      BY <1>0, <1>1, <2>3, SameStepsSame
    <3>3. Sound(inst, seen')
      BY <1>0, <1>1, <2>1, SoundGrows
    <3>4. Sound(begun, seen')
      BY <2>3, <3>3, SameStepsSame
    <3>5. Honest(next, seen')
      BY <2>2, <2>3, <3>1, <3>2 DEF Honest
    <3> QED
      BY <1>0, <1>1, <2>3, <3>2, <3>4, <3>5 DEF Fits
  <2>4. Begun(inst) \in Prints /\ SameSteps(Begun(inst), inst) /\ SameSteps(inst, inst)
    BY <1>0, BegunFields DEF SameSteps
  <2>5. CASE Save(p, Begun(inst), [cmd[p] EXCEPT !.pc = "running", !.inst = Begun(inst)])
    <3> DEFINE next == [cmd[p] EXCEPT !.pc = "running", !.inst = Begun(inst)]
    <3>1. /\ next \in Copies /\ next.pc = "running" /\ next.inst = Begun(inst)
          /\ next.outputs = outputs
      BY <1>0, <1>1, <2>4 DEF Copies
    <3>2. Sound(inst, seen')
      BY <1>0, <1>1, <2>1, SoundGrows
    <3>3. Sound(Begun(inst), seen') /\ Begun(inst) # NoPrint
      BY <2>4, <3>2, SameStepsSame, PrintFields
    <3>4. print # NoPrint => Sound(print, seen')
      BY <2>1, SoundGrows DEF IInv
    <3>5. faults \in 0 .. MaxFaults /\ MaxFaults \in Nat /\ print \in Prints \cup {NoPrint}
      BY DEF IInv, TypeOK, RunbookAssumption
    <3>6. Save(p, Begun(inst), next)
      BY <2>5
    <3> HIDE DEF next
    <3>7. CASE print' = Begun(inst) /\ Turn(p, next) /\ UNCHANGED faults
      <4>1. Fits(next, seen')
        BY <2>3, <2>4, <3>1, <3>7 DEF Turn
      <4> QED
        BY <1>0, <2>1, <2>4, <3>1, <3>3, <3>5, <3>7, <4>1, CommandStepKeeps DEF Turn
    <3>8. CASE /\ faults < MaxFaults /\ faults' = faults + 1
               /\ print' \in {print, Begun(inst)} /\ Turn(p, Idle)
      <4>1. faults' \in 0 .. MaxFaults
        BY <3>5, <3>8
      <4>2. print' \in Prints \cup {NoPrint} /\ (print' # NoPrint => Sound(print', seen'))
        BY <2>4, <3>3, <3>4, <3>5, <3>8
      <4> QED
        BY <1>0, <2>1, <3>8, <4>1, <4>2, IdleFits, CommandStepKeeps DEF Turn
    <3> QED
      BY <3>6, <3>7, <3>8 DEF Save
  <2>6. CASE Turn(p, [cmd[p] EXCEPT !.pc = "running"]) /\ UNCHANGED <<print, faults>>
    <3> DEFINE next == [cmd[p] EXCEPT !.pc = "running"]
    <3>1. /\ next \in Copies /\ next.pc = "running" /\ next.inst = inst
          /\ next.outputs = outputs
      BY <1>0, <1>1 DEF Copies
    <3>2. Turn(p, next) /\ UNCHANGED <<print, faults>>
      BY <2>6
    <3>3. faults' \in 0 .. MaxFaults
      BY <3>2 DEF IInv, TypeOK
    <3> HIDE DEF next
    <3>4. Fits(next, seen')
      BY <2>3, <2>4, <3>1, <3>2 DEF Turn
    <3> QED
      BY <1>0, <2>1, <3>1, <3>2, <3>3, <3>4, TurnKeeps
  <2> QED
    BY <1>4, <2>5, <2>6
<1> QED
  BY <1>1, <1>3, <1>4 DEF RunStep

LEMMA EndStepKeeps ==
    ASSUME RunbookAssumption, IInv, NEW p \in Commands, EndStep(p)
    PROVE  IInv'
<1>0. /\ cmd[p].pc = "running" /\ UNCHANGED <<tree, core, changes>>
      /\ cmd[p] \in Copies /\ cmd[p].inst \in Prints /\ Sound(cmd[p].inst, seen)
      /\ ~AllOver(cmd[p].inst) /\ Honest(cmd[p], seen) /\ Current(cmd[p].inst) \in StepIds
      /\ CompletedOutputs(cmd[p].inst) \subseteq cmd[p].outputs /\ tree \in Trees
  BY AtWork DEF EndStep, At, AtStep, Applying, IInv, TypeOK
<1>1. PICK s \in StepIds : s = Current(cmd[p].inst)
  BY <1>0
<1>2. CASE Save(p, Failed(cmd[p].inst), Idle) /\ UNCHANGED seen
  BY <1>0, <1>2, PrintFields, HistoryStill, MarkKeeps
<1>3. ASSUME NEW outcome \in Outcomes(cmd[p].inst, s, cmd[p].outputs),
             InvalidateProvenance(p, [Goto(p, "ended") EXCEPT !.outcome = outcome]),
             seen' = [seen EXCEPT !.drift = ObserveDrift(p), !.endedAt[s] = CleanCommit(tree)]
      PROVE  IInv'
  <2> DEFINE next == [Goto(p, "ended") EXCEPT !.outcome = outcome]
  <2>1. outcome \in {"ok", "fail", "skipped"}
    BY DEF Outcomes
  <2>2. /\ outcome = "ok" /\ Step[s].runs => Executes(cmd[p].inst, s, cmd[p].outputs)
        /\ outcome = "skipped" => cmd[p].inst.dryRun
    BY DEF Outcomes
  <2>3. /\ next \in Copies /\ next.pc = "ended" /\ next.inst = cmd[p].inst
        /\ next.outcome = outcome /\ next.outputs = cmd[p].outputs
    BY <1>0, <2>1 DEF Goto, Copies
  <2>4. CleanCommit(tree) \in Trees \cup {""}
    BY <1>0 DEF CleanCommit
  <2>5. PICK d \in BOOLEAN, w \in Trees \cup {""} : d = ObserveDrift(p) /\ w = CleanCommit(tree)
    BY <2>4, DriftObserved DEF IInv
  <2>6. seen' \in Histories /\ Grows(seen, seen') /\ UnsignedNeverRuns'
    BY <1>3, <2>5, HistoryNotes
  <2>7. InvalidateProvenance(p, next)
    BY <1>3
  <2> HIDE DEF next
  <2>8. Honest(next, seen')
    BY <1>0, <1>1, <2>2, <2>3, <2>6 DEF Honest, Grows
  <2>9. Fits(next, seen')
    BY <1>0, <2>3, <2>6, <2>8, SoundGrows DEF Fits
  <2> QED
    BY <1>0, <2>3, <2>6, <2>7, <2>9, InvalidateKeeps
<1> QED
  BY <1>1, <1>2, <1>3 DEF EndStep

\* A row or a signature more.
LEMMA HistoryAdds ==
    ASSUME RunbookAssumption, IInv, NEW s \in StepIds,
           \/ seen' = [seen EXCEPT !.audited = @ \cup {s}]
           \/ seen' = [seen EXCEPT !.authorised = @ \cup {s}]
    PROVE  seen' \in Histories /\ Grows(seen, seen') /\ UnsignedNeverRuns'
<1>0. seen \in Histories
  BY Types DEF IInv
<1>1. /\ seen' \in Histories /\ seen'.runs = seen.runs
      /\ seen.audited \subseteq seen'.audited /\ seen.authorised \subseteq seen'.authorised
  <2>1. /\ seen.runs \in [StepIds -> 0 .. MaxRuns] /\ seen.drift \in BOOLEAN
        /\ seen.endedAt \in [StepIds -> Trees \cup {""}]
        /\ seen.audited \cup {s} \in SUBSET StepIds /\ seen.audited \in SUBSET StepIds
        /\ seen.authorised \cup {s} \in SUBSET StepIds /\ seen.authorised \in SUBSET StepIds
    BY <1>0 DEF Histories
  <2>2. CASE seen' = [seen EXCEPT !.audited = @ \cup {s}]
    BY <1>0, <2>1, <2>2 DEF Histories
  <2>3. CASE seen' = [seen EXCEPT !.authorised = @ \cup {s}]
    BY <1>0, <2>1, <2>3 DEF Histories
  <2> QED
    BY <2>2, <2>3
<1> QED
  BY <1>1 DEF Grows, UnsignedNeverRuns, IInv

LEMMA AuditStepKeeps ==
    ASSUME RunbookAssumption, IInv, NEW p \in Commands, AuditStep(p)
    PROVE  IInv'
<1>0. /\ cmd[p].pc = "ended" /\ UNCHANGED <<print, tree, core, changes>>
      /\ cmd[p] \in Copies /\ cmd[p].inst \in Prints /\ Sound(cmd[p].inst, seen)
      /\ ~AllOver(cmd[p].inst) /\ Honest(cmd[p], seen) /\ Current(cmd[p].inst) \in StepIds
      /\ CompletedOutputs(cmd[p].inst) \subseteq cmd[p].outputs
      /\ faults \in 0 .. MaxFaults /\ MaxFaults \in Nat
  BY AtWork DEF AuditStep, At, AtStep, Applying, IInv, TypeOK, RunbookAssumption
<1>1. PICK s \in StepIds : s = Current(cmd[p].inst)
  BY <1>0
<1>2. CASE /\ Turn(p, Goto(p, "audited")) /\ UNCHANGED faults
           /\ seen' = [seen EXCEPT !.audited = @ \cup {s}]
  <2> DEFINE next == Goto(p, "audited")
  <2>1. /\ next \in Copies /\ next.pc = "audited" /\ next.inst = cmd[p].inst
        /\ next.outcome = cmd[p].outcome /\ next.outputs = cmd[p].outputs
    BY <1>0 DEF Goto, Copies
  <2>2. seen' \in Histories /\ Grows(seen, seen') /\ UnsignedNeverRuns'
    BY <1>2, HistoryAdds
  <2>3. s \in seen'.audited
    BY <1>2, Types DEF IInv, Histories
  <2>4. Turn(p, next)
    BY <1>2
  <2> HIDE DEF next
  <2>5. Honest(next, seen')
    BY <1>0, <1>1, <2>1, <2>2, <2>3 DEF Honest, Grows
  <2>6. Fits(next, seen')
    BY <1>0, <2>1, <2>2, <2>5, SoundGrows DEF Fits
  <2> QED
    BY <1>0, <1>2, <2>1, <2>2, <2>4, <2>6, TurnKeeps
<1>3. CASE /\ faults < MaxFaults /\ faults' = faults + 1
           /\ Turn(p, [Goto(p, "audited") EXCEPT !.outcome = "fail"])
           /\ UNCHANGED seen
  <2> DEFINE next == [Goto(p, "audited") EXCEPT !.outcome = "fail"]
  <2>1. /\ next \in Copies /\ next.pc = "audited" /\ next.inst = cmd[p].inst
        /\ next.outcome = "fail" /\ next.outputs = cmd[p].outputs
    BY <1>0 DEF Goto, Copies
  <2>2. Turn(p, next) /\ faults' \in 0 .. MaxFaults
    BY <1>0, <1>3
  <2> HIDE DEF next
  <2>3. Fits(next, seen')
    BY <1>0, <1>3, <2>1 DEF Fits, Honest
  <2> QED
    BY <1>0, <1>3, <2>1, <2>2, <2>3, HistoryStill, TurnKeeps
<1> QED
  BY <1>1, <1>2, <1>3 DEF AuditStep

LEMMA RecordKeeps ==
    ASSUME RunbookAssumption, IInv, NEW p \in Commands, Record(p)
    PROVE  IInv'
<1>0. /\ cmd[p].pc = "audited" /\ UNCHANGED <<tree, core, changes, seen>>
      /\ cmd[p] \in Copies /\ cmd[p].inst \in Prints /\ Sound(cmd[p].inst, seen)
      /\ ~AllOver(cmd[p].inst) /\ Honest(cmd[p], seen) /\ Current(cmd[p].inst) \in StepIds
      /\ CompletedOutputs(cmd[p].inst) \subseteq cmd[p].outputs
  BY AtWork DEF Record, At, AtStep, Applying
<1>1. PICK inst \in Prints, s \in StepIds, outputs \in SUBSET StepIds :
          /\ inst = cmd[p].inst /\ s = Current(cmd[p].inst) /\ outputs = cmd[p].outputs
  BY <1>0 DEF Copies
<1>2. CASE /\ cmd[p].outcome = "fail"
           /\ Save(p, [WithStep(inst, s, "failed") EXCEPT !.status = "failed"], Idle)
  <2> DEFINE marked == WithStep(inst, s, "failed")
             failed == [marked EXCEPT !.status = "failed"]
  <2>1. Marked(marked, inst, s, "failed")
    BY StepMarked
  <2> HIDE DEF marked
  <2>2. marked \in Prints /\ Sound(marked, seen)
    BY <1>0, <1>1, <2>1 DEF Sound, Marked
  <2>3. failed \in Prints /\ Sound(failed, seen)
    BY <2>2, PrintFields, SameStepsSame
  <2>4. Save(p, failed, Idle)
    BY <1>2 DEF marked
  <2> QED
    BY <1>0, <2>3, <2>4, IdleFits, HistoryStill, SaveKeeps
<1>3. CASE /\ cmd[p].outcome # "fail" /\ UNCHANGED <<print, faults>>
           /\ \E wrote \in SUBSET StepIds :
                 /\ Step[s].runs /\ cmd[p].outcome = "ok" => s \in wrote
                 /\ Turn(p, [pc |-> "next",
                             inst |-> WithStep(inst, s, IF cmd[p].outcome = "ok" THEN "completed"
                                                                                  ELSE "skipped"),
                             outputs |-> outputs \cup wrote, outcome |-> "ok"])
  <2>0. PICK status \in {"pending", "completed", "skipped", "failed", "waiting_approval"} :
            status = IF cmd[p].outcome = "ok" THEN "completed" ELSE "skipped"
    OBVIOUS
  <2> DEFINE marked == WithStep(inst, s, status)
  <2>1. Marked(marked, inst, s, status)
    BY StepMarked
  <2>2. /\ s \in seen.audited /\ (status = "skipped" => inst.dryRun)
        /\ (status = "completed" /\ Step[s].runs => seen.runs[s] > 0)
    BY <1>0, <1>1, <1>3, <2>0 DEF Honest, Copies
  <2>3. PICK wrote \in SUBSET StepIds :
            /\ Step[s].runs /\ status = "completed" => s \in wrote
            /\ Turn(p, [pc |-> "next", inst |-> marked, outputs |-> outputs \cup wrote,
                        outcome |-> "ok"])
    BY <1>3, <2>0
  <2> HIDE DEF marked
  <2>4. marked \in Prints /\ Sound(marked, seen)
    BY <1>0, <1>1, <2>1, <2>2 DEF Sound, Marked
  <2> DEFINE next == [pc |-> "next", inst |-> marked, outputs |-> outputs \cup wrote,
                      outcome |-> "ok"]
  <2>5. /\ next \in Copies /\ next.pc = "next" /\ next.inst = marked
        /\ next.outputs = outputs \cup wrote
    BY <1>1, <2>3, <2>4 DEF Copies
  <2>6. Turn(p, next)
    BY <2>3
  <2> HIDE DEF next
  <2>8. CompletedOutputs(marked) \subseteq outputs \cup wrote
    BY <1>0, <1>1, <2>1, <2>3 DEF CompletedOutputs, Marked
  <2>7. Fits(next, seen')
    BY <1>0, <2>4, <2>5, <2>8 DEF Fits, AtStep
  <2> QED
    BY <1>0, <1>3, <2>5, <2>6, <2>7, HistoryStill, TurnKeeps
<1>4. (IF Step[s].runs /\ cmd[p].outcome = "ok" THEN {s} ELSE {}) \in SUBSET StepIds
  BY <1>1
<1> QED
  BY <1>1, <1>2, <1>3, <1>4 DEF Record

-----------------------------------------------------------------------------
(* What marks the print as a whole, and the sign-off.                      *)

LEMMA MarksKeep ==
    ASSUME RunbookAssumption, IInv, NEW p \in Commands, Complete(p) \/ Deny(p) \/ Cancel(p)
    PROVE  IInv'
<1>1. cmd[p].pc # "idle" /\ UNCHANGED <<tree, core, changes, seen>>
  BY DEF Complete, Deny, Cancel, At
<1>2. PICK status \in {"completed", "waiting_approval", "cancelled"} :
          Save(p, [cmd[p].inst EXCEPT !.status = status], Idle)
  BY DEF Complete, Deny, Cancel
<1>3. /\ [cmd[p].inst EXCEPT !.status = status] \in Prints
      /\ SameSteps([cmd[p].inst EXCEPT !.status = status], cmd[p].inst)
  BY <1>1, AtWork, PrintFields
<1> QED
  BY <1>1, <1>2, <1>3, HistoryStill, MarkKeeps

LEMMA SignedFields ==
    ASSUME NEW inst \in Prints, NEW s \in StepIds
    PROVE  /\ Signed(inst, s) \in Prints
           /\ Signed(inst, s).steps[s].status = "completed" => inst.steps[s].status = "completed"
           /\ Signed(inst, s).steps[s].status = "skipped" => inst.steps[s].status = "skipped"
           /\ StepOver(inst, s) => Signed(inst, s).steps[s].status = inst.steps[s].status
           /\ Signed(inst, s).dryRun = inst.dryRun /\ Signed(inst, s).commit = inst.commit
           /\ Signed(inst, s).started = inst.started
           /\ \A t \in StepIds \ {s} : Signed(inst, s).steps[t] = inst.steps[t]
<1> DEFINE step == [status |-> IF inst.steps[s].status = "waiting_approval" THEN "pending"
                                                                   ELSE inst.steps[s].status,
                    signed |-> TRUE]
<1>1. step \in [status : {"pending", "completed", "skipped", "failed", "waiting_approval"},
                signed : BOOLEAN]
  BY DEF Prints
<1>2. Signed(inst, s) = [inst EXCEPT !.status = "running", !.steps = [inst.steps EXCEPT ![s] = step]]
  BY DEF Signed, Prints
<1>3. /\ step.status = "completed" => inst.steps[s].status = "completed"
      /\ step.status = "skipped" => inst.steps[s].status = "skipped"
      /\ StepOver(inst, s) => step.status = inst.steps[s].status
  BY DEF StepOver
<1> HIDE DEF step
<1> DEFINE steps == [inst.steps EXCEPT ![s] = step]
<1>4. /\ steps \in [StepIds -> [status : {"pending", "completed", "skipped", "failed", "waiting_approval"},
                               signed : BOOLEAN]]
      /\ steps[s] = step /\ \A t \in StepIds \ {s} : steps[t] = inst.steps[t]
  BY <1>1 DEF Prints
<1> HIDE DEF steps
<1>5. Signed(inst, s) = [inst EXCEPT !.status = "running", !.steps = steps]
  BY <1>2 DEF steps
<1>6. /\ Signed(inst, s) \in Prints /\ Signed(inst, s).steps = steps
      /\ Signed(inst, s).dryRun = inst.dryRun /\ Signed(inst, s).commit = inst.commit
      /\ Signed(inst, s).started = inst.started
  BY <1>4, <1>5 DEF Prints
<1> QED
  BY <1>3, <1>4, <1>6

LEMMA StepCompleteKeeps ==
    ASSUME RunbookAssumption, IInv, NEW p \in Commands, NEW s \in StepIds, StepComplete(p, s)
    PROVE  IInv'
<1>0. cmd[p].pc # "idle" /\ UNCHANGED <<tree, core, changes>>
  BY DEF StepComplete, At
<1>1. cmd[p].inst \in Prints /\ Sound(cmd[p].inst, seen)
  BY <1>0, AtWork
<1>2. CASE Turn(p, Idle) /\ UNCHANGED <<print, faults, seen>>
  BY <1>0, <1>2, IdleFits, HistoryStill, TurnKeeps
<1>3. CASE /\ Save(p, Signed(cmd[p].inst, s), Idle)
           /\ seen' = [seen EXCEPT !.authorised = @ \cup {s}]
  <2>1. seen' \in Histories /\ Grows(seen, seen') /\ UnsignedNeverRuns'
    BY <1>3, HistoryAdds
  <2>2. s \in seen'.authorised
    BY <1>3, Types DEF IInv, Histories
  <2>3. Sound(cmd[p].inst, seen')
    BY <1>1, <2>1, SoundGrows
  <2> DEFINE signed == Signed(cmd[p].inst, s)
  <2>5. /\ signed \in Prints /\ signed.dryRun = cmd[p].inst.dryRun
        /\ signed.steps[s].status = "completed" => cmd[p].inst.steps[s].status = "completed"
        /\ signed.steps[s].status = "skipped" => cmd[p].inst.steps[s].status = "skipped"
        /\ \A t \in StepIds \ {s} : signed.steps[t] = cmd[p].inst.steps[t]
    BY <1>1, SignedFields
  <2> HIDE DEF signed
  <2>6. Sound(signed, seen')
    BY <2>2, <2>3, <2>5 DEF Sound
  <2>4. Signed(cmd[p].inst, s) \in Prints /\ Sound(Signed(cmd[p].inst, s), seen')
    BY <2>5, <2>6 DEF signed
  <2> QED
    BY <1>0, <1>3, <2>1, <2>4, IdleFits, SaveKeeps
<1> QED
  BY <1>2, <1>3 DEF StepComplete

LEMMA RequireKeeps ==
    ASSUME RunbookAssumption, IInv, NEW p \in Commands, NEW named \in BOOLEAN,
           RequireExecuted(p, named)
    PROVE  IInv'
<1> DEFINE void == [cmd[p].inst EXCEPT !.commit = ""]
<1>0. cmd[p].pc # "idle" /\ UNCHANGED <<tree, core, changes>>
  BY DEF RequireExecuted, At
<1>1. CASE Turn(p, Idle) /\ UNCHANGED <<print, faults, seen>>
  BY <1>0, <1>1, IdleFits, HistoryStill, TurnKeeps
<1>2. CASE Save(p, void, Idle) /\ seen' = [seen EXCEPT !.drift = ObserveDrift(p)]
  <2>1. void \in Prints /\ SameSteps(void, cmd[p].inst)
    BY <1>0, AtWork, PrintFields
  <2>2. PICK d \in BOOLEAN : d = ObserveDrift(p)
    BY DriftObserved DEF IInv
  <2>3. seen' \in Histories /\ Grows(seen, seen') /\ UnsignedNeverRuns'
    BY <1>2, <2>2, HistoryNotes
  <2> QED
    BY <1>0, <1>2, <2>1, <2>3, MarkKeeps
<1> QED
  BY <1>1, <1>2 DEF RequireExecuted

-----------------------------------------------------------------------------
(* The invariant, and what follows from it.                                *)

LEMMA NextKeeps ==
    ASSUME RunbookAssumption, IInv, [Next]_runbookVars
    PROVE  IInv'
<1>1. ASSUME NEW dry \in BOOLEAN, Start(dry) PROVE IInv'
  BY <1>1, StartKeeps
<1>2. ASSUME NEW p \in Commands, NEW what \in {"apply", "sign", "cancel", "require"}, Load(p, what)
      PROVE  IInv'
  BY <1>2, LoadKeeps
<1>3. ASSUME NEW p \in Commands, Apply(p) PROVE IInv'
  BY <1>3, ApplyObserveKeeps, ApplyOpenKeeps, PauseKeeps, RunStepKeeps, EndStepKeeps,
     AuditStepKeeps, RecordKeeps, MarksKeep DEF Apply
<1>4. ASSUME NEW p \in Commands, NEW s \in StepIds, StepComplete(p, s) PROVE IInv'
  BY <1>4, StepCompleteKeeps
<1>5. ASSUME NEW p \in Commands, Deny(p) \/ Cancel(p) PROVE IInv'
  BY <1>5, MarksKeep
<1>6. ASSUME NEW p \in Commands, NEW named \in BOOLEAN, RequireExecuted(p, named) PROVE IInv'
  BY <1>6, RequireKeeps
<1>7. ASSUME NEW p \in Commands, Kill(p) PROVE IInv'
  BY <1>7, KillKeeps
<1>8. CASE Refused \/ UNCHANGED runbookVars
  <2>1. UNCHANGED runbookVars
    BY <1>8 DEF Refused
  <2>2. UNCHANGED <<print, cmd, faults, seen>> /\ tree' \in Trees /\ core' \in Cores
        /\ changes' \in 0 .. MaxChanges
    BY <2>1 DEF runbookVars, IInv, TypeOK
  <2> QED
    BY <2>2, SurroundingsKeep
<1>9. CASE ChangeTree \/ ChangeCore
  <2>1. changes \in 0 .. MaxChanges /\ MaxChanges \in Nat
    BY DEF IInv, TypeOK, RunbookAssumption
  <2>2. UNCHANGED <<print, cmd, faults, seen>> /\ changes' \in 0 .. MaxChanges
    BY <1>9, <2>1 DEF ChangeTree, ChangeCore
  <2>3. tree' \in Trees /\ core' \in Cores
    BY <1>9 DEF ChangeTree, ChangeCore, IInv, TypeOK
  <2> QED
    BY <2>2, <2>3, SurroundingsKeep
<1> QED
  BY <1>1, <1>2, <1>3, <1>4, <1>5, <1>6, <1>7, <1>8, <1>9 DEF Next

LEMMA Invariance == ASSUME RunbookAssumption PROVE Spec => []IInv
<1>1. Init => IInv
  BY InitIInv
<1>2. IInv /\ [Next]_runbookVars => IInv'
  BY NextKeeps
<1> QED
  BY <1>1, <1>2, PTL DEF Spec

\* What the invariant says, however many commands overlap.
LEMMA InvariantWord ==
    ASSUME RunbookAssumption, IInv
    PROVE  UnsignedNeverRuns /\ CompletedIsAudited /\ ReceiptMeansRan /\ OutputsSurviveThePause
<1>1. UnsignedNeverRuns /\ CompletedIsAudited
  BY DEF IInv, Sound, CompletedIsAudited
<1>2. ReceiptMeansRan
  <2> SUFFICES ASSUME Accepts(print), NEW s \in StepIds
               PROVE  /\ seen.runs[s] > 0 /\ s \in seen.audited
                      /\ Step[s].highBlast => s \in seen.authorised
    BY DEF ReceiptMeansRan
  <2>1. Sound(print, seen) /\ StepsExecuted(print)
    BY DEF Accepts, IInv
  <2> QED
    BY <2>1 DEF Sound, StepsExecuted
<1>3. OutputsSurviveThePause
  <2> SUFFICES ASSUME NEW p \in Commands, At(p, "running"), ~cmd[p].inst.dryRun,
                      NEW t \in Step[Current(cmd[p].inst)].reads, t < Current(cmd[p].inst),
                      Step[t].runs
               PROVE  t \in cmd[p].outputs
    BY DEF OutputsSurviveThePause
  <2> DEFINE inst == cmd[p].inst
             s == Current(inst)
  <2>1. /\ inst \in Prints /\ Sound(inst, seen) /\ ~AllOver(inst) /\ s \in StepIds
        /\ CompletedOutputs(inst) \subseteq cmd[p].outputs
    BY AtWork DEF At, AtStep, Applying
  <2>2. \A u \in 1 .. s - 1 : StepOver(inst, u)
    BY <2>1, CurrentIsAStep
  <2>3. t \in StepIds /\ s \in Nat /\ t \in Nat /\ t \in 1 .. s - 1
    <3>1. Step[s].reads \subseteq StepIds /\ Steps \in Nat
      BY <2>1 DEF RunbookAssumption
    <3> QED
      BY <2>1, <3>1 DEF StepIds
  <2>4. inst.steps[t].status = "completed"
    BY <2>1, <2>2, <2>3 DEF StepOver, Sound
  <2> QED
    BY <2>1, <2>3, <2>4 DEF CompletedOutputs
<1> QED
  BY <1>1, <1>2, <1>3

\* The print, every copy of it and the history have their types.
THEOREM TypeCorrect == ASSUME RunbookAssumption PROVE Spec => []TypeOK
<1>1. IInv => TypeOK
  BY DEF IInv
<1> QED
  BY <1>1, Invariance, PTL

\* However many commands overlap, overwrite one another's print, fail or are
\* killed, a step that waits for the operator never runs before an operator
\* signed that very step (internal/runbook/engine.go).
THEOREM SignOffComesFirst == ASSUME RunbookAssumption PROVE Spec => []UnsignedNeverRuns
<1>1. IInv => UnsignedNeverRuns
  BY InvariantWord
<1> QED
  BY <1>1, Invariance, PTL

\* And a step that the print calls completed has its audit row.
THEOREM NothingCompletedUnaudited == ASSUME RunbookAssumption PROVE Spec => []CompletedIsAudited
<1>1. IInv => CompletedIsAudited
  BY InvariantWord
<1> QED
  BY <1>1, Invariance, PTL

\* And what `status --require executed` accepts ran, step by step, with its audit
\* row and the sign-off it needs (internal/runbook/provenance.go).
THEOREM ReceiptsMeanRan == ASSUME RunbookAssumption PROVE Spec => []ReceiptMeansRan
<1>1. IInv => ReceiptMeansRan
  BY InvariantWord
<1> QED
  BY <1>1, Invariance, PTL

\* And a step that runs for real has the outputs of every earlier step it reads:
\* a command that resumes a print gathers those of the steps it finds completed,
\* and adds those of the steps it runs (completedOutputs, engine.go:484).
THEOREM OutputsAlwaysSurvive == ASSUME RunbookAssumption PROVE Spec => []OutputsSurviveThePause
<1>1. IInv => OutputsSurviveThePause
  BY InvariantWord
<1> QED
  BY <1>1, Invariance, PTL

-----------------------------------------------------------------------------
(* One command at a time.                                                  *)

LEMMA LoneFacts ==
    ASSUME RunbookAssumption, LoneIInv, NEW p \in Commands
    PROVE  /\ IInv /\ Word(print, cmd[p], seen, faults)
           /\ cmd \in [Commands -> Copies] /\ cmd[p] \in Copies /\ seen \in Histories
           /\ print \in Prints \cup {NoPrint}
           /\ faults \in Nat /\ \A s \in StepIds : seen.runs[s] \in Nat
<1>1. faults \in 0 .. MaxFaults /\ MaxFaults \in Nat
  BY DEF LoneIInv, IInv, TypeOK, RunbookAssumption
<1>2. faults \in Nat
  BY <1>1
<1> QED
  BY <1>2, Types DEF LoneIInv, IInv, TypeOK

\* What a command at work holds, and what is on disk meanwhile.
LEMMA LoneAtWork ==
    ASSUME RunbookAssumption, LoneIInv, NEW p \in Commands, cmd[p].pc # "idle"
    PROVE  /\ cmd[p].inst \in Prints /\ cmd[p].inst # NoPrint /\ print \in Prints /\ print # NoPrint
           /\ Binds(print, seen) /\ Binds(cmd[p].inst, seen)
           /\ \A s \in StepIds : seen.runs[s] \in Nat /\ seen.runs[s] <= 1 + faults
           /\ Word(print, cmd[p], seen, faults)
           /\ cmd[p] \in Copies /\ cmd \in [Commands -> Copies] /\ seen \in Histories /\ faults \in Nat
           /\ print.commit = cmd[p].inst.commit
           /\ ~Applying(cmd[p]) => print = cmd[p].inst
<1>1. IInv /\ Word(print, cmd[p], seen, faults)
  BY LoneFacts
<1>2. Mirrors(cmd[p], print)
  BY <1>1 DEF Word
<1>3. print # NoPrint /\ print.commit = cmd[p].inst.commit /\ (~Applying(cmd[p]) => print = cmd[p].inst)
  BY <1>2 DEF Mirrors
<1> QED
  BY <1>1, <1>3, LoneFacts, AtWork DEF Word

\* What is left after a fault: the next command starts from what is on disk.
LEMMA FaultWord ==
    ASSUME NEW disk, NEW h, NEW n \in Nat, disk # NoPrint, Binds(disk, h),
           \A s \in StepIds : h.runs[s] \in Nat /\ h.runs[s] <= 1 + n
    PROVE  Word(disk, Idle, h, n + 1)
<1>1. Idle.pc = "idle"
  BY DEF Idle
<1>2. \A s \in StepIds : h.runs[s] <= 1 + (n + 1) /\ h.runs[s] <= n + 1
  OBVIOUS
<1> QED
  BY <1>1, <1>2 DEF Word, Mirrors, Applying, AtStep, Counted

\* A print that is over, or that a command left when it ended.
LEMMA EndWord ==
    ASSUME NEW disk, NEW h, NEW n, disk # NoPrint, Binds(disk, h),
           \A s \in StepIds : h.runs[s] <= 1 + n,
           Finished(disk) \/ Counted(disk, {}, h, n)
    PROVE  Word(disk, Idle, h, n)
<1>1. Idle.pc = "idle"
  BY DEF Idle
<1> QED
  BY <1>1 DEF Word, Mirrors, Applying, AtStep

\* A save: what it wants to leave must do, and what it may leave must bind.
LEMMA SaveWord ==
    ASSUME RunbookAssumption, LoneIInv, NEW p \in Commands, cmd[p].pc # "idle",
           NEW inst \in Prints, NEW next, Save(p, inst, next),
           Binds(print', seen'), Word(inst, next, seen', faults),
           \A s \in StepIds : seen'.runs[s] \in Nat /\ seen'.runs[s] <= 1 + faults
    PROVE  Word(print', cmd'[p], seen', faults')
<1>1. cmd \in [Commands -> Copies] /\ print # NoPrint /\ inst # NoPrint /\ faults \in Nat
  BY LoneAtWork, PrintFields
<1>2. CASE print' = inst /\ Turn(p, next) /\ UNCHANGED faults
  BY <1>1, <1>2 DEF Turn
<1>3. CASE faults' = faults + 1 /\ print' \in {print, inst} /\ Turn(p, Idle)
  <2>1. cmd'[p] = Idle /\ print' # NoPrint
    BY <1>1, <1>3 DEF Turn
  <2>2. Word(print', Idle, seen', faults + 1)
    BY <1>1, <2>1, FaultWord
  <2> QED
    BY <1>3, <2>1, <2>2
<1> QED
  BY <1>2, <1>3 DEF Save

\* A turn without a save.
LEMMA TurnWord ==
    ASSUME RunbookAssumption, LoneIInv, NEW p \in Commands, NEW next, Turn(p, next),
           UNCHANGED print, Word(print, next, seen', faults')
    PROVE  Word(print', cmd'[p], seen', faults')
<1>1. cmd'[p] = next
  BY LoneFacts DEF Turn
<1> QED
  BY <1>1

\* A command that ends without a save, or is still to apply.
LEMMA LeaveWord ==
    ASSUME RunbookAssumption, LoneIInv, NEW p \in Commands, cmd[p].pc # "idle",
           ~Applying(cmd[p]), Turn(p, Idle), UNCHANGED <<print, faults, seen>>
    PROVE  Word(print', cmd'[p], seen', faults')
<1>1. Finished(print) \/ Counted(print, {}, seen, faults)
  BY LoneAtWork DEF Word
<1>2. Word(print, Idle, seen, faults)
  BY <1>1, LoneAtWork, EndWord
<1> QED
  BY <1>2, TurnWord

\* What a mark of the print as a whole leaves of it.
Remarked(new, inst) ==
    /\ new.steps = inst.steps /\ new.dryRun = inst.dryRun /\ new.started = inst.started
    /\ new.commit = inst.commit \/ new.commit = ""

LEMMA RemarkedBinds ==
    ASSUME NEW inst, NEW new, NEW h, Remarked(new, inst), Binds(inst, h)
    PROVE  Binds(new, h)
BY DEF Remarked, Binds

\* A command that only marks the print as a whole, and ends.
LEMMA RemarkWord ==
    ASSUME RunbookAssumption, LoneIInv, NEW p \in Commands, cmd[p].pc # "idle",
           NEW inst \in Prints, Remarked(inst, cmd[p].inst), Save(p, inst, Idle),
           UNCHANGED seen, Finished(inst) \/ (~Applying(cmd[p]) /\ ~Finished(cmd[p].inst))
    PROVE  Word(print', cmd'[p], seen', faults')
<1>1. Binds(inst, seen) /\ Binds(print, seen)
  BY LoneAtWork, RemarkedBinds
<1>2. print' \in {print, inst}
  BY DEF Save
<1>3. Finished(inst) \/ Counted(inst, {}, seen, faults)
  <2>1. CASE ~Applying(cmd[p]) /\ ~Finished(cmd[p].inst)
    <3>1. Counted(cmd[p].inst, {}, seen, faults)
      BY <2>1, LoneAtWork DEF Word
    <3> QED
      BY <3>1 DEF Counted, Remarked, StepOver
  <2> QED
    BY <2>1
<1>4. inst # NoPrint /\ \A s \in StepIds : seen.runs[s] \in Nat /\ seen.runs[s] <= 1 + faults
  BY LoneAtWork, PrintFields
<1>5. Word(inst, Idle, seen, faults)
  BY <1>1, <1>3, <1>4, EndWord
<1>6. Binds(print', seen')
  BY <1>1, <1>2
<1> QED
  BY <1>4, <1>5, <1>6, SaveWord

LEMMA StartWord ==
    ASSUME RunbookAssumption, LoneIInv, NEW p \in Commands, NEW dry \in BOOLEAN, Start(dry)
    PROVE  Word(print', cmd'[p], seen', faults')
<1> DEFINE new == StartPrint(dry)
<1>1. /\ cmd[p].pc = "idle" /\ ~seen.drift
      /\ \A s \in StepIds : seen.runs[s] <= faults /\ seen.runs[s] <= 1 + faults
  BY LoneFacts DEF Start, Word
<1>2. new.commit = "" /\ \A s \in StepIds : new.steps[s].status = "pending"
  BY DEF StartPrint, Undone
<1>3. print' = new /\ UNCHANGED <<cmd, faults, seen>>
  BY DEF Start
<1>4. new # NoPrint
  <2>1. core \in Cores \ {"gone"}
    BY LoneFacts DEF IInv, TypeOK, Start
  <2> QED
    BY <2>1, FreshPrint, PrintFields
<1> HIDE DEF new
<1>5. Binds(new, seen)
  BY <1>1, <1>2 DEF Binds
<1> QED
  BY <1>1, <1>3, <1>4, <1>5 DEF Word, Mirrors, Applying, AtStep, Counted

LEMMA LoadWord ==
    ASSUME RunbookAssumption, LoneIInv, NEW p \in Commands,
           NEW what \in {"apply", "sign", "cancel", "require"}, Load(p, what)
    PROVE  Word(print', cmd'[p], seen', faults')
<1> DEFINE next == [Idle EXCEPT !.pc = what, !.inst = print]
<1>1. next.inst = print /\ next.pc = what /\ next.pc # "idle"
  BY DEF Idle
<1>2. Turn(p, next) /\ UNCHANGED <<print, seen, faults>> /\ print # NoPrint /\ cmd[p].pc = "idle"
  BY DEF Load, At
<1> HIDE DEF next
<1>3. ~Applying(next) /\ ~AtStep(next) /\ ~Applying(cmd[p])
  BY <1>1, <1>2 DEF Applying, AtStep
<1>4. Word(print, next, seen, faults)
  BY <1>1, <1>2, <1>3, LoneFacts DEF Word, Mirrors, BindsAtHand
<1> QED
  BY <1>2, <1>4, TurnWord

LEMMA KillWord ==
    ASSUME RunbookAssumption, LoneIInv, NEW p \in Commands, Kill(p)
    PROVE  Word(print', cmd'[p], seen', faults')
<1>1. cmd[p].pc # "idle" /\ Turn(p, Idle) /\ faults' = faults + 1 /\ UNCHANGED <<print, seen>>
  BY DEF Kill, At
<1>2. Word(print, Idle, seen, faults + 1)
  BY <1>1, LoneAtWork, FaultWord
<1> QED
  BY <1>1, <1>2, TurnWord

\* A drift that is seen is void on disk before it is known to the history.
LEMMA DriftIsVoid ==
    ASSUME RunbookAssumption, LoneIInv, NEW p \in Commands, cmd[p].pc # "idle",
           NEW h, h.endedAt = seen.endedAt, h.drift = ObserveDrift(p),
           print' \in {print, [cmd[p].inst EXCEPT !.commit = ""]}
    PROVE  Binds(print', h) /\ Binds([cmd[p].inst EXCEPT !.commit = ""], h)
<1> DEFINE inst == cmd[p].inst
           void == [inst EXCEPT !.commit = ""]
<1>1. /\ inst \in Prints /\ Binds(print, seen) /\ Binds(inst, seen)
      /\ print.commit = inst.commit
  BY LoneAtWork
<1>2. void.commit = "" /\ void.started = inst.started /\ void.dryRun = inst.dryRun
      /\ void.steps = inst.steps
  BY <1>1 DEF Prints
<1>3. Drifted(inst) => inst.commit # "" /\ inst.started = "yes"
  BY <1>1 DEF Drifted, Binds
<1> HIDE DEF void
<1>4. Binds(void, h)
  BY <1>1, <1>2, <1>3 DEF Binds, ObserveDrift
<1>5. ASSUME print' = print PROVE Binds(print', h)
  <2>1. h.drift = seen.drift
    BY <1>1, <1>3, <1>5, LoneFacts DEF ObserveDrift, Histories
  <2> QED
    BY <1>1, <1>5, <2>1 DEF Binds
<1> QED
  BY <1>4, <1>5 DEF void

LEMMA ApplyObserveWord ==
    ASSUME RunbookAssumption, LoneIInv, NEW p \in Commands, ApplyObserve(p)
    PROVE  Word(print', cmd'[p], seen', faults')
<1> DEFINE inst == cmd[p].inst
           next == Goto(p, "open")
           void == [inst EXCEPT !.commit = ""]
           voided == [next EXCEPT !.inst = void]
<1>0. /\ cmd[p].pc = "apply" /\ cmd[p] \in Copies /\ inst \in Prints /\ print = inst
      /\ Word(print, cmd[p], seen, faults) /\ seen \in Histories /\ ~Applying(cmd[p])
      /\ \A s \in StepIds : seen.runs[s] \in Nat /\ seen.runs[s] <= 1 + faults
  BY LoneAtWork DEF ApplyObserve, At, Applying, AtStep
<1>1. /\ next.pc = "open" /\ next.inst = inst
      /\ voided.pc = "open" /\ voided.inst = void
  BY <1>0 DEF Goto, Copies
<1>2. /\ seen'.endedAt = seen.endedAt /\ seen'.runs = seen.runs /\ seen'.drift = ObserveDrift(p)
      /\ InvalidateProvenance(p, next)
  BY <1>0 DEF ApplyObserve, Histories
<1>3. /\ void \in Prints /\ void # NoPrint /\ void.steps = inst.steps /\ void.status = inst.status
  <2>1. void.steps = inst.steps /\ void.status = inst.status
    BY <1>0 DEF Prints
  <2> HIDE DEF inst
  <2>2. void \in Prints
    BY <1>0, PrintFields
  <2> QED
    BY <2>1, <2>2, PrintFields
<1> HIDE DEF next, voided
<1>4. ~Applying(next) /\ ~AtStep(next) /\ ~Applying(voided) /\ ~AtStep(voided)
  BY <1>1 DEF Applying, AtStep
<1>5. CASE Drifted(inst)
  <2>1. Save(p, void, voided)
    BY <1>2, <1>5 DEF InvalidateProvenance, voided
  <2>2. print' \in {print, void}
    BY <2>1 DEF Save
  <2>3. Binds(print', seen') /\ Binds(void, seen')
    BY <1>0, <1>2, <2>2, DriftIsVoid
  <2> HIDE DEF void
  <2>4. Finished(void) \/ Counted(void, {}, seen', faults)
    BY <1>0, <1>2, <1>3 DEF Word, Counted, Finished, StepOver
  <2>5. Word(void, voided, seen', faults)
    BY <1>0, <1>1, <1>2, <1>3, <1>4, <2>3, <2>4 DEF Word, Mirrors, BindsAtHand
  <2> QED
    BY <1>0, <1>2, <1>3, <2>1, <2>3, <2>5, SaveWord
<1>6. CASE ~Drifted(inst)
  <2>1. Turn(p, next) /\ UNCHANGED <<print, faults>>
    BY <1>2, <1>6 DEF InvalidateProvenance
  <2>2. seen'.drift = seen.drift
    BY <1>0, <1>2, <1>6 DEF ObserveDrift, Histories
  <2>3. Binds(inst, seen')
    BY <1>0, <1>2, <2>2 DEF Word, Binds
  <2>4. Word(print, next, seen', faults)
    BY <1>0, <1>1, <1>2, <1>4, <2>3 DEF Word, Mirrors, BindsAtHand, Counted
  <2> QED
    BY <2>1, <2>4, TurnWord
<1> QED
  BY <1>5, <1>6

LEMMA FailedRemarks ==
    ASSUME NEW inst \in Prints
    PROVE  /\ Failed(inst) \in Prints /\ Finished(Failed(inst)) /\ Remarked(Failed(inst), inst)
           /\ [inst EXCEPT !.commit = ""] \in Prints
           /\ \A status \in {"running", "waiting_approval", "completed", "failed", "cancelled"} :
                 /\ [inst EXCEPT !.status = status] \in Prints
                 /\ [inst EXCEPT !.status = status].status = status
                 /\ Remarked([inst EXCEPT !.status = status], inst)
BY DEF Prints, Failed, Finished, Remarked

LEMMA ApplyOpenWord ==
    ASSUME RunbookAssumption, LoneIInv, NEW p \in Commands, ApplyOpen(p)
    PROVE  Word(print', cmd'[p], seen', faults')
<1> DEFINE inst == cmd[p].inst
           running == [inst EXCEPT !.status = "running"]
           next == [pc |-> "next", inst |-> running, outputs |-> CompletedOutputs(inst),
                    outcome |-> "ok"]
<1>0. cmd[p].pc = "open" /\ UNCHANGED seen /\ ~Applying(cmd[p])
  BY DEF ApplyOpen, At, Applying, AtStep
<1>1. /\ inst \in Prints /\ print = inst /\ Word(print, cmd[p], seen, faults)
      /\ Binds(inst, seen) /\ inst # NoPrint
  BY <1>0, LoneAtWork
<1>2. CASE Turn(p, Idle) /\ UNCHANGED <<print, faults>>
  BY <1>0, <1>2, LeaveWord
<1>3. CASE Save(p, Failed(inst), Idle)
  BY <1>0, <1>1, <1>3, FailedRemarks, RemarkWord
<1>4. CASE ~Finished(inst) /\ Turn(p, next) /\ UNCHANGED <<print, faults>>
  <2>1. /\ running.status = "running" /\ Remarked(running, inst) /\ running.commit = inst.commit
    BY <1>1 DEF Remarked, Prints
  <2>2. next.pc = "next" /\ next.inst = running
    OBVIOUS
  <2>5. Turn(p, next) /\ UNCHANGED <<print, faults>>
    BY <1>4
  <2> HIDE DEF next, running
  <2>3. Binds(running, seen)
    BY <1>1, <2>1, RemarkedBinds
  <2>4. Applying(next) /\ ~AtStep(next) /\ AtHand(next) = {} /\ ~Finished(running)
    BY <2>1, <2>2 DEF Applying, AtStep, AtHand, Finished
  <2>6. Counted(running, {}, seen, faults)
    BY <1>0, <1>1, <1>4, <2>1 DEF Word, Counted, Remarked, StepOver
  <2>7. Mirrors(next, print)
    BY <1>1, <1>4, <2>1, <2>2, <2>4 DEF Mirrors, Remarked
  <2>8. Word(print, next, seen, faults)
    BY <1>1, <2>2, <2>3, <2>4, <2>6, <2>7 DEF Word, BindsAtHand
  <2> QED
    BY <1>0, <2>5, <2>8, TurnWord
<1> QED
  BY <1>2, <1>3, <1>4 DEF ApplyOpen

LEMMA PauseWord ==
    ASSUME RunbookAssumption, LoneIInv, NEW p \in Commands, Pause(p)
    PROVE  Word(print', cmd'[p], seen', faults')
<1>0. /\ cmd[p].pc = "next" /\ UNCHANGED seen /\ ~AllOver(cmd[p].inst)
      /\ Save(p, Paused(cmd[p].inst, Current(cmd[p].inst)), Idle)
      /\ Applying(cmd[p]) /\ ~AtStep(cmd[p])
  BY DEF Pause, At, Applying, AtStep
<1>1. PICK inst \in Prints, s \in StepIds :
          inst = cmd[p].inst /\ s = Current(cmd[p].inst) /\ ~StepOver(inst, s)
  BY <1>0, LoneAtWork, CurrentIsAStep
<1> DEFINE marked == WithStep(inst, s, "waiting_approval")
           paused == [marked EXCEPT !.status = "waiting_approval"]
<1>2. Marked(marked, inst, s, "waiting_approval")
  BY StepMarked
<1>3. Save(p, paused, Idle)
  BY <1>0, <1>1 DEF Paused
<1> HIDE DEF marked
<1>4. paused \in Prints /\ Remarked(paused, marked)
  BY <1>2, FailedRemarks DEF Marked
<1> HIDE DEF paused
<1>5. Binds(inst, seen) /\ Binds(print, seen) /\ Counted(inst, {}, seen, faults)
  BY <1>0, <1>1, LoneAtWork DEF Word, AtHand
<1>6. Binds(marked, seen)
  BY <1>2, <1>5 DEF Binds, Marked
<1>7. Binds(paused, seen)
  BY <1>4, <1>6, RemarkedBinds
<1>8. Counted(paused, {}, seen, faults)
  BY <1>1, <1>2, <1>4, <1>5 DEF Counted, Remarked, Marked, StepOver
<1>9. \A t \in StepIds : seen.runs[t] \in Nat /\ seen.runs[t] <= 1 + faults
  BY <1>0, LoneAtWork
<1>10. Word(paused, Idle, seen, faults)
  BY <1>4, <1>7, <1>8, <1>9, PrintFields, EndWord
<1>11. Binds(print', seen')
  BY <1>0, <1>3, <1>5, <1>7 DEF Save
<1> QED
  BY <1>0, <1>3, <1>4, <1>9, <1>10, <1>11, SaveWord

\* What the first execution marks it marks once, before anything has run.
LEMMA BegunBinds ==
    ASSUME NEW inst \in Prints, tree \in Trees, Binds(inst, seen), seen.drift \in BOOLEAN
    PROVE  /\ Begun(inst) \in Prints /\ Begun(inst).steps = inst.steps
           /\ Begun(inst).status = inst.status /\ Begun(inst).dryRun = inst.dryRun
           /\ Begun(inst).dryRun \/ Begun(inst).started # "no"
           /\ Binds(Begun(inst), seen)
           /\ Begun(inst) = inst => inst.dryRun \/ inst.started # "no"
<1>1. CASE inst.dryRun \/ inst.started # "no"
  BY <1>1 DEF Begun
<1>2. CASE ~(inst.dryRun \/ inst.started # "no")
  <2> DEFINE commit == IF inst.editionCommit # "" THEN CleanCommit(tree) ELSE inst.commit
             begun == [inst EXCEPT !.started = "yes", !.commit = commit]
  <2>1. Begun(inst) = begun
    BY <1>2 DEF Begun
  <2>2. commit \in Trees \cup {""}
    BY DEF CleanCommit, Prints
  <2> HIDE DEF commit
  <2>3. /\ begun \in Prints /\ begun.steps = inst.steps /\ begun.status = inst.status
        /\ begun.dryRun = inst.dryRun /\ begun.started = "yes" /\ begun.commit = commit
    BY <2>2 DEF Prints
  <2>4. inst.started = "no" /\ ~seen.drift /\ ~inst.dryRun
    BY <1>2 DEF Binds
  <2>5. \A s \in StepIds : ~(Step[s].runs /\ inst.steps[s].status = "completed")
    BY <2>4 DEF Binds
  <2> HIDE DEF begun
  <2>6. Binds(begun, seen)
    BY <2>3, <2>4, <2>5 DEF Binds
  <2>7. begun # inst
    BY <2>3, <2>4
  <2> QED
    BY <2>1, <2>3, <2>6, <2>7
<1> QED
  BY <1>1, <1>2

\* A count more, at the step at hand and nowhere else.
LEMMA OneMore ==
    ASSUME RunbookAssumption, seen \in Histories, faults \in Nat, NEW s \in StepIds,
           \/ seen' = [seen EXCEPT !.runs[s] = IF @ < MaxRuns THEN @ + 1 ELSE @]
           \/ UNCHANGED seen,
           \A t \in StepIds : seen.runs[t] \in Nat /\ seen.runs[t] <= 1 + faults,
           seen.runs[s] <= faults
    PROVE  /\ seen'.drift = seen.drift /\ seen'.endedAt = seen.endedAt
           /\ \A t \in StepIds : seen'.runs[t] \in Nat /\ seen'.runs[t] <= 1 + faults
           /\ \A t \in StepIds \ {s} : seen'.runs[t] = seen.runs[t]
<1>1. MaxRuns \in Nat
  BY DEF RunbookAssumption
<1>2. CASE UNCHANGED seen
  BY <1>2
<1>3. CASE seen' = [seen EXCEPT !.runs[s] = IF @ < MaxRuns THEN @ + 1 ELSE @]
  <2> DEFINE count == IF seen.runs[s] < MaxRuns THEN seen.runs[s] + 1 ELSE seen.runs[s]
             runs == [seen.runs EXCEPT ![s] = count]
  <2>1. count \in Nat /\ count <= 1 + faults
    BY <1>1
  <2>2. seen'.runs = runs /\ seen'.drift = seen.drift /\ seen'.endedAt = seen.endedAt
    BY <1>3 DEF Histories
  <2>3. seen.runs \in [StepIds -> 0 .. MaxRuns]
    BY DEF Histories
  <2> HIDE DEF count
  <2>4. runs[s] = count /\ \A t \in StepIds \ {s} : runs[t] = seen.runs[t]
    BY <2>3
  <2> HIDE DEF runs
  <2> QED
    BY <2>1, <2>2, <2>4
<1> QED
  BY <1>2, <1>3

LEMMA RunStepWord ==
    ASSUME RunbookAssumption, LoneIInv, NEW p \in Commands, RunStep(p)
    PROVE  Word(print', cmd'[p], seen', faults')
<1>0. /\ cmd[p].pc = "next" /\ ~AllOver(cmd[p].inst) /\ Applying(cmd[p]) /\ ~AtStep(cmd[p])
      /\ tree \in Trees
  BY LoneFacts DEF RunStep, At, Applying, AtStep, IInv, TypeOK
<1>1. PICK inst \in Prints, s \in StepIds :
          inst = cmd[p].inst /\ s = Current(cmd[p].inst) /\ ~StepOver(inst, s)
  BY <1>0, LoneAtWork, CurrentIsAStep
<1>2. /\ Word(print, cmd[p], seen, faults) /\ Binds(inst, seen) /\ Binds(print, seen)
      /\ Counted(inst, {}, seen, faults) /\ print # NoPrint /\ cmd[p] \in Copies
      /\ seen \in Histories /\ faults \in Nat /\ seen.drift \in BOOLEAN
      /\ cmd \in [Commands -> Copies] /\ print.commit = inst.commit
      /\ \A t \in StepIds : seen.runs[t] \in Nat /\ seen.runs[t] <= 1 + faults
  BY <1>0, <1>1, LoneAtWork DEF Word, AtHand, Histories
<1>3. CASE Save(p, Failed(inst), Idle) /\ UNCHANGED seen
  BY <1>0, <1>1, <1>3, FailedRemarks, RemarkWord
<1>4. CASE /\ IF Step[s].runs /\ Begun(inst) # inst
              THEN Save(p, Begun(inst), [cmd[p] EXCEPT !.pc = "running", !.inst = Begun(inst)])
              ELSE Turn(p, [cmd[p] EXCEPT !.pc = "running"]) /\ UNCHANGED <<print, faults>>
           /\ \/ seen' = [seen EXCEPT !.runs[s] = IF @ < MaxRuns THEN @ + 1 ELSE @]
              \/ UNCHANGED seen
  <2>1. seen.runs[s] <= faults
    BY <1>1, <1>2 DEF Counted
  <2>2. /\ seen'.drift = seen.drift /\ seen'.endedAt = seen.endedAt
        /\ \A t \in StepIds : seen'.runs[t] \in Nat /\ seen'.runs[t] <= 1 + faults
        /\ \A t \in StepIds \ {s} : seen'.runs[t] = seen.runs[t]
    BY <1>2, <1>4, <2>1, OneMore
  <2>3. \A i : Binds(i, seen) => Binds(i, seen')
    BY <2>2 DEF Binds
  <2>4. /\ Begun(inst) \in Prints /\ Begun(inst).steps = inst.steps
        /\ Begun(inst).status = inst.status /\ Begun(inst).dryRun = inst.dryRun
        /\ Begun(inst).dryRun \/ Begun(inst).started # "no"
        /\ Binds(Begun(inst), seen)
        /\ Begun(inst) = inst => inst.dryRun \/ inst.started # "no"
    BY <1>0, <1>2, BegunBinds
  <2>5. ASSUME NEW begun \in Prints, NEW disk, NEW next, next.pc = "running", next.inst = begun,
               begun.steps = inst.steps, begun.status = inst.status, Binds(begun, seen'),
               Step[s].runs => begun.dryRun \/ begun.started # "no",
               disk # NoPrint, Binds(disk, seen'), Mirrors(next, disk)
        PROVE  Word(disk, next, seen', faults)
    <3>1. Current(begun) = s /\ \A t \in StepIds : StepOver(begun, t) = StepOver(inst, t)
      BY <1>1, <2>5 DEF Current, StepOver
    <3>2. Applying(next) /\ AtStep(next) /\ AtHand(next) = {s}
      BY <2>5, <3>1 DEF Applying, AtStep, AtHand
    <3>3. Counted(begun, {s}, seen', faults)
      BY <1>2, <2>2, <3>1 DEF Counted
    <3>4. BindsAtHand(next, seen')
      BY <2>5, <3>1 DEF BindsAtHand
    <3> QED
      BY <2>2, <2>5, <3>2, <3>3, <3>4 DEF Word
  <2>6. CASE Step[s].runs /\ Begun(inst) # inst
    <3> DEFINE begun == Begun(inst)
               next == [cmd[p] EXCEPT !.pc = "running", !.inst = begun]
    <3>1. next.pc = "running" /\ next.inst = begun
      BY <1>2 DEF Copies
    <3>2. Save(p, begun, next)
      BY <1>4, <2>6
    <3>3. begun \in Prints /\ begun # NoPrint /\ Binds(begun, seen')
      BY <2>3, <2>4, PrintFields
    <3>4. ~Finished(begun)
      BY <1>0, <1>1, <1>2, <2>4 DEF Word, Mirrors, Finished
    <3> HIDE DEF begun, next
    <3>5. Applying(next)
      BY <3>1 DEF Applying, AtStep
    <3>6. Mirrors(next, begun)
      BY <3>1, <3>3, <3>4, <3>5 DEF Mirrors
    <3>7. Word(begun, next, seen', faults)
      BY <2>4, <2>5, <3>1, <3>3, <3>6 DEF begun
    <3>8. Binds(print', seen')
      BY <1>2, <2>3, <3>2, <3>3 DEF Save
    <3> QED
      BY <1>0, <2>2, <3>2, <3>3, <3>7, <3>8, SaveWord
  <2>7. CASE ~(Step[s].runs /\ Begun(inst) # inst)
    <3> DEFINE next == [cmd[p] EXCEPT !.pc = "running"]
    <3>1. next.pc = "running" /\ next.inst = inst
      BY <1>1, <1>2 DEF Copies
    <3>2. Turn(p, next) /\ UNCHANGED <<print, faults>>
      BY <1>4, <2>7
    <3> HIDE DEF next
    <3>3. Applying(next)
      BY <3>1 DEF Applying, AtStep
    <3>4. Mirrors(next, print)
      BY <1>0, <1>1, <1>2, <3>1, <3>3 DEF Word, Mirrors
    <3>5. Binds(print, seen') /\ Binds(inst, seen')
      BY <1>2, <2>3
    <3>6. Word(print, next, seen', faults)
      BY <1>2, <2>4, <2>5, <2>7, <3>1, <3>4, <3>5
    <3> QED
      BY <3>2, <3>6, TurnWord
  <2> QED
    BY <2>6, <2>7
<1> QED
  BY <1>1, <1>3, <1>4 DEF RunStep

\* Where the loop stands at a step: of its copy only the recorded commit may
\* change, of the history only what binds it.
LEMMA AtStepWord ==
    ASSUME RunbookAssumption, LoneIInv, NEW p \in Commands, AtStep(cmd[p]),
           NEW inst \in Prints, Remarked(inst, cmd[p].inst), inst.status = cmd[p].inst.status,
           NEW disk, disk # NoPrint, disk.commit = inst.commit, disk.started = inst.started,
           ~Finished(disk),
           \A t \in StepIds : disk.steps[t].status = "completed" => inst.steps[t].status = "completed",
           NEW next, next.inst = inst, AtStep(next),
           NEW h, h.runs = seen.runs, Binds(inst, h), Binds(disk, h), BindsAtHand(next, h),
           NEW n \in {faults, faults + 1}
    PROVE  Word(disk, next, h, n)
<1>0. Applying(cmd[p]) /\ Applying(next) /\ cmd[p].pc # "idle"
  BY DEF Applying, AtStep
<1>1. /\ Word(print, cmd[p], seen, faults) /\ faults \in Nat
      /\ \A s \in StepIds : seen.runs[s] \in Nat /\ seen.runs[s] <= 1 + faults
  BY <1>0, LoneAtWork
<1>2. Current(inst) = Current(cmd[p].inst) /\ \A t \in StepIds : StepOver(inst, t) = StepOver(cmd[p].inst, t)
  BY DEF Remarked, Current, StepOver
<1>3. ~Finished(inst) /\ Counted(cmd[p].inst, AtHand(cmd[p]), seen, faults)
  BY <1>0, <1>1 DEF Word, Mirrors, Finished
<1>4. AtHand(next) = AtHand(cmd[p])
  BY <1>2 DEF AtHand
<1>5. Counted(inst, AtHand(next), h, n)
  BY <1>1, <1>2, <1>3, <1>4 DEF Counted
<1>6. Mirrors(next, disk)
  BY <1>0, <1>3 DEF Mirrors
<1>7. \A s \in StepIds : h.runs[s] <= 1 + n
  BY <1>1
<1> QED
  BY <1>0, <1>5, <1>6, <1>7 DEF Word

LEMMA EndStepWord ==
    ASSUME RunbookAssumption, LoneIInv, NEW p \in Commands, EndStep(p)
    PROVE  Word(print', cmd'[p], seen', faults')
<1>0. cmd[p].pc = "running" /\ AtStep(cmd[p]) /\ Applying(cmd[p])
  BY DEF EndStep, At, AtStep, Applying
<1>1. PICK inst \in Prints, s \in StepIds :
          inst = cmd[p].inst /\ s = Current(cmd[p].inst) /\ ~StepOver(inst, s)
  BY <1>0, LoneFacts, LoneAtWork, AtWork, CurrentIsAStep
<1>2. /\ Word(print, cmd[p], seen, faults) /\ Binds(inst, seen) /\ Binds(print, seen)
      /\ print # NoPrint /\ cmd[p] \in Copies /\ seen \in Histories /\ inst # NoPrint
      /\ faults \in Nat /\ BindsAtHand(cmd[p], seen)
      /\ \A t \in StepIds : seen.runs[t] \in Nat /\ seen.runs[t] <= 1 + faults
      /\ print.commit = inst.commit /\ print.started = inst.started
      /\ ~Finished(print) /\ ~Finished(inst)
      /\ \A t \in StepIds : print.steps[t].status = "completed" => inst.steps[t].status = "completed"
  BY <1>0, <1>1, LoneAtWork DEF Word, Mirrors
<1>3. CASE Save(p, Failed(inst), Idle) /\ UNCHANGED seen
  BY <1>0, <1>1, <1>3, FailedRemarks, RemarkWord
<1>4. ASSUME NEW outcome,
             InvalidateProvenance(p, [Goto(p, "ended") EXCEPT !.outcome = outcome]),
             seen' = [seen EXCEPT !.drift = ObserveDrift(p), !.endedAt[s] = CleanCommit(tree)]
      PROVE  Word(print', cmd'[p], seen', faults')
  <2> DEFINE next == [Goto(p, "ended") EXCEPT !.outcome = outcome]
             void == [inst EXCEPT !.commit = ""]
             voided == [next EXCEPT !.inst = void]
  <2>1. /\ next.pc = "ended" /\ next.inst = inst /\ voided.pc = "ended" /\ voided.inst = void
    BY <1>1, <1>2 DEF Goto, Copies
  <2>2. /\ seen'.runs = seen.runs /\ seen'.drift = ObserveDrift(p)
        /\ seen'.endedAt = [seen.endedAt EXCEPT ![s] = CleanCommit(tree)]
    BY <1>2, <1>4 DEF Histories
  <2>3. /\ seen'.endedAt[s] = CleanCommit(tree)
        /\ \A t \in StepIds \ {s} : seen'.endedAt[t] = seen.endedAt[t]
    BY <1>2, <2>2 DEF Histories
  <2>4. InvalidateProvenance(p, next)
    BY <1>4
  <2>5. \A i : (i.steps[s].status # "completed" /\ \E h : /\ Binds(i, h) /\ h.endedAt = seen.endedAt
                                                          /\ h.drift = seen'.drift)
            => Binds(i, seen')
    BY <2>3 DEF Binds
  <2>6. inst.steps[s].status # "completed" /\ print.steps[s].status # "completed"
    BY <1>1, <1>2 DEF StepOver
  <2> HIDE DEF next, voided
  <2>7. AtStep(next) /\ AtStep(voided)
    BY <2>1 DEF AtStep
  <2>8. CASE Drifted(inst)
    <3>1. Save(p, void, voided)
      BY <1>1, <2>4, <2>8 DEF InvalidateProvenance, voided
    <3>2. print' \in {print, void}
      BY <3>1 DEF Save
    <3> DEFINE h == [seen EXCEPT !.drift = ObserveDrift(p)]
    <3>3. h.endedAt = seen.endedAt /\ h.drift = ObserveDrift(p)
      BY <1>2 DEF Histories
    <3> HIDE DEF h
    <3>4. Binds(print', h) /\ Binds(void, h)
      BY <1>0, <1>1, <3>2, <3>3, DriftIsVoid DEF AtStep
    <3>5. /\ void \in Prints /\ void # NoPrint /\ Remarked(void, inst) /\ void.status = inst.status
          /\ void.steps = inst.steps /\ void.commit = ""
      <4>1. /\ Remarked(void, inst) /\ void.status = inst.status /\ void.steps = inst.steps
            /\ void.commit = ""
        BY DEF Prints, Remarked
      <4>2. void \in Prints
        BY FailedRemarks
      <4> QED
        BY <4>1, <4>2, PrintFields
    <3> HIDE DEF void
    <3>6. print'.steps[s].status # "completed" /\ void.steps[s].status # "completed"
      BY <2>6, <3>2, <3>5
    <3>7. Binds(print', seen') /\ Binds(void, seen')
      BY <2>2, <2>5, <3>3, <3>4, <3>6
    <3>8. BindsAtHand(voided, seen')
      <4>1. Current(void) = s
        BY <1>1, <3>5 DEF Current, StepOver
      <4>2. Step[s].runs => inst.dryRun \/ inst.started # "no"
        BY <1>0, <1>1, <1>2 DEF BindsAtHand
      <4> QED
        BY <2>1, <3>5, <4>1, <4>2 DEF BindsAtHand, Remarked
    <3>9. ~Finished(void)
      BY <1>2, <3>5 DEF Finished
    <3>10. Word(void, voided, seen', faults)
      BY <1>0, <1>1, <2>1, <2>2, <2>7, <3>5, <3>7, <3>8, <3>9, AtStepWord
    <3> QED
      BY <1>0, <1>2, <2>2, <3>1, <3>5, <3>7, <3>10, SaveWord DEF AtStep
  <2>9. CASE ~Drifted(inst)
    <3>1. Turn(p, next) /\ UNCHANGED <<print, faults>>
      BY <1>1, <2>4, <2>9 DEF InvalidateProvenance
    <3>2. seen'.drift = seen.drift
      BY <1>1, <1>2, <2>2, <2>9 DEF ObserveDrift, Histories
    <3>3. Binds(inst, seen') /\ Binds(print, seen')
      BY <1>2, <2>5, <2>6, <3>2
    <3>4. BindsAtHand(next, seen')
      <4>1. Step[s].runs => inst.dryRun \/ inst.started # "no"
        BY <1>0, <1>1, <1>2 DEF BindsAtHand
      <4>2. inst.commit # "" => CleanCommit(tree) = inst.commit
        BY <2>9 DEF Drifted
      <4> QED
        BY <1>1, <2>1, <2>3, <4>1, <4>2 DEF BindsAtHand
    <3>5. Remarked(inst, inst)
      BY DEF Remarked
    <3>6. Word(print, next, seen', faults)
      BY <1>0, <1>1, <1>2, <2>1, <2>2, <2>7, <3>3, <3>4, <3>5, AtStepWord
    <3> QED
      BY <3>1, <3>6, TurnWord
  <2> QED
    BY <2>8, <2>9
<1> QED
  BY <1>1, <1>3, <1>4 DEF EndStep

LEMMA AuditStepWord ==
    ASSUME RunbookAssumption, LoneIInv, NEW p \in Commands, AuditStep(p)
    PROVE  Word(print', cmd'[p], seen', faults')
<1>0. cmd[p].pc = "ended" /\ AtStep(cmd[p]) /\ Applying(cmd[p]) /\ UNCHANGED print
  BY DEF AuditStep, At, AtStep, Applying
<1>1. PICK inst \in Prints : inst = cmd[p].inst
  BY <1>0, LoneAtWork
<1>2. /\ Word(print, cmd[p], seen, faults) /\ Binds(inst, seen) /\ Binds(print, seen)
      /\ print # NoPrint /\ cmd[p] \in Copies /\ seen \in Histories
      /\ BindsAtHand(cmd[p], seen)
      /\ print.commit = inst.commit /\ print.started = inst.started
      /\ ~Finished(print)
      /\ \A t \in StepIds : print.steps[t].status = "completed" => inst.steps[t].status = "completed"
  BY <1>0, <1>1, LoneAtWork DEF Word, Mirrors
<1>3. PICK next : /\ next.pc = "audited" /\ next.inst = inst /\ Turn(p, next)
                  /\ faults' \in {faults, faults + 1}
                  /\ UNCHANGED seen \/ seen' = [seen EXCEPT !.audited = @ \cup {Current(inst)}]
  <2>1. CASE /\ Turn(p, Goto(p, "audited")) /\ UNCHANGED faults
             /\ seen' = [seen EXCEPT !.audited = @ \cup {Current(inst)}]
    <3>1. Goto(p, "audited").pc = "audited" /\ Goto(p, "audited").inst = inst
      BY <1>1, <1>2 DEF Goto, Copies
    <3> QED
      BY <2>1, <3>1
  <2>2. CASE /\ faults' = faults + 1 /\ UNCHANGED seen
             /\ Turn(p, [Goto(p, "audited") EXCEPT !.outcome = "fail"])
    <3> DEFINE failed == [Goto(p, "audited") EXCEPT !.outcome = "fail"]
    <3>1. failed.pc = "audited" /\ failed.inst = inst
      BY <1>1, <1>2 DEF Goto, Copies
    <3> QED
      BY <2>2, <3>1
  <2> QED
    BY <1>1, <2>1, <2>2 DEF AuditStep
<1>4. seen'.runs = seen.runs /\ seen'.endedAt = seen.endedAt /\ seen'.drift = seen.drift
  BY <1>2, <1>3 DEF Histories
<1>5. Binds(inst, seen') /\ Binds(print, seen')
  BY <1>2, <1>4 DEF Binds
<1>6. AtStep(next) /\ BindsAtHand(next, seen')
  BY <1>0, <1>1, <1>2, <1>3, <1>4 DEF AtStep, BindsAtHand
<1>7. Remarked(inst, inst)
  BY DEF Remarked
<1>8. Word(print, next, seen', faults')
  BY <1>0, <1>1, <1>2, <1>3, <1>4, <1>5, <1>6, <1>7, AtStepWord
<1> QED
  BY <1>0, <1>3, <1>8, TurnWord

LEMMA RecordWord ==
    ASSUME RunbookAssumption, LoneIInv, NEW p \in Commands, Record(p)
    PROVE  Word(print', cmd'[p], seen', faults')
<1>0. cmd[p].pc = "audited" /\ AtStep(cmd[p]) /\ Applying(cmd[p]) /\ UNCHANGED seen
  BY DEF Record, At, AtStep, Applying
<1>1. PICK inst \in Prints, s \in StepIds :
          inst = cmd[p].inst /\ s = Current(cmd[p].inst) /\ ~StepOver(inst, s)
  BY <1>0, LoneFacts, LoneAtWork, AtWork, CurrentIsAStep
<1>2. /\ Word(print, cmd[p], seen, faults) /\ Binds(inst, seen) /\ Binds(print, seen)
      /\ print # NoPrint /\ BindsAtHand(cmd[p], seen)
      /\ \A t \in StepIds : seen.runs[t] \in Nat /\ seen.runs[t] <= 1 + faults
      /\ print.commit = inst.commit /\ print.started = inst.started
      /\ ~Finished(print) /\ ~Finished(inst) /\ Counted(inst, {s}, seen, faults)
      /\ \A t \in StepIds : print.steps[t].status = "completed" => inst.steps[t].status = "completed"
  BY <1>0, <1>1, LoneAtWork DEF Word, Mirrors, AtHand
<1>3. CASE Save(p, [WithStep(inst, s, "failed") EXCEPT !.status = "failed"], Idle)
  <2> DEFINE marked == WithStep(inst, s, "failed")
             failed == [marked EXCEPT !.status = "failed"]
  <2>1. Marked(marked, inst, s, "failed")
    BY StepMarked
  <2>2. Save(p, failed, Idle)
    BY <1>3
  <2> HIDE DEF marked
  <2>3. failed \in Prints /\ Remarked(failed, marked) /\ failed.status = "failed"
    BY <2>1, FailedRemarks DEF Marked
  <2>4. Binds(marked, seen)
    BY <1>2, <2>1 DEF Binds, Marked
  <2> HIDE DEF failed
  <2>5. Binds(failed, seen) /\ Finished(failed) /\ failed # NoPrint
    BY <2>3, <2>4, RemarkedBinds, PrintFields DEF Finished
  <2>6. Word(failed, Idle, seen, faults)
    BY <1>2, <2>5, EndWord
  <2>7. Binds(print', seen')
    BY <1>0, <1>2, <2>2, <2>5 DEF Save
  <2> QED
    BY <1>0, <1>2, <2>2, <2>3, <2>6, <2>7, SaveWord DEF AtStep
<1>4. ASSUME NEW status \in {"completed", "skipped"}, NEW outputs, UNCHANGED <<print, faults>>,
             Turn(p, [pc |-> "next", inst |-> WithStep(inst, s, status), outputs |-> outputs,
                      outcome |-> "ok"])
      PROVE  Word(print', cmd'[p], seen', faults')
  <2> DEFINE marked == WithStep(inst, s, status)
             next == [pc |-> "next", inst |-> marked, outputs |-> outputs, outcome |-> "ok"]
  <2>1. Marked(marked, inst, s, status)
    BY StepMarked
  <2>2. Turn(p, next) /\ next.pc = "next" /\ next.inst = marked
    BY <1>4
  <2> HIDE DEF marked, next
  <2>3. Step[s].runs => /\ inst.dryRun \/ inst.started # "no"
                        /\ inst.commit # "" => seen.endedAt[s] = inst.commit
    BY <1>0, <1>1, <1>2 DEF BindsAtHand
  <2>4. Binds(marked, seen)
    BY <1>2, <2>1, <2>3 DEF Binds, Marked
  <2>5. Applying(next) /\ ~AtStep(next) /\ AtHand(next) = {} /\ next.pc # "idle"
    BY <2>2 DEF Applying, AtStep, AtHand
  <2>6. StepOver(marked, s) /\ \A t \in StepIds \ {s} : StepOver(marked, t) = StepOver(inst, t)
    BY <2>1 DEF Marked, StepOver
  <2>7. Counted(marked, {}, seen, faults)
    BY <1>2, <2>6 DEF Counted
  <2>8. ~Finished(marked)
    BY <1>2, <2>1 DEF Finished, Marked
  <2>9. \A t \in StepIds : print.steps[t].status = "completed" => marked.steps[t].status = "completed"
    BY <1>1, <1>2, <2>1 DEF Marked, StepOver
  <2>10. Mirrors(next, print)
    BY <1>2, <2>1, <2>2, <2>5, <2>8, <2>9 DEF Mirrors, Marked
  <2>11. Word(print, next, seen, faults)
    BY <1>2, <2>2, <2>4, <2>5, <2>7, <2>10 DEF Word, BindsAtHand
  <2> QED
    BY <1>0, <1>4, <2>2, <2>11, TurnWord
<1>5. (IF cmd[p].outcome = "ok" THEN "completed" ELSE "skipped") \in {"completed", "skipped"}
  OBVIOUS
<1> QED
  BY <1>1, <1>3, <1>4, <1>5 DEF Record

LEMMA MarksWord ==
    ASSUME RunbookAssumption, LoneIInv, NEW p \in Commands, Complete(p) \/ Deny(p) \/ Cancel(p)
    PROVE  Word(print', cmd'[p], seen', faults')
<1>1. cmd[p].pc # "idle" /\ UNCHANGED seen
  BY DEF Complete, Deny, Cancel, At
<1>2. PICK status \in {"completed", "waiting_approval", "cancelled"} :
          /\ Save(p, [cmd[p].inst EXCEPT !.status = status], Idle)
          /\ status = "waiting_approval" => cmd[p].pc = "sign" /\ ~Finished(cmd[p].inst)
  BY DEF Complete, Deny, Cancel, At
<1> DEFINE new == [cmd[p].inst EXCEPT !.status = status]
<1>3. new \in Prints /\ new.status = status /\ Remarked(new, cmd[p].inst)
  <2>1. PICK inst \in Prints : inst = cmd[p].inst
    BY <1>1, LoneAtWork
  <2>2. status \in {"running", "waiting_approval", "completed", "failed", "cancelled"}
    OBVIOUS
  <2> QED
    BY <2>1, <2>2, FailedRemarks
<1>4. Finished(new) \/ (~Applying(cmd[p]) /\ ~Finished(cmd[p].inst))
  <2> HIDE DEF new
  <2> QED
    BY <1>2, <1>3 DEF Finished, Applying, AtStep
<1>5. Save(p, new, Idle)
  BY <1>2
<1> HIDE DEF new
<1> QED
  BY <1>1, <1>3, <1>4, <1>5, RemarkWord

LEMMA StepCompleteWord ==
    ASSUME RunbookAssumption, LoneIInv, NEW p \in Commands, NEW s \in StepIds, StepComplete(p, s)
    PROVE  Word(print', cmd'[p], seen', faults')
<1>0. cmd[p].pc = "sign" /\ ~Applying(cmd[p])
  BY DEF StepComplete, At, Applying, AtStep
<1>1. CASE Turn(p, Idle) /\ UNCHANGED <<print, faults, seen>>
  BY <1>0, <1>1, LeaveWord
<1>2. CASE /\ ~Finished(cmd[p].inst) /\ Save(p, Signed(cmd[p].inst, s), Idle)
           /\ seen' = [seen EXCEPT !.authorised = @ \cup {s}]
  <2> DEFINE inst == cmd[p].inst
             signed == Signed(inst, s)
  <2>1. /\ inst \in Prints /\ print = inst /\ Binds(inst, seen) /\ seen \in Histories
        /\ Word(print, cmd[p], seen, faults) /\ inst # NoPrint
        /\ \A t \in StepIds : seen.runs[t] \in Nat /\ seen.runs[t] <= 1 + faults
    BY <1>0, LoneAtWork
  <2>2. seen'.runs = seen.runs /\ seen'.endedAt = seen.endedAt /\ seen'.drift = seen.drift
    BY <1>2, <2>1 DEF Histories
  <2>3. /\ signed \in Prints /\ signed.dryRun = inst.dryRun /\ signed.commit = inst.commit
        /\ signed.started = inst.started
        /\ signed.steps[s].status = "completed" => inst.steps[s].status = "completed"
        /\ StepOver(inst, s) => signed.steps[s].status = inst.steps[s].status
        /\ \A t \in StepIds \ {s} : signed.steps[t] = inst.steps[t]
    BY <2>1, SignedFields
  <2>4. Save(p, signed, Idle) /\ ~Finished(inst)
    BY <1>2
  <2> HIDE DEF signed, inst
  <2>5. Binds(inst, seen') /\ Binds(signed, seen')
    BY <2>1, <2>2, <2>3 DEF Binds
  <2>6. Counted(inst, {}, seen', faults)
    BY <1>0, <2>1, <2>2, <2>4 DEF Word, Counted
  <2>7. Counted(signed, {}, seen', faults)
    BY <2>3, <2>6 DEF Counted, StepOver
  <2>8. signed # NoPrint /\ \A t \in StepIds : seen'.runs[t] \in Nat /\ seen'.runs[t] <= 1 + faults
    BY <2>1, <2>2, <2>3, PrintFields
  <2>9. Word(signed, Idle, seen', faults)
    BY <2>5, <2>7, <2>8, EndWord
  <2>10. Binds(print', seen')
    BY <2>1, <2>4, <2>5 DEF Save
  <2> QED
    BY <1>0, <2>3, <2>4, <2>8, <2>9, <2>10, SaveWord
<1> QED
  BY <1>1, <1>2 DEF StepComplete

LEMMA RequireWord ==
    ASSUME RunbookAssumption, LoneIInv, NEW p \in Commands, NEW named \in BOOLEAN,
           RequireExecuted(p, named)
    PROVE  Word(print', cmd'[p], seen', faults')
<1> DEFINE inst == cmd[p].inst
           void == [inst EXCEPT !.commit = ""]
<1>0. cmd[p].pc = "require" /\ ~Applying(cmd[p])
  BY DEF RequireExecuted, At, Applying, AtStep
<1>1. CASE Turn(p, Idle) /\ UNCHANGED <<print, faults, seen>>
  BY <1>0, <1>1, LeaveWord
<1>2. CASE /\ inst.status = "completed"
           /\ Save(p, void, Idle) /\ seen' = [seen EXCEPT !.drift = ObserveDrift(p)]
  <2>1. /\ inst \in Prints /\ seen \in Histories
        /\ \A t \in StepIds : seen.runs[t] \in Nat /\ seen.runs[t] <= 1 + faults
    BY <1>0, LoneAtWork
  <2>2. seen'.runs = seen.runs /\ seen'.endedAt = seen.endedAt /\ seen'.drift = ObserveDrift(p)
    BY <1>2, <2>1 DEF Histories
  <2>3. print' \in {print, void}
    BY <1>2 DEF Save
  <2>4. Binds(print', seen') /\ Binds(void, seen')
    BY <1>0, <2>2, <2>3, DriftIsVoid
  <2>5. void \in Prints /\ Finished(void)
    BY <1>2, <2>1 DEF Prints, Finished
  <2>6. Save(p, void, Idle)
    BY <1>2
  <2> HIDE DEF void
  <2>7. Word(void, Idle, seen', faults)
    BY <2>1, <2>2, <2>4, <2>5, PrintFields, EndWord
  <2> QED
    BY <1>0, <2>1, <2>2, <2>4, <2>5, <2>6, <2>7, SaveWord
<1> QED
  BY <1>1, <1>2 DEF RequireExecuted, RanForReal

LEMMA InitWord ==
    ASSUME RunbookAssumption, Init, NEW p \in Commands
    PROVE  Word(print, cmd[p], seen, faults)
<1>1. /\ cmd[p] = Idle /\ Idle.pc = "idle" /\ faults = 0 /\ ~seen.drift
      /\ \A s \in StepIds : seen.runs[s] = 0
  BY DEF Init, Idle
<1>2. ASSUME print # NoPrint PROVE Binds(print, seen)
  <2>1. print = LegacyPrint
    BY <1>2 DEF Init
  <2>2. LegacyPrint.commit = "" /\ \A s \in StepIds : LegacyPrint.steps[s].status = "pending"
    BY DEF LegacyPrint, StartPrint, Undone
  <2> QED
    BY <1>1, <2>1, <2>2 DEF Binds
<1>3. \A s \in StepIds : seen.runs[s] <= 1 + faults /\ seen.runs[s] <= faults
  BY <1>1
<1> HIDE DEF Init
<1> QED
  BY <1>1, <1>2, <1>3 DEF Word, Mirrors, Applying, AtStep, Counted

\* What a step of the one command, or of what surrounds it, leaves.
LEMMA NextWord ==
    ASSUME RunbookAssumption, NEW p, Commands = {p}, LoneIInv, [Next]_runbookVars
    PROVE  Word(print', cmd'[p], seen', faults')
<1>0. p \in Commands
  OBVIOUS
<1>1. ASSUME NEW dry \in BOOLEAN, Start(dry) PROVE Word(print', cmd'[p], seen', faults')
  BY <1>0, <1>1, StartWord
<1>2. ASSUME NEW what \in {"apply", "sign", "cancel", "require"}, Load(p, what)
      PROVE  Word(print', cmd'[p], seen', faults')
  BY <1>0, <1>2, LoadWord
<1>3. ASSUME Apply(p) PROVE Word(print', cmd'[p], seen', faults')
  BY <1>0, <1>3, ApplyObserveWord, ApplyOpenWord, PauseWord, RunStepWord, EndStepWord,
     AuditStepWord, RecordWord, MarksWord DEF Apply
<1>4. ASSUME NEW s \in StepIds, StepComplete(p, s) PROVE Word(print', cmd'[p], seen', faults')
  BY <1>0, <1>4, StepCompleteWord
<1>5. ASSUME Deny(p) \/ Cancel(p) PROVE Word(print', cmd'[p], seen', faults')
  BY <1>0, <1>5, MarksWord
<1>6. ASSUME NEW named \in BOOLEAN, RequireExecuted(p, named)
      PROVE  Word(print', cmd'[p], seen', faults')
  BY <1>0, <1>6, RequireWord
<1>7. ASSUME Kill(p) PROVE Word(print', cmd'[p], seen', faults')
  BY <1>0, <1>7, KillWord
<1>8. CASE Refused \/ UNCHANGED runbookVars \/ ChangeTree \/ ChangeCore
  <2>1. UNCHANGED <<print, cmd, seen, faults>>
    BY <1>8 DEF Refused, runbookVars, ChangeTree, ChangeCore
  <2> QED
    BY <1>0, <2>1, LoneFacts
<1> QED
  BY <1>1, <1>2, <1>3, <1>4, <1>5, <1>6, <1>7, <1>8 DEF Next

LEMMA LoneNextKeeps ==
    ASSUME RunbookAssumption, NEW p, Commands = {p}, LoneIInv, [Next]_runbookVars
    PROVE  LoneIInv'
<1>1. IInv'
  BY NextKeeps DEF LoneIInv
<1>2. Word(print', cmd'[p], seen', faults')
  BY NextWord
<1> QED
  BY <1>1, <1>2 DEF LoneIInv

LEMMA LoneInvariance ==
    ASSUME RunbookAssumption, NEW p, Commands = {p}
    PROVE  Spec => []LoneIInv
<1>1. Init => LoneIInv
  BY InitIInv, InitWord DEF LoneIInv
<1>2. LoneIInv /\ [Next]_runbookVars => LoneIInv'
  BY LoneNextKeeps
<1> QED
  BY <1>1, <1>2, PTL DEF Spec

\* What a receipt names, and that a drift voids it.
LEMMA WordBinds ==
    ASSUME LoneIInv, NEW p, Commands = {p}
    PROVE  ReceiptBindsCommit /\ ObservedDriftVoids /\ RunsOnlyOnce
<1>1. Word(print, cmd[p], seen, faults)
  BY DEF LoneIInv
<1>2. ASSUME Accepts(print)
      PROVE  ~seen.drift /\ \A s \in StepIds : seen.endedAt[s] = print.commit
  <2>1. /\ print # NoPrint /\ print.commit # ""
        /\ \A s \in StepIds : Step[s].runs /\ print.steps[s].status = "completed"
    BY <1>2 DEF Accepts, StepsExecuted
  <2> QED
    BY <1>1, <2>1 DEF Word, Binds
<1> QED
  BY <1>1, <1>2 DEF ReceiptBindsCommit, ObservedDriftVoids, RunsOnlyOnce, Word

\* A command that finds the print over leaves it, and one that is at its steps
\* holds one that is not.
LEMMA OverStaysOver ==
    ASSUME RunbookAssumption, NEW p, Commands = {p}, LoneIInv, [Next]_runbookVars
    PROVE  StaysFinished
<1> SUFFICES ASSUME print # NoPrint, Finished(print)
             PROVE  print'.status \in {print.status, "cancelled"}
  BY DEF StaysFinished
<1>0. p \in Commands
  OBVIOUS
<1>1. cmd[p].pc # "idle" => /\ ~Applying(cmd[p]) /\ print = cmd[p].inst
                            /\ Finished(cmd[p].inst) /\ cmd[p].inst \in Prints
  <2>1. Word(print, cmd[p], seen, faults)
    BY <1>0, LoneFacts
  <2> QED
    BY <1>0, <2>1, LoneAtWork DEF Word, Mirrors
<1> DEFINE void == [cmd[p].inst EXCEPT !.commit = ""]
<1>2. cmd[p].pc # "idle" => void.status = print.status
  BY <1>1 DEF Prints
<1>3. ASSUME ApplyObserve(p) \/ \E named \in BOOLEAN : RequireExecuted(p, named)
      PROVE  print' = print \/ print' = void
  BY <1>3 DEF ApplyObserve, RequireExecuted, InvalidateProvenance, Save
<1>4. ASSUME ApplyObserve(p) \/ \E named \in BOOLEAN : RequireExecuted(p, named)
      PROVE  print'.status = print.status
  <2>1. cmd[p].pc # "idle"
    BY <1>4 DEF ApplyObserve, RequireExecuted, At
  <2> HIDE DEF void
  <2> QED
    BY <1>2, <1>3, <1>4, <2>1
<1>5. ASSUME ApplyOpen(p) PROVE UNCHANGED print
  BY <1>1, <1>5 DEF ApplyOpen, At
<1>6. ASSUME \/ Pause(p) \/ RunStep(p) \/ EndStep(p) \/ AuditStep(p) \/ Record(p) \/ Complete(p)
      PROVE  FALSE
  <2>1. Applying(cmd[p]) /\ cmd[p].pc # "idle"
    BY <1>6 DEF Pause, RunStep, EndStep, AuditStep, Record, Complete, At, Applying, AtStep
  <2> QED
    BY <1>1, <2>1
<1>7. ASSUME Deny(p) PROVE FALSE
  BY <1>1, <1>7 DEF Deny, At
<1>8. ASSUME NEW s \in StepIds, StepComplete(p, s) PROVE UNCHANGED print
  BY <1>1, <1>8 DEF StepComplete, At
<1>9. ASSUME Cancel(p) PROVE print'.status \in {print.status, "cancelled"}
  <2> DEFINE new == [cmd[p].inst EXCEPT !.status = "cancelled"]
  <2>1. print' = print \/ print' = new
    BY <1>9 DEF Cancel, Save
  <2>2. new.status = "cancelled"
    BY <1>1, <1>9 DEF Cancel, At, Prints
  <2> HIDE DEF new
  <2> QED
    BY <2>1, <2>2
<1>10. ASSUME \/ \E dry \in BOOLEAN : Start(dry)
              \/ \E what \in {"apply", "sign", "cancel", "require"} : Load(p, what)
              \/ Kill(p) \/ Refused \/ ChangeTree \/ ChangeCore \/ UNCHANGED runbookVars
       PROVE  UNCHANGED print
  BY <1>10 DEF Start, Load, Kill, Refused, ChangeTree, ChangeCore, runbookVars
<1> QED
  BY <1>4, <1>5, <1>6, <1>7, <1>8, <1>9, <1>10 DEF Next, Apply

\* Of commands that come one after the other, however they are killed and their
\* saves fail: the commit a receipt names is the one the worktree was at, clean,
\* when each step ended, no drift that a command saw ever leaves a receipt, and
\* a step runs again only for a fault (internal/runbook/provenance.go).
THEOREM ReceiptsBind ==
    ASSUME RunbookAssumption, NEW p, Commands = {p}
    PROVE  Spec => [](ReceiptBindsCommit /\ ObservedDriftVoids /\ RunsOnlyOnce)
<1>1. LoneIInv => ReceiptBindsCommit /\ ObservedDriftVoids /\ RunsOnlyOnce
  BY WordBinds
<1> QED
  BY <1>1, LoneInvariance, PTL

\* And what is over stays over, but for a cancellation; with commands that overlap
\* it does not (internal/runbook/engine.go).
THEOREM FinishedForGood ==
    ASSUME RunbookAssumption, NEW p, Commands = {p}
    PROVE  Spec => FinishedStaysFinished
<1>1. LoneIInv /\ [Next]_runbookVars => [StaysFinished]_runbookVars
  BY OverStaysOver
<1> QED
  BY <1>1, LoneInvariance, PTL DEF Spec, FinishedStaysFinished
=============================================================================
